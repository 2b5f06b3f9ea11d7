------------------------ MODULE MCImageVerification ------------------------
(* Two releases of one image, each for two engines, and what a registry may  *)
(* hold of them.                                                             *)
EXTENDS ImageVerification, TLC

CONSTANTS
  image, platform, config,       \* the release 2.1.0 for `inspect`
  other, otherConfig,            \* the same release for `universal`, one platform
  attachment, signature,         \* the bundle of the first, and where it hangs
  sbom, otherSignature,          \* another artifact; the bundle of the second
  inspect, universal, commit, otherCommit

Doc(kind, nextDoc) ==
  [kind |-> kind, next |-> nextDoc, engine |-> NoEngine, form |-> "message",
   genuine |-> FALSE, version |-> <<>>, commit |-> commit, subjects |-> {}]
Bundle(version, by, subjects) ==
  [Doc("bundle", NoDigest) EXCEPT !.form = "dsse", !.genuine = TRUE,
     !.version = version, !.commit = by, !.subjects = subjects]

MCDigest == {image, platform, config, other, otherConfig, attachment, signature, sbom, otherSignature}
MCDocument ==
  (image :> Doc("index", platform)) @@ (platform :> Doc("manifest", config))
  @@ (config :> [Doc("config", NoDigest) EXCEPT !.engine = inspect])
  @@ (other :> Doc("manifest", otherConfig))
  @@ (otherConfig :> [Doc("config", NoDigest) EXCEPT !.engine = universal])
  @@ (attachment :> Doc("attachment", signature))
  @@ (signature :> Bundle(<<2, 1, 0>>, commit, {image}))
  @@ (sbom :> Doc("manifest", otherConfig))
  @@ (otherSignature :> Bundle(<<2, 10, 0>>, otherCommit, {other, image}))

\* A signature of another kind, a forged one, a config that claims an engine,
\* and an attachment that cannot be followed.
MCLies ==
  {[Bundle(<<2, 1, 0>>, commit, {other}) EXCEPT !.form = "message"],
   [Bundle(<<2, 1, 0>>, commit, MCDigest) EXCEPT !.genuine = FALSE],
   [Doc("config", NoDigest) EXCEPT !.engine = inspect],
   Doc("attachment", BadDigest)}

Attached(list) == [i \in 1 .. Len(list) |-> [type |-> list[i][1], digest |-> list[i][2]]]
Registry(t, list) ==
  [tag |-> t, api |-> TRUE, private |-> FALSE, scheme |-> "index", layer |-> NoDigest,
   attached |-> Attached(list)]
MCRegistries ==
  {[Registry(image, l) EXCEPT !.api = api, !.scheme = s] :
     api \in BOOLEAN, s \in {"none", "index"},
     l \in {<<<<"bundle", attachment>>>>,
            <<<<"empty", BadDigest>>, <<"index", image>>, <<"empty", sbom>>, <<"empty", attachment>>>>}}
  \cup {Registry(other, <<<<"bundle", attachment>>>>), Registry(NoDigest, <<>>),
        [Registry(image, <<>>) EXCEPT !.private = TRUE],
        [Registry(image, <<>>) EXCEPT !.api = FALSE, !.scheme = "legacy", !.layer = signature]}

MCRefs ==
  {[kind |-> "commit", commit |-> commit], [kind |-> "tag", version |-> <<2, 1>>],
   [kind |-> "tag", version |-> <<2, 10, 0>>], [kind |-> "branch"]}
=============================================================================
