------------------------- MODULE ImageVerification -------------------------
(***************************************************************************)
(* The verification of the builder's image, request by request, against a  *)
(* registry that may answer anything: what it holds, an error, or another  *)
(* document.  A document is named by its digest, so what is read through a *)
(* verified digest is that document or an error, and what is read without  *)
(* one may be any.  A Sigstore bundle is a document too; whether one is    *)
(* genuine, and by whom, is the signer's doing and not the registry's.     *)
(***************************************************************************)
EXTENDS Naturals, Sequences, FiniteSets

CONSTANTS
  Digest, NoDigest, BadDigest,   \* names of documents; none; not one
  Document,                      \* the document each digest names
  Engine, NoEngine,              \* the proxy engines; no usable version label
  Registries,                    \* what an honest registry may hold
  Refs,                          \* what the action may be pinned to
  Lies,                          \* documents a registry may make up
  Faults,                        \* how an answer may fail
  MaxTrouble                     \* bound: kinds of failure in one verification

Reference == Digest \cup {NoDigest, BadDigest}

\* Versions are the parts between the dots, so that a ref covers a version
\* exactly where it is a prefix of it.
Covers(ref, version) ==
  Len(ref) <= Len(version) /\ SubSeq(version, 1, Len(ref)) = ref

DocumentShape ==
  /\ DOMAIN Document = Digest
  /\ \A d \in Lies \cup {Document[x] : x \in Digest} :
       /\ d.kind \in {"index", "manifest", "config", "attachment", "bundle"}
       /\ d.next \in Reference /\ d.engine \in Engine \cup {NoEngine}
       /\ d.subjects \subseteq Digest

\* A descriptor lists an attachment: the type it shows, which is "empty" where
\* it fell back to the config's, and the manifest it names.
Descriptor == [type : {"bundle", "empty", "index"}, digest : Reference]

ASSUME VerificationAssumption ==
  /\ NoDigest \notin Digest /\ BadDigest \notin Digest /\ NoDigest # BadDigest
  /\ NoEngine \notin Engine
  /\ DocumentShape
  /\ \A r \in Registries :
       /\ r.tag \in Reference /\ r.api \in BOOLEAN /\ r.private \in BOOLEAN
       /\ r.attached \in Seq(Descriptor) /\ r.scheme \in {"none", "index", "legacy"}
       /\ r.layer \in Reference
  /\ \A r \in Refs : r.kind \in {"commit", "tag", "branch"}
  /\ Faults \subseteq {"network", "error", "denied", "absent", "refused", "lie", "stale", "expiry"}
  /\ MaxTrouble \in Nat

VARIABLES
  ref, engine, registry,
  pc,
  token,    \* is there a token the registry still takes?
  digest,   \* the digest the tag named
  pending,  \* descriptors of the fallback index still to look at
  next,     \* the digest to read next
  bundle,   \* the bundle read
  label,    \* the engine the config's version label names
  code,     \* the error's code, "ok" once verified
  trouble   \* history: the ways in which the registry was not what it holds

given == <<ref, engine, registry>>
vars == <<ref, engine, registry, pc, token, digest, pending, next, bundle, label, code, trouble>>

Nothing == [kind |-> "none"]

Init ==
  /\ ref \in Refs /\ engine \in Engine /\ registry \in Registries
  /\ pc = "plan" /\ token = FALSE /\ digest = NoDigest /\ pending = <<>>
  /\ next = NoDigest /\ bundle = Nothing /\ label = NoEngine /\ code = "none" /\ trouble = {}

Fail(c) == pc' = "failed" /\ code' = c
Goto(p) == pc' = p /\ UNCHANGED code

\* One request: its status and body, what the registry holds unless it fails
\* or makes something up.
Answers(status, body, made) ==
  {[status |-> IF token THEN status ELSE "denied", body |-> body, trouble |-> {}]}
  \cup {[status |-> f, body |-> body, trouble |-> {f}] : f \in Faults \ {"lie", "stale", "expiry"}}
  \cup (IF "lie" \in Faults
          THEN {[status |-> "ok", body |-> b, trouble |-> {"lie"}] : b \in made} ELSE {})

Remember(a) ==
  /\ trouble' = trouble \cup a.trouble
  /\ Cardinality(trouble') <= MaxTrouble

\* The status ladder every call shares.
Ladder(status, onFailure) ==
  IF status \in {"network", "error", "denied"} THEN "TRANSIENT" ELSE onFailure

\* Mutation: what is not there may be there later.
ReadCodeRetries(status, absentOn404, onFailure) == Ladder(status, "TRANSIENT")

\* What a document's read makes of a response that is not ok.
ReadCode(status, absentOn404, onFailure) ==
  IF status = "absent" /\ absentOn404 THEN "NOT_FOUND" ELSE Ladder(status, onFailure)

\* A lie can hold any document in the place of the one asked for.
Bodies == Lies \cup {Document[d] : d \in Digest}
Held(d) == IF d \in Digest THEN Document[d] ELSE Nothing

-----------------------------------------------------------------------------
Plan ==
  /\ pc = "plan"
  /\ IF ref.kind = "branch" THEN Fail("UNVERIFIABLE_REF") ELSE Goto("token")
  /\ UNCHANGED <<given, token, digest, pending, next, bundle, label, trouble>>

\* With credentials at hand there is no anonymous attempt.
FetchToken ==
  /\ pc = "token"
  /\ \/ \E f \in Faults \cap {"network", "error"} :
          Fail("TRANSIENT") /\ UNCHANGED token /\ trouble' = trouble \cup {f}
     \/ \E f \in Faults \cap {"stale", "denied"} :
          Fail("TOKEN_ERROR") /\ UNCHANGED token /\ trouble' = trouble \cup {f}
     \/ registry.private /\ Fail("TOKEN_ERROR") /\ UNCHANGED <<token, trouble>>
     \/ ~registry.private /\ Goto("tag") /\ token' = TRUE /\ UNCHANGED trouble
  /\ UNCHANGED <<given, digest, pending, next, bundle, label>>

\* The tag's digest is a header of the answer.  A tag there is none of is a
\* 404; an ok answer without the header is one to ask for again.
FetchDigest ==
  /\ pc = "tag"
  /\ \E a \in Answers(IF registry.tag = NoDigest THEN "absent" ELSE "ok", registry.tag,
                      Reference) :
       /\ Remember(a)
       /\ IF a.status # "ok"
            THEN Fail(ReadCode(a.status, TRUE, "TRANSIENT")) /\ UNCHANGED digest
          ELSE IF a.body = NoDigest THEN Fail("TRANSIENT") /\ UNCHANGED digest
          ELSE IF a.body = BadDigest THEN Fail("VERIFY_FAILED") /\ UNCHANGED digest
          ELSE digest' = a.body /\ Goto("referrers")
  /\ UNCHANGED <<given, token, pending, next, bundle, label>>

\* The first index of a descriptor with the bundle's own type, or 0.
FirstBundle(s) ==
  IF \E i \in DOMAIN s : s[i].type = "bundle"
    THEN CHOOSE i \in DOMAIN s : s[i].type = "bundle" /\ \A j \in 1 .. i - 1 : s[j].type # "bundle"
    ELSE 0

\* The Referrers API first.  Anything but a server error sends it on to the
\* other scheme.
AskReferrers ==
  /\ pc = "referrers"
  /\ \E a \in Answers(IF registry.api THEN "ok" ELSE "absent", registry.attached,
                      {<<[type |-> "bundle", digest |-> d]>> : d \in Reference}) :
       LET i == FirstBundle(a.body) IN
       /\ Remember(a)
       /\ IF a.status \in {"network", "error"} THEN Fail("TRANSIENT") /\ UNCHANGED next
          ELSE IF a.status # "ok" \/ i = 0 THEN Goto("fallback") /\ UNCHANGED next
          ELSE IF a.body[i].digest \notin Digest THEN Fail("VERIFY_FAILED") /\ UNCHANGED next
          ELSE Goto("attachment") /\ next' = a.body[i].digest
  /\ UNCHANGED <<given, token, digest, pending, bundle, label>>

\* Mutation: a layer's digest goes into the request as it is.
ReadLayerAnything(d) == Goto("bundle") /\ next' = d

\* The layer that holds the bundle, as a manifest names it.
ReadLayer(d) ==
  IF d = NoDigest THEN Fail("NOT_FOUND") /\ UNCHANGED next
  ELSE IF d = BadDigest THEN Fail("VERIFY_FAILED") /\ UNCHANGED next
  ELSE Goto("bundle") /\ next' = d

\* The manifest a descriptor named, and in it the bundle's layer.
ReadAttachment ==
  /\ pc = "attachment"
  /\ \E a \in Answers("ok", Held(next), Bodies) :
       /\ Remember(a)
       /\ IF a.status # "ok"
            THEN Fail(ReadCode(a.status, FALSE, "TRANSIENT")) /\ UNCHANGED next
          ELSE ReadLayer(a.body.next)
  /\ UNCHANGED <<given, token, digest, pending, bundle, label>>

\* The tag `sha256-<hex>`: an index of attachments, or a manifest that holds
\* the bundle itself.
AskFallback ==
  /\ pc = "fallback"
  /\ \E a \in Answers(IF registry.scheme = "none" THEN "absent" ELSE "ok", registry.attached,
                      {<<[type |-> "empty", digest |-> d]>> : d \in Reference}) :
       /\ Remember(a)
       /\ IF a.status # "ok"
            THEN Fail(ReadCode(a.status, TRUE, "NOT_FOUND")) /\ UNCHANGED <<pending, next>>
          ELSE IF registry.scheme = "index" \/ a.trouble # {}
            THEN pending' = a.body /\ Goto("each") /\ UNCHANGED next
            ELSE ReadLayer(registry.layer) /\ UNCHANGED pending
  /\ UNCHANGED <<given, token, digest, bundle, label>>

\* Mutation: a referrer that cannot be addressed ends the search.
NextReferrerStops ==
  /\ pc = "each"
  /\ IF pending = <<>> \/ Head(pending).digest \notin Digest
       THEN Fail("NOT_FOUND") /\ UNCHANGED <<pending, next>>
       ELSE /\ pending' = Tail(pending) /\ next' = Head(pending).digest
            /\ Goto(IF Head(pending).type = "bundle" THEN "attachment" ELSE "sub")
  /\ UNCHANGED <<given, token, digest, bundle, label, trouble>>

\* Other artifacts share the index: one that cannot be addressed is skipped.
NextReferrer ==
  /\ pc = "each"
  /\ IF pending = <<>> THEN Fail("NOT_FOUND") /\ UNCHANGED <<pending, next>>
     ELSE LET d == Head(pending) IN
       /\ pending' = Tail(pending) /\ UNCHANGED code
       /\ IF d.digest \notin Digest \/ d.type = "index"
            THEN UNCHANGED <<pc, next>>
            ELSE /\ next' = d.digest
                 /\ pc' = IF d.type = "bundle" THEN "attachment" ELSE "sub"
  /\ UNCHANGED <<given, token, digest, bundle, label, trouble>>

\* Mutation: one attachment that is no bundle starts the search again.
ReadSubAgain ==
  /\ pc = "sub"
  /\ \E a \in Answers("ok", Held(next), Bodies) :
       /\ Remember(a)
       /\ IF a.status = "ok" /\ a.body.kind = "attachment" /\ a.body.next \in Digest
            THEN Goto("bundle") /\ next' = a.body.next
            ELSE Goto("fallback") /\ UNCHANGED next
  /\ UNCHANGED <<given, token, digest, pending, bundle, label>>

\* A descriptor of the empty type says nothing of the artifact's own.
ReadSub ==
  /\ pc = "sub"
  /\ \E a \in Answers("ok", Held(next), Bodies) :
       /\ Remember(a)
       /\ IF a.status = "network" THEN Fail("TRANSIENT") /\ UNCHANGED next
          ELSE IF a.status # "ok" \/ a.body.kind # "attachment" \/ a.body.next = NoDigest
            THEN Goto("each") /\ UNCHANGED next
          ELSE ReadLayer(a.body.next)
  /\ UNCHANGED <<given, token, digest, pending, bundle, label>>

ReadBundle ==
  /\ pc = "bundle"
  /\ \E a \in Answers("ok", Held(next), Bodies) :
       /\ Remember(a)
       /\ IF a.status # "ok"
            THEN Fail(ReadCode(a.status, FALSE, "NOT_FOUND")) /\ UNCHANGED <<bundle, next>>
            ELSE bundle' = a.body /\ next' = digest /\ Goto("root")
  /\ UNCHANGED <<given, token, digest, pending, label>>

-----------------------------------------------------------------------------
(* The chain from the image's digest to its labels, each hop verified. *)

\* Mutation: a hop's bytes are taken as they come.
GenuineUnchecked(a) == a.status = "ok"

Genuine(a) == a.status = "ok" /\ a.body = Document[next]

\* What a hop ends with, "ok" where its document is the one asked for.
HopCode(a) ==
  IF a.status # "ok" THEN ReadCode(a.status, TRUE, "TRANSIENT")
  ELSE IF ~Genuine(a) THEN "VERIFY_FAILED"
  ELSE "ok"

Follow(d, to) ==
  IF d = NoDigest THEN Fail("NOT_FOUND") /\ UNCHANGED next
  ELSE IF d = BadDigest THEN Fail("VERIFY_FAILED") /\ UNCHANGED next
  ELSE next' = d /\ Goto(to)

\* A multi-arch image names the manifest of a platform; another its config.
ReadRoot ==
  /\ pc = "root"
  /\ \E a \in Answers("ok", Held(next), Bodies) :
       /\ Remember(a)
       /\ IF HopCode(a) # "ok" THEN Fail(HopCode(a)) /\ UNCHANGED next
          ELSE Follow(a.body.next, IF a.body.kind = "index" THEN "manifest" ELSE "config")
  /\ UNCHANGED <<given, token, digest, pending, bundle, label>>

ReadManifest ==
  /\ pc = "manifest"
  /\ \E a \in Answers("ok", Held(next), Bodies) :
       /\ Remember(a)
       /\ IF HopCode(a) # "ok" THEN Fail(HopCode(a)) /\ UNCHANGED next
          ELSE Follow(a.body.next, "config")
  /\ UNCHANGED <<given, token, digest, pending, bundle, label>>

ReadConfig ==
  /\ pc = "config"
  /\ \E a \in Answers("ok", Held(next), Bodies) :
       /\ Remember(a)
       /\ IF HopCode(a) # "ok" THEN Fail(HopCode(a)) /\ UNCHANGED label
          ELSE label' = a.body.engine /\ Goto("trust")
  /\ UNCHANGED <<given, token, digest, pending, next, bundle>>

-----------------------------------------------------------------------------
\* Refreshing the trusted root takes long enough for the token to expire.
FetchTrustedRoot ==
  /\ pc = "trust"
  /\ \/ \E f \in Faults \cap {"network", "error"} :
          Fail("VERIFY_FAILED") /\ UNCHANGED token /\ trouble' = trouble \cup {f}
     \/ Goto("verify") /\ token' \in {TRUE, "expiry" \notin Faults} /\ UNCHANGED trouble
  /\ UNCHANGED <<given, digest, pending, next, bundle, label>>

Identity(b) ==
  IF ref.kind = "commit" THEN b.commit = ref.commit ELSE Covers(ref.version, b.version)

Signed(b) ==
  /\ b.kind = "bundle" /\ b.form = "dsse" /\ b.genuine /\ Identity(b)
  /\ digest \in b.subjects

VerifyBundle ==
  /\ pc = "verify"
  /\ IF Signed(bundle) THEN Goto("engine") ELSE Fail("VERIFY_FAILED")
  /\ UNCHANGED <<given, token, digest, pending, next, bundle, label, trouble>>

CheckImageEngine ==
  /\ pc = "engine"
  /\ IF label = engine THEN pc' = "verified" /\ code' = "ok" ELSE Fail("VERIFY_FAILED")
  /\ UNCHANGED <<given, token, digest, pending, next, bundle, label, trouble>>

Done == pc \in {"verified", "failed"} /\ UNCHANGED vars

Step ==
  \/ Plan \/ FetchToken \/ FetchDigest \/ AskReferrers \/ ReadAttachment \/ AskFallback
  \/ NextReferrer \/ ReadSub \/ ReadBundle \/ ReadRoot \/ ReadManifest \/ ReadConfig
  \/ FetchTrustedRoot \/ VerifyBundle \/ CheckImageEngine

Next == Step \/ Done
Spec == Init /\ [][Next]_vars

\* A request ends with an answer or an error.
FairSpec == Spec /\ WF_vars(Step)

-----------------------------------------------------------------------------
TypeOK ==
  /\ ref \in Refs /\ engine \in Engine /\ registry \in Registries
  /\ token \in BOOLEAN /\ digest \in Digest \cup {NoDigest}
  /\ pending \in Seq(Descriptor) /\ next \in Digest \cup {NoDigest}
  /\ label \in Engine \cup {NoEngine}
  /\ code \in {"none", "ok", "NOT_FOUND", "TRANSIENT", "TOKEN_ERROR", "VERIFY_FAILED", "UNVERIFIABLE_REF"}
  /\ (code = "ok") = (pc = "verified")

\* The engine of the image a digest names: what pulling that digest runs.
ConfigOf(d) ==
  LET m == IF Document[d].kind = "index" THEN Held(Document[d].next) ELSE Document[d]
  IN IF m = Nothing THEN Nothing ELSE Held(m.next)
EngineOf(d) == IF ConfigOf(d) = Nothing THEN NoEngine ELSE ConfigOf(d).engine

\* Whatever the registry answers, an image that is pulled was signed under the
\* pinned ref, as itself, and is the one of the engine whose rules were given
\* (verify-image.ts:38-59, engine-label.ts:20-31, oci-registry.ts:281-288).
VerifiedIsSigned ==
  pc = "verified" =>
    /\ ref.kind # "branch" /\ digest \in Digest
    /\ \E b \in Bodies :
         /\ b.kind = "bundle" /\ b.form = "dsse" /\ b.genuine
         /\ digest \in b.subjects /\ Identity(b)
    /\ EngineOf(digest) = engine

\* The image is in order: signed under the ref wherever a bundle is attached,
\* published for this engine, and listed by the tag scheme or, a bundle by its
\* type, by the API.  Other artifacts may be attached beside it.
Bundles(r) == {i \in DOMAIN r.attached :
                 /\ r.attached[i].digest \in Digest /\ r.attached[i].type # "index"
                 /\ Document[r.attached[i].digest].kind = "attachment"}
Layers(r) ==
  {Document[r.attached[i].digest].next : i \in Bundles(r)}
  \cup (IF r.scheme = "legacy" THEN {r.layer} ELSE {})
InOrder ==
  /\ ref.kind # "branch" /\ registry.tag \in Digest /\ ~registry.private
  /\ EngineOf(registry.tag) = engine
  /\ registry.scheme # "none" \/ (registry.api /\ FirstBundle(registry.attached) # 0)
  /\ Layers(registry) # {}
  /\ \A i \in DOMAIN registry.attached : registry.attached[i].type = "bundle" => i \in Bundles(registry)
  /\ \A l \in Layers(registry) :
       LET b == Held(l) IN
       /\ b # Nothing /\ b.kind = "bundle" /\ b.form = "dsse" /\ b.genuine /\ Identity(b)
       /\ registry.tag \in b.subjects

\* A sound image is never refused unless something went wrong on the way: not
\* for what else is attached to it, not for the scheme its registry uses, and
\* not for a token that ran out (oci-bundle.ts:56-59, :116-117, verify-image.ts:53).
RefusedForCause == pc = "failed" => trouble # {} \/ ~InOrder

\* A retry is suggested only where one could help: an unreachable, failing or
\* denying registry, or one that contradicts itself: it does not serve what it
\* listed, or answers for the tag without naming a digest
\* (oci-registry.ts:50-59, :274-276).
TransientForCause ==
  code = "TRANSIENT" =>
    \/ trouble \cap {"network", "error", "denied", "absent", "refused"} # {}
    \/ "lie" \in trouble /\ digest = NoDigest

\* Every verification ends, however the referrers are listed.
VerificationEnds == <>(pc \in {"verified", "failed"})

\* A network or server error is TRANSIENT, "never resource absent"
\* (errors.ts:3, oci-bundle.ts:28).
ServerErrorIsTransient == "error" \in trouble => code # "NOT_FOUND"
=============================================================================
