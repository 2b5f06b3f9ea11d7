---------------------- MODULE ImageVerificationProofs ----------------------
(***************************************************************************)
(* Theorems about ImageVerification, for every registry and everything it  *)
(* may make up, every ref and any number of failures.                      *)
(***************************************************************************)
EXTENDS ImageVerification, WellFoundedInduction, TLAPS

-----------------------------------------------------------------------------
(* The inductive invariant. *)

\* The places a request is made from, with a token the registry takes.
Requests == {"tag", "referrers", "attachment", "fallback", "each", "sub", "bundle",
             "root", "manifest", "config"}
Place == {"plan", "token", "trust", "verify", "engine", "verified", "failed"} \cup Requests

\* The places behind a digest the tag named, and behind a bundle.
Named == Place \ {"plan", "token", "tag", "failed"}
Bundled == {"root", "manifest", "config", "trust", "verify", "engine", "verified"}

PlaceInv ==
  /\ pc \in Place
  /\ pc \notin {"verified", "failed"} => code = "none"
  /\ pc \in Requests => token
  /\ pc \notin {"plan", "failed"} => ref.kind # "branch"
  /\ pc \in Named => digest \in Digest
  /\ pc \in {"attachment", "sub", "bundle", "root", "manifest", "config"} => next \in Digest
  /\ pc \in Bundled => bundle \in Bodies

\* The chain the label is read along is that of the digest, hop by hop.
ChainInv ==
  /\ pc \in {"plan", "token", "tag"} => digest = NoDigest
  /\ pc = "root" => next = digest
  /\ pc = "manifest" => Document[digest].kind = "index" /\ next = Document[digest].next
  /\ pc = "config" => ConfigOf(digest) = Document[next]
  /\ pc \in {"trust", "verify", "engine"} => label = EngineOf(digest)

SignedInv ==
  /\ pc \in {"engine", "verified"} => Signed(bundle)
  /\ pc = "verified" => EngineOf(digest) = engine

Inv == TypeOK /\ PlaceInv /\ ChainInv /\ SignedInv /\ TransientForCause

-----------------------------------------------------------------------------
(* What a registry holds, and what it may answer. *)

LEMMA Bodied ==
  /\ \A d \in Digest : Document[d] \in Bodies /\ Held(d) = Document[d] /\ Document[d] # Nothing
  /\ \A b \in Bodies :
       /\ b.kind \in {"index", "manifest", "config", "attachment", "bundle"}
       /\ b.next \in Reference /\ b.engine \in Engine \cup {NoEngine}
<1>1. Bodies = Lies \cup {Document[d] : d \in Digest}
  BY DEF Bodies
<1>2. \A b \in Bodies :
        /\ b.kind \in {"index", "manifest", "config", "attachment", "bundle"}
        /\ b.next \in Reference /\ b.engine \in Engine \cup {NoEngine}
  BY <1>1, VerificationAssumption DEF DocumentShape
<1>3. \A d \in Digest : Document[d] \in Bodies /\ Held(d) = Document[d]
  BY <1>1 DEF Held
<1>4. \A d \in Digest : Document[d] # Nothing
  BY <1>2, <1>3 DEF Nothing
<1> QED
  BY <1>2, <1>3, <1>4

\* With a token, what is not the registry's own answer is put down as trouble.
LEMMA Answered ==
  ASSUME token, NEW status, NEW body, NEW made, NEW a \in Answers(status, body, made)
  PROVE  \/ a.status = status /\ a.body = body /\ a.trouble = {}
         \/ /\ a.status \in Faults \ {"lie", "stale", "expiry"} /\ a.body = body
            /\ a.trouble = {a.status}
         \/ a.status = "ok" /\ a.body \in made /\ a.trouble = {"lie"}
BY DEF Answers

\* A read that failed ends as one of the codes, and suggests a retry only over
\* trouble of the registry's.
LEMMA ReadCodes ==
  ASSUME NEW status, NEW onFailure \in {"TRANSIENT", "NOT_FOUND"}, NEW absentOn404 \in BOOLEAN
  PROVE  /\ ReadCode(status, absentOn404, onFailure) \in {"TRANSIENT", "NOT_FOUND"}
         /\ ReadCode(status, absentOn404, onFailure) = "TRANSIENT" =>
              status \in {"network", "error", "denied"} \/ onFailure = "TRANSIENT"
         /\ status = "absent" /\ absentOn404 => ReadCode(status, absentOn404, onFailure) = "NOT_FOUND"
BY DEF ReadCode, Ladder

\* The faults a request can end with are causes for a retry.
Causes == {"network", "error", "denied", "absent", "refused"}

LEMMA FaultsAreCauses ==
  ASSUME NEW f \in Faults \ {"lie", "stale", "expiry"}
  PROVE  f \in Causes
BY VerificationAssumption DEF Causes

\* What a request leaves is a document, one it knows, or trouble.
LEMMA Bodiless ==
  ASSUME token, next \in Digest, NEW a \in Answers("ok", Held(next), Bodies), Remember(a)
  PROVE  /\ a.body \in Bodies /\ a.body.next \in Reference
         /\ a.status # "ok" => a.status \in Causes /\ trouble' = trouble \cup {a.status}
         /\ trouble \subseteq trouble'
<1>1. Held(next) \in Bodies
  BY Bodied
<1>2. \/ a.status = "ok" /\ a.body = Held(next) /\ a.trouble = {}
      \/ /\ a.status \in Faults \ {"lie", "stale", "expiry"} /\ a.body = Held(next)
         /\ a.trouble = {a.status}
      \/ a.status = "ok" /\ a.body \in Bodies /\ a.trouble = {"lie"}
  BY Answered
<1>3. a.body \in Bodies
  BY <1>1, <1>2
<1> QED
  BY <1>2, <1>3, Bodied, FaultsAreCauses DEF Remember

-----------------------------------------------------------------------------
(* Every step keeps the invariant. *)

LEMMA InvBegins == Init => Inv
<1> SUFFICES ASSUME Init PROVE Inv
  OBVIOUS
<1>1. pending \in Seq(Descriptor)
  BY DEF Init
<1>2. TypeOK
  BY <1>1 DEF Init, TypeOK
<1> QED
  BY <1>2 DEF Init, Inv, PlaceInv, ChainInv, SignedInv, TransientForCause, Place, Named, Bundled,
     Requests

\* What a failing step leaves: whatever it read, no claim is made.
LEMMA FailKeeps ==
  ASSUME Inv, UNCHANGED <<given, digest, pending, label>>, next' = next, token' \in BOOLEAN,
         pc \notin {"verified", "failed"}, trouble \subseteq trouble',
         NEW c \in {"NOT_FOUND", "TRANSIENT", "TOKEN_ERROR", "VERIFY_FAILED", "UNVERIFIABLE_REF"},
         c = "TRANSIENT" =>
           trouble' \cap Causes # {} \/ ("lie" \in trouble' /\ digest = NoDigest),
         Fail(c)
  PROVE  Inv'
BY DEF Inv, TypeOK, PlaceInv, ChainInv, SignedInv, TransientForCause, Place, Named, Bundled,
       Requests, Fail, given, Causes

\* A document read without its digest being checked names a layer, or nothing.
LEMMA LayerKeeps ==
  ASSUME Inv, UNCHANGED <<given, token, digest, bundle, label>>, pending' \in Seq(Descriptor),
         pc \in {"attachment", "fallback", "sub"}, trouble \subseteq trouble',
         NEW d \in Reference, ReadLayer(d)
  PROVE  Inv'
<1>1. CASE d \in Digest
  <2>1. pc' = "bundle" /\ next' = d /\ code' = code
    BY <1>1, VerificationAssumption DEF ReadLayer, Goto
  <2> QED
    BY <1>1, <2>1 DEF Inv, TypeOK, PlaceInv, ChainInv, SignedInv, TransientForCause, Place, Named,
       Bundled, Requests, given
<1>2. CASE d \notin Digest
  <2>1. PICK c \in {"NOT_FOUND", "VERIFY_FAILED"} : Fail(c) /\ next' = next
    BY <1>2 DEF ReadLayer, Reference
  <2> QED
    BY <2>1 DEF Inv, TypeOK, PlaceInv, ChainInv, SignedInv, TransientForCause, Place, Named,
       Bundled, Requests, given, Fail
<1> QED
  BY <1>1, <1>2

\* A hop that goes on has read the document its digest names.
LEMMA HopCodes ==
  ASSUME next \in Digest, NEW a \in Answers("ok", Held(next), Bodies)
  PROVE  /\ HopCode(a) = "ok" => a.status = "ok" /\ a.body = Document[next]
         /\ HopCode(a) # "ok" => HopCode(a) \in {"NOT_FOUND", "TRANSIENT", "VERIFY_FAILED"}
         /\ HopCode(a) = "TRANSIENT" => a.status # "ok"
BY ReadCodes DEF HopCode, Genuine

\* A hop onwards, where the next document is the image's own.
LEMMA FollowKeeps ==
  ASSUME Inv, pc \in {"root", "manifest"}, trouble \subseteq trouble',
         UNCHANGED <<given, token, digest, pending, bundle, label>>,
         NEW d \in Reference, NEW to \in {"manifest", "config"}, Follow(d, to),
         d \in Digest /\ to = "manifest" =>
           Document[digest].kind = "index" /\ d = Document[digest].next,
         d \in Digest /\ to = "config" => ConfigOf(digest) = Document[d]
  PROVE  Inv'
<1>1. CASE d \in Digest
  <2>1. pc' = to /\ next' = d /\ code' = code
    BY <1>1, VerificationAssumption DEF Follow, Goto
  <2>2. digest' = digest /\ ConfigOf(digest)' = ConfigOf(digest)
    BY DEF ConfigOf, Held
  <2>3. TypeOK' /\ PlaceInv'
    BY <1>1, <2>1 DEF Inv, TypeOK, PlaceInv, Place, Named, Bundled, Requests, given
  <2>4. ChainInv'
    BY <1>1, <2>1, <2>2 DEF ChainInv
  <2>5. SignedInv' /\ TransientForCause'
    BY <2>1 DEF Inv, TypeOK, SignedInv, TransientForCause
  <2> QED
    BY <2>3, <2>4, <2>5 DEF Inv
<1>2. CASE d \notin Digest
  <2>1. PICK c \in {"NOT_FOUND", "VERIFY_FAILED"} : Fail(c) /\ next' = next
    BY <1>2 DEF Follow, Reference
  <2> QED
    BY <2>1 DEF Inv, TypeOK, PlaceInv, ChainInv, SignedInv, TransientForCause, Place, Named,
       Bundled, Requests, given, Fail
<1> QED
  BY <1>1, <1>2

LEMMA StepKept ==
  ASSUME Inv, Step
  PROVE  Inv'
<1>1. pc \notin {"verified", "failed"}
  BY DEF Step, Plan, FetchToken, FetchDigest, AskReferrers, ReadAttachment, AskFallback,
         NextReferrer, ReadSub, ReadBundle, ReadRoot, ReadManifest, ReadConfig, FetchTrustedRoot,
         VerifyBundle, CheckImageEngine
<1>2. \A r \in Registries : /\ r.tag \in Reference /\ r.attached \in Seq(Descriptor)
                            /\ r.layer \in Reference
  BY VerificationAssumption
<1>4. CASE Plan
  <2>1. CASE ref.kind = "branch"
    BY <1>1, <1>4, <2>1, FailKeeps DEF Plan, Inv, TypeOK
  <2>2. CASE ref.kind # "branch"
    BY <1>4, <2>2 DEF Plan, Goto, Inv, TypeOK, PlaceInv, ChainInv, SignedInv, TransientForCause,
       Place, Named, Bundled, Requests, given
  <2> QED
    BY <2>1, <2>2
<1>5. CASE FetchToken
  <2>1. CASE \E f \in Faults \cap {"network", "error"} :
               Fail("TRANSIENT") /\ UNCHANGED token /\ trouble' = trouble \cup {f}
    BY <1>1, <1>5, <2>1, FailKeeps DEF FetchToken, Inv, TypeOK, Causes
  <2>2. CASE Fail("TOKEN_ERROR") /\ UNCHANGED token /\ trouble \subseteq trouble'
    BY <1>1, <1>5, <2>2, FailKeeps DEF FetchToken, Inv, TypeOK
  <2>3. CASE Goto("tag") /\ token' = TRUE /\ UNCHANGED trouble
    BY <1>5, <2>3 DEF FetchToken, Goto, Inv, TypeOK, PlaceInv, ChainInv, SignedInv,
       TransientForCause, Place, Named, Bundled, Requests, given
  <2> QED
    BY <1>5, <2>1, <2>2, <2>3 DEF FetchToken
<1>6. CASE FetchDigest
  <2> DEFINE status == IF registry.tag = NoDigest THEN "absent" ELSE "ok"
  <2>1. PICK a \in Answers(status, registry.tag, Reference) :
          /\ Remember(a)
          /\ IF a.status # "ok"
               THEN Fail(ReadCode(a.status, TRUE, "TRANSIENT")) /\ UNCHANGED digest
             ELSE IF a.body = NoDigest THEN Fail("TRANSIENT") /\ UNCHANGED digest
             ELSE IF a.body = BadDigest THEN Fail("VERIFY_FAILED") /\ UNCHANGED digest
             ELSE digest' = a.body /\ Goto("referrers")
    BY <1>6 DEF FetchDigest
  <2>2. token /\ registry.tag \in Reference /\ UNCHANGED <<given, token, pending, next, bundle, label>>
    BY <1>2, <1>6 DEF FetchDigest, Inv, TypeOK, PlaceInv, Requests
  <2>7. status \in {"ok", "absent"} /\ (status = "ok" => registry.tag # NoDigest)
    OBVIOUS
  <2> HIDE DEF status
  <2>8. \/ a.status = status /\ a.body = registry.tag /\ a.trouble = {}
        \/ /\ a.status \in Faults \ {"lie", "stale", "expiry"} /\ a.body = registry.tag
           /\ a.trouble = {a.status}
        \/ a.status = "ok" /\ a.body \in Reference /\ a.trouble = {"lie"}
    <3>1. a \in Answers(status, registry.tag, Reference)
      BY <2>1
    <3> QED
      BY <2>2, <3>1, Answered
  <2>9. trouble' = trouble \cup a.trouble
    BY <2>1 DEF Remember
  <2>3. /\ trouble \subseteq trouble' /\ a.body \in Reference
        /\ a.status \notin {"ok", "absent"} =>
             a.status \in Causes /\ trouble' = trouble \cup {a.status}
        /\ a.status = "ok" /\ a.body = NoDigest => "lie" \in trouble'
    <3>1. \A f \in Faults \ {"lie", "stale", "expiry"} : f \in Causes /\ f # "ok"
      BY FaultsAreCauses DEF Causes
    <3> QED
      BY <2>2, <2>7, <2>8, <2>9, <3>1
  <2>4. CASE a.status # "ok"
    <3>1. /\ ReadCode(a.status, TRUE, "TRANSIENT") \in {"TRANSIENT", "NOT_FOUND"}
          /\ a.status = "absent" => ReadCode(a.status, TRUE, "TRANSIENT") = "NOT_FOUND"
      BY ReadCodes
    <3>2. a.status # "absent" => trouble' \cap Causes # {}
      BY <2>3, <2>4
    <3> QED
      BY <1>1, <2>1, <2>2, <2>3, <2>4, <3>1, <3>2, FailKeeps DEF Inv, TypeOK
  <2>5. CASE a.status = "ok" /\ a.body \notin Digest
    <3>4. a.body \in {NoDigest, BadDigest} /\ NoDigest # BadDigest
      BY <2>3, <2>5, VerificationAssumption DEF Reference
    <3>5. UNCHANGED digest /\ IF a.body = NoDigest THEN Fail("TRANSIENT") ELSE Fail("VERIFY_FAILED")
      BY <2>1, <2>5, <3>4
    <3>1. pc = "tag" /\ digest' = digest
      BY <1>6, <3>5 DEF FetchDigest
    <3>2. digest = NoDigest
      BY <3>1 DEF Inv, ChainInv
    <3>3. PICK c \in {"TRANSIENT", "VERIFY_FAILED"} :
            Fail(c) /\ (c = "TRANSIENT" => a.body = NoDigest)
      BY <3>5
    <3> QED
      BY <1>1, <2>2, <2>3, <2>5, <3>1, <3>2, <3>3, FailKeeps DEF Inv, TypeOK
  <2>6. CASE a.status = "ok" /\ a.body \in Digest
    <3>1. digest' = a.body /\ pc' = "referrers" /\ code' = code
      BY <2>1, <2>6, VerificationAssumption DEF Goto
    <3> QED
      BY <1>6, <2>2, <2>3, <2>6, <3>1 DEF FetchDigest, Inv, TypeOK, PlaceInv, ChainInv, SignedInv,
         TransientForCause, Place, Named, Bundled, Requests, given
  <2> QED
    BY <2>3, <2>4, <2>5, <2>6
<1>7. CASE AskReferrers
  <2> DEFINE status == IF registry.api THEN "ok" ELSE "absent"
             made == {<<[type |-> "bundle", digest |-> d]>> : d \in Reference}
  <2>1. PICK a \in Answers(status, registry.attached, made) :
          /\ Remember(a)
          /\ IF a.status \in {"network", "error"} THEN Fail("TRANSIENT") /\ UNCHANGED next
             ELSE IF a.status # "ok" \/ FirstBundle(a.body) = 0
               THEN Goto("fallback") /\ UNCHANGED next
             ELSE IF a.body[FirstBundle(a.body)].digest \notin Digest
               THEN Fail("VERIFY_FAILED") /\ UNCHANGED next
             ELSE Goto("attachment") /\ next' = a.body[FirstBundle(a.body)].digest
    BY <1>7 DEF AskReferrers
  <2>2. pc = "referrers" /\ token /\ UNCHANGED <<given, token, digest, pending, bundle, label>>
    BY <1>7 DEF AskReferrers, Inv, PlaceInv, Requests
  <2>3. /\ trouble \subseteq trouble'
        /\ a.status \in {"network", "error"} => trouble' = trouble \cup {a.status}
    BY <2>1, <2>2, Answered DEF Remember
  <2>4. CASE pc' = "failed"
    <3>1. PICK c \in {"TRANSIENT", "VERIFY_FAILED"} :
            /\ Fail(c) /\ next' = next
            /\ c = "TRANSIENT" => a.status \in {"network", "error"}
      BY <2>1, <2>4 DEF Goto
    <3> QED
      BY <1>1, <2>2, <2>3, <3>1, FailKeeps DEF Inv, TypeOK, Causes
  <2>5. CASE pc' # "failed"
    <3>1. \/ pc' = "fallback" /\ next' = next /\ code' = code
          \/ pc' = "attachment" /\ next' \in Digest /\ code' = code
      BY <2>1, <2>5 DEF Goto, Fail
    <3> QED
      BY <2>2, <2>3, <3>1 DEF Inv, TypeOK, PlaceInv, ChainInv, SignedInv, TransientForCause, Place,
         Named, Bundled, Requests, given
  <2> QED
    BY <2>4, <2>5
<1>8. CASE ReadAttachment
  <2>1. PICK a \in Answers("ok", Held(next), Bodies) :
          /\ Remember(a)
          /\ IF a.status # "ok"
               THEN Fail(ReadCode(a.status, FALSE, "TRANSIENT")) /\ UNCHANGED next
             ELSE ReadLayer(a.body.next)
    BY <1>8 DEF ReadAttachment
  <2>2. /\ pc = "attachment" /\ token /\ next \in Digest
        /\ UNCHANGED <<given, token, digest, pending, bundle, label>>
    BY <1>8 DEF ReadAttachment, Inv, PlaceInv, Requests
  <2>3. /\ a.body.next \in Reference /\ trouble \subseteq trouble'
        /\ a.status # "ok" => a.status \in Causes /\ trouble' = trouble \cup {a.status}
    BY <2>1, <2>2, Bodiless
  <2>4. CASE a.status # "ok"
    <3>1. ReadCode(a.status, FALSE, "TRANSIENT") \in {"TRANSIENT", "NOT_FOUND"}
      BY ReadCodes
    <3>2. trouble' \cap Causes # {}
      BY <2>3, <2>4
    <3> QED
      BY <1>1, <2>1, <2>2, <2>3, <2>4, <3>1, <3>2, FailKeeps DEF Inv, TypeOK
  <2>5. CASE a.status = "ok"
    BY <2>1, <2>2, <2>3, <2>5, LayerKeeps DEF Inv, TypeOK
  <2> QED
    BY <2>4, <2>5
<1>9. CASE AskFallback
  <2> DEFINE status == IF registry.scheme = "none" THEN "absent" ELSE "ok"
             made == {<<[type |-> "empty", digest |-> d]>> : d \in Reference}
  <2>1. PICK a \in Answers(status, registry.attached, made) :
          /\ Remember(a)
          /\ IF a.status # "ok"
               THEN Fail(ReadCode(a.status, TRUE, "NOT_FOUND")) /\ UNCHANGED <<pending, next>>
             ELSE IF registry.scheme = "index" \/ a.trouble # {}
               THEN pending' = a.body /\ Goto("each") /\ UNCHANGED next
               ELSE ReadLayer(registry.layer) /\ UNCHANGED pending
    BY <1>9 DEF AskFallback
  <2>2. /\ pc = "fallback" /\ token /\ digest \in Digest /\ registry \in Registries
        /\ UNCHANGED <<given, token, digest, bundle, label>>
    BY <1>9 DEF AskFallback, Inv, TypeOK, PlaceInv, Requests, Named, Place
  <2>3. \/ a.status = status /\ a.body = registry.attached /\ a.trouble = {}
        \/ /\ a.status \in Faults \ {"lie", "stale", "expiry"} /\ a.body = registry.attached
           /\ a.trouble = {a.status}
        \/ a.status = "ok" /\ a.body \in made /\ a.trouble = {"lie"}
    BY <2>2, Answered
  <2>4. trouble \subseteq trouble' /\ a.body \in Seq(Descriptor)
    <3>1. \A d \in Reference : [type |-> "empty", digest |-> d] \in Descriptor
      BY DEF Descriptor
    <3>2. \A x \in made : x \in Seq(Descriptor)
      <4>1. TAKE x \in made
      <4>2. PICK d \in Reference : x = <<[type |-> "empty", digest |-> d]>>
        BY <4>1
      <4> QED
        BY <3>1, <4>2
    <3> QED
      BY <1>2, <2>1, <2>2, <2>3, <3>2 DEF Remember
  <2>5. CASE a.status # "ok"
    <3>1. /\ ReadCode(a.status, TRUE, "NOT_FOUND") \in {"NOT_FOUND", "TRANSIENT"}
          /\ ReadCode(a.status, TRUE, "NOT_FOUND") = "TRANSIENT" =>
               a.status \in {"network", "error", "denied"}
      BY ReadCodes
    <3>2. ReadCode(a.status, TRUE, "NOT_FOUND") = "TRANSIENT" => trouble' \cap Causes # {}
      BY <2>1, <2>3, <3>1 DEF Remember, Causes
    <3> QED
      BY <1>1, <2>1, <2>2, <2>4, <2>5, <3>1, <3>2, FailKeeps DEF Inv, TypeOK
  <2>6. CASE a.status = "ok" /\ pc' = "each"
    <3>1. pending' = a.body /\ next' = next /\ code' = code
      BY <2>1, <2>6 DEF ReadLayer, Goto, Fail
    <3> QED
      BY <2>2, <2>4, <2>6, <3>1 DEF Inv, TypeOK, PlaceInv, ChainInv, SignedInv, TransientForCause,
         Place, Named, Bundled, Requests, given
  <2>7. CASE a.status = "ok" /\ pc' # "each"
    <3>1. ReadLayer(registry.layer) /\ pending' = pending
      BY <2>1, <2>7 DEF Goto
    <3> QED
      BY <1>2, <2>2, <2>4, <3>1, LayerKeeps DEF Inv, TypeOK
  <2> QED
    BY <2>5, <2>6, <2>7
<1>10. CASE NextReferrer
  <2>1. pc = "each" /\ UNCHANGED <<given, token, digest, bundle, label, trouble>>
    BY <1>10 DEF NextReferrer
  <2>2. CASE pending = <<>>
    BY <1>1, <1>10, <2>1, <2>2, FailKeeps DEF NextReferrer, Inv, TypeOK
  <2>3. CASE pending # <<>>
    <3>1. pending' \in Seq(Descriptor) /\ code' = code
      BY <1>10, <2>3 DEF NextReferrer, Inv, TypeOK
    <3>2. \/ pc' = pc /\ next' = next
          \/ pc' \in {"attachment", "sub"} /\ next' \in Digest
      BY <1>10, <2>3 DEF NextReferrer
    <3> QED
      BY <2>1, <3>1, <3>2 DEF Inv, TypeOK, PlaceInv, ChainInv, SignedInv, TransientForCause,
         Place, Named, Bundled, Requests, given
  <2> QED
    BY <2>2, <2>3
<1>11. CASE ReadSub
  <2>1. PICK a \in Answers("ok", Held(next), Bodies) :
          /\ Remember(a)
          /\ IF a.status = "network" THEN Fail("TRANSIENT") /\ UNCHANGED next
             ELSE IF a.status # "ok" \/ a.body.kind # "attachment" \/ a.body.next = NoDigest
               THEN Goto("each") /\ UNCHANGED next
             ELSE ReadLayer(a.body.next)
    BY <1>11 DEF ReadSub
  <2>2. /\ pc = "sub" /\ token /\ next \in Digest
        /\ UNCHANGED <<given, token, digest, pending, bundle, label>>
    BY <1>11 DEF ReadSub, Inv, PlaceInv, Requests
  <2>3. /\ a.body.next \in Reference /\ trouble \subseteq trouble'
        /\ a.status # "ok" => a.status \in Causes /\ trouble' = trouble \cup {a.status}
    BY <2>1, <2>2, Bodiless
  <2>4. CASE a.status = "network"
    BY <1>1, <2>1, <2>2, <2>3, <2>4, FailKeeps DEF Inv, TypeOK
  <2>5. CASE a.status # "network" /\ pc' = "each"
    <3>1. next' = next /\ code' = code
      BY <2>1, <2>5 DEF ReadLayer, Goto, Fail
    <3> QED
      BY <2>2, <2>3, <2>5, <3>1 DEF Inv, TypeOK, PlaceInv, ChainInv, SignedInv, TransientForCause,
         Place, Named, Bundled, Requests, given
  <2>6. CASE a.status # "network" /\ pc' # "each"
    <3>1. ReadLayer(a.body.next)
      BY <2>1, <2>6 DEF Goto
    <3> QED
      BY <2>2, <2>3, <3>1, LayerKeeps DEF Inv, TypeOK
  <2> QED
    BY <2>4, <2>5, <2>6
<1>12. CASE ReadBundle
  <2>1. PICK a \in Answers("ok", Held(next), Bodies) :
          /\ Remember(a)
          /\ IF a.status # "ok"
               THEN Fail(ReadCode(a.status, FALSE, "NOT_FOUND")) /\ UNCHANGED <<bundle, next>>
               ELSE bundle' = a.body /\ next' = digest /\ Goto("root")
    BY <1>12 DEF ReadBundle
  <2>2. /\ pc = "bundle" /\ token /\ next \in Digest /\ digest \in Digest
        /\ UNCHANGED <<given, token, digest, pending, label>>
    BY <1>12 DEF ReadBundle, Inv, PlaceInv, Requests, Named, Place
  <2>3. /\ a.body \in Bodies /\ trouble \subseteq trouble'
        /\ a.status # "ok" => a.status \in Causes /\ trouble' = trouble \cup {a.status}
    BY <2>1, <2>2, Bodiless
  <2>4. CASE a.status # "ok"
    <3>1. ReadCode(a.status, FALSE, "NOT_FOUND") \in {"TRANSIENT", "NOT_FOUND"}
      BY ReadCodes
    <3>2. trouble' \cap Causes # {}
      BY <2>3, <2>4
    <3> QED
      BY <1>1, <2>1, <2>2, <2>3, <2>4, <3>1, <3>2, FailKeeps DEF Inv, TypeOK
  <2>5. CASE a.status = "ok"
    <3>1. bundle' = a.body /\ next' = digest /\ pc' = "root" /\ code' = code
      BY <2>1, <2>5 DEF Goto
    <3> QED
      BY <2>2, <2>3, <3>1 DEF Inv, TypeOK, PlaceInv, ChainInv, SignedInv, TransientForCause,
         Place, Named, Bundled, Requests, given
  <2> QED
    BY <2>4, <2>5
<1>13. CASE ReadRoot
  <2>1. PICK a \in Answers("ok", Held(next), Bodies) :
          /\ Remember(a)
          /\ IF HopCode(a) # "ok" THEN Fail(HopCode(a)) /\ UNCHANGED next
             ELSE Follow(a.body.next, IF a.body.kind = "index" THEN "manifest" ELSE "config")
    BY <1>13 DEF ReadRoot
  <2>2. /\ pc = "root" /\ token /\ next = digest /\ digest \in Digest
        /\ UNCHANGED <<given, token, digest, pending, bundle, label>>
    BY <1>13 DEF ReadRoot, Inv, PlaceInv, ChainInv, Requests, Named, Place
  <2>3. /\ a.body.next \in Reference /\ trouble \subseteq trouble'
        /\ a.status # "ok" => a.status \in Causes /\ trouble' = trouble \cup {a.status}
    BY <2>1, <2>2, Bodiless
  <2>4. CASE HopCode(a) # "ok"
    <3>1. HopCode(a) = "TRANSIENT" => trouble' \cap Causes # {}
      BY <2>2, <2>3, HopCodes
    <3> QED
      BY <1>1, <2>1, <2>2, <2>3, <2>4, <3>1, HopCodes, FailKeeps DEF Inv, TypeOK
  <2>5. CASE HopCode(a) = "ok"
    <3>1. a.body = Document[digest]
      BY <2>2, <2>5, HopCodes
    <3>2. a.body.kind # "index" /\ a.body.next \in Digest =>
            ConfigOf(digest) = Document[a.body.next]
      BY <2>2, <3>1, Bodied DEF ConfigOf
    <3> QED
      BY <2>1, <2>2, <2>3, <2>5, <3>1, <3>2, FollowKeeps
  <2> QED
    BY <2>4, <2>5
<1>14. CASE ReadManifest
  <2>1. PICK a \in Answers("ok", Held(next), Bodies) :
          /\ Remember(a)
          /\ IF HopCode(a) # "ok" THEN Fail(HopCode(a)) /\ UNCHANGED next
             ELSE Follow(a.body.next, "config")
    BY <1>14 DEF ReadManifest
  <2>2. /\ pc = "manifest" /\ token /\ next \in Digest /\ digest \in Digest
        /\ Document[digest].kind = "index" /\ next = Document[digest].next
        /\ UNCHANGED <<given, token, digest, pending, bundle, label>>
    BY <1>14 DEF ReadManifest, Inv, PlaceInv, ChainInv, Requests, Named, Place
  <2>3. /\ a.body.next \in Reference /\ trouble \subseteq trouble'
        /\ a.status # "ok" => a.status \in Causes /\ trouble' = trouble \cup {a.status}
    BY <2>1, <2>2, Bodiless
  <2>4. CASE HopCode(a) # "ok"
    <3>1. HopCode(a) = "TRANSIENT" => trouble' \cap Causes # {}
      BY <2>2, <2>3, HopCodes
    <3> QED
      BY <1>1, <2>1, <2>2, <2>3, <2>4, <3>1, HopCodes, FailKeeps DEF Inv, TypeOK
  <2>5. CASE HopCode(a) = "ok"
    <3>1. a.body = Document[next]
      BY <2>2, <2>5, HopCodes
    <3>2. a.body.next \in Digest => ConfigOf(digest) = Document[a.body.next]
      BY <2>2, <3>1, Bodied DEF ConfigOf
    <3> QED
      BY <2>1, <2>2, <2>3, <2>5, <3>2, FollowKeeps
  <2> QED
    BY <2>4, <2>5
<1>15. CASE ReadConfig
  <2>1. PICK a \in Answers("ok", Held(next), Bodies) :
          /\ Remember(a)
          /\ IF HopCode(a) # "ok" THEN Fail(HopCode(a)) /\ UNCHANGED label
             ELSE label' = a.body.engine /\ Goto("trust")
    BY <1>15 DEF ReadConfig
  <2>2. /\ pc = "config" /\ token /\ next \in Digest /\ digest \in Digest
        /\ bundle \in Bodies /\ ConfigOf(digest) = Document[next]
        /\ UNCHANGED <<given, token, digest, pending, next, bundle>>
    BY <1>15 DEF ReadConfig, Inv, PlaceInv, ChainInv, Requests, Named, Place, Bundled
  <2>3. /\ trouble \subseteq trouble'
        /\ a.status # "ok" => a.status \in Causes /\ trouble' = trouble \cup {a.status}
    BY <2>1, <2>2, Bodiless
  <2>4. CASE HopCode(a) # "ok"
    <3>1. HopCode(a) = "TRANSIENT" => trouble' \cap Causes # {}
      BY <2>2, <2>3, HopCodes
    <3> QED
      BY <1>1, <2>1, <2>2, <2>3, <2>4, <3>1, HopCodes, FailKeeps DEF Inv, TypeOK
  <2>5. CASE HopCode(a) = "ok"
    <3>1. a.body = Document[next]
      BY <2>2, <2>5, HopCodes
    <3>2. pc' = "trust" /\ label' = Document[next].engine /\ code' = code
      BY <2>1, <2>5, <3>1 DEF Goto
    <3>3. label' = EngineOf(digest) /\ label' \in Engine \cup {NoEngine}
      BY <2>2, <3>2, Bodied DEF EngineOf
    <3>4. EngineOf(digest)' = EngineOf(digest)
      BY <2>2 DEF EngineOf, ConfigOf, Held
    <3> QED
      BY <2>2, <2>3, <3>2, <3>3, <3>4 DEF Inv, TypeOK, PlaceInv, ChainInv, SignedInv,
         TransientForCause, Place, Named, Bundled, Requests, given
  <2> QED
    BY <2>4, <2>5
<1>16. CASE FetchTrustedRoot
  <2>1. pc = "trust" /\ UNCHANGED <<given, digest, pending, next, bundle, label>>
    BY <1>16 DEF FetchTrustedRoot
  <2>2. CASE Fail("VERIFY_FAILED") /\ UNCHANGED token /\ trouble \subseteq trouble'
    BY <1>1, <2>1, <2>2, FailKeeps DEF Inv, TypeOK
  <2>3. CASE Goto("verify") /\ token' \in BOOLEAN /\ UNCHANGED trouble
    <3>1. EngineOf(digest)' = EngineOf(digest)
      BY <2>1 DEF EngineOf, ConfigOf, Held
    <3> QED
      BY <2>1, <2>3, <3>1 DEF Goto, Inv, TypeOK, PlaceInv, ChainInv, SignedInv, TransientForCause,
         Place, Named, Bundled, Requests, given
  <2> QED
    BY <1>16, <2>2, <2>3 DEF FetchTrustedRoot
<1>17. CASE VerifyBundle
  <2>1. /\ pc = "verify" /\ UNCHANGED <<given, token, digest, pending, next, bundle, label, trouble>>
        /\ label = EngineOf(digest)
    BY <1>17 DEF VerifyBundle, Inv, ChainInv
  <2>2. CASE Signed(bundle)
    <3>1. pc' = "engine" /\ code' = code
      BY <1>17, <2>2 DEF VerifyBundle, Goto
    <3>2. EngineOf(digest)' = EngineOf(digest) /\ Signed(bundle)'
      BY <2>1, <2>2 DEF EngineOf, ConfigOf, Held, Signed, Identity, given
    <3> QED
      BY <2>1, <3>1, <3>2 DEF Inv, TypeOK, PlaceInv, ChainInv, SignedInv, TransientForCause,
         Place, Named, Bundled, Requests, given
  <2>3. CASE ~Signed(bundle)
    BY <1>1, <1>17, <2>1, <2>3, FailKeeps DEF VerifyBundle, Inv, TypeOK
  <2> QED
    BY <2>2, <2>3
<1>18. CASE CheckImageEngine
  <2>1. /\ pc = "engine" /\ UNCHANGED <<given, token, digest, pending, next, bundle, label, trouble>>
        /\ label = EngineOf(digest) /\ Signed(bundle)
    BY <1>18 DEF CheckImageEngine, Inv, ChainInv, SignedInv
  <2>2. CASE label = engine
    <3>1. pc' = "verified" /\ code' = "ok"
      BY <1>18, <2>2 DEF CheckImageEngine
    <3>2. (EngineOf(digest) = engine)' /\ Signed(bundle)'
      BY <2>1, <2>2 DEF EngineOf, ConfigOf, Held, Signed, Identity, given
    <3> QED
      BY <2>1, <3>1, <3>2 DEF Inv, TypeOK, PlaceInv, ChainInv, SignedInv, TransientForCause,
         Place, Named, Bundled, Requests, given
  <2>3. CASE label # engine
    BY <1>1, <1>18, <2>1, <2>3, FailKeeps DEF CheckImageEngine, Inv, TypeOK
  <2> QED
    BY <2>2, <2>3
<1> QED
  BY <1>4, <1>5, <1>6, <1>7, <1>8, <1>9, <1>10, <1>11, <1>12, <1>13, <1>14, <1>15, <1>16, <1>17,
     <1>18 DEF Step

LEMMA StutterKeeps == Inv /\ UNCHANGED vars => Inv'
<1> SUFFICES ASSUME Inv, UNCHANGED vars PROVE Inv'
  OBVIOUS
<1>1. EngineOf(digest)' = EngineOf(digest) /\ ConfigOf(digest)' = ConfigOf(digest)
  BY DEF vars, EngineOf, ConfigOf, Held
<1>2. Signed(bundle)' = Signed(bundle)
  BY DEF vars, given, Signed, Identity
<1> QED
  BY <1>1, <1>2 DEF vars, given, Inv, TypeOK, PlaceInv, ChainInv, SignedInv, TransientForCause

LEMMA Invariance == Spec => []Inv
<1>1. Inv /\ [Next]_vars => Inv'
  BY StepKept, StutterKeeps DEF Next, Done
<1> QED
  BY InvBegins, <1>1, PTL DEF Spec

-----------------------------------------------------------------------------
(* An image in order is not refused while the registry answers as it should:
   what is still to be looked at holds a bundle, and every bundle is signed. *)

Sound == InOrder /\ trouble = {}

Listed(d) == \E k \in DOMAIN registry.attached : d = registry.attached[k]
Proper(d) == d.digest \in Digest /\ d.type # "index" /\ Document[d.digest].kind = "attachment"

SoundInv == Sound =>
  /\ pc # "failed"
  /\ pc \in Named => digest = registry.tag
  /\ \A i \in DOMAIN pending : Listed(pending[i])
  /\ pc = "attachment" => Document[next].next \in Layers(registry)
  /\ pc = "fallback" => registry.scheme # "none"
  /\ pc = "each" => \E i \in DOMAIN pending : Proper(pending[i])
  /\ pc = "sub" =>
       \/ Document[next].kind = "attachment" /\ Document[next].next \in Layers(registry)
       \/ Document[next].kind # "attachment" /\ \E i \in DOMAIN pending : Proper(pending[i])
  /\ pc = "bundle" => next \in Layers(registry)
  /\ pc \in Bundled => Signed(bundle)

LEMMA PlainAnswer ==
  ASSUME token, NEW status, NEW body, NEW made, NEW a \in Answers(status, body, made),
         Remember(a), trouble' = {}
  PROVE  a.status = status /\ a.body = body /\ a.trouble = {}
BY Answered DEF Remember

\* A layer of an image in order holds a bundle signed for it.
LEMMA LayersSigned ==
  ASSUME InOrder, digest = registry.tag, NEW l \in Layers(registry)
  PROVE  l \in Digest /\ Held(l) = Document[l] /\ Signed(Document[l])
<1>1. /\ Held(l) # Nothing /\ Held(l).kind = "bundle" /\ Held(l).form = "dsse"
      /\ Held(l).genuine /\ Identity(Held(l)) /\ registry.tag \in Held(l).subjects
  BY DEF InOrder
<1>2. l \in Digest /\ Held(l) = Document[l]
  BY <1>1 DEF Held
<1> QED
  BY <1>1, <1>2 DEF Signed

\* What is attached to it, and is a bundle's, names such a layer.
LEMMA ProperLayers ==
  ASSUME NEW d, Listed(d), Proper(d)
  PROVE  Document[d.digest].next \in Layers(registry)
BY DEF Listed, Proper, Layers, Bundles

LEMMA ByTypeProper ==
  ASSUME InOrder, NEW d, Listed(d), d.type = "bundle"
  PROVE  Proper(d)
BY DEF InOrder, Listed, Proper, Bundles

\* The first bundle listed is one, wherever one is listed at all.
LEMMA FirstBundleIs ==
  ASSUME NEW s \in Seq(Descriptor), FirstBundle(s) # 0
  PROVE  FirstBundle(s) \in DOMAIN s /\ s[FirstBundle(s)].type = "bundle"
<1> DEFINE T == {i \in DOMAIN s : s[i].type = "bundle"}
<1>1. T \subseteq Nat /\ T # {}
  BY DEF FirstBundle
<1>2. PICK x \in T : \A y \in T : ~ (<<y, x>> \in OpToRel(<, Nat))
  <2> HIDE DEF T
  <2> QED
    BY <1>1, NatLessThanWellFounded, WFMin
<1>3. \A y \in T : ~ (y < x)
  BY <1>1, <1>2 DEF OpToRel
<1>4. s[x].type = "bundle" /\ \A j \in 1 .. x - 1 : s[j].type # "bundle"
  BY <1>3
<1> QED
  BY <1>1, <1>2, <1>4 DEF FirstBundle

\* The chain of an image in order leads to its engine.
LEMMA ChainWhole ==
  ASSUME InOrder, digest = registry.tag, engine \in Engine
  PROVE  /\ digest \in Digest /\ EngineOf(digest) = engine
         /\ Document[digest].next \in Digest
         /\ Document[digest].kind = "index" => Document[Document[digest].next].next \in Digest
<1>1. digest \in Digest /\ EngineOf(digest) = engine
  BY DEF InOrder
<1>2. ConfigOf(digest) # Nothing
  BY <1>1, VerificationAssumption DEF EngineOf
<1>3. Document[digest] # Nothing
  BY <1>1, Bodied
<1>4. CASE Document[digest].kind = "index"
  BY <1>1, <1>2, <1>3, <1>4, Bodied DEF ConfigOf, Held
<1>5. CASE Document[digest].kind # "index"
  BY <1>1, <1>2, <1>3, <1>5 DEF ConfigOf, Held
<1> QED
  BY <1>1, <1>4, <1>5

LEMMA SoundBegins == Init => SoundInv
BY DEF Init, SoundInv, Named, Place, Bundled, Requests

\* What a sound image's claims rest on does not change.
LEMMA SoundConstant ==
  ASSUME UNCHANGED given
  PROVE  /\ InOrder' = InOrder /\ Layers(registry)' = Layers(registry)
         /\ \A d : Listed(d)' = Listed(d)
<1>1. Layers(registry)' = Layers(registry)
  BY DEF given, Layers, Bundles
<1>2. \A b : Identity(b)' = Identity(b)
  BY DEF given, Identity
<1>3. EngineOf(registry.tag)' = EngineOf(registry.tag)
  BY DEF given, EngineOf, ConfigOf, Held
<1> QED
  BY <1>1, <1>2, <1>3 DEF given, InOrder, Listed, Bundles, Held

LEMMA SoundKept ==
  ASSUME Inv, SoundInv, Step
  PROVE  SoundInv'
<1>1. UNCHANGED given /\ trouble \subseteq trouble'
  BY DEF Step, Plan, FetchToken, FetchDigest, AskReferrers, ReadAttachment, AskFallback,
         NextReferrer, ReadSub, ReadBundle, ReadRoot, ReadManifest, ReadConfig, FetchTrustedRoot,
         VerifyBundle, CheckImageEngine, Remember
<1> SUFFICES ASSUME InOrder, trouble = {}, trouble' = {}
             PROVE  SoundInv'
  BY <1>1, SoundConstant DEF SoundInv, Sound
<1>2. /\ InOrder' /\ Layers(registry)' = Layers(registry)
      /\ \A d : Listed(d)' = Listed(d)
      /\ registry' = registry /\ ref' = ref /\ engine' = engine
  BY <1>1, SoundConstant DEF given
<1>3. /\ pc # "failed"
      /\ pc \in Named => digest = registry.tag
      /\ \A i \in DOMAIN pending : Listed(pending[i])
      /\ pc = "attachment" => Document[next].next \in Layers(registry)
      /\ pc = "fallback" => registry.scheme # "none"
      /\ pc = "each" => \E i \in DOMAIN pending : Proper(pending[i])
      /\ pc = "sub" =>
           \/ Document[next].kind = "attachment" /\ Document[next].next \in Layers(registry)
           \/ Document[next].kind # "attachment" /\ \E i \in DOMAIN pending : Proper(pending[i])
      /\ pc = "bundle" => next \in Layers(registry)
      /\ pc \in Bundled => Signed(bundle)
  BY DEF SoundInv, Sound
<1>4. /\ engine \in Engine /\ registry \in Registries /\ pc \in Place
      /\ pc \in Requests => token
      /\ pending \in Seq(Descriptor) /\ registry.attached \in Seq(Descriptor)
  BY VerificationAssumption DEF Inv, TypeOK, PlaceInv
<1>5. CASE Plan
  BY <1>2, <1>3, <1>5 DEF Plan, Fail, Goto, SoundInv, InOrder, Named, Place, Bundled, Requests
<1>6. CASE FetchToken
  BY <1>2, <1>3, <1>6 DEF FetchToken, Goto, SoundInv, InOrder, Named, Place, Bundled, Requests
<1>7. CASE FetchDigest
  <2> DEFINE status == IF registry.tag = NoDigest THEN "absent" ELSE "ok"
  <2>1. PICK a \in Answers(status, registry.tag, Reference) :
          /\ Remember(a)
          /\ IF a.status # "ok"
               THEN Fail(ReadCode(a.status, TRUE, "TRANSIENT")) /\ UNCHANGED digest
             ELSE IF a.body = NoDigest THEN Fail("TRANSIENT") /\ UNCHANGED digest
             ELSE IF a.body = BadDigest THEN Fail("VERIFY_FAILED") /\ UNCHANGED digest
             ELSE digest' = a.body /\ Goto("referrers")
    BY <1>7 DEF FetchDigest
  <2>2. a.status = "ok" /\ a.body = registry.tag
    BY <1>4, <1>7, <2>1, PlainAnswer, VerificationAssumption DEF FetchDigest, Requests, InOrder
  <2>3. digest' = registry.tag /\ pc' = "referrers" /\ pending' = pending
    BY <1>7, <2>1, <2>2, VerificationAssumption DEF FetchDigest, InOrder, Goto
  <2> QED
    BY <1>2, <1>3, <2>3 DEF SoundInv, Bundled
<1>8. CASE AskReferrers
  <2> DEFINE status == IF registry.api THEN "ok" ELSE "absent"
             made == {<<[type |-> "bundle", digest |-> d]>> : d \in Reference}
  <2>1. PICK a \in Answers(status, registry.attached, made) :
          /\ Remember(a)
          /\ IF a.status \in {"network", "error"} THEN Fail("TRANSIENT") /\ UNCHANGED next
             ELSE IF a.status # "ok" \/ FirstBundle(a.body) = 0
               THEN Goto("fallback") /\ UNCHANGED next
             ELSE IF a.body[FirstBundle(a.body)].digest \notin Digest
               THEN Fail("VERIFY_FAILED") /\ UNCHANGED next
             ELSE Goto("attachment") /\ next' = a.body[FirstBundle(a.body)].digest
    BY <1>8 DEF AskReferrers
  <2>2. pc = "referrers" /\ UNCHANGED <<digest, pending>>
    BY <1>8 DEF AskReferrers
  <2>3. a.status = status /\ a.body = registry.attached
    BY <1>4, <2>1, <2>2, PlainAnswer DEF Requests
  <2>4. digest' = registry'.tag
    BY <1>2, <1>3, <2>2 DEF Named, Place, Requests
  <2>5. CASE a.status # "ok" \/ FirstBundle(a.body) = 0
    <3>1. pc' = "fallback"
      BY <2>1, <2>3, <2>5 DEF Goto
    <3>2. registry'.scheme # "none"
      <4>1. ~registry.api \/ FirstBundle(registry.attached) = 0
        BY <2>3, <2>5
      <4> QED
        BY <1>1, <4>1 DEF InOrder, given
    <3> QED
      BY <1>2, <1>3, <2>2, <2>4, <3>1, <3>2 DEF SoundInv, Bundled
  <2>6. CASE a.status = "ok" /\ FirstBundle(a.body) # 0
    <3> DEFINE d == a.body[FirstBundle(a.body)]
    <3>1. Listed(d) /\ d.type = "bundle"
      BY <1>4, <2>3, <2>6, FirstBundleIs DEF Listed
    <3>2. Proper(d) /\ Document[d.digest].next \in Layers(registry)
      BY <3>1, ByTypeProper, ProperLayers
    <3>3. pc' = "attachment" /\ next' = d.digest
      BY <2>1, <2>6, <3>2 DEF Goto, Proper
    <3> QED
      BY <1>2, <1>3, <2>2, <2>4, <3>2, <3>3 DEF SoundInv, Bundled
  <2> QED
    BY <2>5, <2>6
<1>9. CASE ReadAttachment
  <2>1. PICK a \in Answers("ok", Held(next), Bodies) :
          /\ Remember(a)
          /\ IF a.status # "ok"
               THEN Fail(ReadCode(a.status, FALSE, "TRANSIENT")) /\ UNCHANGED next
             ELSE ReadLayer(a.body.next)
    BY <1>9 DEF ReadAttachment
  <2>2. pc = "attachment" /\ next \in Digest /\ UNCHANGED <<digest, pending>>
    BY <1>9 DEF ReadAttachment, Inv, PlaceInv
  <2>3. a.status = "ok" /\ a.body = Document[next]
    BY <1>4, <2>1, <2>2, PlainAnswer, Bodied DEF Requests
  <2>4. digest = registry.tag /\ a.body.next \in Layers(registry)
    BY <1>3, <2>2, <2>3 DEF Named, Place, Requests
  <2>5. ReadLayer(a.body.next) /\ a.body.next \in Digest
    BY <2>1, <2>3, <2>4, LayersSigned
  <2>6. pc' = "bundle" /\ next' = a.body.next
    BY <2>5, VerificationAssumption DEF ReadLayer, Goto
  <2> QED
    BY <1>2, <1>3, <2>2, <2>4, <2>6 DEF SoundInv, Bundled
<1>10. CASE AskFallback
  <2> DEFINE status == IF registry.scheme = "none" THEN "absent" ELSE "ok"
             made == {<<[type |-> "empty", digest |-> d]>> : d \in Reference}
  <2>1. PICK a \in Answers(status, registry.attached, made) :
          /\ Remember(a)
          /\ IF a.status # "ok"
               THEN Fail(ReadCode(a.status, TRUE, "NOT_FOUND")) /\ UNCHANGED <<pending, next>>
             ELSE IF registry.scheme = "index" \/ a.trouble # {}
               THEN pending' = a.body /\ Goto("each") /\ UNCHANGED next
               ELSE ReadLayer(registry.layer) /\ UNCHANGED pending
    BY <1>10 DEF AskFallback
  <2>2. pc = "fallback" /\ digest' = digest
    BY <1>10 DEF AskFallback
  <2>3. a.status = status /\ a.body = registry.attached /\ a.trouble = {}
    BY <1>4, <2>1, <2>2, PlainAnswer DEF Requests
  <2>4. digest = registry.tag /\ a.status = "ok" /\ registry.scheme # "none"
    <3>1. registry.scheme # "none" /\ digest = registry.tag
      BY <1>3, <2>2 DEF Named, Place, Requests
    <3> QED
      BY <2>3, <3>1
  <2>5. CASE registry.scheme = "index"
    <3>1. pending' = registry.attached /\ pc' = "each"
      BY <2>1, <2>3, <2>4, <2>5 DEF Goto
    <3>2. \A i \in DOMAIN pending' : Listed(pending'[i])
      BY <3>1 DEF Listed
    <3>3. PICK l : l \in Layers(registry)
      BY DEF InOrder
    <3>4. PICK i \in Bundles(registry) : l = Document[registry.attached[i].digest].next
      BY <2>5, <3>3 DEF Layers
    <3>5. \E j \in DOMAIN pending' : Proper(pending'[j])
      BY <3>1, <3>4 DEF Bundles, Proper
    <3> QED
      BY <1>2, <2>2, <2>4, <3>1, <3>2, <3>5 DEF SoundInv, Bundled, Proper, Listed
  <2>6. CASE registry.scheme # "index"
    <3>1. ReadLayer(registry.layer) /\ pending' = pending
      BY <2>1, <2>3, <2>4, <2>6
    <3>2. registry.layer \in Layers(registry) /\ registry.layer \in Digest
      <4>1. registry.scheme = "legacy"
        BY <1>4, <2>4, <2>6, VerificationAssumption
      <4>2. registry.layer \in Layers(registry)
        BY <4>1 DEF Layers
      <4> QED
        BY <2>4, <4>2, LayersSigned
    <3>3. pc' = "bundle" /\ next' = registry.layer
      BY <3>1, <3>2, VerificationAssumption DEF ReadLayer, Goto
    <3> QED
      BY <1>2, <1>3, <2>2, <2>4, <3>1, <3>2, <3>3 DEF SoundInv, Bundled
  <2> QED
    BY <2>5, <2>6
<1>11. CASE NextReferrer
  <2>1. pc = "each" /\ digest' = digest /\ digest = registry.tag
    BY <1>3, <1>11 DEF NextReferrer, Named, Place, Requests
  <2>2. PICK i \in DOMAIN pending : Proper(pending[i])
    BY <1>3, <2>1
  <2>3. pending # <<>> /\ pending' = Tail(pending)
    BY <1>11, <2>2 DEF NextReferrer
  <2>4. \A j \in DOMAIN pending' : Listed(pending'[j])
    BY <1>3, <1>4, <2>3
  <2> DEFINE d == Head(pending)
  <2>5. d = pending[1] /\ Listed(d) /\ d \in Descriptor
    BY <1>3, <1>4, <2>3
  <2>6. CASE Proper(d)
    <3>1. Document[d.digest].kind = "attachment" /\ Document[d.digest].next \in Layers(registry)
      BY <2>5, <2>6, ProperLayers DEF Proper
    <3>2. next' = d.digest /\ pc' \in {"attachment", "sub"}
      BY <1>11, <2>3, <2>6 DEF NextReferrer, Proper
    <3> QED
      BY <1>2, <2>1, <2>4, <3>1, <3>2 DEF SoundInv, Bundled, Listed
  <2>7. CASE ~Proper(d)
    <3>1. i # 1 /\ i - 1 \in DOMAIN pending' /\ pending'[i - 1] = pending[i]
      BY <1>4, <2>2, <2>3, <2>5, <2>7
    <3>2. \E j \in DOMAIN pending' : Proper(pending'[j])
      BY <2>2, <3>1
    <3>3. \/ pc' = "each"
          \/ pc' = "sub" /\ next' = d.digest /\ d.digest \in Digest /\ d.type # "index"
      BY <1>11, <2>1, <2>3, <2>5, <2>7, ByTypeProper DEF NextReferrer
    <3>4. pc' = "sub" => Document[next'].kind # "attachment"
      BY <2>7, <3>3 DEF Proper
    <3> QED
      BY <1>2, <2>1, <2>4, <3>2, <3>3, <3>4 DEF SoundInv, Bundled, Listed, Proper
  <2> QED
    BY <2>6, <2>7
<1>12. CASE ReadSub
  <2>1. PICK a \in Answers("ok", Held(next), Bodies) :
          /\ Remember(a)
          /\ IF a.status = "network" THEN Fail("TRANSIENT") /\ UNCHANGED next
             ELSE IF a.status # "ok" \/ a.body.kind # "attachment" \/ a.body.next = NoDigest
               THEN Goto("each") /\ UNCHANGED next
             ELSE ReadLayer(a.body.next)
    BY <1>12 DEF ReadSub
  <2>2. pc = "sub" /\ next \in Digest /\ UNCHANGED <<digest, pending>> /\ digest = registry.tag
    BY <1>3, <1>12 DEF ReadSub, Inv, PlaceInv, Named, Place, Requests
  <2>3. a.status = "ok" /\ a.body = Document[next]
    BY <1>4, <2>1, <2>2, PlainAnswer, Bodied DEF Requests
  <2>4. CASE Document[next].kind = "attachment"
    <3>1. a.body.next \in Layers(registry) /\ a.body.next \in Digest
      BY <1>3, <2>2, <2>3, <2>4, LayersSigned
    <3>2. pc' = "bundle" /\ next' = a.body.next
      BY <2>1, <2>3, <2>4, <3>1, VerificationAssumption DEF ReadLayer, Goto
    <3> QED
      BY <1>2, <1>3, <2>2, <3>1, <3>2 DEF SoundInv, Bundled
  <2>5. CASE Document[next].kind # "attachment"
    <3>1. pc' = "each"
      BY <2>1, <2>3, <2>5 DEF Goto
    <3> QED
      BY <1>2, <1>3, <2>2, <2>5, <3>1 DEF SoundInv, Bundled, Proper
  <2> QED
    BY <2>4, <2>5
<1>13. CASE ReadBundle
  <2>1. PICK a \in Answers("ok", Held(next), Bodies) :
          /\ Remember(a)
          /\ IF a.status # "ok"
               THEN Fail(ReadCode(a.status, FALSE, "NOT_FOUND")) /\ UNCHANGED <<bundle, next>>
               ELSE bundle' = a.body /\ next' = digest /\ Goto("root")
    BY <1>13 DEF ReadBundle
  <2>2. pc = "bundle" /\ next \in Digest /\ UNCHANGED <<digest, pending>> /\ digest = registry.tag
    BY <1>3, <1>13 DEF ReadBundle, Inv, PlaceInv, Named, Place, Requests
  <2>3. a.status = "ok" /\ a.body = Document[next]
    BY <1>4, <2>1, <2>2, PlainAnswer, Bodied DEF Requests
  <2>4. bundle' = Document[next] /\ pc' = "root" /\ Signed(Document[next])
    BY <1>3, <2>1, <2>2, <2>3, LayersSigned DEF Goto
  <2>5. Signed(bundle)'
    BY <1>2, <2>2, <2>4 DEF Signed, Identity
  <2> QED
    BY <1>2, <1>3, <2>2, <2>4, <2>5 DEF SoundInv
<1>14. ASSUME pc \in {"root", "manifest", "config", "trust", "verify", "engine"}
       PROVE  /\ digest = registry.tag /\ Signed(bundle)
              /\ UNCHANGED <<digest, bundle, pending>> => Signed(bundle)'
              /\ UNCHANGED <<digest, bundle, pending>> /\ pc' \in Bundled => SoundInv'
  <2>1. digest = registry.tag /\ Signed(bundle)
    BY <1>3, <1>14 DEF Bundled, Named, Place, Requests
  <2>2. UNCHANGED <<digest, bundle, pending>> => Signed(bundle)'
    BY <1>2, <2>1 DEF Signed, Identity
  <2> QED
    BY <1>2, <1>3, <2>1, <2>2 DEF SoundInv, Bundled
<1>15. CASE ReadRoot
  <2>1. PICK a \in Answers("ok", Held(next), Bodies) :
          /\ Remember(a)
          /\ IF HopCode(a) # "ok" THEN Fail(HopCode(a)) /\ UNCHANGED next
             ELSE Follow(a.body.next, IF a.body.kind = "index" THEN "manifest" ELSE "config")
    BY <1>15 DEF ReadRoot
  <2>2. /\ pc = "root" /\ next = digest /\ next \in Digest /\ digest = registry.tag
        /\ UNCHANGED <<digest, bundle, pending>>
    BY <1>14, <1>15 DEF ReadRoot, Inv, PlaceInv, ChainInv
  <2>3. a.status = "ok" /\ a.body = Document[next]
    BY <1>4, <2>1, <2>2, PlainAnswer, Bodied DEF Requests
  <2>4. a.body.next \in Digest
    BY <1>4, <2>2, <2>3, ChainWhole
  <2>5. pc' \in {"manifest", "config"}
    BY <2>1, <2>3, <2>4, VerificationAssumption DEF HopCode, Genuine, Follow, Goto
  <2> QED
    BY <1>14, <2>2, <2>5 DEF Bundled
<1>16. CASE ReadManifest
  <2>1. PICK a \in Answers("ok", Held(next), Bodies) :
          /\ Remember(a)
          /\ IF HopCode(a) # "ok" THEN Fail(HopCode(a)) /\ UNCHANGED next
             ELSE Follow(a.body.next, "config")
    BY <1>16 DEF ReadManifest
  <2>2. /\ pc = "manifest" /\ next \in Digest /\ digest = registry.tag
        /\ Document[digest].kind = "index" /\ next = Document[digest].next
        /\ UNCHANGED <<digest, bundle, pending>>
    BY <1>14, <1>16 DEF ReadManifest, Inv, PlaceInv, ChainInv
  <2>3. a.status = "ok" /\ a.body = Document[next]
    BY <1>4, <2>1, <2>2, PlainAnswer, Bodied DEF Requests
  <2>4. a.body.next \in Digest
    BY <1>4, <2>2, <2>3, ChainWhole
  <2>5. pc' = "config"
    BY <2>1, <2>3, <2>4, VerificationAssumption DEF HopCode, Genuine, Follow, Goto
  <2> QED
    BY <1>14, <2>2, <2>5 DEF Bundled
<1>17. CASE ReadConfig
  <2>1. PICK a \in Answers("ok", Held(next), Bodies) :
          /\ Remember(a)
          /\ IF HopCode(a) # "ok" THEN Fail(HopCode(a)) /\ UNCHANGED label
             ELSE label' = a.body.engine /\ Goto("trust")
    BY <1>17 DEF ReadConfig
  <2>2. pc = "config" /\ next \in Digest /\ UNCHANGED <<digest, bundle, pending>>
    BY <1>17 DEF ReadConfig, Inv, PlaceInv
  <2>3. a.status = "ok" /\ a.body = Document[next]
    BY <1>4, <2>1, <2>2, PlainAnswer, Bodied DEF Requests
  <2>4. pc' = "trust"
    BY <2>1, <2>3 DEF HopCode, Genuine, Goto
  <2> QED
    BY <1>14, <2>2, <2>4 DEF Bundled
<1>18. CASE FetchTrustedRoot
  <2>1. pc = "trust" /\ UNCHANGED <<digest, bundle, pending>> /\ pc' = "verify"
    BY <1>18 DEF FetchTrustedRoot, Goto
  <2> QED
    BY <1>14, <2>1 DEF Bundled
<1>19. CASE VerifyBundle
  <2>1. pc = "verify" /\ UNCHANGED <<digest, bundle, pending>> /\ pc' = "engine"
    BY <1>14, <1>19 DEF VerifyBundle, Goto
  <2> QED
    BY <1>14, <2>1 DEF Bundled
<1>20. CASE CheckImageEngine
  <2>1. pc = "engine" /\ UNCHANGED <<digest, bundle, pending>> /\ digest = registry.tag
    BY <1>14, <1>20 DEF CheckImageEngine
  <2>2. label = engine
    BY <1>4, <2>1, ChainWhole DEF Inv, ChainInv
  <2>3. pc' = "verified"
    BY <1>20, <2>2 DEF CheckImageEngine
  <2> QED
    BY <1>14, <2>1, <2>3 DEF Bundled
<1> QED
  BY <1>5, <1>6, <1>7, <1>8, <1>9, <1>10, <1>11, <1>12, <1>13, <1>15, <1>16, <1>17, <1>18, <1>19,
     <1>20 DEF Step

LEMMA SoundStutters == SoundInv /\ UNCHANGED vars => SoundInv'
<1> SUFFICES ASSUME SoundInv, UNCHANGED vars PROVE SoundInv'
  OBVIOUS
<1>1. Signed(bundle)' = Signed(bundle)
  BY DEF vars, given, Signed, Identity
<1>2. /\ Sound' = Sound /\ Layers(registry)' = Layers(registry)
      /\ \A i \in DOMAIN pending : Listed(pending[i])' = Listed(pending[i])
  BY SoundConstant DEF vars, Sound, Listed, given
<1>3. /\ pc' = pc /\ digest' = digest /\ registry' = registry /\ pending' = pending /\ next' = next
      /\ bundle' = bundle
  BY DEF vars, given
<1> QED
  BY <1>1, <1>2, <1>3 DEF SoundInv, Proper

LEMMA SoundInvariance == Spec => []SoundInv
<1>1. Inv /\ SoundInv /\ [Next]_vars => SoundInv'
  BY SoundKept, SoundStutters DEF Next, Done
<1> QED
  BY Invariance, SoundBegins, <1>1, PTL DEF Spec

-----------------------------------------------------------------------------
(* Theorems. *)

\* Every variable keeps its type, and the code is "ok" in a verified state
\* alone (verify-image.ts:24-62).
THEOREM TypeCorrect == Spec => []TypeOK
BY Invariance, PTL DEF Inv

\* Whatever the registry answers, an image that is pulled was signed under the
\* pinned ref, as itself, and is the one of the engine whose rules were given
\* (verify-image.ts:38-59, engine-label.ts:20-31, oci-registry.ts:281-288).
THEOREM WhatIsPulledWasSigned == Spec => []VerifiedIsSigned
<1>1. Inv => VerifiedIsSigned
  <2> SUFFICES ASSUME Inv, pc = "verified" PROVE VerifiedIsSigned
    BY DEF VerifiedIsSigned
  <2>1. /\ ref.kind # "branch" /\ digest \in Digest /\ bundle \in Bodies
        /\ Signed(bundle) /\ EngineOf(digest) = engine
    BY DEF Inv, PlaceInv, SignedInv, Named, Place, Bundled
  <2> QED
    BY <2>1 DEF VerifiedIsSigned, Signed
<1> QED
  BY Invariance, <1>1, PTL

\* A retry is suggested only where one could help (oci-registry.ts:50-59).
THEOREM RetriesHaveACause == Spec => []TransientForCause
BY Invariance, PTL DEF Inv

\* A sound image is never refused unless something went wrong on the way: not
\* for what else is attached to it, not for the scheme its registry uses, and
\* not for a token that ran out (oci-bundle.ts:56-59, :116-117, verify-image.ts:53).
THEOREM NoRefusalWithoutCause == Spec => []RefusedForCause
<1>1. SoundInv => RefusedForCause
  BY DEF SoundInv, Sound, RefusedForCause
<1> QED
  BY SoundInvariance, <1>1, PTL
=============================================================================
