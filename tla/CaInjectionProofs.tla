------------------------- MODULE CaInjectionProofs -------------------------
(***************************************************************************)
(* Theorems about CaInjection, for every file system, every set of faults  *)
(* and builds of any length.                                               *)
(***************************************************************************)
EXTENDS CaInjection, TLAPS

-----------------------------------------------------------------------------
(* The content algebra stays within Content. *)

\* Files the base image or a step writes, and no file, are contents.
LEMMA PlainContent ==
  /\ NoFile \in Content
  /\ \A b \in Body \cup {NoBody}, m \in Mark :
       [body |-> b, mark |-> m, recoded |-> FALSE] \in Content
  /\ Plain(BaseBody) \in Content
BY PlaceAssumption DEF Content, NoFile, Plain, Mark

\* Taking the injection in and out of a file gives a content.
LEMMA ContentClosed ==
  ASSUME NEW p, NEW c \in Content
  PROVE  /\ WithCA(p, c) \in Content
         /\ WithSlot(c) \in Content
         /\ Strip(p, c) \in Content
         /\ CutSlot(c) \in Content
BY DEF Content, WithCA, WithSlot, Strip, CutSlot, Mark

\* The files of a layer are files.
LEMMA LayerOfFiles ==
  ASSUME NEW W \in SUBSET Path, NEW r
  PROVE  LayerOf(W, r) \in SUBSET Path
BY DEF LayerOf

\* What a file of a mirror is written back as is a content.
LEMMA TakenBackType ==
  ASSUME TypeOK, NEW p \in Path
  PROVE  TakenBack(p) \in Content
<1>1. Restored(p) \in Content
  BY DEF TypeOK, Restored
<1> QED
  BY <1>1, ContentClosed DEF TakenBack

\* A write-back keeps the types of the root file system and of the layer.
LEMMA WriteBackType ==
  ASSUME TypeOK, NEW S \in SUBSET Path, WriteBack(S)
  PROVE  rootfs' \in [Path -> Content] /\ written' \subseteq Path
<1>1. rootfs' \in [Path -> Content]
  BY TakenBackType DEF TypeOK, WriteBack
<1>2. written' \subseteq written \cup S
  BY DEF WriteBack, LayerOf
<1> QED
  BY <1>1, <1>2 DEF TypeOK

\* What the sweep leaves of a file is a content.
LEMMA SweptType ==
  ASSUME TypeOK, NEW p \in Path
  PROVE  Swept(p) \in Content
<1>1. rootfs[p] \in Content
  BY DEF TypeOK
<1>2. CutSlot(rootfs[p]) \in Content
  BY <1>1, ContentClosed
<1> QED
  BY <1>1, <1>2, ContentClosed DEF Swept

\* Only directories that are there are mirrored, and only bundles take the CA.
LEMMA BundlesTake ==
  ASSUME BindTargets
  PROVE  \E B \in SUBSET (Dir \cap dirs), hit \in SUBSET Bundle :
           /\ binds' = B /\ \E R \in SUBSET (Dir \ B) : Scratch(B, R)
           /\ mirror' = [p \in Path |->
                IF DirOf[p] \notin B THEN NoFile
                ELSE IF p \in hit THEN WithCA(p, rootfs[p]) ELSE rootfs[p]]
           /\ baseline' = mirror'
<1>1. PICK T \in Targets :
      \E B \in IF "refuse" \in Faults THEN SUBSET DirsOf(T) ELSE {DirsOf(T)},
         skip \in IF "skip" \in Faults THEN SUBSET T ELSE {{}} :
        /\ binds' = B /\ Scratch(B, DirsOf(T) \ B)
        /\ mirror' = [p \in Path |->
             IF DirOf[p] \notin B THEN NoFile
             ELSE IF p \in T \ skip THEN WithCA(p, rootfs[p]) ELSE rootfs[p]]
  BY DEF BindTargets
<1>2. PICK B \in SUBSET DirsOf(T), skip \in SUBSET T :
        /\ binds' = B /\ Scratch(B, DirsOf(T) \ B)
        /\ mirror' = [p \in Path |->
             IF DirOf[p] \notin B THEN NoFile
             ELSE IF p \in T \ skip THEN WithCA(p, rootfs[p]) ELSE rootfs[p]]
  BY <1>1
<1>3. T \subseteq Bundle /\ DirsOf(T) \subseteq Dir \cap dirs
  BY PlaceAssumption DEF Targets, DirsOf
<1>4. baseline' = mirror'
  BY DEF BindTargets
<1>5. /\ B \in SUBSET (Dir \cap dirs) /\ T \ skip \in SUBSET Bundle
      /\ DirsOf(T) \ B \in SUBSET (Dir \ B)
  BY <1>3
<1> QED
  BY <1>2, <1>4, <1>5

\* Scratch directories made and taken back are of the kinds there are, and only
\* one that stands resists.
LEMMA ScratchType ==
  ASSUME TypeOK, NEW new \in SUBSET (Dir \cup {OwnCA}),
         NEW back \in SUBSET (Dir \cup {OwnCA}), Scratch(new, back)
  PROVE  scratch' \subseteq Dir \cup {OwnCA} /\ unremoved' \subseteq scratch'
<1>1. PICK left \in SUBSET back :
        /\ scratch' = (scratch \ back) \cup new \cup left
        /\ unremoved' = (unremoved \ (new \cup back)) \cup left
  BY DEF Scratch
<1> QED
  BY <1>1 DEF TypeOK

\* The created directories that go, and those the log keeps.
LEMMA TakesOutDirs ==
  ASSUME TakesOut
  PROVE  \E stays \in SUBSET TakenOut :
           /\ dirs' = dirs \ (TakenOut \ stays)
           /\ kept' = stays \cup {d \in made : where[d] = "linked"}
BY DEF TakesOut

-----------------------------------------------------------------------------
(* Type correctness. *)

\* The state of a RUN step keeps its type through every action of the wrapper,
\* the step and BuildKit.
THEOREM TypeCorrect == Spec => []TypeOK
<1>1. Init => TypeOK
  <2> SUFFICES ASSUME Init PROVE TypeOK
    OBVIOUS
  <2> USE PlaceAssumption, ExitAssumption, PlainContent
  <2>1. image \in [Path -> Content]
    BY DEF Init
  <2>2. expected \in [Path -> Body \cup {NoBody}]
    BY <2>1 DEF Init, Content
  <2>3. mirror \in [Path -> Content] /\ baseline \in [Path -> Content]
    BY DEF Init
  <2>4. /\ steps \in 0 .. MaxSteps /\ edits \in 0 .. MaxEdits
        /\ where \in [Dir -> {"home", "linked", "gone", "replaced"}]
    BY DEF Init
  <2>5. imageDirs \subseteq Dir /\ dirs \subseteq Dir /\ expDirs \subseteq Dir
    BY DEF Init
  <2> QED
    BY <2>1, <2>2, <2>3, <2>4, <2>5 DEF Init, TypeOK
<1>2. TypeOK /\ [Next]_vars => TypeOK'
  <2> SUFFICES ASSUME TypeOK, [Next]_vars
               PROVE  TypeOK'
    OBVIOUS
  <2> USE PlaceAssumption, ExitAssumption
  <2> USE DEF fileVars, mirrorVars, undoVars, stepVars
  <2>1. CASE BuildKitRuns
    <3>1. expected' \in [Path -> Body \cup {NoBody}]
      BY <2>1 DEF TypeOK, BuildKitRuns, Content
    <3>2. mirror' \in [Path -> Content] /\ baseline' \in [Path -> Content]
      BY <2>1, PlainContent DEF BuildKitRuns
    <3>3. where' \in [Dir -> {"home", "linked", "gone", "replaced"}]
      BY <2>1 DEF BuildKitRuns
    <3>4. steps' \in 0 .. MaxSteps /\ edits' \in 0 .. MaxEdits
      BY <2>1 DEF TypeOK, BuildKitRuns
    <3> QED
      BY <2>1, <3>1, <3>2, <3>3, <3>4 DEF TypeOK, BuildKitRuns
  <2>2. CASE RunWithoutCA
    BY <2>2 DEF TypeOK, RunWithoutCA
  <2>3. CASE LayerUnread
    BY <2>3 DEF TypeOK, LayerUnread
  <2>4. CASE PlaceAnchors
    BY <2>4, PlainContent, ContentClosed, ScratchType DEF TypeOK, PlaceAnchors
  <2>5. CASE BindTargets
    <3>1. PICK B \in SUBSET (Dir \cap dirs), hit \in SUBSET Bundle :
            /\ binds' = B /\ \E R \in SUBSET (Dir \ B) : Scratch(B, R)
            /\ mirror' = [p \in Path |->
                 IF DirOf[p] \notin B THEN NoFile
                 ELSE IF p \in hit THEN WithCA(p, rootfs[p]) ELSE rootfs[p]]
            /\ baseline' = mirror'
      BY <2>5, BundlesTake
    <3>2. mirror' \in [Path -> Content]
      BY <3>1, PlainContent, ContentClosed DEF TypeOK
    <3>3. DirsOf(Keystore) \subseteq Dir
      BY DEF DirsOf
    <3>4. scratch' \subseteq Dir \cup {OwnCA} /\ unremoved' \subseteq scratch'
      BY <3>1, ScratchType
    <3> QED
      BY <2>5, <3>1, <3>2, <3>3, <3>4 DEF TypeOK, BindTargets
  <2>6. ASSUME NEW d \in Dir, InjectKeystores(d) PROVE TypeOK'
    BY <2>6, ContentClosed, ScratchType
    DEF TypeOK, InjectKeystores, KeystoreMirror, KeystoresIn, Files
  <2>7. ASSUME NEW d \in Dir, RefuseKeystores(d) PROVE TypeOK'
    BY <2>7, ScratchType DEF TypeOK, RefuseKeystores
  <2>8. ASSUME NEW d \in Dir, HalfWritten(d) PROVE TypeOK'
    <3>1. binds \cup {d} \subseteq Dir /\ Scratch({}, binds \cup {d})
      BY <2>8 DEF TypeOK, HalfWritten
    <3>2. scratch' \subseteq Dir \cup {OwnCA} /\ unremoved' \subseteq scratch'
      BY <3>1, ScratchType
    <3> QED
      BY <2>8, <3>2 DEF TypeOK, HalfWritten
  <2>9. CASE PlaceNSSDB
    <3>1. PICK N \in SUBSET NssDir :
            /\ binds' = binds \cup N /\ Scratch(N, NssDir \ (N \cup binds))
            /\ mirror' = [p \in Path |->
                 IF DirOf[p] \notin N THEN mirror[p]
                 ELSE IF p \in SlotFile THEN WithSlot(rootfs[p]) ELSE rootfs[p]]
            /\ baseline' = [p \in Path |->
                 IF DirOf[p] \in N THEN mirror'[p] ELSE baseline[p]]
            /\ \E D \in {N, NssDir} :
                 made' = made \cup (D \ dirs) /\ dirs' = dirs \cup D
      BY <2>9 DEF PlaceNSSDB
    <3>2. mirror' \in [Path -> Content]
      BY <3>1, ContentClosed DEF TypeOK
    <3>3. baseline' \in [Path -> Content]
      BY <3>1, <3>2 DEF TypeOK
    <3>4. made' \subseteq Dir /\ dirs' \subseteq Dir
      BY <3>1 DEF TypeOK
    <3>5. scratch' \subseteq Dir \cup {OwnCA} /\ unremoved' \subseteq scratch'
      BY <3>1, ScratchType
    <3> QED
      BY <2>9, <3>1, <3>2, <3>3, <3>4, <3>5 DEF TypeOK, PlaceNSSDB
  <2>10. CASE SaveSpec
    BY <2>10 DEF TypeOK, SaveSpec
  <2>11. CASE Launch
    BY <2>11 DEF TypeOK, Launch
  <2>12. CASE LaunchFails
    BY <2>12 DEF TypeOK, LaunchFails
  <2>13. ASSUME NEW p \in Path, StepWrites(p) PROVE TypeOK'
    <3>1. PICK b \in Body \cup {NoBody}, m \in Mark :
            LET c == [body |-> b, mark |-> m, recoded |-> FALSE]
            IN /\ IF Mirrored(p)
                  THEN /\ mirror' = [mirror EXCEPT ![p] = c]
                       /\ UNCHANGED <<rootfs, written>>
                  ELSE /\ rootfs' = [rootfs EXCEPT ![p] = c] /\ UNCHANGED mirror
                       /\ written' = LayerOf(written \cup {p}, rootfs')
               /\ expected' = [expected EXCEPT ![p] = b]
               /\ dirs' = dirs \cup ({DirOf[p]} \ {None})
               /\ \/ expDirs' = expDirs
                  \/ expDirs' = expDirs \cup ({DirOf[p]} \ {None})
      BY <2>13 DEF StepWrites, Carried
    <3>2. mirror' \in [Path -> Content] /\ rootfs' \in [Path -> Content]
      BY <3>1, PlainContent DEF TypeOK
    <3>3. written' \subseteq Path
      BY <3>1, LayerOfFiles DEF TypeOK
    <3>4. /\ expected' \in [Path -> Body \cup {NoBody}]
          /\ dirs' \subseteq Dir /\ expDirs' \subseteq Dir
      BY <3>1 DEF TypeOK
    <3>5. edits' \in 0 .. MaxEdits /\ touched' \subseteq Path
      BY <2>13 DEF TypeOK, StepWrites
    <3> QED
      BY <2>13, <3>2, <3>3, <3>4, <3>5 DEF TypeOK, StepWrites
  <2>14. ASSUME NEW d \in Dir, StepMovesAway(d) PROVE TypeOK'
    BY <2>14, LayerOfFiles, PlainContent DEF TypeOK, StepMovesAway, Emptied, Files
  <2>15. ASSUME NEW d \in AnchorDir, StepInstalls(d) PROVE TypeOK'
    BY <2>15 DEF TypeOK, StepInstalls
  <2>16. ASSUME NEW d \in AnchorDir, StepRemovesDir(d) PROVE TypeOK'
    BY <2>16, LayerOfFiles, PlainContent DEF TypeOK, StepRemovesDir, Emptied, Files
  <2>17. CASE StepExits
    BY <2>17 DEF TypeOK, StepExits
  <2>18. ASSUME NEW d \in Dir, FinishBind(d) PROVE TypeOK'
    <3>1. \/ UNCHANGED <<rootfs, written, failed>>
          \/ WriteBack(Files(d)) /\ UNCHANGED failed
          \/ failed' = TRUE /\ UNCHANGED <<rootfs, written>>
      BY <2>18 DEF FinishBind
    <3>2. failed' \in BOOLEAN
      BY <3>1 DEF TypeOK
    <3>3. WriteBack(Files(d)) =>
            rootfs' \in [Path -> Content] /\ written' \subseteq Path
      BY WriteBackType DEF Files
    <3>4. rootfs' \in [Path -> Content] /\ written' \subseteq Path
      BY <3>1, <3>3 DEF TypeOK
    <3> QED
      BY <2>18, <3>2, <3>4, ScratchType DEF TypeOK, FinishBind
  <2>19. ASSUME NEW d \in Dir, FinishBindFails(d) PROVE TypeOK'
    BY <2>19, WriteBackType, ScratchType DEF TypeOK, FinishBindFails, Files
  <2>20. CASE StripLayer
    BY <2>20, LayerOfFiles, SweptType, ScratchType DEF TypeOK, StripLayer
  <2>21. CASE StripLayerFails
    BY <2>21, LayerOfFiles, SweptType, ScratchType DEF TypeOK, StripLayerFails
  <2>22. CASE RemoveCreatedDirs
    BY <2>22, TakesOutDirs DEF TypeOK, RemoveCreatedDirs, TakenOut
  <2>23. CASE WrapperKilled
    BY <2>23 DEF TypeOK, WrapperKilled
  <2>24. CASE BuildKitCommits
    BY <2>24 DEF TypeOK, BuildKitCommits
  <2>25. CASE BuildKitDiscards
    BY <2>25 DEF TypeOK, BuildKitDiscards
  <2>26. CASE UNCHANGED vars
    BY <2>26 DEF TypeOK, vars
  <2> QED
    BY <2>1, <2>2, <2>3, <2>4, <2>5, <2>6, <2>7, <2>8, <2>9, <2>10, <2>11, <2>12, <2>13, <2>14, <2>15, <2>16, <2>17, <2>18, <2>19, <2>20, <2>21, <2>22, <2>23, <2>24, <2>25, <2>26 DEF Next, Inject, StepEdits, Finish
<1> QED
  BY <1>1, <1>2, PTL DEF Spec

-----------------------------------------------------------------------------
(* No CA in the image.  CleanImage alone is not inductive: a layer is       *)
(* committed from rootfs, so what rootfs may hold at each point has to be    *)
(* said too.  The argument: a file out of the layer is as the image has it;  *)
(* what is in the layer was swept and read back, or undoing failed and the   *)
(* exit code says so; without an injection there is nothing to carry.        *)

Unmarked == \A p \in Path : rootfs[p].mark = "none"

LayerInv ==
  /\ \A p \in Path : image[p].mark = "none"
  /\ \A p \in Path : p \notin written => rootfs[p] = image[p]
  /\ pc = "inject" => written = {}
  /\ ~injected => mounted = {} /\ Unmarked
  /\ pc \in {"binds", "keystores", "save", "finish", "dirs"} => injected
  /\ pc = "dirs" /\ ~failed => Unmarked
  /\ pc = "exit" /\ code = 0 => Unmarked

\* Without an injection a step can write nothing that carries the CA.
LEMMA NothingToCarry ==
  ASSUME LayerInv, ~injected, NEW p, NEW m \in Carried(p)
  PROVE  m = "none"
BY DEF LayerInv, Unmarked, Carried, CertMark, View, Mirrored

\* Sweeping with nothing read back leaves no file of rootfs with a mark.
LEMMA SweptClean ==
  ASSUME LayerInv, Residue = {}, NEW p \in Path
  PROVE  Swept(p).mark = "none"
BY DEF LayerInv, Residue, Swept

\* The layer is accounted for at every point of a step.
THEOREM LayerInvariant == ASSUME Strict PROVE Spec => []LayerInv
<1>1. Init => LayerInv
  BY DEF Init, LayerInv, Unmarked, NoFile, Plain
<1>2. TypeOK /\ LayerInv /\ [Next]_vars => LayerInv'
  <2> SUFFICES ASSUME TypeOK, LayerInv, [Next]_vars
               PROVE  LayerInv'
    OBVIOUS
  <2> USE DEF fileVars, mirrorVars, undoVars, stepVars
  <2>1. CASE BuildKitRuns
    BY <2>1 DEF LayerInv, Unmarked, BuildKitRuns
  <2>2. CASE RunWithoutCA
    BY <2>2 DEF LayerInv, Unmarked, RunWithoutCA
  <2>3. CASE LayerUnread
    BY <2>3 DEF LayerInv, Unmarked, LayerUnread
  <2>4. CASE PlaceAnchors
    BY <2>4 DEF LayerInv, Unmarked, PlaceAnchors, TypeOK
  <2>5. CASE BindTargets
    BY <2>5 DEF LayerInv, Unmarked, BindTargets
  <2>6. ASSUME NEW d \in Dir, InjectKeystores(d) PROVE LayerInv'
    BY <2>6 DEF LayerInv, Unmarked, InjectKeystores
  <2>7. ASSUME NEW d \in Dir, RefuseKeystores(d) PROVE LayerInv'
    BY <2>7 DEF LayerInv, Unmarked, RefuseKeystores
  <2>8. ASSUME NEW d \in Dir, HalfWritten(d) PROVE LayerInv'
    BY <2>8 DEF LayerInv, Unmarked, HalfWritten
  <2>9. CASE PlaceNSSDB
    BY <2>9 DEF LayerInv, Unmarked, PlaceNSSDB
  <2>10. CASE SaveSpec
    BY <2>10 DEF LayerInv, Unmarked, SaveSpec
  <2>11. CASE Launch
    BY <2>11 DEF LayerInv, Unmarked, Launch
  <2>12. CASE LaunchFails
    BY <2>12 DEF LayerInv, Unmarked, LaunchFails
  <2>13. ASSUME NEW p \in Path, StepWrites(p) PROVE LayerInv'
    <3>1. PICK b \in Body \cup {NoBody}, m \in Carried(p) :
            LET c == [body |-> b, mark |-> m, recoded |-> FALSE]
            IN \/ UNCHANGED <<rootfs, written>>
               \/ /\ rootfs' = [rootfs EXCEPT ![p] = c]
                  /\ written' = LayerOf(written \cup {p}, rootfs')
      BY <2>13 DEF StepWrites
    <3>2. \A q \in Path : q \notin written' => rootfs'[q] = image[q]
      BY <3>1 DEF LayerInv, LayerOf, TypeOK
    <3>3. ~injected => Unmarked'
      BY <3>1, NothingToCarry DEF LayerInv, Unmarked, TypeOK
    <3> QED
      BY <2>13, <3>2, <3>3 DEF LayerInv, StepWrites
  <2>14. ASSUME NEW d \in Dir, StepMovesAway(d) PROVE LayerInv'
    BY <2>14 DEF LayerInv, Unmarked, StepMovesAway, Emptied, LayerOf, NoFile, Plain, Files
  <2>15. ASSUME NEW d \in AnchorDir, StepInstalls(d) PROVE LayerInv'
    BY <2>15 DEF LayerInv, Unmarked, StepInstalls
  <2>16. ASSUME NEW d \in AnchorDir, StepRemovesDir(d) PROVE LayerInv'
    BY <2>16 DEF LayerInv, Unmarked, StepRemovesDir, Emptied, LayerOf, NoFile, Plain, Files
  <2>17. CASE StepExits
    BY <2>17 DEF LayerInv, Unmarked, StepExits
  <2>18. ASSUME NEW d \in Dir, FinishBind(d) PROVE LayerInv'
    BY <2>18 DEF LayerInv, Unmarked, FinishBind, WriteBack, LayerOf
  <2>19. ASSUME NEW d \in Dir, FinishBindFails(d) PROVE LayerInv'
    BY <2>19 DEF LayerInv, Unmarked, FinishBindFails, WriteBack, LayerOf
  <2>20. CASE StripLayer
    BY <2>20, SweptClean DEF LayerInv, Unmarked, StripLayer, LayerOf, Strict, Swept
  <2>21. CASE StripLayerFails
    BY <2>21 DEF LayerInv, Unmarked, StripLayerFails, LayerOf, Swept
  <2>22. CASE RemoveCreatedDirs
    BY <2>22 DEF LayerInv, Unmarked, RemoveCreatedDirs
  <2>23. CASE WrapperKilled
    BY <2>23 DEF LayerInv, Unmarked, WrapperKilled, Killed
  <2>24. CASE BuildKitCommits
    BY <2>24 DEF LayerInv, Unmarked, BuildKitCommits, Strict
  <2>25. CASE BuildKitDiscards
    BY <2>25 DEF LayerInv, Unmarked, BuildKitDiscards
  <2>26. CASE UNCHANGED vars
    BY <2>26 DEF LayerInv, Unmarked, vars
  <2> QED
    BY <2>1, <2>2, <2>3, <2>4, <2>5, <2>6, <2>7, <2>8, <2>9, <2>10, <2>11, <2>12, <2>13, <2>14, <2>15, <2>16, <2>17, <2>18, <2>19, <2>20, <2>21, <2>22, <2>23, <2>24, <2>25, <2>26 DEF Next, Inject, StepEdits, Finish
<1> QED
  BY <1>1, <1>2, TypeCorrect, PTL DEF Spec

\* On a builder that fails on residue no committed layer carries the CA or a
\* slot for it, whatever the steps do and whatever fails.
THEOREM NoCAInTheImage == Spec => []CleanImage
<1>1. LayerInv => CleanImage
  BY DEF LayerInv, CleanImage
<1>2. CASE Strict
  BY <1>1, <1>2, LayerInvariant, PTL
<1>3. CASE ~Strict
  <2>1. CleanImage
    BY <1>3 DEF CleanImage
  <2> QED
    BY <2>1, PTL
<1> QED
  BY <1>2, <1>3

-----------------------------------------------------------------------------
(* Nothing is forgotten on the builder, whatever the constants.  A scratch   *)
(* directory that did not resist its removal is that of a mirror still to    *)
(* reconcile or the CA-only file's.                                          *)

Pending == scratch \ unremoved

ScratchInv ==
  /\ Pending \subseteq binds \cup {OwnCA}
  /\ pc = "binds" => binds = {}
  /\ pc = "inject" \/ ~injected => Pending = {} /\ binds = {}
  /\ pc = "dirs" => Pending = {}
  /\ pc \in {"binds", "keystores", "save", "finish"} => injected
  /\ pc = "exit" /\ code # Killed => Pending = {}

\* What is made is pending, and what is taken back is not, whether it went or
\* resisted.
LEMMA ScratchPending ==
  ASSUME NEW new, NEW back, Scratch(new, back)
  PROVE  Pending' \subseteq (Pending \ back) \cup new
<1>1. PICK left \in SUBSET back :
        /\ scratch' = (scratch \ back) \cup new \cup left
        /\ unremoved' = (unremoved \ (new \cup back)) \cup left
  BY DEF Scratch
<1> QED
  BY <1>1 DEF Pending

\* At every exit but a kill each scratch directory still on the builder is one
\* the wrapper tried to remove and logged: none is forgotten on any path
\* through inject, abandon and finish, whichever removals fail.
THEOREM ScratchIsReclaimed == Spec => []ScratchReclaimed
<1>1. Init => ScratchInv
  BY DEF Init, ScratchInv, Pending
<1>2. ScratchInv /\ [Next]_vars => ScratchInv'
  <2> SUFFICES ASSUME ScratchInv, [Next]_vars
               PROVE  ScratchInv'
    OBVIOUS
  <2> USE DEF fileVars, mirrorVars, undoVars, stepVars
  <2>1. CASE BuildKitRuns
    BY <2>1 DEF ScratchInv, Pending, BuildKitRuns
  <2>2. CASE RunWithoutCA
    BY <2>2 DEF ScratchInv, Pending, RunWithoutCA
  <2>3. CASE LayerUnread
    BY <2>3 DEF ScratchInv, Pending, LayerUnread
  <2>4. CASE PlaceAnchors
    BY <2>4, ScratchPending DEF ScratchInv, PlaceAnchors
  <2>5. CASE BindTargets
    <3>1. \E B \in SUBSET Dir : binds' = B /\ \E R \in SUBSET Dir : Scratch(B, R)
      BY <2>5, BundlesTake
    <3>2. Pending' \subseteq Pending \cup binds'
      BY <3>1, ScratchPending
    <3>3. pc = "binds" /\ pc' = "keystores" /\ UNCHANGED <<injected, code>>
      BY <2>5 DEF BindTargets
    <3> QED
      BY <3>2, <3>3 DEF ScratchInv
  <2>6. ASSUME NEW d \in Dir, InjectKeystores(d) PROVE ScratchInv'
    BY <2>6, ScratchPending DEF ScratchInv, InjectKeystores
  <2>7. ASSUME NEW d \in Dir, RefuseKeystores(d) PROVE ScratchInv'
    BY <2>7, ScratchPending DEF ScratchInv, RefuseKeystores
  <2>8. ASSUME NEW d \in Dir, HalfWritten(d) PROVE ScratchInv'
    BY <2>8, ScratchPending DEF ScratchInv, HalfWritten
  <2>9. CASE PlaceNSSDB
    <3>1. PICK N \in SUBSET NssDir :
            binds' = binds \cup N /\ Scratch(N, NssDir \ (N \cup binds))
      BY <2>9 DEF PlaceNSSDB
    <3>2. Pending' \subseteq Pending \cup N
      BY <3>1, ScratchPending
    <3>3. pc = "keystores" /\ pc' = "save" /\ UNCHANGED <<injected, code>>
      BY <2>9 DEF PlaceNSSDB
    <3> QED
      BY <3>1, <3>2, <3>3 DEF ScratchInv
  <2>10. CASE SaveSpec
    BY <2>10 DEF ScratchInv, Pending, SaveSpec
  <2>11. CASE Launch
    BY <2>11 DEF ScratchInv, Pending, Launch
  <2>12. CASE LaunchFails
    BY <2>12 DEF ScratchInv, Pending, LaunchFails, Killed
  <2>13. ASSUME NEW p \in Path, StepWrites(p) PROVE ScratchInv'
    BY <2>13 DEF ScratchInv, Pending, StepWrites
  <2>14. ASSUME NEW d \in Dir, StepMovesAway(d) PROVE ScratchInv'
    BY <2>14 DEF ScratchInv, Pending, StepMovesAway
  <2>15. ASSUME NEW d \in AnchorDir, StepInstalls(d) PROVE ScratchInv'
    BY <2>15 DEF ScratchInv, Pending, StepInstalls
  <2>16. ASSUME NEW d \in AnchorDir, StepRemovesDir(d) PROVE ScratchInv'
    BY <2>16 DEF ScratchInv, Pending, StepRemovesDir
  <2>17. CASE StepExits
    BY <2>17 DEF ScratchInv, Pending, StepExits
  <2>18. ASSUME NEW d \in Dir, FinishBind(d) PROVE ScratchInv'
    BY <2>18, ScratchPending DEF ScratchInv, FinishBind
  <2>19. ASSUME NEW d \in Dir, FinishBindFails(d) PROVE ScratchInv'
    BY <2>19, ScratchPending DEF ScratchInv, FinishBindFails
  <2>20. CASE StripLayer
    BY <2>20, ScratchPending DEF ScratchInv, StripLayer
  <2>21. CASE StripLayerFails
    BY <2>21, ScratchPending DEF ScratchInv, StripLayerFails
  <2>22. CASE RemoveCreatedDirs
    BY <2>22 DEF ScratchInv, Pending, RemoveCreatedDirs
  <2>23. CASE WrapperKilled
    BY <2>23 DEF ScratchInv, Pending, WrapperKilled, Killed
  <2>24. CASE BuildKitCommits
    BY <2>24 DEF ScratchInv, Pending, BuildKitCommits
  <2>25. CASE BuildKitDiscards
    BY <2>25 DEF ScratchInv, Pending, BuildKitDiscards
  <2>26. CASE UNCHANGED vars
    BY <2>26 DEF ScratchInv, Pending, vars
  <2> QED
    BY <2>1, <2>2, <2>3, <2>4, <2>5, <2>6, <2>7, <2>8, <2>9, <2>10, <2>11, <2>12, <2>13, <2>14, <2>15, <2>16, <2>17, <2>18, <2>19, <2>20, <2>21, <2>22, <2>23, <2>24, <2>25, <2>26 DEF Next, Inject, StepEdits, Finish
<1>3. ScratchInv => ScratchReclaimed
  BY DEF ScratchInv, Pending, ScratchReclaimed
<1> QED
  BY <1>1, <1>2, <1>3, PTL DEF Spec

-----------------------------------------------------------------------------
(* Only a layer undone without an error is committed.                        *)

FailureInv ==
  /\ failed => pc \in {"idle", "finish", "dirs", "exit"}
  /\ pc = "exit" /\ failed => code # 0

\* An error on the way out of the injection never reaches the image, whatever
\* the step's own exit code was.
THEOREM OnlyUndoneIsCommitted == Spec => CommitsOnlyUndone
<1>1. Init => FailureInv
  BY DEF Init, FailureInv
<1>2. TypeOK /\ FailureInv /\ [Next]_vars => FailureInv'
  <2> SUFFICES ASSUME TypeOK, FailureInv, [Next]_vars
               PROVE  FailureInv'
    OBVIOUS
  <2> USE DEF fileVars, mirrorVars, undoVars, stepVars
  <2>1. CASE BuildKitRuns
    BY <2>1 DEF FailureInv, BuildKitRuns
  <2>2. CASE RunWithoutCA
    BY <2>2 DEF FailureInv, RunWithoutCA
  <2>3. CASE LayerUnread
    BY <2>3 DEF FailureInv, LayerUnread
  <2>4. CASE PlaceAnchors
    BY <2>4 DEF FailureInv, PlaceAnchors
  <2>5. CASE BindTargets
    BY <2>5 DEF FailureInv, BindTargets
  <2>6. ASSUME NEW d \in Dir, InjectKeystores(d) PROVE FailureInv'
    BY <2>6 DEF FailureInv, InjectKeystores
  <2>7. ASSUME NEW d \in Dir, RefuseKeystores(d) PROVE FailureInv'
    BY <2>7 DEF FailureInv, RefuseKeystores
  <2>8. ASSUME NEW d \in Dir, HalfWritten(d) PROVE FailureInv'
    BY <2>8 DEF FailureInv, HalfWritten
  <2>9. CASE PlaceNSSDB
    BY <2>9 DEF FailureInv, PlaceNSSDB
  <2>10. CASE SaveSpec
    BY <2>10 DEF FailureInv, SaveSpec
  <2>11. CASE Launch
    BY <2>11 DEF FailureInv, Launch
  <2>12. CASE LaunchFails
    BY <2>12 DEF FailureInv, LaunchFails
  <2>13. ASSUME NEW p \in Path, StepWrites(p) PROVE FailureInv'
    BY <2>13 DEF FailureInv, StepWrites
  <2>14. ASSUME NEW d \in Dir, StepMovesAway(d) PROVE FailureInv'
    BY <2>14 DEF FailureInv, StepMovesAway
  <2>15. ASSUME NEW d \in AnchorDir, StepInstalls(d) PROVE FailureInv'
    BY <2>15 DEF FailureInv, StepInstalls
  <2>16. ASSUME NEW d \in AnchorDir, StepRemovesDir(d) PROVE FailureInv'
    BY <2>16 DEF FailureInv, StepRemovesDir
  <2>17. CASE StepExits
    BY <2>17 DEF FailureInv, StepExits
  <2>18. ASSUME NEW d \in Dir, FinishBind(d) PROVE FailureInv'
    BY <2>18 DEF FailureInv, FinishBind
  <2>19. ASSUME NEW d \in Dir, FinishBindFails(d) PROVE FailureInv'
    BY <2>19 DEF FailureInv, FinishBindFails
  <2>20. CASE StripLayer
    BY <2>20 DEF FailureInv, StripLayer
  <2>21. CASE StripLayerFails
    BY <2>21 DEF FailureInv, StripLayerFails
  <2>22. CASE RemoveCreatedDirs
    BY <2>22 DEF FailureInv, RemoveCreatedDirs
  <2>23. CASE WrapperKilled
    BY <2>23 DEF FailureInv, WrapperKilled, Killed
  <2>24. CASE BuildKitCommits
    BY <2>24 DEF FailureInv, BuildKitCommits
  <2>25. CASE BuildKitDiscards
    BY <2>25 DEF FailureInv, BuildKitDiscards
  <2>26. CASE UNCHANGED vars
    BY <2>26 DEF FailureInv, vars
  <2> QED
    BY <2>1, <2>2, <2>3, <2>4, <2>5, <2>6, <2>7, <2>8, <2>9, <2>10, <2>11, <2>12, <2>13, <2>14, <2>15, <2>16, <2>17, <2>18, <2>19, <2>20, <2>21, <2>22, <2>23, <2>24, <2>25, <2>26 DEF Next, Inject, StepEdits, Finish
<1>3. FailureInv /\ [Next]_vars =>
        [ValidExitCodes = {0} /\ (image' # image \/ imageDirs' # imageDirs) => ~failed]_vars
  <2> SUFFICES ASSUME FailureInv, [Next]_vars, ValidExitCodes = {0},
                      image' # image \/ imageDirs' # imageDirs
               PROVE  ~failed
    OBVIOUS
  <2>1. BuildKitCommits
    BY DEF Next, Inject, StepEdits, Finish, vars, fileVars, mirrorVars, undoVars, stepVars,
           BuildKitRuns, RunWithoutCA, LayerUnread, PlaceAnchors, BindTargets,
           InjectKeystores, RefuseKeystores, HalfWritten, PlaceNSSDB, SaveSpec, Launch,
           LaunchFails, StepWrites, StepMovesAway, StepInstalls, StepRemovesDir, Emptied,
           StepExits, FinishBind, FinishBindFails, StripLayer, StripLayerFails,
           RemoveCreatedDirs, WrapperKilled, BuildKitDiscards
  <2> QED
    BY <2>1 DEF FailureInv, BuildKitCommits
<1> QED
  BY <1>1, <1>2, <1>3, TypeCorrect, PTL DEF Spec, CommitsOnlyUndone

-----------------------------------------------------------------------------
(* The refinement: what is committed is what an unproxied run would commit.  *)
(* Of everything the model allows three things are excluded: an ancestor of  *)
(* a mounted directory replaced by a new directory, attributes no manifest   *)
(* records, and a spec that is not saved after a baseline that was not       *)
(* recaptured.  In each the write-back really differs from what the step     *)
(* made.                                                                     *)

Faithful ==
  /\ Strict /\ Unrecorded = {} /\ "replaced" \notin Moves
  /\ "recapture" \notin Faults \/ "save" \notin Faults

AsExpected == \A p \in Path : rootfs[p].body = expected[p]

\* A file the step sees through a mirror has its body there, and the one it
\* had in the image underneath; any other has its body in rootfs.  An
\* injection changes no body, and neither does undoing it.
BodyInv ==
  /\ pc \in {"inject", "binds", "keystores", "save"} => mounted = {}
  /\ pc = "inject" => binds = {}
  /\ pc \in {"inject", "binds", "keystores", "save", "launch"} =>
       /\ \A d \in Dir : where[d] = "home"
       /\ \A p \in Path : expected[p] = image[p].body /\ rootfs[p].body = image[p].body
       /\ \A p \in Path : DirOf[p] \in binds => mirror[p].body = image[p].body
  /\ pc # "idle" =>
       \A p \in Path : DirOf[p] \in binds => baseline[p].body = image[p].body
  /\ pc \in {"binds", "keystores", "save"} /\ "recapture" \notin Faults =>
       \A p \in Path : DirOf[p] \in binds => mirror[p] = baseline[p]
  /\ pc \in {"launch", "running", "finish"} =>
       /\ \A p \in Path : DirOf[p] \in binds \ mounted => mirror[p] = baseline[p]
       /\ \A p \in Path : Mirrored(p) /\ DirOf[p] \in binds => rootfs[p].body = image[p].body
       /\ \A d \in Dir : where[d] # "replaced"
  /\ pc \in {"launch", "running"} =>
       mounted \subseteq binds /\ \A p \in Path : View(p).body = expected[p]
  /\ pc = "finish" /\ ~failed =>
       \A p \in Path : IF DirOf[p] \in binds THEN View(p).body = expected[p]
                       ELSE rootfs[p].body = expected[p]
  /\ pc = "dirs" /\ ~failed => AsExpected
  /\ pc = "exit" /\ code = 0 => AsExpected

\* Nothing done to a file's mark changes its body.
LEMMA BodyKept ==
  ASSUME NEW p, NEW c \in Content
  PROVE  /\ WithCA(p, c).body = c.body
         /\ WithSlot(c).body = c.body
         /\ Strip(p, c).body = c.body
         /\ CutSlot(c).body = c.body
BY DEF Content, WithCA, WithSlot, Strip, CutSlot

\* A mirror is written back with the bodies it holds: a keystore restored from
\* the image is one whose body no one changed.
LEMMA TakenBackBody ==
  ASSUME TypeOK, BodyInv, pc # "idle", NEW p \in Path, DirOf[p] \in binds
  PROVE  TakenBack(p).body = mirror[p].body
<1>1. Restored(p) \in Content /\ Restored(p).body = mirror[p].body
  BY DEF TypeOK, BodyInv, Restored
<1>2. CutSlot(Restored(p)) \in Content /\ CutSlot(Restored(p)).body = mirror[p].body
  BY <1>1, ContentClosed, BodyKept
<1> QED
  BY <1>1, <1>2, BodyKept DEF TakenBack

\* The sweep keeps bodies.
LEMMA SweptBody ==
  ASSUME TypeOK, NEW p \in Path
  PROVE  Swept(p).body = rootfs[p].body
<1>1. rootfs[p] \in Content
  BY DEF TypeOK
<1>2. CutSlot(rootfs[p]) \in Content /\ CutSlot(rootfs[p]).body = rootfs[p].body
  BY <1>1, ContentClosed, BodyKept
<1> QED
  BY <1>1, <1>2, BodyKept DEF Swept

THEOREM BodyInvariant == ASSUME Faithful PROVE Spec => []BodyInv
<1> USE DEF fileVars, mirrorVars, undoVars, stepVars
<1>1. Init => BodyInv
  BY DEF Init, BodyInv, AsExpected, Mirrored
<1>2. TypeOK /\ LayerInv /\ BodyInv /\ [Next]_vars => BodyInv'
  <2> SUFFICES ASSUME TypeOK, LayerInv, BodyInv, [Next]_vars
               PROVE  BodyInv'
    OBVIOUS
  <2> USE PlaceAssumption
  <2>1. CASE BuildKitRuns
    BY <2>1 DEF BodyInv, AsExpected, Mirrored, View, BuildKitRuns
  <2>2. CASE RunWithoutCA
    BY <2>2 DEF BodyInv, AsExpected, Mirrored, View, RunWithoutCA
  <2>3. CASE LayerUnread
    BY <2>3 DEF BodyInv, AsExpected, Mirrored, View, LayerUnread
  <2>4. CASE PlaceAnchors
    BY <2>4 DEF BodyInv, AsExpected, Mirrored, View, PlaceAnchors, WithCA, NoFile, Plain, TypeOK
  <2>5. CASE BindTargets
    BY <2>5, BodyKept DEF BodyInv, AsExpected, Mirrored, View, BindTargets, TypeOK
  <2>6. ASSUME NEW d \in Dir, InjectKeystores(d) PROVE BodyInv'
    BY <2>6, BodyKept DEF BodyInv, AsExpected, Mirrored, View, InjectKeystores, KeystoreMirror, TypeOK
  <2>7. ASSUME NEW d \in Dir, RefuseKeystores(d) PROVE BodyInv'
    BY <2>7 DEF BodyInv, AsExpected, Mirrored, View, RefuseKeystores
  <2>8. ASSUME NEW d \in Dir, HalfWritten(d) PROVE BodyInv'
    BY <2>8 DEF BodyInv, AsExpected, Mirrored, View, HalfWritten
  <2>9. CASE PlaceNSSDB
    <3>1. PICK N \in SUBSET NssDir :
            /\ binds' = binds \cup N
            /\ mirror' = [p \in Path |->
                 IF DirOf[p] \notin N THEN mirror[p]
                 ELSE IF p \in SlotFile THEN WithSlot(rootfs[p]) ELSE rootfs[p]]
            /\ baseline' = [p \in Path |->
                 IF DirOf[p] \in N THEN mirror'[p] ELSE baseline[p]]
      BY <2>9 DEF PlaceNSSDB
    <3>2. /\ pc = "keystores" /\ pc' = "save"
          /\ UNCHANGED <<image, rootfs, mounted, where, expected>>
      BY <2>9 DEF PlaceNSSDB
    <3>3. \A p \in Path : DirOf[p] \in binds' => mirror'[p].body = image[p].body
      BY <3>1, <3>2, BodyKept DEF BodyInv, TypeOK
    <3>4. \A p \in Path : DirOf[p] \in binds' => baseline'[p].body = image[p].body
      BY <3>1, <3>2, <3>3 DEF BodyInv
    <3>5. "recapture" \notin Faults =>
            \A p \in Path : DirOf[p] \in binds' => mirror'[p] = baseline'[p]
      BY <3>1, <3>2 DEF BodyInv
    <3> QED
      BY <3>2, <3>3, <3>4, <3>5 DEF BodyInv
  <2>10. CASE SaveSpec
    BY <2>10 DEF BodyInv, AsExpected, Mirrored, View, SaveSpec, Faithful
  <2>11. CASE Launch
    BY <2>11 DEF BodyInv, AsExpected, Mirrored, View, Launch
  <2>12. CASE LaunchFails
    BY <2>12 DEF BodyInv, AsExpected, Mirrored, View, LaunchFails
  <2>13. ASSUME NEW p \in Path, StepWrites(p) PROVE BodyInv'
    BY <2>13 DEF BodyInv, AsExpected, Mirrored, View, StepWrites, TypeOK
  <2>14. ASSUME NEW d \in Dir, StepMovesAway(d) PROVE BodyInv'
    <3>1. /\ pc = "running"
          /\ UNCHANGED <<image, mirror, baseline, binds, mounted, pc>>
      BY <2>14 DEF StepMovesAway
    <3>2. /\ \A p \in Path : DirOf[p] = d => rootfs'[p].body = NoBody /\ expected'[p] = NoBody
          /\ \A p \in Path : DirOf[p] # d => /\ rootfs'[p] = rootfs[p]
                                             /\ expected'[p] = expected[p]
      BY <2>14 DEF StepMovesAway, Emptied, NoFile, Plain
    <3>3. PICK how \in {"linked", "gone"} : where' = [where EXCEPT ![d] = how]
      BY <2>14, ExitAssumption DEF StepMovesAway, Faithful
    <3>4. where'[d] = how /\ \A e \in Dir : e # d => where'[e] = where[e]
      BY <3>3 DEF TypeOK
    <3>5. \A p \in Path : Mirrored(p)' => Mirrored(p) /\ DirOf[p] # d
      BY <3>1, <3>3, <3>4 DEF Mirrored, TypeOK
    <3>6. \A p \in Path : DirOf[p] # d => Mirrored(p)' = Mirrored(p)
      BY <3>1, <3>4 DEF Mirrored, TypeOK
    <3>7. \A p \in Path : View(p)'.body = expected'[p]
      BY <3>1, <3>2, <3>5, <3>6 DEF BodyInv, View
    <3>8. \A e \in Dir : where'[e] # "replaced"
      BY <3>1, <3>3, <3>4 DEF BodyInv
    <3> QED
      BY <3>1, <3>2, <3>5, <3>7, <3>8 DEF BodyInv
  <2>15. ASSUME NEW d \in AnchorDir, StepInstalls(d) PROVE BodyInv'
    BY <2>15 DEF BodyInv, AsExpected, Mirrored, View, StepInstalls
  <2>16. ASSUME NEW d \in AnchorDir, StepRemovesDir(d) PROVE BodyInv'
    BY <2>16 DEF BodyInv, AsExpected, Mirrored, View, StepRemovesDir, Emptied, NoFile, Plain, TypeOK
  <2>17. CASE StepExits
    BY <2>17 DEF BodyInv, AsExpected, Mirrored, View, StepExits, LayerInv
  <2>18. ASSUME NEW d \in Dir, FinishBind(d) PROVE BodyInv'
    BY <2>18, TakenBackBody DEF BodyInv, AsExpected, Mirrored, View, FinishBind, WriteBack, Changed, StillThere, Files, Faithful, TypeOK
  <2>19. ASSUME NEW d \in Dir, FinishBindFails(d) PROVE BodyInv'
    BY <2>19 DEF BodyInv, AsExpected, Mirrored, View, FinishBindFails, WriteBack, Files, TypeOK
  <2>20. CASE StripLayer
    BY <2>20, SweptBody DEF BodyInv, AsExpected, Mirrored, View, StripLayer
  <2>21. CASE StripLayerFails
    BY <2>21 DEF BodyInv, AsExpected, Mirrored, View, StripLayerFails
  <2>22. CASE RemoveCreatedDirs
    BY <2>22 DEF BodyInv, AsExpected, Mirrored, View, RemoveCreatedDirs
  <2>23. CASE WrapperKilled
    BY <2>23 DEF BodyInv, AsExpected, Mirrored, View, WrapperKilled, Killed
  <2>24. CASE BuildKitCommits
    BY <2>24 DEF BodyInv, AsExpected, Mirrored, View, BuildKitCommits
  <2>25. CASE BuildKitDiscards
    BY <2>25 DEF BodyInv, AsExpected, Mirrored, View, BuildKitDiscards
  <2>26. CASE UNCHANGED vars
    BY <2>26 DEF BodyInv, AsExpected, Mirrored, View, vars
  <2> QED
    BY <2>1, <2>2, <2>3, <2>4, <2>5, <2>6, <2>7, <2>8, <2>9, <2>10, <2>11, <2>12, <2>13, <2>14, <2>15, <2>16, <2>17, <2>18, <2>19, <2>20, <2>21, <2>22, <2>23, <2>24, <2>25, <2>26 DEF Next, Inject, StepEdits, Finish
<1> QED
  BY <1>1, <1>2, TypeCorrect, LayerInvariant, PTL DEF Spec, Faithful

\* Under Faithful every step of the proxied builder is a step of the unproxied
\* one or none at all: a committed layer holds what the step made, and a
\* failed step commits nothing.
THEOREM ImplementsUnproxied == ASSUME Faithful PROVE Spec => Implements
<1> USE DEF fileVars, mirrorVars, undoVars, stepVars
<1>1. Init => Unproxied!Init
  <2> SUFFICES ASSUME Init PROVE Unproxied!Init
    OBVIOUS
  <2>1. \A p \in Path : image[p] \in {Plain(BaseBody), NoFile}
    BY DEF Init
  <2>2. \A p \in Path : Seen(p) = image[p].body /\ Seen(p) \in Body \cup {NoBody}
    BY <2>1, PlaceAssumption DEF Seen, Plain, NoFile
  <2> QED
    BY <2>2 DEF Init, Unproxied!Init
<1>2. TypeOK /\ TypeOK' /\ LayerInv /\ LayerInv' /\ BodyInv /\ [Next]_vars
        => [Unproxied!Next]_(Unproxied!vars)
  <2> SUFFICES ASSUME TypeOK, TypeOK', LayerInv, LayerInv', BodyInv, [Next]_vars
               PROVE  Unproxied!Next \/ UNCHANGED Unproxied!vars
    OBVIOUS
  <2>1. /\ \A p \in Path : Seen(p) = image[p].body
        /\ \A p \in Path : Seen(p)' = image'[p].body
    BY DEF LayerInv, Seen
  <2>2. CASE BuildKitRuns
    <3>1. Unproxied!Begin
      BY <2>1, <2>2 DEF BuildKitRuns, Unproxied!Begin
    <3> QED
      BY <3>1 DEF Unproxied!Next
  <2>3. CASE BuildKitCommits
    <3>1. pc = "exit" /\ code = 0 /\ image' = rootfs /\ pc' = "idle" /\ expected' = expected
      BY <2>3 DEF BuildKitCommits, Faithful, Strict
    <3>2. \A p \in Path : Seen(p)' = expected[p]
      BY <2>1, <3>1 DEF BodyInv, AsExpected
    <3>3. expected = [p \in Path |-> expected[p]]
      BY DEF TypeOK
    <3>4. Unproxied!Succeed
      BY <3>1, <3>2, <3>3 DEF Unproxied!Succeed
    <3> QED
      BY <3>4 DEF Unproxied!Next
  <2>4. CASE BuildKitDiscards
    <3>1. Unproxied!Fail
      BY <2>4 DEF BuildKitDiscards, Unproxied!Fail, Seen
    <3> QED
      BY <3>1 DEF Unproxied!Next
  <2>5. CASE pc # "idle" /\ pc' # "idle" /\ image' = image
    <3>1. Unproxied!Edit
      BY <2>5 DEF Unproxied!Edit, Seen, TypeOK
    <3> QED
      BY <3>1 DEF Unproxied!Next
  <2>6. CASE UNCHANGED vars
    BY <2>6 DEF vars, Unproxied!vars, Seen
  <2>7. BuildKitRuns \/ BuildKitCommits \/ BuildKitDiscards \/ UNCHANGED vars
          \/ (pc # "idle" /\ pc' # "idle" /\ image' = image)
    BY DEF Next, Inject, StepEdits, Finish,
         BuildKitRuns, RunWithoutCA, LayerUnread, PlaceAnchors, BindTargets, InjectKeystores, RefuseKeystores, HalfWritten, PlaceNSSDB, SaveSpec, Launch, LaunchFails, StepWrites, StepMovesAway, StepInstalls, StepRemovesDir, Emptied, StepExits, FinishBind, FinishBindFails, StripLayer, StripLayerFails, RemoveCreatedDirs, WrapperKilled
  <2> QED
    BY <2>2, <2>3, <2>4, <2>5, <2>6, <2>7
<1> QED
  BY <1>1, <1>2, TypeCorrect, LayerInvariant, BodyInvariant, PTL
  DEF Spec, Implements, Unproxied!Spec, Faithful

-----------------------------------------------------------------------------
(* What remains where residue is tolerated.  As for LayerInv, what rootfs    *)
(* may hold has to be said at each point; and that a slot is only ever in a  *)
(* pkcs11.txt, the one file the sweep cuts it out of.                        *)

Stuck == {"none", "sealed", "named"}
RootStuck == \A p \in Path : rootfs[p].mark \in Stuck

StuckInv ==
  /\ \A p \in Path : image[p].mark \in Stuck
  /\ \A p \in Path \ SlotFile :
       image[p].mark \notin SlotMark /\ rootfs[p].mark \notin SlotMark /\ mirror[p].mark \notin SlotMark
  /\ \A p \in Path : p \notin written => rootfs[p] = image[p]
  /\ pc = "inject" => written = {}
  /\ ~injected => mounted = {} /\ RootStuck
  /\ pc \in {"binds", "keystores", "save", "finish", "dirs"} => injected
  /\ pc = "dirs" /\ ~failed => RootStuck
  /\ pc = "exit" /\ code = 0 => RootStuck

\* No conversion brings a slot into a file that had none, but WithSlot.
LEMMA NoNewSlot ==
  ASSUME NEW p, NEW c \in Content, c.mark \notin SlotMark
  PROVE  /\ WithCA(p, c).mark \notin SlotMark
         /\ Strip(p, c).mark \notin SlotMark
         /\ CutSlot(c) = c
BY DEF Content, WithCA, Strip, CutSlot, SlotMark

\* What the sweep leaves of a file is stuck.
LEMMA SweptStuck ==
  ASSUME TypeOK, StuckInv, NEW p \in Path
  PROVE  Swept(p).mark \in Stuck
<1>1. rootfs[p] \in Content /\ rootfs[p].mark \in Mark
  BY DEF TypeOK, Content
<1>2. CASE p \notin written
  BY <1>2 DEF StuckInv, Swept
<1>3. CASE p \in written /\ p \in SlotFile
  <2>1. CutSlot(rootfs[p]).mark \in {"none", "cert", "sealed", "named"}
    BY <1>1 DEF CutSlot, Mark, Content
  <2> QED
    BY <1>3, <2>1 DEF Swept, Strip, Stuck
<1>4. CASE p \in written /\ p \notin SlotFile
  <2>1. rootfs[p].mark \in {"none", "cert", "sealed"}
    BY <1>1, <1>4 DEF StuckInv, Mark, SlotMark
  <2> QED
    BY <1>4, <2>1 DEF Swept, Strip, Stuck
<1> QED
  BY <1>2, <1>3, <1>4

\* Nor does the sweep put one into a file of another kind.
LEMMA SweptNoSlot ==
  ASSUME TypeOK, StuckInv, NEW p \in Path \ SlotFile
  PROVE  Swept(p).mark \notin SlotMark
BY NoNewSlot DEF TypeOK, StuckInv, Swept

\* Nor does the write-back of a mirror.
LEMMA WrittenBackNoSlot ==
  ASSUME TypeOK, StuckInv, NEW p \in Path \ SlotFile
  PROVE  TakenBack(p).mark \notin SlotMark
<1>1. Restored(p) \in Content /\ Restored(p).mark \notin SlotMark
  BY DEF TypeOK, StuckInv, Restored
<1> QED
  BY <1>1, NoNewSlot DEF TakenBack

\* Without an injection a step can write nothing but what the image has.
LEMMA StuckToCarry ==
  ASSUME StuckInv, ~injected, NEW p, NEW m \in Carried(p)
  PROVE  m \in Stuck
BY DEF StuckInv, RootStuck, Stuck, Carried, CertMark, View, Mirrored

\* Only a pkcs11.txt ever holds a slot, and what the sweep has been over holds no
\* mark but those no line-by-line removal can take out (inject.go finish).
THEOREM StuckInvariant == ASSUME ValidExitCodes = {0} PROVE Spec => []StuckInv
<1>1. Init => StuckInv
  <2> SUFFICES ASSUME Init PROVE StuckInv
    OBVIOUS
  <2>1. \A p \in Path : image[p].mark = "none" /\ mirror[p].mark = "none"
    BY DEF Init, NoFile, Plain
  <2> QED
    BY <2>1 DEF Init, StuckInv, RootStuck, Stuck, SlotMark
<1>2. TypeOK /\ StuckInv /\ [Next]_vars => StuckInv'
  <2> SUFFICES ASSUME TypeOK, StuckInv, [Next]_vars
               PROVE  StuckInv'
    OBVIOUS
  <2> USE DEF fileVars, mirrorVars, undoVars, stepVars
  <2>1. CASE BuildKitRuns
    <3>1. \A p \in Path : mirror'[p].mark = "none"
      BY <2>1 DEF BuildKitRuns, NoFile, Plain
    <3> QED
      BY <2>1, <3>1 DEF StuckInv, RootStuck, BuildKitRuns, SlotMark
  <2>2. CASE RunWithoutCA
    BY <2>2 DEF StuckInv, RootStuck, RunWithoutCA
  <2>3. CASE LayerUnread
    BY <2>3 DEF StuckInv, RootStuck, LayerUnread
  <2>4. CASE PlaceAnchors
    <3>1. \A p \in Path : rootfs'[p] = rootfs[p] \/ rootfs'[p].mark = "cert"
      BY <2>4 DEF PlaceAnchors, WithCA, NoFile, Plain
    <3>2. \A p \in Path : p \notin written' => rootfs'[p] = image[p]
      BY <2>4 DEF StuckInv, PlaceAnchors
    <3> QED
      BY <2>4, <3>1, <3>2 DEF StuckInv, PlaceAnchors, SlotMark
  <2>5. CASE BindTargets
    <3>1. \A p \in Path \ SlotFile : mirror'[p].mark \notin SlotMark
      BY <2>5, NoNewSlot DEF StuckInv, BindTargets, TypeOK, NoFile, Plain, SlotMark
    <3> QED
      BY <2>5, <3>1 DEF StuckInv, RootStuck, BindTargets
  <2>6. ASSUME NEW d \in Dir, InjectKeystores(d) PROVE StuckInv'
    <3>1. \A p \in Path \ SlotFile : mirror'[p].mark \notin SlotMark
      BY <2>6, NoNewSlot DEF StuckInv, InjectKeystores, KeystoreMirror, TypeOK
    <3> QED
      BY <2>6, <3>1 DEF StuckInv, RootStuck, InjectKeystores
  <2>7. ASSUME NEW d \in Dir, RefuseKeystores(d) PROVE StuckInv'
    BY <2>7 DEF StuckInv, RootStuck, RefuseKeystores
  <2>8. ASSUME NEW d \in Dir, HalfWritten(d) PROVE StuckInv'
    BY <2>8 DEF StuckInv, RootStuck, HalfWritten
  <2>9. CASE PlaceNSSDB
    <3>1. \A p \in Path \ SlotFile : mirror'[p].mark \notin SlotMark
      BY <2>9 DEF StuckInv, PlaceNSSDB
    <3> QED
      BY <2>9, <3>1 DEF StuckInv, RootStuck, PlaceNSSDB
  <2>10. CASE SaveSpec
    BY <2>10 DEF StuckInv, RootStuck, SaveSpec
  <2>11. CASE Launch
    BY <2>11 DEF StuckInv, RootStuck, Launch
  <2>12. CASE LaunchFails
    BY <2>12 DEF StuckInv, RootStuck, LaunchFails
  <2>13. ASSUME NEW p \in Path, StepWrites(p) PROVE StuckInv'
    <3>1. PICK b \in Body \cup {NoBody}, m \in Carried(p) :
            LET c == [body |-> b, mark |-> m, recoded |-> FALSE]
            IN \/ UNCHANGED <<rootfs, written>> /\ mirror' = [mirror EXCEPT ![p] = c]
               \/ /\ rootfs' = [rootfs EXCEPT ![p] = c] /\ UNCHANGED mirror
                  /\ written' = LayerOf(written \cup {p}, rootfs')
      BY <2>13 DEF StepWrites
    <3>2. \A q \in Path : q \notin written' => rootfs'[q] = image[q]
      BY <3>1 DEF StuckInv, LayerOf, TypeOK
    <3>3. p \notin SlotFile => m \notin SlotMark
      BY DEF Carried
    <3>4. \A q \in Path \ SlotFile : rootfs'[q].mark \notin SlotMark /\ mirror'[q].mark \notin SlotMark
      BY <3>1, <3>3 DEF StuckInv, TypeOK
    <3>5. ~injected => RootStuck'
      BY <3>1, StuckToCarry DEF StuckInv, RootStuck, TypeOK
    <3> QED
      BY <2>13, <3>2, <3>4, <3>5 DEF StuckInv, StepWrites
  <2>14. ASSUME NEW d \in Dir, StepMovesAway(d) PROVE StuckInv'
    BY <2>14 DEF StuckInv, RootStuck, Stuck, SlotMark, StepMovesAway, Emptied, LayerOf, NoFile, Plain, Files
  <2>15. ASSUME NEW d \in AnchorDir, StepInstalls(d) PROVE StuckInv'
    BY <2>15 DEF StuckInv, RootStuck, StepInstalls
  <2>16. ASSUME NEW d \in AnchorDir, StepRemovesDir(d) PROVE StuckInv'
    BY <2>16 DEF StuckInv, RootStuck, Stuck, SlotMark, StepRemovesDir, Emptied, LayerOf, NoFile, Plain, Files
  <2>17. CASE StepExits
    BY <2>17 DEF StuckInv, RootStuck, StepExits
  <2>18. ASSUME NEW d \in Dir, FinishBind(d) PROVE StuckInv'
    BY <2>18, WrittenBackNoSlot DEF StuckInv, RootStuck, FinishBind, WriteBack, LayerOf
  <2>19. ASSUME NEW d \in Dir, FinishBindFails(d) PROVE StuckInv'
    BY <2>19, WrittenBackNoSlot DEF StuckInv, RootStuck, FinishBindFails, WriteBack, LayerOf
  <2>20. CASE StripLayer
    <3>1. \A p \in Path : p \notin written' => rootfs'[p] = image[p]
      BY <2>20 DEF StuckInv, StripLayer, LayerOf, Swept
    <3>2. RootStuck' /\ \A p \in Path \ SlotFile : rootfs'[p].mark \notin SlotMark
      BY <2>20, SweptStuck, SweptNoSlot DEF RootStuck, StripLayer
    <3> QED
      BY <2>20, <3>1, <3>2 DEF StuckInv, StripLayer
  <2>21. CASE StripLayerFails
    <3>1. \A p \in Path : p \notin written' => rootfs'[p] = image[p]
      BY <2>21 DEF StuckInv, StripLayerFails, LayerOf, Swept
    <3>2. \A p \in Path \ SlotFile : rootfs'[p].mark \notin SlotMark
      BY <2>21, SweptNoSlot DEF StuckInv, StripLayerFails
    <3> QED
      BY <2>21, <3>1, <3>2 DEF StuckInv, StripLayerFails
  <2>22. CASE RemoveCreatedDirs
    BY <2>22 DEF StuckInv, RootStuck, RemoveCreatedDirs
  <2>23. CASE WrapperKilled
    BY <2>23 DEF StuckInv, RootStuck, WrapperKilled, Killed
  <2>24. CASE BuildKitCommits
    BY <2>24 DEF StuckInv, RootStuck, BuildKitCommits
  <2>25. CASE BuildKitDiscards
    BY <2>25 DEF StuckInv, RootStuck, BuildKitDiscards
  <2>26. CASE UNCHANGED vars
    BY <2>26 DEF StuckInv, RootStuck, vars
  <2> QED
    BY <2>1, <2>2, <2>3, <2>4, <2>5, <2>6, <2>7, <2>8, <2>9, <2>10, <2>11, <2>12, <2>13,
       <2>14, <2>15, <2>16, <2>17, <2>18, <2>19, <2>20, <2>21, <2>22, <2>23, <2>24, <2>25, <2>26
    DEF Next, Inject, StepEdits, Finish
<1> QED
  BY <1>1, <1>2, TypeCorrect, PTL DEF Spec

\* With fail-on-ca-residue off too, no copy the wrapper could have taken out and
\* no slot it could have cut is ever committed, as long as BuildKit commits only
\* what the wrapper let pass.
THEOREM OnlyTheStuckRemains == ASSUME ValidExitCodes = {0} PROVE Spec => []OnlyStuckRemains
<1>1. StuckInv => OnlyStuckRemains
  BY DEF StuckInv, OnlyStuckRemains, Stuck
<1> QED
  BY <1>1, StuckInvariant, PTL

-----------------------------------------------------------------------------
(* An untouched file stays out of the layer.  Undoing the injection has to   *)
(* give back exactly what the image has: two more facts are needed of every  *)
(* file, that nothing but the CA was ever re-encoded around nothing, and     *)
(* that what a mirror would be written back as is known before the step.     *)

\* A file is a PEM bundle or a keystore, by the format it was found in.
Apart == Bundle \cap Keystore = {}

\* Only the CA itself is re-encoded around no body.
Sane(c) == c.body = NoBody /\ c.recoded => c.mark = "cert"

SaneInv ==
  /\ \A p \in Path : Sane(image[p]) /\ Sane(rootfs[p]) /\ Sane(mirror[p])
  /\ pc = "keystores" => \A p \in Path : DirOf[p] \in binds => mirror[p].body = rootfs[p].body

\* The wrapper's conversions give files a build can have.
LEMMA SaneClosed ==
  ASSUME NEW p, NEW c \in Content, Sane(c)
  PROVE  /\ Sane(WithSlot(c)) /\ Sane(Strip(p, c)) /\ Sane(CutSlot(c))
         /\ p \notin Keystore \/ c.body # NoBody => Sane(WithCA(p, c))
BY DEF Content, Sane, WithSlot, Strip, CutSlot, WithCA

\* So do a build that writes one and an injection that starts one.
LEMMA SaneMade ==
  /\ Sane(NoFile) /\ (\A b : Sane(Plain(b))) /\ (\A p : Sane(WithCA(p, NoFile)))
  /\ \A b, m : Sane([body |-> b, mark |-> m, recoded |-> FALSE])
BY DEF Sane, NoFile, Plain, WithCA

\* So does a mirror's write-back.
LEMMA SaneWrittenBack ==
  ASSUME TypeOK, SaneInv, NEW p \in Path
  PROVE  Sane(TakenBack(p)) /\ Sane(Swept(p))
<1>1. Restored(p) \in Content /\ Sane(Restored(p)) /\ rootfs[p] \in Content /\ Sane(rootfs[p])
  BY DEF TypeOK, SaneInv, Restored
<1>2. /\ CutSlot(Restored(p)) \in Content /\ Sane(CutSlot(Restored(p)))
      /\ CutSlot(rootfs[p]) \in Content /\ Sane(CutSlot(rootfs[p]))
  BY <1>1, ContentClosed, SaneClosed
<1> QED
  BY <1>1, <1>2, SaneClosed DEF TakenBack, Swept

\* No file of the image, the root or a mirror is ever recoded without a body or a
\* slot, and a mirror made over a keystore starts as what it covers (mount.go).
THEOREM SaneInvariant == ASSUME Apart PROVE Spec => []SaneInv
<1>1. Init => SaneInv
  BY SaneMade DEF Init, SaneInv
<1>2. TypeOK /\ SaneInv /\ [Next]_vars => SaneInv'
  <2> SUFFICES ASSUME TypeOK, SaneInv, [Next]_vars
               PROVE  SaneInv'
    OBVIOUS
  <2> USE DEF fileVars, mirrorVars, undoVars, stepVars
  <2>1. CASE BuildKitRuns
    BY <2>1, SaneMade DEF SaneInv, BuildKitRuns
  <2>2. CASE RunWithoutCA
    BY <2>2 DEF SaneInv, RunWithoutCA
  <2>3. CASE LayerUnread
    BY <2>3 DEF SaneInv, LayerUnread
  <2>4. CASE PlaceAnchors
    BY <2>4, SaneMade DEF SaneInv, PlaceAnchors
  <2>5. CASE BindTargets
    <3>1. PICK hit \in SUBSET Bundle :
            mirror' = [p \in Path |->
              IF DirOf[p] \notin binds' THEN NoFile
              ELSE IF p \in hit THEN WithCA(p, rootfs[p]) ELSE rootfs[p]]
      BY <2>5, BundlesTake
    <3>2. \A p \in Path : Sane(mirror'[p])
      BY <3>1, SaneMade, SaneClosed DEF SaneInv, TypeOK, Apart
    <3>3. \A p \in Path : DirOf[p] \in binds' => mirror'[p].body = rootfs[p].body
      BY <3>1, BodyKept DEF TypeOK
    <3> QED
      BY <2>5, <3>2, <3>3 DEF SaneInv, BindTargets
  <2>6. ASSUME NEW d \in Dir, InjectKeystores(d) PROVE SaneInv'
    <3>1. PICK hit \in SUBSET KeystoresIn(d) : mirror' = KeystoreMirror(d, hit)
      BY <2>6 DEF InjectKeystores
    <3>2. /\ pc = "keystores" /\ UNCHANGED <<image, rootfs>> /\ binds' = binds \cup {d}
      BY <2>6 DEF InjectKeystores
    <3>3. ASSUME NEW p \in Path, DirOf[p] # d
          PROVE  Sane(mirror'[p]) /\ (DirOf[p] \in binds' => mirror'[p].body = rootfs[p].body)
      <4>1. mirror'[p] = mirror[p]
        BY <3>1, <3>3 DEF KeystoreMirror
      <4> QED
        BY <3>2, <3>3, <4>1 DEF SaneInv
    <3>4. ASSUME NEW p \in Path, DirOf[p] = d
          PROVE  Sane(mirror'[p]) /\ mirror'[p].body = rootfs[p].body
      <4>1. PICK c : /\ c = IF d \in binds THEN mirror[p] ELSE rootfs[p]
                     /\ mirror'[p] = IF p \in hit THEN WithCA(p, c) ELSE c
        BY <3>1, <3>4 DEF KeystoreMirror
      <4>2. c \in Content /\ Sane(c) /\ c.body = rootfs[p].body
        BY <3>2, <3>4, <4>1 DEF SaneInv, TypeOK
      <4>3. p \in hit => c.body # NoBody
        BY <4>2, <3>1 DEF KeystoresIn
      <4> QED
        BY <4>1, <4>2, <4>3, SaneClosed, BodyKept
    <3> QED
      BY <3>2, <3>3, <3>4 DEF SaneInv
  <2>7. ASSUME NEW d \in Dir, RefuseKeystores(d) PROVE SaneInv'
    BY <2>7 DEF SaneInv, RefuseKeystores
  <2>8. ASSUME NEW d \in Dir, HalfWritten(d) PROVE SaneInv'
    BY <2>8 DEF SaneInv, HalfWritten
  <2>9. CASE PlaceNSSDB
    <3>1. /\ pc' = "save" /\ UNCHANGED <<image, rootfs>>
          /\ \A p \in Path : mirror'[p] \in {mirror[p], rootfs[p], WithSlot(rootfs[p])}
      BY <2>9 DEF PlaceNSSDB
    <3>2. \A p \in Path : Sane(WithSlot(rootfs[p]))
      BY SaneClosed DEF SaneInv, TypeOK
    <3> QED
      BY <3>1, <3>2 DEF SaneInv
  <2>10. CASE SaveSpec
    BY <2>10 DEF SaneInv, SaveSpec
  <2>11. CASE Launch
    BY <2>11 DEF SaneInv, Launch
  <2>12. CASE LaunchFails
    BY <2>12 DEF SaneInv, LaunchFails
  <2>13. ASSUME NEW p \in Path, StepWrites(p) PROVE SaneInv'
    BY <2>13, SaneMade DEF SaneInv, StepWrites, TypeOK
  <2>14. ASSUME NEW d \in Dir, StepMovesAway(d) PROVE SaneInv'
    BY <2>14, SaneMade DEF SaneInv, StepMovesAway, Emptied
  <2>15. ASSUME NEW d \in AnchorDir, StepInstalls(d) PROVE SaneInv'
    BY <2>15 DEF SaneInv, StepInstalls
  <2>16. ASSUME NEW d \in AnchorDir, StepRemovesDir(d) PROVE SaneInv'
    BY <2>16, SaneMade DEF SaneInv, StepRemovesDir, Emptied
  <2>17. CASE StepExits
    BY <2>17 DEF SaneInv, StepExits
  <2>18. ASSUME NEW d \in Dir, FinishBind(d) PROVE SaneInv'
    BY <2>18, SaneWrittenBack DEF SaneInv, FinishBind, WriteBack
  <2>19. ASSUME NEW d \in Dir, FinishBindFails(d) PROVE SaneInv'
    BY <2>19, SaneWrittenBack DEF SaneInv, FinishBindFails, WriteBack
  <2>20. CASE StripLayer
    BY <2>20, SaneWrittenBack DEF SaneInv, StripLayer
  <2>21. CASE StripLayerFails
    BY <2>21, SaneWrittenBack DEF SaneInv, StripLayerFails
  <2>22. CASE RemoveCreatedDirs
    BY <2>22 DEF SaneInv, RemoveCreatedDirs
  <2>23. CASE WrapperKilled
    BY <2>23 DEF SaneInv, WrapperKilled
  <2>24. CASE BuildKitCommits
    BY <2>24 DEF SaneInv, BuildKitCommits
  <2>25. CASE BuildKitDiscards
    BY <2>25 DEF SaneInv, BuildKitDiscards
  <2>26. CASE UNCHANGED vars
    BY <2>26 DEF SaneInv, vars
  <2> QED
    BY <2>1, <2>2, <2>3, <2>4, <2>5, <2>6, <2>7, <2>8, <2>9, <2>10, <2>11, <2>12, <2>13,
       <2>14, <2>15, <2>16, <2>17, <2>18, <2>19, <2>20, <2>21, <2>22, <2>23, <2>24, <2>25, <2>26
    DEF Next, Inject, StepEdits, Finish
<1> QED
  BY <1>1, <1>2, TypeCorrect, PTL DEF Spec

\* A place where the injection put the CA's own file: the image has nothing.
AnchorLeft(p) == image[p] = NoFile /\ rootfs[p].body = NoBody /\ rootfs[p].mark = "cert"

UntouchedInv ==
  /\ pc = "inject" => remembered = {} /\ binds = {} /\ ~injected
  /\ pc = "binds" => remembered = {} /\ binds = {}
  /\ pc \in {"inject", "binds", "keystores", "save", "launch"} => touched = {}
  /\ pc \in {"inject", "binds", "keystores", "save", "launch", "running", "finish"} =>
       \A p \in Path \ touched : p \in written => AnchorLeft(p)
  /\ pc \in {"keystores", "save", "launch", "running", "finish"} =>
       \A p \in Path \ touched : DirOf[p] \in binds => TakenBack(p) = image[p]
  /\ pc = "dirs" /\ ~failed => written \subseteq touched
  /\ pc = "exit" /\ injected /\ ~failed /\ code # Killed => written \subseteq touched

\* What the image holds, with no mark or a stuck one, is what taking the CA out
\* of it gives.
LEMMA BackAsItWas ==
  ASSUME NEW p \in Path, NEW c \in Content, Sane(c), c.mark \in Stuck
  PROVE  /\ Strip(p, c) = c /\ CutSlot(c) = c
         /\ CutSlot(WithSlot(c)) = c
         /\ p \notin Keystore => Strip(p, WithCA(p, c)) = c /\ CutSlot(WithCA(p, c)) = WithCA(p, c)
BY DEF Content, Sane, Stuck, Strip, CutSlot, WithSlot, WithCA

\* A file that is nothing but the CA comes to nothing.
LEMMA NothingLeft ==
  ASSUME NEW p \in Path, NEW c \in Content, c.body = NoBody, c.mark = "cert"
  PROVE  /\ Strip(p, c) = NoFile /\ CutSlot(c) = c /\ WithSlot(c) = c
         /\ p \notin Keystore => WithCA(p, c) = c
BY DEF Content, Strip, CutSlot, WithSlot, WithCA, NoFile, Plain

\* Ahead of the step a file is as in the image, or an anchor.
LEMMA BeforeTheStep ==
  ASSUME UntouchedInv, StuckInv, pc \in {"binds", "keystores", "save"}, NEW p \in Path
  PROVE  rootfs[p] = image[p] \/ AnchorLeft(p)
BY DEF UntouchedInv, StuckInv

\* Whatever a mirror was made of, the image's file comes back out of it.
LEMMA MirrorTakenBack ==
  ASSUME TypeOK, SaneInv, StuckInv, NEW p \in Path, rootfs[p] = image[p] \/ AnchorLeft(p)
  PROVE  /\ Strip(p, rootfs[p]) = image[p] /\ Strip(p, CutSlot(rootfs[p])) = image[p]
         /\ Strip(p, CutSlot(WithSlot(rootfs[p]))) = image[p]
         /\ p \notin Keystore => /\ Strip(p, WithCA(p, rootfs[p])) = image[p]
                                 /\ Strip(p, CutSlot(WithCA(p, rootfs[p]))) = image[p]
<1>1. rootfs[p] \in Content /\ image[p] \in Content /\ Sane(image[p]) /\ image[p].mark \in Stuck
  BY DEF TypeOK, SaneInv, StuckInv
<1>2. CASE rootfs[p] = image[p]
  BY <1>1, <1>2, BackAsItWas
<1>3. CASE AnchorLeft(p)
  BY <1>1, <1>3, NothingLeft DEF AnchorLeft
<1> QED
  BY <1>2, <1>3

\* A file no longer in the layer once it is as in the image.
LEMMA WrittenBackUntouched ==
  ASSUME TypeOK, UntouchedInv, pc = "finish", NEW S \in SUBSET Path,
         \A p \in S : DirOf[p] \in binds, WriteBack(S),
         StuckInv, UNCHANGED <<image, touched>>
  PROVE  \A p \in Path \ touched : p \in written' => AnchorLeft(p)'
<1> SUFFICES ASSUME NEW p \in Path \ touched, p \in written'
             PROVE  AnchorLeft(p)'
  OBVIOUS
<1>1. p \in written \cup {q \in S : TakenBack(q) # rootfs[q]}
      /\ (rootfs'[p] # NoFile \/ image[p] # NoFile)
      /\ rootfs'[p] = IF p \in S THEN TakenBack(p) ELSE rootfs[p]
  BY DEF WriteBack, LayerOf
<1>2. p \in written => AnchorLeft(p)
  BY DEF UntouchedInv
<1>3. CASE p \in S
  <2>1. TakenBack(p) = image[p]
    BY <1>3 DEF UntouchedInv
  <2>2. p \in written
    BY <1>1, <2>1 DEF StuckInv
  <2> QED
    BY <1>1, <1>2, <1>3, <2>1, <2>2 DEF AnchorLeft
<1>4. CASE p \notin S
  BY <1>1, <1>2, <1>4 DEF AnchorLeft
<1> QED
  BY <1>3, <1>4

\* An untouched anchor comes to nothing in the sweep.
LEMMA SweptUntouched ==
  ASSUME TypeOK, NEW p \in Path, p \in written, AnchorLeft(p)
  PROVE  Swept(p) = NoFile /\ image[p] = NoFile
<1>1. rootfs[p] \in Content
  BY DEF TypeOK
<1> QED
  BY <1>1, NothingLeft DEF AnchorLeft, Swept

\* What a mirror is written back as after a step is what is restored after it.
LEMMA TakenBackNext ==
  ASSUME NEW p, NEW c, Restored(p)' = c
  PROVE  TakenBack(p)' = Strip(p, IF p \in NssTxt THEN CutSlot(c) ELSE c)
BY DEF TakenBack, Strip, CutSlot

\* What is taken back of an untouched file depends on nothing a step that
\* leaves its mirror alone can change.
LEMMA TakenBackStays ==
  ASSUME UNCHANGED <<image, mirror, baseline, remembered>>
  PROVE  \A p : TakenBack(p)' = TakenBack(p)
BY DEF TakenBack, Restored, Strip, CutSlot

\* At every place of a step, a file no step has touched is, or will be written back
\* as, the image's: mirrors by their baseline, anchors by the sweep.
THEOREM UntouchedInvariant ==
  ASSUME ValidExitCodes = {0}, Apart, "recapture" \notin Faults
  PROVE  Spec => []UntouchedInv
<1>1. Init => UntouchedInv
  BY DEF Init, UntouchedInv
<1>2. TypeOK /\ SaneInv /\ StuckInv /\ UntouchedInv /\ [Next]_vars => UntouchedInv'
  <2> SUFFICES ASSUME TypeOK, SaneInv, StuckInv, UntouchedInv, [Next]_vars
               PROVE  UntouchedInv'
    OBVIOUS
  <2> USE DEF fileVars, mirrorVars, undoVars, stepVars
  <2>1. CASE BuildKitRuns
    BY <2>1 DEF UntouchedInv, AnchorLeft, BuildKitRuns
  <2>2. CASE RunWithoutCA
    BY <2>2, TakenBackStays DEF UntouchedInv, AnchorLeft, RunWithoutCA
  <2>3. CASE LayerUnread
    BY <2>3 DEF UntouchedInv, AnchorLeft, LayerUnread
  <2>4. CASE PlaceAnchors
    <3>1. \A p \in written' : image[p] = NoFile /\ rootfs'[p] = WithCA(p, NoFile)
      BY <2>4, PlaceAssumption DEF StuckInv, PlaceAnchors
    <3>2. \A p : WithCA(p, NoFile).body = NoBody /\ WithCA(p, NoFile).mark = "cert"
      BY DEF WithCA, NoFile, Plain
    <3>3. pc = "inject" /\ pc' = "binds" /\ injected' /\ UNCHANGED <<image, remembered, touched>>
          /\ binds' = binds
      BY <2>4 DEF PlaceAnchors
    <3>4. binds = {}
      BY <3>3 DEF StuckInv, UntouchedInv
    <3> QED
      BY <3>1, <3>2, <3>3, <3>4 DEF UntouchedInv, AnchorLeft
  <2>5. CASE BindTargets
    <3>0. PICK hit \in SUBSET Bundle :
            mirror' = [p \in Path |->
              IF DirOf[p] \notin binds' THEN NoFile
              ELSE IF p \in hit THEN WithCA(p, rootfs[p]) ELSE rootfs[p]]
      BY <2>5, BundlesTake
    <3>1. /\ pc = "binds" /\ pc' = "keystores" /\ remembered = {} /\ touched = {}
          /\ UNCHANGED <<image, rootfs, written, remembered, touched>>
          /\ \A p \in Path : DirOf[p] \in binds' =>
               \/ mirror'[p] = rootfs[p]
               \/ p \in Bundle /\ mirror'[p] = WithCA(p, rootfs[p])
      BY <2>5, <3>0 DEF UntouchedInv, BindTargets
    <3>2. ASSUME NEW p \in Path, DirOf[p] \in binds' PROVE TakenBack(p)' = image'[p]
      <4>1. Restored(p)' = mirror'[p]
        BY <3>1 DEF Restored
      <4>2. rootfs[p] = image[p] \/ AnchorLeft(p)
        BY <3>1, BeforeTheStep
      <4>3. p \in Bundle => p \notin Keystore
        BY DEF Apart
      <4>4. CASE mirror'[p] = rootfs[p]
        <5>1. TakenBack(p)' = Strip(p, IF p \in NssTxt THEN CutSlot(rootfs[p]) ELSE rootfs[p])
          BY <4>1, <4>4, TakenBackNext
        <5> QED
          BY <3>1, <4>2, <5>1, MirrorTakenBack
      <4>5. CASE p \in Bundle /\ mirror'[p] = WithCA(p, rootfs[p])
        <5> DEFINE c == WithCA(p, rootfs[p])
        <5>1. TakenBack(p)' = Strip(p, IF p \in NssTxt THEN CutSlot(c) ELSE c)
          BY <4>1, <4>5, TakenBackNext
        <5> QED
          BY <3>1, <4>2, <4>3, <4>5, <5>1, MirrorTakenBack
      <4> QED
        BY <3>1, <3>2, <4>4, <4>5
    <3> QED
      BY <3>1, <3>2 DEF UntouchedInv, AnchorLeft
  <2>6. ASSUME NEW d \in Dir, InjectKeystores(d) PROVE UntouchedInv'
    <3>1. PICK hit \in SUBSET KeystoresIn(d) :
            /\ mirror' = KeystoreMirror(d, hit) /\ remembered' = remembered \cup hit
            /\ baseline' = mirror'
      BY <2>6 DEF InjectKeystores
    <3>2. /\ pc = "keystores" /\ pc' = pc /\ touched = {} /\ binds' = binds \cup {d}
          /\ UNCHANGED <<image, rootfs, written, touched>>
      BY <2>6 DEF UntouchedInv, InjectKeystores
    <3>3. ASSUME NEW p \in Path, DirOf[p] \in binds' PROVE TakenBack(p)' = image'[p]
      <4>1. rootfs[p] = image[p] \/ AnchorLeft(p)
        BY <3>2, BeforeTheStep
      <4>2. image[p] \in Content /\ Sane(image[p]) /\ image[p].mark \in Stuck
        BY DEF TypeOK, SaneInv, StuckInv
      <4>3. CASE p \in remembered'
        <5>1. Restored(p)' = image[p]
          BY <3>1, <3>2, <4>3 DEF Restored
        <5> QED
          BY <3>2, <4>2, <5>1, BackAsItWas DEF TakenBack, Strip, CutSlot
      <4>4. CASE p \notin remembered'
        <5>1. Restored(p)' = mirror'[p] /\ p \notin hit /\ p \notin remembered
          BY <3>1, <4>4 DEF Restored
        <5>2. CASE DirOf[p] \in binds
          <6>1. mirror'[p] = mirror[p] /\ Restored(p) = mirror[p]
            BY <3>1, <5>1, <5>2 DEF KeystoreMirror, Restored
          <6>2. TakenBack(p) = image[p]
            BY <3>2, <5>2 DEF UntouchedInv
          <6> QED
            BY <3>2, <5>1, <6>1, <6>2 DEF TakenBack, Strip, CutSlot
        <5>3. CASE DirOf[p] \notin binds
          <6>1. mirror'[p] = rootfs[p]
            BY <3>1, <3>2, <3>3, <5>1, <5>3 DEF KeystoreMirror
          <6>2. TakenBack(p)' = Strip(p, IF p \in NssTxt THEN CutSlot(rootfs[p]) ELSE rootfs[p])
            BY <5>1, <6>1, TakenBackNext
          <6> QED
            BY <3>2, <4>1, <6>2, MirrorTakenBack
        <5> QED
          BY <5>2, <5>3
      <4> QED
        BY <4>3, <4>4
    <3> QED
      BY <3>2, <3>3 DEF UntouchedInv, AnchorLeft
  <2>7. ASSUME NEW d \in Dir, RefuseKeystores(d) PROVE UntouchedInv'
    BY <2>7, TakenBackStays DEF UntouchedInv, AnchorLeft, RefuseKeystores
  <2>8. ASSUME NEW d \in Dir, HalfWritten(d) PROVE UntouchedInv'
    BY <2>8 DEF UntouchedInv, AnchorLeft, HalfWritten
  <2>9. CASE PlaceNSSDB
    <3>1. PICK N \in SUBSET NssDir :
            /\ binds' = binds \cup N
            /\ mirror' = [p \in Path |->
                 IF DirOf[p] \notin N THEN mirror[p]
                 ELSE IF p \in SlotFile THEN WithSlot(rootfs[p]) ELSE rootfs[p]]
            /\ baseline' = [p \in Path |->
                 IF DirOf[p] \in N THEN mirror'[p] ELSE baseline[p]]
      BY <2>9 DEF PlaceNSSDB
    <3>2. /\ pc = "keystores" /\ pc' = "save" /\ touched = {}
          /\ UNCHANGED <<image, rootfs, written, remembered, touched>>
      BY <2>9 DEF UntouchedInv, PlaceNSSDB
    <3>3. ASSUME NEW p \in Path, DirOf[p] \in binds' PROVE TakenBack(p)' = image'[p]
      <4>1. rootfs[p] = image[p] \/ AnchorLeft(p)
        BY <3>2, BeforeTheStep
      <4>2. CASE DirOf[p] \notin N
        <5>1. DirOf[p] \in binds /\ mirror'[p] = mirror[p] /\ baseline'[p] = baseline[p]
          BY <3>1, <3>3, <4>2
        <5>2. TakenBack(p) = image[p]
          BY <3>2, <5>1 DEF UntouchedInv
        <5> QED
          BY <3>2, <5>1, <5>2 DEF TakenBack, Restored, Strip, CutSlot
      <4>3. CASE DirOf[p] \in N
        <5>1. mirror'[p] = IF p \in SlotFile THEN WithSlot(rootfs[p]) ELSE rootfs[p]
          BY <3>1, <4>3
        <5>2. p \in SlotFile <=> p \in NssTxt
          BY <4>3 DEF NssTxt
        <5>3. Restored(p)' = image[p] \/ Restored(p)' = mirror'[p]
          BY <3>2 DEF Restored
        <5>4. image[p] \in Content /\ Sane(image[p]) /\ image[p].mark \in Stuck
          BY DEF TypeOK, SaneInv, StuckInv
        <5>5. CASE Restored(p)' = image[p]
          BY <3>2, <5>4, <5>5, BackAsItWas DEF TakenBack, Strip, CutSlot
        <5>6. CASE Restored(p)' = mirror'[p]
          <6>1. TakenBack(p)' = Strip(p, IF p \in NssTxt THEN CutSlot(mirror'[p]) ELSE mirror'[p])
            BY <5>6 DEF TakenBack, Strip, CutSlot
          <6>2. CASE p \in SlotFile
            BY <3>2, <4>1, <5>1, <5>2, <6>1, <6>2, MirrorTakenBack
          <6>3. CASE p \notin SlotFile
            BY <3>2, <4>1, <5>1, <5>2, <6>1, <6>3, MirrorTakenBack
          <6> QED
            BY <6>2, <6>3
        <5> QED
          BY <5>3, <5>5, <5>6
      <4> QED
        BY <4>2, <4>3
    <3> QED
      BY <3>2, <3>3 DEF UntouchedInv, AnchorLeft
  <2>10. CASE SaveSpec
    <3>1. /\ pc = "save" /\ pc' = "launch"
          /\ UNCHANGED <<image, rootfs, written, mirror, baseline, remembered, binds, touched>>
      BY <2>10 DEF SaveSpec
    <3> QED
      BY <3>1, TakenBackStays DEF UntouchedInv, AnchorLeft
  <2>11. CASE Launch
    BY <2>11, TakenBackStays DEF UntouchedInv, AnchorLeft, Launch
  <2>12. CASE LaunchFails
    BY <2>12, TakenBackStays DEF UntouchedInv, AnchorLeft, LaunchFails
  <2>13. ASSUME NEW p \in Path, StepWrites(p) PROVE UntouchedInv'
    <3>1. /\ pc = "running" /\ pc' = pc /\ touched' = touched \cup {p}
          /\ UNCHANGED <<image, baseline, remembered, binds>>
          /\ \A q \in Path \ {p} : mirror'[q] = mirror[q] /\ rootfs'[q] = rootfs[q]
          /\ written' \subseteq written \cup {p}
      BY <2>13 DEF StepWrites, LayerOf, TypeOK
    <3>2. \A q \in Path \ {p} : TakenBack(q)' = TakenBack(q)
      BY <3>1 DEF TakenBack, Restored, Strip, CutSlot
    <3> QED
      BY <3>1, <3>2 DEF UntouchedInv, AnchorLeft
  <2>14. ASSUME NEW d \in Dir, StepMovesAway(d) PROVE UntouchedInv'
    <3>1. /\ pc = "running" /\ pc' = pc /\ touched' = touched \cup Files(d)
          /\ UNCHANGED <<image, mirror, baseline, remembered, binds>>
          /\ \A q \in Path \ Files(d) : rootfs'[q] = rootfs[q]
          /\ written' \subseteq written \cup Files(d)
      BY <2>14 DEF StepMovesAway, Emptied, LayerOf, Files
    <3> QED
      BY <3>1, TakenBackStays DEF UntouchedInv, AnchorLeft
  <2>15. ASSUME NEW d \in AnchorDir, StepInstalls(d) PROVE UntouchedInv'
    BY <2>15, TakenBackStays DEF UntouchedInv, AnchorLeft, StepInstalls
  <2>16. ASSUME NEW d \in AnchorDir, StepRemovesDir(d) PROVE UntouchedInv'
    <3>1. /\ pc = "running" /\ pc' = pc /\ touched' = touched \cup Files(d)
          /\ UNCHANGED <<image, mirror, baseline, remembered, binds>>
          /\ \A q \in Path \ Files(d) : rootfs'[q] = rootfs[q]
          /\ written' \subseteq written \cup Files(d)
      BY <2>16 DEF StepRemovesDir, Emptied, LayerOf, Files
    <3> QED
      BY <3>1, TakenBackStays DEF UntouchedInv, AnchorLeft
  <2>17. CASE StepExits
    BY <2>17, TakenBackStays DEF UntouchedInv, AnchorLeft, StepExits
  <2>18. ASSUME NEW d \in Dir, FinishBind(d) PROVE UntouchedInv'
    <3>1. /\ pc = "finish" /\ pc' = pc /\ d \in binds /\ binds' \subseteq binds
          /\ UNCHANGED <<image, mirror, baseline, remembered, touched>>
          /\ \/ UNCHANGED <<rootfs, written>>
             \/ WriteBack(Files(d))
      BY <2>18 DEF FinishBind
    <3>2. CASE UNCHANGED <<rootfs, written>>
      BY <3>1, <3>2, TakenBackStays DEF UntouchedInv, AnchorLeft
    <3>3. CASE WriteBack(Files(d))
      <4>1. \A p \in Path \ touched : p \in written' => AnchorLeft(p)'
        BY <3>1, <3>3, WrittenBackUntouched DEF Files
      <4> QED
        BY <3>1, <4>1, TakenBackStays DEF UntouchedInv
    <3> QED
      BY <3>1, <3>2, <3>3
  <2>19. ASSUME NEW d \in Dir, FinishBindFails(d) PROVE UntouchedInv'
    <3>1. PICK S \in SUBSET Files(d) : WriteBack(S)
      BY <2>19 DEF FinishBindFails
    <3>2. /\ pc = "finish" /\ pc' = pc /\ d \in binds /\ binds' \subseteq binds
          /\ UNCHANGED <<image, mirror, baseline, remembered, touched>>
      BY <2>19 DEF FinishBindFails
    <3>3. \A p \in Path \ touched : p \in written' => AnchorLeft(p)'
      BY <3>1, <3>2, WrittenBackUntouched DEF Files
    <3> QED
      BY <3>2, <3>3, TakenBackStays DEF UntouchedInv
  <2>20. CASE StripLayer
    <3>1. /\ pc = "finish" /\ pc' = "dirs" /\ UNCHANGED <<image, touched>>
          /\ written' = LayerOf(written, rootfs') /\ rootfs' = [p \in Path |-> Swept(p)]
      BY <2>20 DEF StripLayer
    <3>2. ASSUME NEW p \in written' PROVE p \in touched
      <4>1. p \in written /\ p \in Path /\ (Swept(p) # NoFile \/ image[p] # NoFile)
        BY <3>1, <3>2 DEF LayerOf, TypeOK
      <4> QED
        BY <3>1, <4>1, SweptUntouched DEF UntouchedInv
    <3> QED
      BY <3>1, <3>2 DEF UntouchedInv
  <2>21. CASE StripLayerFails
    <3>1. pc' = "dirs" /\ failed'
      BY <2>21 DEF StripLayerFails
    <3> QED
      BY <3>1 DEF UntouchedInv
  <2>22. CASE RemoveCreatedDirs
    BY <2>22 DEF UntouchedInv, AnchorLeft, RemoveCreatedDirs
  <2>23. CASE WrapperKilled
    BY <2>23 DEF UntouchedInv, AnchorLeft, WrapperKilled, Killed
  <2>24. CASE BuildKitCommits
    BY <2>24 DEF UntouchedInv, AnchorLeft, BuildKitCommits
  <2>25. CASE BuildKitDiscards
    BY <2>25 DEF UntouchedInv, AnchorLeft, BuildKitDiscards
  <2>26. CASE UNCHANGED vars
    BY <2>26, TakenBackStays DEF UntouchedInv, AnchorLeft, vars
  <2> QED
    BY <2>1, <2>2, <2>3, <2>4, <2>5, <2>6, <2>7, <2>8, <2>9, <2>10, <2>11, <2>12, <2>13,
       <2>14, <2>15, <2>16, <2>17, <2>18, <2>19, <2>20, <2>21, <2>22, <2>23, <2>24, <2>25, <2>26
    DEF Next, Inject, StepEdits, Finish
<1> QED
  BY <1>1, <1>2, TypeCorrect, SaneInvariant, StuckInvariant, PTL DEF Spec

\* An untouched bundle or keystore costs the image no entry, even when its
\* neighbours in the mirror changed: whether or not residue fails the step, and as
\* long as every baseline was recaptured.
THEOREM TheUntouchedStayOut ==
  ASSUME ValidExitCodes = {0}, Apart, "recapture" \notin Faults
  PROVE  Spec => []UntouchedStaysOut
<1>1. UntouchedInv => UntouchedStaysOut
  BY DEF UntouchedInv, UntouchedStaysOut, Undone
<1> QED
  BY <1>1, UntouchedInvariant, PTL

-----------------------------------------------------------------------------
(* No directory is left behind.  What the injection made and the step did    *)
(* not make as well holds no file of the image or the step, neither in the   *)
(* overlay nor in a mirror, so it is empty once the layer is swept.          *)

\* A package's own directory is not one the injection makes (anchor.go's
\* anchorDirs and their owners).
OwnersApart == \A d \in AnchorDir : OwnerOf[d] \notin AnchorDir \cup NssDir

\* Nothing stands at p but what the injection put there.
Bare(p) ==
  /\ image[p].body = NoBody /\ rootfs[p].body = NoBody
  /\ DirOf[p] \in binds => mirror[p].body = NoBody

DirInv ==
  /\ made \subseteq AnchorDir \cup NssDir
  /\ \A p \in Path : image[p].body # NoBody => DirOf[p] \in imageDirs \cup {None}
  /\ \A p \in Path : rootfs[p].body # NoBody => DirOf[p] \in dirs \cup {None}
  /\ pc = "inject" => dirs = expDirs /\ ~injected /\ binds = {} /\ rootfs = image
  /\ pc \in {"inject", "binds", "keystores"} => imageDirs \subseteq dirs
  /\ pc \notin {"idle", "exit"} =>
       /\ expDirs \subseteq dirs /\ dirs \ expDirs \subseteq made
       /\ \A p \in Path : DirOf[p] \in dirs \ expDirs => Bare(p)
  /\ NoDirLeftBehind

\* The wrapper's conversions leave nothing where nothing stands.
LEMMA BareKept ==
  ASSUME NEW p, NEW c \in Content, c.body = NoBody
  PROVE  WithCA(p, c).body = NoBody /\ WithSlot(c).body = NoBody
         /\ Strip(p, c).body = NoBody /\ CutSlot(c).body = NoBody
BY BodyKept

\* Writing a mirror back puts nothing where nothing stands, and files only into
\* a directory that is there.
LEMMA WritesBackBare ==
  ASSUME TypeOK, NEW p \in Path, Bare(p), DirOf[p] \in binds
  PROVE  TakenBack(p).body = NoBody
<1>1. Restored(p) \in Content /\ Restored(p).body = NoBody
  BY DEF Bare, Restored, TypeOK
<1>2. CutSlot(Restored(p)) \in Content /\ CutSlot(Restored(p)).body = NoBody
  BY <1>1, BareKept, ContentClosed
<1> QED
  BY <1>1, <1>2, BareKept DEF TakenBack

\* What writing some of one mirror's files back keeps of DirInv.
LEMMA WriteBackPlaced ==
  ASSUME TypeOK, DirInv, pc \notin {"idle", "exit"}, NEW d \in Dir, d \in binds,
         NEW S \in SUBSET Files(d), S # {} => StillThere(d), WriteBack(S)
  PROVE  /\ \A p \in Path : rootfs'[p].body # NoBody => DirOf[p] \in dirs \cup {None}
         /\ \A p \in Path : DirOf[p] \in dirs \ expDirs => rootfs'[p].body = NoBody
<1>1. \A p \in Path : rootfs'[p] = IF p \in S THEN TakenBack(p) ELSE rootfs[p]
  BY DEF WriteBack
<1>2. \A p \in S : p \in Path /\ DirOf[p] = d /\ d \in dirs
  BY DEF Files, StillThere
<1>3. ASSUME NEW p \in S, DirOf[p] \in dirs \ expDirs PROVE TakenBack(p).body = NoBody
  <2>1. p \in Path /\ DirOf[p] \in binds
    BY <1>2
  <2>2. Bare(p)
    BY <1>3, <2>1 DEF DirInv
  <2> QED
    BY <2>1, <2>2, WritesBackBare
<1> QED
  BY <1>1, <1>2, <1>3 DEF DirInv, Bare

\* Directories injection made and the step did not are empty once the sweep is
\* over, so its rmdir takes them (anchor.go removeCreatedDirs).
THEOREM DirInvariant == ASSUME Strict, Apart, OwnersApart PROVE Spec => []DirInv
<1>1. Init => DirInv
  BY DEF Init, DirInv, NoFile, Plain, NoDirLeftBehind, Undone
<1>2. TypeOK /\ SaneInv /\ LayerInv /\ DirInv /\ [Next]_vars => DirInv'
  <2> SUFFICES ASSUME TypeOK, SaneInv, LayerInv, DirInv, [Next]_vars
               PROVE  DirInv'
    OBVIOUS
  <2> USE PlaceAssumption
  <2> USE DEF fileVars, mirrorVars, undoVars, stepVars
  <2>1. CASE BuildKitRuns
    BY <2>1 DEF DirInv, Bare, NoDirLeftBehind, Undone, BuildKitRuns
  <2>2. CASE RunWithoutCA
    BY <2>2 DEF DirInv, Bare, NoDirLeftBehind, Undone, RunWithoutCA
  <2>3. CASE LayerUnread
    BY <2>3 DEF DirInv, Bare, NoDirLeftBehind, Undone, LayerUnread
  <2>4. CASE PlaceAnchors
    <3>1. PICK free \in SUBSET AnchorDir, placed \in SUBSET AnchorDir :
            /\ placed \subseteq free
            /\ rootfs' = [p \in Path |-> IF p \in {AnchorFile[d] : d \in placed}
                                         THEN WithCA(p, NoFile) ELSE rootfs[p]]
            /\ made' = free \ dirs /\ dirs' = dirs \cup free
      BY <2>4 DEF PlaceAnchors
    <3>2. /\ pc = "inject" /\ pc' = "binds"
          /\ UNCHANGED <<image, imageDirs, binds, mirror, expDirs>>
      BY <2>4 DEF PlaceAnchors
    <3>3. \A p \in Path : rootfs'[p].body # NoBody => rootfs[p].body # NoBody
      BY <3>1, BareKept, PlainContent DEF NoFile, Plain
    <3>4. dirs = expDirs /\ imageDirs \subseteq dirs /\ binds = {} /\ rootfs = image
      BY <3>2 DEF DirInv
    <3>5. ASSUME NEW p \in Path, DirOf[p] \in dirs' \ expDirs' PROVE Bare(p)'
      BY <3>1, <3>2, <3>3, <3>4, <3>5 DEF DirInv, Bare
    <3> QED
      BY <3>1, <3>2, <3>3, <3>4, <3>5 DEF DirInv, NoDirLeftBehind, Undone
  <2>5. CASE BindTargets
    <3>1. PICK hit \in SUBSET Bundle :
            mirror' = [p \in Path |->
              IF DirOf[p] \notin binds' THEN NoFile
              ELSE IF p \in hit THEN WithCA(p, rootfs[p]) ELSE rootfs[p]]
      BY <2>5, BundlesTake
    <3>2. /\ pc = "binds" /\ pc' = "keystores"
          /\ UNCHANGED <<image, imageDirs, rootfs, dirs, made, expDirs>>
      BY <2>5 DEF BindTargets
    <3>3. ASSUME NEW p \in Path, DirOf[p] \in dirs \ expDirs PROVE Bare(p)'
      <4>1. Bare(p) /\ rootfs[p] \in Content
        BY <3>2, <3>3 DEF DirInv, TypeOK
      <4> QED
        BY <3>1, <3>2, <4>1, BareKept DEF Bare
    <3> QED
      BY <3>2, <3>3 DEF DirInv, NoDirLeftBehind, Undone
  <2>6. ASSUME NEW d \in Dir, InjectKeystores(d) PROVE DirInv'
    <3>1. PICK hit \in SUBSET KeystoresIn(d) : mirror' = KeystoreMirror(d, hit)
      BY <2>6 DEF InjectKeystores
    <3>2. /\ pc = "keystores" /\ pc' = pc /\ binds' = binds \cup {d}
          /\ UNCHANGED <<image, imageDirs, rootfs, dirs, made, expDirs>>
      BY <2>6 DEF InjectKeystores
    <3>3. ASSUME NEW p \in Path, DirOf[p] \in dirs \ expDirs PROVE Bare(p)'
      <4>1. Bare(p) /\ rootfs[p] \in Content /\ mirror[p] \in Content
        BY <3>2, <3>3 DEF DirInv, TypeOK
      <4> QED
        BY <3>1, <3>2, <4>1, BareKept DEF Bare, KeystoreMirror
    <3> QED
      BY <3>2, <3>3 DEF DirInv, NoDirLeftBehind, Undone
  <2>7. ASSUME NEW d \in Dir, RefuseKeystores(d) PROVE DirInv'
    BY <2>7 DEF DirInv, Bare, NoDirLeftBehind, Undone, RefuseKeystores
  <2>8. ASSUME NEW d \in Dir, HalfWritten(d) PROVE DirInv'
    BY <2>8 DEF DirInv, Bare, NoDirLeftBehind, Undone, HalfWritten
  <2>9. CASE PlaceNSSDB
    <3>0. PICK N \in SUBSET NssDir :
            /\ binds' = binds \cup N
            /\ mirror' = [p \in Path |->
                 IF DirOf[p] \notin N THEN mirror[p]
                 ELSE IF p \in SlotFile THEN WithSlot(rootfs[p]) ELSE rootfs[p]]
            /\ \E D \in {N, NssDir} : made' = made \cup (D \ dirs) /\ dirs' = dirs \cup D
      BY <2>9 DEF PlaceNSSDB
    <3>1. PICK D \in SUBSET NssDir :
            made' = made \cup (D \ dirs) /\ dirs' = dirs \cup D
      BY <3>0
    <3>2. /\ pc = "keystores" /\ pc' = "save"
          /\ UNCHANGED <<image, imageDirs, rootfs, expDirs>>
      BY <2>9 DEF PlaceNSSDB
    <3>3. ASSUME NEW p \in Path, DirOf[p] \in dirs' \ expDirs' PROVE Bare(p)'
      <4>1. Bare(p)
        <5>1. CASE DirOf[p] \in dirs
          BY <3>2, <3>3, <5>1 DEF DirInv
        <5>2. CASE DirOf[p] \notin dirs
          <6>1. DirOf[p] # None /\ DirOf[p] \notin imageDirs
            BY <3>1, <3>2, <3>3, <5>2 DEF DirInv
          <6> QED
            BY <3>2, <5>2, <6>1 DEF DirInv, SaneInv, Bare
        <5> QED
          BY <5>1, <5>2
      <4>2. rootfs[p] \in Content
        BY DEF TypeOK
      <4> QED
        BY <3>0, <3>2, <4>1, <4>2, BareKept DEF Bare
    <3> QED
      BY <3>1, <3>2, <3>3 DEF DirInv, NoDirLeftBehind, Undone
  <2>10. CASE SaveSpec
    BY <2>10 DEF DirInv, Bare, NoDirLeftBehind, Undone, SaveSpec
  <2>11. CASE Launch
    BY <2>11 DEF DirInv, Bare, NoDirLeftBehind, Undone, Launch
  <2>12. CASE LaunchFails
    BY <2>12 DEF DirInv, Bare, NoDirLeftBehind, Undone, LaunchFails
  <2>13. ASSUME NEW p \in Path, StepWrites(p) PROVE DirInv'
    <3>1. PICK b \in Body \cup {NoBody}, m \in Mark :
            LET c == [body |-> b, mark |-> m, recoded |-> FALSE]
            IN /\ b = NoBody => DirOf[p] \in dirs \cup {None}
               /\ \/ mirror' = [mirror EXCEPT ![p] = c] /\ rootfs' = rootfs
                  \/ rootfs' = [rootfs EXCEPT ![p] = c] /\ mirror' = mirror
               /\ dirs' = dirs \cup ({DirOf[p]} \ {None})
               /\ expDirs' = IF b = NoBody THEN expDirs
                             ELSE expDirs \cup ({DirOf[p]} \ {None})
      BY <2>13 DEF StepWrites, Carried
    <3>2. pc = "running" /\ pc' = pc /\ UNCHANGED <<image, imageDirs, binds, made>>
      BY <2>13 DEF StepWrites
    <3>3. ASSUME NEW q \in Path
          PROVE  /\ q # p => rootfs'[q] = rootfs[q] /\ mirror'[q] = mirror[q]
                 /\ rootfs'[p].body \in {rootfs[p].body, b}
                 /\ mirror'[p].body \in {mirror[p].body, b}
      BY <3>1 DEF TypeOK
    <3>4. DirOf[p] \in dirs' \cup {None}
      BY <3>1
    <3>5. ASSUME NEW q \in Path, DirOf[q] \in dirs' \ expDirs' PROVE Bare(q)'
      <4>1. DirOf[q] \in dirs \ expDirs
        BY <3>1, <3>5
      <4>2. Bare(q)
        BY <3>2, <4>1 DEF DirInv
      <4>3. q = p => b = NoBody
        BY <3>1, <3>5, <4>1 DEF TypeOK
      <4> QED
        BY <3>2, <3>3, <4>2, <4>3 DEF Bare
    <3>6. \A q \in Path : rootfs'[q].body # NoBody => DirOf[q] \in dirs' \cup {None}
      BY <3>1, <3>3, <3>4 DEF DirInv
    <3>7. expDirs' \subseteq dirs' /\ dirs' \ expDirs' \subseteq made
      BY <3>1, <3>2 DEF DirInv
    <3> QED
      BY <3>2, <3>5, <3>6, <3>7 DEF DirInv, NoDirLeftBehind, Undone
  <2>14. ASSUME NEW d \in Dir, StepMovesAway(d) PROVE DirInv'
    <3>1. /\ pc = "running" /\ pc' = pc /\ UNCHANGED <<image, imageDirs, made, binds, mirror>>
          /\ \A p \in Path : rootfs'[p] = IF DirOf[p] = d THEN NoFile ELSE rootfs[p]
          /\ \/ dirs' = dirs /\ expDirs' = expDirs \cup {d}
             \/ dirs' = dirs \ {d} /\ expDirs' = expDirs \ {d}
          /\ d \in dirs
      BY <2>14 DEF StepMovesAway, Emptied, DirInv
    <3> QED
      BY <3>1 DEF DirInv, Bare, NoFile, Plain, NoDirLeftBehind, Undone
  <2>15. ASSUME NEW d \in AnchorDir, StepInstalls(d) PROVE DirInv'
    BY <2>15 DEF DirInv, Bare, NoDirLeftBehind, Undone, StepInstalls
  <2>16. ASSUME NEW d \in AnchorDir, StepRemovesDir(d) PROVE DirInv'
    <3>1. /\ pc = "running" /\ pc' = pc /\ UNCHANGED <<image, imageDirs, made, binds, mirror>>
          /\ \A p \in Path : rootfs'[p] = IF DirOf[p] = d THEN NoFile ELSE rootfs[p]
          /\ dirs' = dirs \ {d} /\ expDirs' = expDirs \ {d}
      BY <2>16 DEF StepRemovesDir, Emptied
    <3> QED
      BY <3>1 DEF DirInv, Bare, NoFile, Plain, NoDirLeftBehind, Undone
  <2>17. CASE StepExits
    BY <2>17 DEF DirInv, Bare, NoDirLeftBehind, Undone, StepExits
  <2>18. ASSUME NEW d \in Dir, FinishBind(d) PROVE DirInv'
    <3>1. /\ pc = "finish" /\ pc' = pc /\ d \in binds /\ binds' = binds \ {d}
          /\ UNCHANGED <<image, imageDirs, dirs, mirror, made, expDirs>>
      BY <2>18 DEF FinishBind
    <3>2. \/ UNCHANGED rootfs
          \/ StillThere(d) /\ WriteBack(Files(d))
      BY <2>18 DEF FinishBind
    <3>3. /\ \A p \in Path : rootfs'[p].body # NoBody => DirOf[p] \in dirs \cup {None}
          /\ \A p \in Path : DirOf[p] \in dirs \ expDirs => rootfs'[p].body = NoBody
      BY <3>1, <3>2, WriteBackPlaced DEF DirInv, Bare
    <3> QED
      BY <3>1, <3>3 DEF DirInv, Bare, NoDirLeftBehind, Undone
  <2>19. ASSUME NEW d \in Dir, FinishBindFails(d) PROVE DirInv'
    <3>1. /\ pc = "finish" /\ pc' = pc /\ d \in binds /\ binds' = binds \ {d}
          /\ UNCHANGED <<image, imageDirs, dirs, mirror, made, expDirs>>
      BY <2>19 DEF FinishBindFails
    <3>2. PICK S \in SUBSET Files(d) : (S # {} => StillThere(d)) /\ WriteBack(S)
      BY <2>19 DEF FinishBindFails
    <3>3. /\ \A p \in Path : rootfs'[p].body # NoBody => DirOf[p] \in dirs \cup {None}
          /\ \A p \in Path : DirOf[p] \in dirs \ expDirs => rootfs'[p].body = NoBody
      BY <3>1, <3>2, WriteBackPlaced
    <3> QED
      BY <3>1, <3>3 DEF DirInv, Bare, NoDirLeftBehind, Undone
  <2>20. CASE StripLayer
    <3>1. /\ pc = "finish" /\ pc' = "dirs"
          /\ UNCHANGED <<image, imageDirs, dirs, binds, mirror, made, expDirs>>
          /\ \A p \in Path : rootfs'[p] = Swept(p)
      BY <2>20 DEF StripLayer
    <3> QED
      BY <3>1, SweptBody DEF DirInv, Bare, NoDirLeftBehind, Undone
  <2>21. CASE StripLayerFails
    <3>1. /\ pc = "finish" /\ pc' = "dirs"
          /\ UNCHANGED <<image, imageDirs, dirs, binds, mirror, made, expDirs>>
          /\ \A p \in Path : rootfs'[p] \in {Swept(p), rootfs[p]}
      BY <2>21 DEF StripLayerFails
    <3> QED
      BY <3>1, SweptBody DEF DirInv, Bare, NoDirLeftBehind, Undone
  <2>22. CASE RemoveCreatedDirs
    <3>1. /\ pc = "dirs" /\ pc' = "exit"
          /\ UNCHANGED <<image, imageDirs, rootfs, made, where, failed, injected, expDirs>>
      BY <2>22 DEF RemoveCreatedDirs
    <3>2. PICK stays \in SUBSET TakenOut :
            /\ dirs' = dirs \ (TakenOut \ stays)
            /\ kept' = stays \cup {d \in made : where[d] = "linked"}
      BY <2>22, TakesOutDirs DEF RemoveCreatedDirs
    <3>3. ASSUME NEW p \in Path, rootfs[p].body # NoBody
          PROVE  DirOf[p] \in dirs' \cup {None}
      <4>1. DirOf[p] \in dirs \cup {None}
        BY <3>3 DEF DirInv
      <4>2. rootfs[p] # NoFile
        BY <3>3 DEF NoFile, Plain
      <4> QED
        BY <3>2, <4>1, <4>2 DEF Files, TakenOut
    <3>4. ASSUME ~failed, NEW d \in dirs', d \notin expDirs
          PROVE  (d \in AnchorDir /\ OwnerOf[d] \in dirs') \/ d \in kept'
      <4>1. ASSUME NEW p \in Files(d) PROVE rootfs[p] = NoFile
        <5>1. p \in Path /\ DirOf[p] = d /\ d \in dirs \ expDirs
          BY <3>2, <3>4, <4>1 DEF Files
        <5>2. rootfs[p].body = NoBody /\ rootfs[p].mark = "none" /\ Sane(rootfs[p])
          BY <3>1, <3>4, <5>1 DEF DirInv, Bare, SaneInv, LayerInv, Unmarked
        <5>3. rootfs[p] \in Content
          BY <5>1 DEF TypeOK
        <5> QED
          BY <5>2, <5>3 DEF Sane, Content, NoFile, Plain
      <4>2. d \in made \cap dirs
        BY <3>1, <3>2, <3>4 DEF DirInv
      <4>3. CASE where[d] = "linked"
        BY <3>2, <4>2, <4>3
      <4>4. CASE where[d] # "linked" /\ ~Adopted(d)
        <5>1. d \in TakenOut
          BY <4>1, <4>2, <4>4 DEF TakenOut
        <5> QED
          BY <3>2, <3>4, <5>1
      <4>5. CASE Adopted(d)
        <5>1. OwnerOf[d] \in dirs /\ d \in AnchorDir
          BY <4>5 DEF Adopted
        <5>2. OwnerOf[d] \notin made
          BY <5>1 DEF DirInv, OwnersApart
        <5> QED
          BY <3>2, <5>1, <5>2 DEF TakenOut
      <4> QED
        BY <4>3, <4>4, <4>5
    <3>5. ASSUME NEW d \in made, where[d] # "home"
          PROVE  d \in kept' \/ where[d] \in {"gone", "replaced"}
      <4>1. d \in Dir /\ where[d] \in {"home", "linked", "gone", "replaced"}
        BY DEF TypeOK
      <4> QED
        BY <3>2, <3>5, <4>1
    <3>6. NoDirLeftBehind'
      BY <3>1, <3>4, <3>5 DEF NoDirLeftBehind, LeftBehind, Undone
    <3> QED
      BY <3>1, <3>3, <3>6 DEF DirInv, Bare
  <2>23. CASE WrapperKilled
    BY <2>23 DEF DirInv, NoDirLeftBehind, Undone, WrapperKilled, Killed
  <2>24. CASE BuildKitCommits
    BY <2>24 DEF DirInv, NoDirLeftBehind, Undone, BuildKitCommits
  <2>25. CASE BuildKitDiscards
    BY <2>25 DEF DirInv, NoDirLeftBehind, Undone, BuildKitDiscards
  <2>26. CASE UNCHANGED vars
    BY <2>26 DEF DirInv, Bare, NoDirLeftBehind, LeftBehind, Undone, vars
  <2> QED
    BY <2>1, <2>2, <2>3, <2>4, <2>5, <2>6, <2>7, <2>8, <2>9, <2>10, <2>11, <2>12, <2>13,
       <2>14, <2>15, <2>16, <2>17, <2>18, <2>19, <2>20, <2>21, <2>22, <2>23, <2>24, <2>25, <2>26
    DEF Next, Inject, StepEdits, Finish
<1> QED
  BY <1>1, <1>2, TypeCorrect, SaneInvariant, LayerInvariant, PTL DEF Spec

\* A directory the injection made goes with it, whatever failed on the way,
\* unless its owner is installed, the log says it could not be taken back, or
\* the step moved it and left nothing, or a directory of its own, at its path
\* (anchor.go:112-157).
THEOREM NoDirStays == ASSUME Strict, Apart, OwnersApart PROVE Spec => []NoDirLeftBehind
<1>1. DirInv => NoDirLeftBehind
  BY DEF DirInv
<1> QED
  BY <1>1, DirInvariant, PTL
=============================================================================
