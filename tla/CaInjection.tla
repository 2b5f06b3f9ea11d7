---------------------------- MODULE CaInjection ----------------------------
(***************************************************************************)
(* buildcage-runc: the wrapper BuildKit calls in place of runc, once per   *)
(* RUN step (docker/inspect/buildcage-runc).  It makes the step trust the  *)
(* proxy's CA without opening a file of the image for writing:             *)
(*                                                                         *)
(*   - the CA is left as an anchor file in each distribution's anchor      *)
(*     directory, made if the image lacks it;                              *)
(*   - each directory with a CA bundle or a JVM keystore is copied to a    *)
(*     scratch mirror, the CA goes into the copy, and the mirror is        *)
(*     mounted over the directory for the step;                            *)
(*   - Chromium's NSS database gets a slot in a mirror's pkcs11.txt.       *)
(*                                                                         *)
(* When the step has exited the wrapper reconciles every mirror with the   *)
(* directory it stood over, sweeps the step's layer (the overlay's upper   *)
(* directory), reads it back, takes back the directories it made, and      *)
(* exits; BuildKit commits the layer according to that exit code.          *)
(*                                                                         *)
(* A file is abstracted to who wrote it (its body), what it carries of the *)
(* injection (its mark), and whether the keystore codec re-encoded it.     *)
(* A body NoBody under a mark is a file made of nothing but the CA, such   *)
(* as an anchor: taking the CA out of it removes it.                       *)
(***************************************************************************)
EXTENDS Naturals, FiniteSets

CONSTANTS
  Path,           \* files, by where they stand in the container
  Dir,            \* the directories told apart
  None,           \* the place of a file in no directory of Dir
  DirOf,          \* [Path -> Dir \cup {None}]
  Bundle,         \* PEM bundles the CA is appended to
  Keystore,       \* JVM keystores the CA is inserted into
  SlotFile,       \* every pkcs11.txt
  Unrecorded,     \* attributes rsync carries and a manifest does not record:
                  \* ACLs, extended attributes, a directory's own mode
  NssDir,         \* the directory of Chromium's database, if any
  AnchorDir,      \* directories the distributions read anchors from
  AnchorFile,     \* [AnchorDir -> Path], buildcage.crt in each
  OwnerOf,        \* [AnchorDir -> Dir], the directory only its package ships
  OwnCA,          \* names the scratch directory of the CA-only file
  Body, NoBody,   \* what a step or the base image can write; nothing
  BaseBody,       \* what the base image wrote
  BaseFiles,      \* the sets of files a base image may have
  BaseDirs,       \* the sets of directories it may have
  FailOnResidue,  \* fail-on-ca-residue
  ValidExitCodes, \* the exit codes for which BuildKit commits the layer
  StepCodes,      \* the exit codes a step may end with
  Moves,          \* what a step may do to the ancestor of a directory mounted or made
  Faults,         \* the failures considered
  MaxSteps,       \* bound: RUN steps in the build
  MaxEdits        \* bound: what one step does to the file system

Mark == {"none", "cert", "sealed", "slot", "named"}
CertMark == {"cert", "sealed"}  \* a copy that can be stripped, one that cannot
SlotMark == {"slot", "named"}   \* the slot as appended, one that was edited

Content == [body : Body \cup {NoBody}, mark : Mark, recoded : BOOLEAN]
Plain(b) == [body |-> b, mark |-> "none", recoded |-> FALSE]
NoFile == Plain(NoBody)

Killed == 137
FaultKind == {"noca", "unread", "anchor", "refuse", "skip", "half", "recapture", "nss",
              "save", "launch", "finish", "sweep", "rmdir", "scratch", "kill"}

ASSUME PlaceAssumption ==
  /\ NoBody \notin Body /\ BaseBody \in Body
  /\ None \notin Dir /\ OwnCA \notin Dir
  /\ DirOf \in [Path -> Dir \cup {None}]
  /\ Bundle \subseteq Path /\ Keystore \subseteq Path /\ SlotFile \subseteq Path
  /\ Unrecorded \subseteq Path \ (Bundle \cup Keystore \cup SlotFile)
  /\ \A p \in Bundle \cup Keystore : DirOf[p] \in Dir
  /\ NssDir \subseteq Dir /\ AnchorDir \subseteq Dir
  /\ AnchorFile \in [AnchorDir -> Path] /\ OwnerOf \in [AnchorDir -> Dir]
  /\ \A d \in AnchorDir : DirOf[AnchorFile[d]] = d
  /\ BaseFiles \subseteq SUBSET Path /\ BaseDirs \subseteq SUBSET Dir

ASSUME ExitAssumption ==
  /\ FailOnResidue \in BOOLEAN
  /\ ValidExitCodes \subseteq Nat /\ 0 \in ValidExitCodes
  /\ Killed \notin ValidExitCodes /\ StepCodes \subseteq Nat
  /\ Moves \subseteq {"linked", "gone", "replaced"}
  /\ Faults \subseteq FaultKind
  /\ MaxSteps \in Nat /\ MaxEdits \in Nat

VARIABLES
  image,      \* [Path -> Content], the layers committed so far
  imageDirs,  \* the directories of Dir they hold
  rootfs,     \* [Path -> Content], the step's overlay, merged
  dirs,       \* the directories of Dir in it
  written,    \* the files in its upper directory: the step's layer
  mirror,     \* [Path -> Content], the scratch copies of mirrored directories
  baseline,   \* [Path -> Content], the mirrors as captured after injection
  binds,      \* in.binds: the mirrored directories not yet reconciled
  mounted,    \* the mirrors the step sees, once the spec is saved
  remembered, \* keystores whose pre-injection bytes are kept
  todo,       \* directories whose keystores are still to be injected
  made,       \* created: the directories the injection made
  scratch,    \* scratch directories on the builder, by what they were made for
  unremoved,  \* those of them that could not be removed, which the log says
  kept,       \* directories of made that the log says could not be taken back
  where,      \* [Dir -> where a mounted or made directory's path leads now]
  injected,   \* is there an injection to undo?
  failed,     \* has undoing it met an error that fails the step?
  code,       \* the exit code
  pc,         \* where the wrapper is
  expected,   \* history: the bodies an unproxied run of the step would leave
  expDirs,    \* history: the directories it would leave
  touched,    \* history: the files the step wrote, removed or moved
  steps, edits

fileVars == <<image, imageDirs, rootfs, dirs, written>>
mirrorVars == <<mirror, baseline, binds, mounted, remembered, todo>>
undoVars == <<made, scratch, unremoved, kept, where, injected, failed>>
stepVars == <<expected, expDirs, touched, edits>>
vars == <<fileVars, mirrorVars, undoVars, code, pc, stepVars, steps>>

Files(d) == {p \in Path : DirOf[p] = d}
DirsOf(S) == {DirOf[p] : p \in S} \ {None}
NssTxt == {p \in SlotFile : DirOf[p] \in NssDir}

\* What the step reads at p: the mirror's copy where one is mounted and the
\* path still leads there.
Mirrored(p) == DirOf[p] \in mounted /\ where[DirOf[p]] = "home"
View(p) == IF Mirrored(p) THEN mirror[p] ELSE rootfs[p]

-----------------------------------------------------------------------------
(* Taking the CA in and out of one file. *)

\* appendCA and insertIntoKeystore: the file gains a copy, and a keystore is
\* re-encoded around it.
WithCA(p, c) ==
  [body |-> c.body,
   mark |-> IF c.mark = "none" THEN "cert" ELSE c.mark,
   recoded |-> c.recoded \/ p \in Keystore]

\* appendNSSSlot
WithSlot(c) == IF c.mark = "none" THEN [c EXCEPT !.mark = "slot"] ELSE c

\* stripCA: removeCA for text, a rewrite for a keystore.  A file that held
\* nothing else is left empty and removed; a sealed copy stays.
Strip(p, c) ==
  IF c.mark # "cert" THEN c
  ELSE [body |-> c.body, mark |-> "none",
        recoded |-> c.body # NoBody /\ (c.recoded \/ p \in Keystore)]

\* removeNSSSlot and stripNSSSlotCopy: the appended bytes are cut, an entry
\* the step edited is not recognised and stays.
CutSlot(c) == IF c.mark = "slot" THEN [c EXCEPT !.mark = "none"] ELSE c

\* The upper directory after W was written and the merged view became r: a
\* file the layers below do not have leaves no entry once it is removed.
LayerOf(W, r) == {p \in W : r[p] # NoFile \/ image[p] # NoFile}

\* newScratchDir for each of new, removeScratchDir for each of back: one that
\* cannot be removed is logged and stays on the builder.
Scratch(new, back) ==
  \E left \in IF "scratch" \in Faults THEN SUBSET back ELSE {{}} :
    /\ scratch' = (scratch \ back) \cup new \cup left
    /\ unremoved' = (unremoved \ (new \cup back)) \cup left

-----------------------------------------------------------------------------
(* Before the step: inject. *)

Init ==
  /\ \E there \in BaseFiles :
       image = [p \in Path |-> IF p \in there THEN Plain(BaseBody) ELSE NoFile]
  /\ imageDirs \in BaseDirs
  /\ \A p \in Path : image[p] # NoFile => DirOf[p] \in imageDirs \cup {None}
  /\ rootfs = image /\ dirs = imageDirs /\ written = {}
  /\ mirror = [p \in Path |-> NoFile] /\ baseline = mirror
  /\ binds = {} /\ mounted = {} /\ remembered = {} /\ todo = {}
  /\ made = {} /\ scratch = {} /\ unremoved = {} /\ kept = {} /\ where = [d \in Dir |-> "home"]
  /\ injected = FALSE /\ failed = FALSE
  /\ code = 0 /\ pc = "idle"
  /\ expected = [p \in Path |-> image[p].body] /\ expDirs = imageDirs
  /\ touched = {} /\ steps = 0 /\ edits = 0

\* BuildKit mounts a fresh upper directory over the image and calls the
\* wrapper with `run`.
BuildKitRuns ==
  /\ pc = "idle" /\ steps < MaxSteps
  /\ pc' = "inject" /\ steps' = steps + 1
  /\ rootfs' = image /\ dirs' = imageDirs /\ written' = {}
  /\ mirror' = [p \in Path |-> NoFile] /\ baseline' = mirror'
  /\ binds' = {} /\ mounted' = {} /\ remembered' = {} /\ todo' = {}
  /\ made' = {} /\ scratch' = {} /\ unremoved' = {} /\ kept' = {} /\ where' = [d \in Dir |-> "home"]
  /\ injected' = FALSE /\ failed' = FALSE /\ code' = 0
  /\ expected' = [p \in Path |-> image[p].body] /\ expDirs' = imageDirs
  /\ touched' = {} /\ edits' = 0
  /\ UNCHANGED <<image, imageDirs>>

\* No CA to add, or a spec that does not load: the step runs as it is.
RunWithoutCA ==
  /\ pc = "inject" /\ "noca" \in Faults
  /\ pc' = "launch"
  /\ UNCHANGED <<fileVars, mirrorVars, undoVars, code, stepVars, steps>>

\* No overlay upper directory to read back later: the step does not run.
LayerUnread ==
  /\ pc = "inject" /\ "unread" \in Faults
  /\ pc' = "exit" /\ code' = 1
  /\ UNCHANGED <<fileVars, mirrorVars, undoVars, stepVars, steps>>

\* placeAnchors, then the scratch directory of the CA-only file.  A path where
\* something already stands is left alone; a write may fail once the
\* directories are made.
PlaceAnchors ==
  /\ pc = "inject"
  /\ pc' = "binds" /\ injected' = TRUE
  /\ LET free == {d \in AnchorDir : rootfs[AnchorFile[d]] = NoFile}
     IN \E placed \in IF "anchor" \in Faults THEN SUBSET free ELSE {free} :
          LET files == {AnchorFile[d] : d \in placed}
          IN /\ rootfs' = [p \in Path |-> IF p \in files THEN WithCA(p, NoFile)
                                          ELSE rootfs[p]]
             /\ written' = files
             /\ made' = free \ dirs /\ dirs' = dirs \cup free
  /\ Scratch({OwnCA}, {})
  /\ UNCHANGED <<image, imageDirs, mirrorVars, kept, where, failed, code, stepVars, steps>>

\* findJVMKeystores, by directory
KeystoresIn(d) == {k \in Keystore \cap Files(d) : rootfs[k].body # NoBody}

\* planCATrust: a bundle that is there takes the CA.  One that is not is made
\* if a variable names it, though not its directory, and none if it is the
\* system's store.
Targets ==
  LET there == {p \in Bundle : DirOf[p] \in dirs}
  IN {T \in SUBSET there : {p \in there : rootfs[p] # NoFile} \subseteq T}

\* bindTargets: each directory with a target is mirrored, or refused (a mount
\* is there already, it is too large, the copy fails); a bundle that is not a
\* regular file is left as it is.
BindTargets ==
  /\ pc = "binds"
  /\ pc' = "keystores"
  /\ \E T \in Targets :
     \E B \in IF "refuse" \in Faults THEN SUBSET DirsOf(T) ELSE {DirsOf(T)},
        skip \in IF "skip" \in Faults THEN SUBSET T ELSE {{}} :
       /\ binds' = B /\ Scratch(B, DirsOf(T) \ B)
       /\ mirror' = [p \in Path |->
            IF DirOf[p] \notin B THEN NoFile
            ELSE IF p \in T \ skip THEN WithCA(p, rootfs[p]) ELSE rootfs[p]]
  /\ baseline' = mirror'
  /\ todo' = {d \in DirsOf(Keystore) : KeystoresIn(d) # {}}
  /\ UNCHANGED <<fileVars, mounted, remembered, made, kept, where, injected, failed,
                 code, stepVars, steps>>

\* The mirrors with the keystores hit of directory d injected into.
KeystoreMirror(d, hit) ==
  [p \in Path |->
     LET c == IF d \in binds THEN mirror[p] ELSE rootfs[p]
     IN IF DirOf[p] # d THEN mirror[p]
        ELSE IF p \in hit THEN WithCA(p, c) ELSE c]

\* One keystore directory: covered by a bind already made (coverKeystore) or
\* given its own (prepareBind).  hit are the keystores that take the CA; one
\* in an unknown format or under another password does not.  "recapture" is
\* coverKeystore's second captureManifest failing, which keeps the old
\* baseline.
InjectKeystores(d) ==
  /\ pc = "keystores" /\ d \in todo
  /\ todo' = todo \ {d}
  /\ \E hit \in IF "skip" \in Faults THEN SUBSET KeystoresIn(d) ELSE {KeystoresIn(d)} :
       /\ mirror' = KeystoreMirror(d, hit)
       /\ remembered' = remembered \cup hit
       /\ \/ baseline' = mirror'
          \/ "recapture" \in Faults /\ d \in binds /\ baseline' = baseline
  /\ binds' = binds \cup {d} /\ Scratch({d} \ binds, {})
  /\ UNCHANGED <<fileVars, mounted, made, kept, where, injected, failed, code, pc,
                 stepVars, steps>>

\* A keystore directory of its own that cannot be bound.
RefuseKeystores(d) ==
  /\ pc = "keystores" /\ d \in todo \ binds /\ "refuse" \in Faults
  /\ todo' = todo \ {d}
  /\ Scratch({}, {d})
  /\ UNCHANGED <<fileVars, mirror, baseline, binds, mounted, remembered, made, kept,
                 where, injected, failed, code, pc, stepVars, steps>>

\* Mutation: abandon forgets the mirrors instead of removing them.
HalfWrittenLeaks(d) ==
  /\ pc = "keystores" /\ d \in todo /\ "half" \in Faults
  /\ pc' = "finish" /\ code' = 1
  /\ binds' = {} /\ todo' = {}
  /\ UNCHANGED <<fileVars, mirror, baseline, mounted, remembered, undoVars, stepVars,
                 steps>>

\* A write into a mirror's keystore stops partway: the injection is abandoned
\* (every mirror dropped unwritten, then finish) and the step does not run.
HalfWritten(d) ==
  /\ pc = "keystores" /\ d \in todo /\ "half" \in Faults
  /\ pc' = "finish" /\ code' = 1
  /\ binds' = {} /\ Scratch({}, binds \cup {d})
  /\ todo' = {}
  /\ UNCHANGED <<fileVars, mirror, baseline, mounted, remembered, made, kept, where,
                 injected, failed, stepVars, steps>>

\* placeNSSDB: the database's directory is mirrored, made first if the home
\* has none, and the mirror's pkcs11.txt gains the slot; or it takes no slot,
\* possibly after the directory was made.
PlaceNSSDB ==
  /\ pc = "keystores" /\ todo = {}
  /\ pc' = "save"
  /\ \E N \in IF "nss" \in Faults THEN SUBSET NssDir ELSE {NssDir \ binds} :
       /\ N \cap binds = {}
       /\ binds' = binds \cup N /\ Scratch(N, NssDir \ (N \cup binds))
       /\ mirror' = [p \in Path |->
            IF DirOf[p] \notin N THEN mirror[p]
            ELSE IF p \in SlotFile THEN WithSlot(rootfs[p]) ELSE rootfs[p]]
       /\ baseline' = [p \in Path |-> IF DirOf[p] \in N THEN mirror'[p] ELSE baseline[p]]
       /\ \E D \in {N, NssDir} :
            /\ D # N => "nss" \in Faults
            /\ made' = made \cup (D \ dirs) /\ dirs' = dirs \cup D
  /\ UNCHANGED <<image, imageDirs, rootfs, written, mounted, remembered, todo, kept,
                 where, injected, failed, code, stepVars, steps>>

\* spec.save: the step sees the mirrors only if the spec was written.
SaveSpec ==
  /\ pc = "save"
  /\ pc' = "launch"
  /\ \/ mounted' = binds
     \/ "save" \in Faults /\ mounted' = {}
  /\ UNCHANGED <<fileVars, mirror, baseline, binds, remembered, todo, undoVars, code,
                 stepVars, steps>>

\* cmd.Start.  When it fails what finish returns is ignored: the code is 1.
Launch ==
  /\ pc = "launch"
  /\ pc' = "running"
  /\ UNCHANGED <<fileVars, mirrorVars, undoVars, code, stepVars, steps>>

LaunchFails ==
  /\ pc = "launch" /\ "launch" \in Faults
  /\ pc' = IF injected THEN "finish" ELSE "exit"
  /\ code' = 1
  /\ UNCHANGED <<fileVars, mirrorVars, undoVars, stepVars, steps>>

-----------------------------------------------------------------------------
(* The step itself. *)

\* What a file the step writes at p may carry: a copy of the CA once there is
\* one to read, of the slot once the step sees it (under the one name NSS
\* opens), or of what an earlier step left in the image.
Carried(p) ==
  {m \in Mark :
     /\ m \in SlotMark => p \in SlotFile
     /\ m # "none" => p \notin Unrecorded
     /\ \/ m = "none"
        \/ m \in CertMark /\ injected
        \/ m \in SlotMark /\ NssDir \cap mounted # {}
        \/ \E q \in Path : View(q).mark = m}

\* The step writes, rebuilds, copies over or (NoBody, unmarked) removes p.
StepWrites(p) ==
  /\ pc = "running" /\ edits < MaxEdits
  /\ DirOf[p] \notin {d \in Dir : where[d] \in {"linked", "gone"}}
  /\ \E b \in Body \cup {NoBody}, m \in Carried(p) :
       LET c == [body |-> b, mark |-> m, recoded |-> FALSE]
       IN /\ c # View(p)
          /\ b = NoBody \/ p \in Unrecorded => DirOf[p] \in dirs \cup {None}
          /\ IF Mirrored(p)
             THEN mirror' = [mirror EXCEPT ![p] = c] /\ UNCHANGED <<rootfs, written>>
             ELSE /\ rootfs' = [rootfs EXCEPT ![p] = c] /\ UNCHANGED mirror
                  /\ written' = LayerOf(written \cup {p}, rootfs')
          /\ expected' = [expected EXCEPT ![p] = b]
          /\ dirs' = dirs \cup ({DirOf[p]} \ {None})
          /\ expDirs' = IF b = NoBody THEN expDirs ELSE expDirs \cup ({DirOf[p]} \ {None})
  /\ touched' = touched \cup {p} /\ edits' = edits + 1
  /\ UNCHANGED <<image, imageDirs, baseline, binds, mounted, remembered, todo,
                 undoVars, code, pc, steps>>

\* The files of d are gone from where they stood.
Emptied(d) ==
  /\ rootfs' = [p \in Path |-> IF DirOf[p] = d THEN NoFile ELSE rootfs[p]]
  /\ written' = LayerOf(written \cup Files(d), rootfs')
  /\ expected' = [p \in Path |-> IF DirOf[p] = d THEN NoBody ELSE expected[p]]
  /\ touched' = touched \cup Files(d) /\ edits' = edits + 1

\* The step renames an ancestor of a mounted directory or of one the injection
\* made; the mount goes with it.  The old path then leads elsewhere
\* ("linked"), nowhere ("gone") or to a directory made in its place
\* ("replaced"): dirs holds what stands at its own path.  An anchor that moves
\* along is a copy the step makes (StepWrites).
StepMovesAway(d) ==
  /\ pc = "running" /\ edits < MaxEdits
  /\ d \in (mounted \cap expDirs) \cup (made \cap dirs) /\ where[d] = "home"
  /\ Emptied(d)
  /\ \E how \in Moves :
       /\ where' = [where EXCEPT ![d] = how]
       /\ dirs' = IF how = "replaced" THEN dirs ELSE dirs \ {d}
       /\ expDirs' = IF how = "replaced" THEN expDirs \cup {d} ELSE expDirs \ {d}
  /\ UNCHANGED <<image, imageDirs, mirrorVars, made, scratch, unremoved, kept, injected,
                 failed, code, pc, steps>>

\* The step installs the package an anchor directory belongs to, where the
\* directory's path leads somewhere.
StepInstalls(d) ==
  /\ pc = "running" /\ edits < MaxEdits /\ where[d] # "gone"
  /\ dirs' = dirs \cup {d, OwnerOf[d]}
  /\ expDirs' = expDirs \cup {d, OwnerOf[d]}
  /\ expDirs' # expDirs
  /\ edits' = edits + 1
  /\ UNCHANGED <<image, imageDirs, rootfs, written, mirrorVars, undoVars, expected,
                 touched, code, pc, steps>>

\* The step removes an anchor directory with all that is in it.
StepRemovesDir(d) ==
  /\ pc = "running" /\ edits < MaxEdits
  /\ d \in dirs \ mounted
  /\ Emptied(d)
  /\ dirs' = dirs \ {d} /\ expDirs' = expDirs \ {d}
  /\ UNCHANGED <<image, imageDirs, mirrorVars, undoVars, code, pc, steps>>

\* cmd.Wait returns.
StepExits ==
  /\ pc = "running"
  /\ code' \in StepCodes
  /\ pc' = IF injected THEN "finish" ELSE "exit"
  /\ UNCHANGED <<fileVars, mirrorVars, undoVars, stepVars, steps>>

-----------------------------------------------------------------------------
(* After the step: injection.finish. *)

\* manifestsEqual
Changed(d) == \E p \in Files(d) \ Unrecorded : mirror[p] # baseline[p]

\* Mutation: the keystores are left to the sweep, which re-encodes them.
RestoredNever(p) == mirror[p]

\* restoreUntouchedKeystores: a keystore the step left as injected gets the
\* bytes it had in the image.
Restored(p) ==
  IF p \in remembered /\ mirror[p] = baseline[p] THEN image[p] ELSE mirror[p]

\* Mutation: the slot is left to the sweep of the layer.
TakenBackSlotKept(p) == Strip(p, Restored(p))

\* What the mirror holds when it is written back: keystores restored, the slot
\* cut out of the database's own pkcs11.txt, every copy swept that can be.
TakenBack(p) == Strip(p, IF p \in NssTxt THEN CutSlot(Restored(p)) ELSE Restored(p))

\* rsync replaces what differs and deletes what is gone.
WriteBack(S) ==
  /\ rootfs' = [p \in Path |-> IF p \in S THEN TakenBack(p) ELSE rootfs[p]]
  /\ written' = LayerOf(written \cup {p \in S : TakenBack(p) # rootfs[p]}, rootfs')

\* Mutation: the target is not resolved again.
StillThereAlways(d) == d \in Dir

\* Where resolveInRoot must find the directory, and os.Stat a directory.
StillThere(d) == d \in dirs /\ where[d] \in {"home", "replaced"}

\* dirBind.finish, then cleanup whatever it returned.
FinishBind(d) ==
  /\ pc = "finish" /\ d \in binds
  /\ binds' = binds \ {d} /\ Scratch({}, {d})
  /\ \/ /\ ~Changed(d)
        /\ UNCHANGED <<rootfs, written, failed>>
     \/ /\ Changed(d) /\ StillThere(d)
        /\ WriteBack(Files(d)) /\ UNCHANGED failed
     \/ /\ Changed(d) /\ ~StillThere(d)
        /\ failed' = TRUE /\ UNCHANGED <<rootfs, written>>
  /\ UNCHANGED <<image, imageDirs, dirs, mirror, baseline, mounted, remembered, todo,
                 made, kept, where, injected, code, pc, stepVars, steps>>

\* The same with an I/O error: before the write-back, or halfway through it.
FinishBindFails(d) ==
  /\ pc = "finish" /\ d \in binds /\ "finish" \in Faults
  /\ binds' = binds \ {d} /\ Scratch({}, {d})
  /\ failed' = TRUE
  /\ \E S \in SUBSET Files(d) :
       /\ S # {} => Changed(d) /\ StillThere(d)
       /\ WriteBack(S)
  /\ UNCHANGED <<image, imageDirs, dirs, mirror, baseline, mounted, remembered, todo,
                 made, kept, where, injected, code, pc, stepVars, steps>>

\* Mutation: the slot is only cut out of the database's own pkcs11.txt.
SweptNoSlots(p) == IF p \notin written THEN rootfs[p] ELSE Strip(p, rootfs[p])

\* The layer after sweepDir and stripNSSSlotCopies.
Swept(p) ==
  IF p \notin written THEN rootfs[p]
  ELSE Strip(p, IF p \in SlotFile THEN CutSlot(rootfs[p]) ELSE rootfs[p])

\* Mutation: the swept layer is not read back.
ResidueNone == {}

\* What reading the layer back finds: what neither could take out.
Residue == {p \in written : Swept(p).mark # "none"}

\* Mutation: the layer is swept while mirrors are still to be written back.
StripLayerEarly ==
  /\ pc = "finish"
  /\ pc' = "dirs" /\ Scratch({}, {OwnCA})
  /\ rootfs' = [p \in Path |-> Swept(p)]
  /\ written' = LayerOf(written, rootfs')
  /\ failed' = (failed \/ (FailOnResidue /\ Residue # {}))
  /\ UNCHANGED <<image, imageDirs, dirs, mirrorVars, made, kept, where, injected,
                 code, stepVars, steps>>

\* stripLayer, tolerateResidue: once the mirrors are written back.
StripLayer ==
  /\ pc = "finish" /\ binds = {}
  /\ pc' = "dirs" /\ Scratch({}, {OwnCA})
  /\ rootfs' = [p \in Path |-> Swept(p)]
  /\ written' = LayerOf(written, rootfs')
  /\ failed' = (failed \/ (FailOnResidue /\ Residue # {}))
  /\ UNCHANGED <<image, imageDirs, dirs, mirrorVars, made, kept, where, injected,
                 code, stepVars, steps>>

\* The sweep or the reading back meets an I/O error, which is never tolerated.
StripLayerFails ==
  /\ pc = "finish" /\ binds = {} /\ "sweep" \in Faults
  /\ pc' = "dirs" /\ Scratch({}, {OwnCA})
  /\ \E S \in SUBSET written :
       rootfs' = [p \in Path |-> IF p \in S THEN Swept(p) ELSE rootfs[p]]
  /\ written' = LayerOf(written, rootfs')
  /\ failed' = TRUE
  /\ UNCHANGED <<image, imageDirs, dirs, mirrorVars, made, kept, where, injected,
                 code, stepVars, steps>>

\* Mutation: every anchor directory passes for adopted.
AdoptedAlways(d) == d \in AnchorDir

\* adoptedAnchorDirs
Adopted(d) == d \in AnchorDir /\ OwnerOf[d] \in dirs

\* What removeCreatedDirs takes back: what still stands where the injection
\* made it, is empty by now and is not adopted.
TakenOut ==
  {d \in made \cap dirs : /\ where[d] # "linked" /\ ~Adopted(d)
                          /\ \A p \in Files(d) : rootfs[p] = NoFile}

\* A path that leads elsewhere now is logged and passed over, and so is a
\* directory that resists (an I/O error resolving or removing it); one that is
\* gone, or holds something of the step's, is passed over in silence.
TakesOut ==
  \E stays \in IF "rmdir" \in Faults THEN SUBSET TakenOut ELSE {{}} :
    /\ dirs' = dirs \ (TakenOut \ stays)
    /\ kept' = stays \cup {d \in made : where[d] = "linked"}

\* Mutation: the failure to undo is added to the step's code.
RemoveCreatedDirsAdds ==
  /\ pc = "dirs"
  /\ pc' = "exit"
  /\ TakesOut
  /\ code' = IF failed THEN code + 1 ELSE code
  /\ UNCHANGED <<image, imageDirs, rootfs, written, mirrorVars, made, scratch, unremoved,
                 where, injected, failed, stepVars, steps>>

\* Mutation: the directories are tried again until they are empty.
RemoveCreatedDirsRetries ==
  /\ pc = "dirs" /\ \A d \in made : \A p \in Files(d) : rootfs[p] = NoFile
  /\ pc' = "exit"
  /\ TakesOut
  /\ code' = IF failed /\ code = 0 THEN 1 ELSE code
  /\ UNCHANGED <<image, imageDirs, rootfs, written, mirrorVars, made, scratch, unremoved,
                 where, injected, failed, stepVars, steps>>

\* Mutation: run reports the step's code whatever finish met.
RemoveCreatedDirsKeepsCode ==
  /\ pc = "dirs"
  /\ pc' = "exit"
  /\ TakesOut
  /\ UNCHANGED <<image, imageDirs, rootfs, written, mirrorVars, made, scratch, unremoved,
                 where, injected, failed, code, stepVars, steps>>

\* removeCreatedDirs, then run's return: a failure to undo fails the step.
RemoveCreatedDirs ==
  /\ pc = "dirs"
  /\ pc' = "exit"
  /\ TakesOut
  /\ code' = IF failed /\ code = 0 THEN 1 ELSE code
  /\ UNCHANGED <<image, imageDirs, rootfs, written, mirrorVars, made, scratch, unremoved,
                 where, injected, failed, stepVars, steps>>

\* The wrapper, runc or the whole builder is killed.
WrapperKilled ==
  /\ pc \notin {"idle", "exit"} /\ "kill" \in Faults
  /\ pc' = "exit" /\ code' = Killed
  /\ UNCHANGED <<fileVars, mirrorVars, undoVars, stepVars, steps>>

\* BuildKit commits the layer of a step whose exit code it accepts, and keeps
\* that of any other for debugging only.
BuildKitCommits ==
  /\ pc = "exit" /\ code \in ValidExitCodes
  /\ pc' = "idle"
  /\ image' = rootfs /\ imageDirs' = dirs
  /\ UNCHANGED <<rootfs, dirs, written, mirrorVars, undoVars, code, stepVars, steps>>

BuildKitDiscards ==
  /\ pc = "exit" /\ code \notin ValidExitCodes
  /\ pc' = "idle"
  /\ UNCHANGED <<fileVars, mirrorVars, undoVars, code, stepVars, steps>>

\* What the wrapper does between being called and launching the step.
Inject ==
  \/ RunWithoutCA \/ LayerUnread \/ PlaceAnchors \/ BindTargets
  \/ \E d \in Dir : InjectKeystores(d) \/ RefuseKeystores(d) \/ HalfWritten(d)
  \/ PlaceNSSDB \/ SaveSpec \/ Launch \/ LaunchFails

StepEdits ==
  \/ \E p \in Path : StepWrites(p)
  \/ \E d \in Dir : StepMovesAway(d)
  \/ \E d \in AnchorDir : StepInstalls(d) \/ StepRemovesDir(d)

Finish ==
  \/ \E d \in Dir : FinishBind(d) \/ FinishBindFails(d)
  \/ StripLayer \/ StripLayerFails \/ RemoveCreatedDirs

Next ==
  \/ BuildKitRuns \/ Inject \/ StepEdits \/ StepExits \/ Finish
  \/ WrapperKilled \/ BuildKitCommits \/ BuildKitDiscards

Spec == Init /\ [][Next]_vars

\* The wrapper is straight-line code that waits for nothing but the step; the
\* step itself may run for ever.
FairSpec == Spec /\ WF_vars(Inject) /\ WF_vars(Finish)

-----------------------------------------------------------------------------
(* What must hold. *)

TypeOK ==
  /\ image \in [Path -> Content] /\ imageDirs \subseteq Dir
  /\ rootfs \in [Path -> Content] /\ dirs \subseteq Dir /\ written \subseteq Path
  /\ mirror \in [Path -> Content] /\ baseline \in [Path -> Content]
  /\ binds \subseteq Dir /\ mounted \subseteq Dir
  /\ remembered \subseteq Path /\ todo \subseteq Dir
  /\ made \subseteq Dir /\ kept \subseteq Dir
  /\ scratch \subseteq Dir \cup {OwnCA} /\ unremoved \subseteq scratch
  /\ where \in [Dir -> {"home", "linked", "gone", "replaced"}]
  /\ injected \in BOOLEAN /\ failed \in BOOLEAN
  /\ code \in {0, 1, Killed} \cup StepCodes
  /\ pc \in {"idle", "inject", "binds", "keystores", "save", "launch", "running",
             "finish", "dirs", "exit"}
  /\ expected \in [Path -> Body \cup {NoBody}] /\ expDirs \subseteq Dir
  /\ touched \subseteq Path /\ steps \in 0 .. MaxSteps /\ edits \in 0 .. MaxEdits

\* The wrapper ran the step to its end and met no error taking the CA out.
Undone == pc = "exit" /\ injected /\ ~failed /\ code # Killed

\* The builder fails on residue, and BuildKit commits no layer of a step that
\* failed.  Only an LLB written by hand can allow another exit code.
Strict == FailOnResidue /\ ValidExitCodes = {0}

\* No committed layer carries a copy of the CA or a slot for it, whatever the
\* step copied it into, whatever failed, and whenever the wrapper was killed.
\* It is what stripLayer, the exit code and the refusal to run an unreadable
\* layer are for.
CleanImage == Strict => \A p \in Path : image[p].mark = "none"

\* With fail-on-ca-residue off, what stays behind is only what the log warned
\* of: a copy in a format that cannot be stripped, or a slot entry the step
\* edited.  No copy the wrapper could have taken out is ever committed.
OnlyStuckRemains == \A p \in Path : image[p].mark \in {"none", "sealed", "named"}

\* A directory written back, a swept layer and a tolerated residue put into
\* the layer only files the step itself wrote: an untouched bundle or keystore
\* costs the image no entry, even when its neighbours in the mirror changed.
UntouchedStaysOut == Undone => written \subseteq touched

\* The directories the layer holds and an unproxied run of the step would not
\* have left: at the path the injection made them at, or wherever the step
\* moved them with an ancestor.
LeftBehind == (dirs \ expDirs) \cup {d \in made : where[d] # "home"}

\* A directory the injection made goes with it, unless its owner is installed by
\* then, the log says it could not be taken back, or the step moved it away and
\* its path leads nowhere or to another directory: nothing the injection puts
\* in one holds it, and none is passed over in silence but where the wrapper
\* finds nothing of its own.
NoDirLeftBehind ==
  Undone => \A d \in LeftBehind :
              \/ d \in AnchorDir /\ OwnerOf[d] \in dirs
              \/ d \in kept
              \/ where[d] \in {"gone", "replaced"}

\* However the wrapper ends, short of being killed, it has tried to remove every
\* scratch directory of the step's: what is still on the builder resisted, and
\* the log says so.
ScratchReclaimed == pc = "exit" /\ code # Killed => scratch \subseteq unremoved

\* A layer is committed only when everything to undo was undone: an error on
\* the way, fatal whatever fail-on-ca-residue says, turns the exit code of a
\* step that succeeded.
CommitsOnlyUndone ==
  [][ValidExitCodes = {0} /\ (image' # image \/ imageDirs' # imageDirs) => ~failed]_vars

\* Once called, the wrapper launches the step or exits, and once the step has
\* ended it exits: no error on the way leaves it waiting.
WrapperGoesOn == pc \in {"inject", "finish"} ~> pc \in {"running", "exit"}

\* The build as its author sees it: the proxied builder implements the
\* unproxied one.  A file with anything of the injection in it is none that
\* any unproxied step can make.
Seen(p) == IF image[p].mark = "none" THEN image[p].body ELSE "tainted"

Unproxied ==
  INSTANCE UnproxiedBuild WITH
    image <- [p \in Path |-> Seen(p)],
    work <- expected,
    running <- pc # "idle",
    Body <- Body \cup {NoBody}

\* Every layer BuildKit commits holds what an unproxied run of the same step
\* would have left, and a step that fails commits nothing.
Implements == Unproxied!Spec

\* docs/reference.md, "Mounted directories": "what is inside it behaves
\* normally, and what the step writes there is copied back when it ends".  Every
\* file the step wrote and left there is in the layer as it left it.
ChangesCopiedBack ==
  Undone => \A p \in touched : expected[p] # NoBody => rootfs[p].body = expected[p]

\* anchor_test.go, TestRemoveCreatedDirsTakesBackWhatIsNotAdopted: "The
\* directories go once the step has ended, unless the step installed the
\* package that owns one".
CreatedDirsGo == Undone => dirs \subseteq expDirs
=============================================================================
