----------------------- MODULE ActionLifecycleProofs -----------------------
(***************************************************************************)
(* Theorems about ActionLifecycle, for any number of jobs, names and       *)
(* workflows, any number of lost runners and edited files.                 *)
(*                                                                         *)
(* All of them rest on one fact: a job touches no project but that of the  *)
(* name it has a claim to, so a job nobody shares its name with has that   *)
(* project to itself for as long as it is at work.                         *)
(***************************************************************************)
EXTENDS ActionLifecycle, TLAPS

-----------------------------------------------------------------------------
(* The inductive invariant. *)

Starting == {"idle"} \cup SettingUp

\* The name a job has taken is its claim, and post is left the same one.
NameInv ==
  \A j \in Job :
    /\ at[j] \in Starting => file[j] = work[j].file /\ setup[j] = "none"
    /\ named[j] \in {NoName, Claim(j)}
    /\ at[j] \in {"idle", "inputs"} => named[j] = NoName
    /\ saved[j] = IF work[j].posts THEN named[j] ELSE NoName
    /\ at[j] \in {"down", "up", "wait"} \/ setup[j] = "ok" => named[j] # NoName

\* Two jobs at work under one name are both known to share it.
SharedInv ==
  \A j, k \in Job :
    j # k /\ Active(j) /\ Active(k) /\ Claim(j) # NoName /\ Claim(j) = Claim(k)
      => j \in shared

\* A job's builder is the one of its name, until its post step is over.
BuilderInv ==
  \A n \in Name, j \in Job :
    builder[n].job = j =>
      named[j] = n /\ (at[j] = "over" => j \in trouble \/ ~work[j].posts)

\* From its down on, the project of a job nobody shares a name with holds
\* nothing, or that job's own builder.
OwnInv ==
  \A j \in Job :
    j \notin shared =>
      /\ at[j] = "up" => builder[named[j]] = None
      /\ at[j] = "wait" \/ (at[j] = "steps" /\ setup[j] = "ok") => builder[named[j]].job = j

\* What the report has made by each of its calls.
ScratchInv ==
  \A j \in Job :
    /\ at[j] \in Starting \cup {"steps"} => scratch[j] = {} /\ exit[j] = "none"
    /\ at[j] \in {"copy", "script"} => exit[j] = "none"
    /\ j \in trouble \/ scratch[j] \subseteq {"directory"}
    /\ at[j] \in {"post", "over"} => j \in trouble \/ scratch[j] = {}

SourceInv ==
  \A j \in Job :
    setup[j] = "ok" /\ j \notin shared /\ ~Edited(j)
      /\ (at[j] \in Reporting \/ (at[j] \in {"post", "over"} /\ exit[j] = "zero"))
      => source[j] = j

\* A report that goes on has a switch it can read.
SwitchInv == \A j \in Job : at[j] \in Reporting => ValidSwitch(Inputs(j))

Inv ==
  /\ TypeOK /\ NameInv /\ SharedInv /\ BuilderInv /\ OwnInv
  /\ ScratchInv /\ SourceInv /\ SwitchInv

-----------------------------------------------------------------------------
(* Names. *)

\* What is known of a job's workflow.
LEMMA WorkTypes ==
  ASSUME work \in Workloads, NEW j \in Job
  PROVE  /\ work[j].configured \in BOOLEAN /\ work[j].posts \in BOOLEAN
         /\ Normalized(work[j].inputs)["builder-name"] \in Name \cup {Blank, Malformed}
         /\ Normalized(work[j].inputs)["fail-on-blocked"] \in BOOLEAN \cup {Blank, Malformed}
         /\ \A f \in work[j].files \cup {work[j].file} :
              FileValue(f, "builder-name") \in Name \cup {Blank, Malformed}
<1> DEFINE W == UNION {{jobs[i] : i \in Job} : jobs \in Workloads}
<1>1. work[j] \in W
  OBVIOUS
<1>2. \A w \in W :
        /\ w.configured \in BOOLEAN /\ w.posts \in BOOLEAN
        /\ Normalized(w.inputs)["builder-name"] \in Name \cup {Blank, Malformed}
        /\ Normalized(w.inputs)["fail-on-blocked"] \in BOOLEAN \cup {Blank, Malformed}
        /\ \A f \in w.files \cup {w.file} :
             FileValue(f, "builder-name") \in Name \cup {Blank, Malformed}
  BY LifecycleAssumption
<1> HIDE DEF W
<1> QED
  BY <1>1, <1>2

\* A valid name is a name.
LEMMA NameOfIsName ==
  ASSUME NEW inputs, inputs["builder-name"] \in Name \cup {Blank, Malformed}, ValidName(inputs)
  PROVE  NameOf(inputs) \in Name
BY NameAssumption DEF NameOf, ValidName

\* A file's value stands in where the workflow has none.
LEMMA MergedName ==
  ASSUME NEW inputs, NEW f,
         inputs["builder-name"] \in Name \cup {Blank, Malformed},
         FileValue(f, "builder-name") \in Name \cup {Blank, Malformed}
  PROVE  Merged(inputs, f)["builder-name"] \in Name \cup {Blank, Malformed}
<1>1. "builder-name" \in Input /\ "builder-name" \notin Lists
  BY DEF Input, Lists
<1>2. Merged(inputs, f)["builder-name"] =
        IF inputs["builder-name"] = Blank THEN FileValue(f, "builder-name")
        ELSE inputs["builder-name"]
  BY <1>1 DEF Merged
<1> QED
  BY <1>2

\* Every name a job comes to is a name, and is its claim as long as the file is
\* the one it began with, or is not asked.
LEMMA JobNames ==
  ASSUME TypeOK, NEW j \in Job
  PROVE  /\ ValidName(Inputs(j)) => NameOf(Inputs(j)) \in Name
         /\ Claim(j) \in Name \cup {NoName}
         /\ CanRead(j) /\ ValidName(Inputs(j)) /\ file[j] = work[j].file
              => NameOf(Inputs(j)) = Claim(j)
         /\ ~work[j].configured /\ ValidName(Normalized(work[j].inputs))
              => Claim(j) = NameOf(Normalized(work[j].inputs)) /\ Claim(j) \in Name
<1>1. work \in Workloads /\ file[j] \in work[j].files \cup {work[j].file}
  BY DEF TypeOK
<1> DEFINE inputs == Normalized(work[j].inputs)
           begun == IF work[j].configured THEN Merged(inputs, work[j].file) ELSE inputs
<1>2. inputs["builder-name"] \in Name \cup {Blank, Malformed}
  BY <1>1, WorkTypes
<1>3. \A f \in work[j].files \cup {work[j].file} :
        Merged(inputs, f)["builder-name"] \in Name \cup {Blank, Malformed}
  BY <1>1, <1>2, WorkTypes, MergedName
<1>4. Inputs(j)["builder-name"] \in Name \cup {Blank, Malformed}
  BY <1>1, <1>2, <1>3 DEF Inputs
<1>5. begun["builder-name"] \in Name \cup {Blank, Malformed}
  BY <1>2, <1>3
<1>6. ValidName(begun) => NameOf(begun) \in Name
  BY <1>5, NameOfIsName
<1>7. Claim(j) = IF (work[j].configured => Readable(work[j].file)) /\ ValidName(begun)
                 THEN NameOf(begun) ELSE NoName
  BY DEF Claim
<1>8. ValidName(Inputs(j)) => NameOf(Inputs(j)) \in Name
  BY <1>4, NameOfIsName
<1>9. file[j] = work[j].file => Inputs(j) = begun
  BY DEF Inputs
<1>10. CanRead(j) /\ file[j] = work[j].file => (work[j].configured => Readable(work[j].file))
  BY DEF CanRead
<1>11. ~work[j].configured => begun = inputs
  OBVIOUS
<1> HIDE DEF inputs, begun
<1>12. ~work[j].configured /\ ValidName(inputs)
         => Claim(j) = NameOf(inputs) /\ Claim(j) \in Name
  BY <1>6, <1>7, <1>11
<1>13. CanRead(j) /\ ValidName(Inputs(j)) /\ file[j] = work[j].file => NameOf(Inputs(j)) = Claim(j)
  BY <1>7, <1>9, <1>10
<1> QED
  BY <1>6, <1>7, <1>8, <1>12, <1>13 DEF inputs

-----------------------------------------------------------------------------
(* Types. *)

LEMMA TypesBegin == Init => TypeOK
<1> SUFFICES ASSUME Init PROVE TypeOK
  OBVIOUS
<1>1. work \in Workloads /\ \A j \in Job : file[j] = work[j].file
  BY DEF Init
<1> QED
  BY <1>1 DEF Init, TypeOK, Place, SettingUp, Outcome, None

\* What a job's report and post read of its name is a name: so the projects they
\* and the setup touch are projects.
LEMMA TypesKept ==
  ASSUME TypeOK, NameInv, [Next]_vars
  PROVE  TypeOK'
<1> USE DEF TypeOK, Go, EndSetup, EndReport, Place, SettingUp, Reporting, Outcome,
            setupVars, reportVars
<1>1. ASSUME NEW j \in Job, BeginSetup(j) PROVE TypeOK'
  BY <1>1 DEF BeginSetup
<1>2. ASSUME NEW j \in Job, ReadInputs(j) PROVE TypeOK'
  <2>1. ValidName(Inputs(j)) => NameOf(Inputs(j)) \in Name
    BY JobNames
  <2> QED
    BY <1>2, <2>1 DEF ReadInputs
<1>3. ASSUME NEW j \in Job, DownFirst(j) PROVE TypeOK'
  BY <1>3 DEF DownFirst
<1>4. ASSUME NEW j \in Job, Up(j) PROVE TypeOK'
  <2>1. named[j] \in Name
    BY <1>4 DEF Up, NameInv
  <2>2. CASE builder' = [builder EXCEPT ![named[j]] = [job |-> j, state |-> "starting"]]
    <3>1. builder' \in [Name -> Container \cup {None}]
      BY <2>1, <2>2 DEF Container
    <3> QED
      BY <1>4, <3>1 DEF Up
  <2>3. CASE /\ builder[named[j]] # None
             /\ builder' = [builder EXCEPT ![named[j]].state = IF @ = "stopped" THEN "starting" ELSE @]
    <3>1. builder[named[j]] \in Container
      BY <2>1, <2>3
    <3>2. builder' \in [Name -> Container \cup {None}]
      BY <2>1, <2>3, <3>1 DEF Container
    <3> QED
      BY <1>4, <3>2 DEF Up
  <2>4. CASE UNCHANGED builder
    BY <1>4, <2>4 DEF Up
  <2> QED
    BY <1>4, <2>2, <2>3, <2>4 DEF Up
<1>5. ASSUME NEW j \in Job, Wait(j) PROVE TypeOK'
  BY <1>5 DEF Wait
<1>6. ASSUME NEW j \in Job, CancelSetup(j) PROVE TypeOK'
  BY <1>6 DEF CancelSetup
<1>7. ASSUME NEW n \in Name, BuilderTurns(n) PROVE TypeOK'
  <2>1. builder[n] \in Container
    BY <1>7 DEF BuilderTurns, None
  <2>2. builder' \in [Name -> Container \cup {None}]
    BY <1>7, <2>1 DEF BuilderTurns, Container
  <2> QED
    BY <1>7, <2>2 DEF BuilderTurns
<1>8. ASSUME NEW j \in Job, EditFile(j) PROVE TypeOK'
  <2>1. PICK f \in work[j].files : file' = [file EXCEPT ![j] = f]
    BY <1>8 DEF EditFile
  <2>2. \A k \in Job : file'[k] \in work[k].files \cup {work[k].file}
    BY <2>1
  <2> QED
    BY <1>8, <2>2 DEF EditFile
<1>9. ASSUME NEW j \in Job, FindSource(j) PROVE TypeOK'
  BY <1>9 DEF FindSource
<1>10. ASSUME NEW j \in Job, CopyScript(j) PROVE TypeOK'
  BY <1>10 DEF CopyScript
<1>11. ASSUME NEW j \in Job, RunScript(j) PROVE TypeOK'
  BY <1>11 DEF RunScript
<1>12. ASSUME NEW j \in Job, FinishReport(j) PROVE TypeOK'
  BY <1>12 DEF FinishReport
<1>13. ASSUME NEW j \in Job, SkipReport(j) PROVE TypeOK'
  BY <1>13 DEF SkipReport
<1>14. ASSUME NEW j \in Job, CancelReport(j) PROVE TypeOK'
  BY <1>14 DEF CancelReport
<1>15. ASSUME NEW j \in Job, Post(j) PROVE TypeOK'
  BY <1>15 DEF Post
<1>16. ASSUME NEW j \in Job, LoseRunner(j) PROVE TypeOK'
  BY <1>16 DEF LoseRunner
<1>17. CASE UNCHANGED vars
  BY <1>17 DEF vars
<1> QED
  BY <1>1, <1>2, <1>3, <1>4, <1>5, <1>6, <1>7, <1>8, <1>9, <1>10, <1>11, <1>12, <1>13, <1>14,
     <1>15, <1>16, <1>17 DEF Next, Step, Done

-----------------------------------------------------------------------------
(* Names and claims. *)

LEMMA WorkStays ==
  ASSUME [Next]_vars
  PROVE  work' = work /\ \A j \in Job : Claim(j)' = Claim(j)
<1>1. work' = work
  BY DEF Next, Step, vars, Done, BeginSetup, ReadInputs, DownFirst, Up, Wait, CancelSetup,
         BuilderTurns, EditFile, FindSource, CopyScript, RunScript, FinishReport, SkipReport,
         CancelReport, Post, LoseRunner
<1> QED
  BY <1>1 DEF Claim

\* Only ReadInputs takes a name, and by then no step has written the file.
LEMMA NamesKept ==
  ASSUME TypeOK, NameInv, [Next]_vars
  PROVE  NameInv'
<1>1. work' = work /\ \A j \in Job : Claim(j)' = Claim(j)
  BY WorkStays
<1> USE <1>1 DEF TypeOK, NameInv, Go, EndSetup, EndReport, Starting, SettingUp, Reporting,
                 setupVars, reportVars
<1>2. ASSUME NEW j \in Job, ReadInputs(j) PROVE NameInv'
  <2>1. CASE CanRead(j) /\ ValidName(Inputs(j)) /\ ValidRules(Inputs(j))
    <3>1. NameOf(Inputs(j)) \in Name /\ NameOf(Inputs(j)) = Claim(j)
      BY <1>2, <2>1, JobNames DEF ReadInputs
    <3>2. NameOf(Inputs(j)) # NoName
      BY <3>1, LifecycleAssumption
    <3> QED
      BY <1>2, <2>1, <3>1, <3>2 DEF ReadInputs
  <2>2. CASE ~(CanRead(j) /\ ValidName(Inputs(j)) /\ ValidRules(Inputs(j)))
    BY <1>2, <2>2 DEF ReadInputs
  <2> QED
    BY <2>1, <2>2
<1>3. ASSUME NEW j \in Job, BeginSetup(j) \/ DownFirst(j) \/ Up(j) \/ Wait(j) \/ CancelSetup(j)
      PROVE  NameInv'
  BY <1>3 DEF BeginSetup, DownFirst, Up, Wait, CancelSetup
<1>4. ASSUME NEW j \in Job, EditFile(j) PROVE NameInv'
  BY <1>4 DEF EditFile
<1>5. ASSUME NEW j \in Job,
             \/ FindSource(j) \/ CopyScript(j) \/ RunScript(j) \/ FinishReport(j) \/ SkipReport(j)
             \/ CancelReport(j) \/ Post(j) \/ LoseRunner(j)
      PROVE  NameInv'
  BY <1>5 DEF FindSource, CopyScript, RunScript, FinishReport, SkipReport, CancelReport, Post,
              LoseRunner
<1>6. ASSUME NEW n \in Name, BuilderTurns(n) PROVE NameInv'
  BY <1>6 DEF BuilderTurns
<1>7. CASE UNCHANGED vars
  BY <1>7 DEF vars
<1> QED
  BY <1>2, <1>3, <1>4, <1>5, <1>6, <1>7 DEF Next, Step, Done

\* A job comes to a name by BeginSetup alone, which knows who is there.
LEMMA SharingKept ==
  ASSUME TypeOK, SharedInv, [Next]_vars
  PROVE  SharedInv' /\ shared \subseteq shared'
<1>1. work' = work /\ \A j \in Job : Claim(j)' = Claim(j)
  BY WorkStays
<1> USE <1>1 DEF TypeOK, SharedInv, Active, setupVars, reportVars
<1>2. ASSUME NEW j \in Job, BeginSetup(j) PROVE SharedInv' /\ shared \subseteq shared'
  <2> DEFINE same == {k \in Job \ {j} : Active(k) /\ Claim(k) = Claim(j)}
  <2>1. shared' = IF Claim(j) = NoName \/ same = {} THEN shared ELSE shared \cup same \cup {j}
    BY <1>2 DEF BeginSetup
  <2>2. \A k \in Job \ {j} : Active(k)' => Active(k)
    BY <1>2 DEF BeginSetup, Go
  <2>3. SUFFICES ASSUME NEW k \in Job, NEW l \in Job, k # l, Active(k)', Active(l)',
                        Claim(k) # NoName, Claim(k) = Claim(l)
                 PROVE  k \in shared'
    BY <2>1
  <2>4. CASE k # j /\ l # j
    BY <2>1, <2>2, <2>3, <2>4
  <2>5. CASE k = j
    <3>1. l \in same
      BY <2>2, <2>3, <2>5
    <3> QED
      BY <2>1, <2>3, <2>5, <3>1
  <2>6. CASE l = j
    <3>1. k \in same
      BY <2>2, <2>3, <2>6
    <3> QED
      BY <2>1, <2>3, <2>6, <3>1
  <2> QED
    BY <2>4, <2>5, <2>6
<1>3. ASSUME shared' = shared, \A k \in Job : Active(k)' => Active(k)
      PROVE  SharedInv' /\ shared \subseteq shared'
  BY <1>3
<1>4. ASSUME NEW j \in Job,
             \/ ReadInputs(j) \/ DownFirst(j) \/ Up(j) \/ Wait(j) \/ CancelSetup(j) \/ EditFile(j)
             \/ FindSource(j) \/ CopyScript(j) \/ RunScript(j) \/ FinishReport(j) \/ SkipReport(j)
             \/ CancelReport(j) \/ Post(j) \/ LoseRunner(j)
      PROVE  shared' = shared /\ \A k \in Job : Active(k)' => Active(k)
  BY <1>4 DEF Go, EndSetup, EndReport, SettingUp, Reporting, ReadInputs, DownFirst, Up, Wait,
              CancelSetup, EditFile, FindSource, CopyScript, RunScript, FinishReport, SkipReport,
              CancelReport, Post, LoseRunner
<1>5. ASSUME NEW n \in Name, BuilderTurns(n) PROVE shared' = shared /\ at' = at
  BY <1>5 DEF BuilderTurns
<1>6. CASE UNCHANGED vars
  BY <1>6 DEF vars
<1> QED
  BY <1>2, <1>3, <1>4, <1>5, <1>6 DEF Next, Step, Done

-----------------------------------------------------------------------------
(* Builders. *)

\* A project changes by its own container's turns, or by a job at work that has
\* a claim to its name.
LEMMA OnlyClaimantsTouch ==
  ASSUME TypeOK, NameInv, [Next]_vars, NEW n \in Name
  PROVE  \/ builder'[n] = builder[n]
         \/ builder[n] # None /\ builder'[n].job = builder[n].job
         \/ \E j \in Job : Active(j) /\ Claim(j) = n /\ (DownFirst(j) \/ Up(j) \/ Post(j))
<1> USE DEF TypeOK
<1>1. ASSUME NEW j \in Job, DownFirst(j) \/ Up(j) PROVE Active(j) /\ Claim(j) = named[j]
  BY <1>1 DEF DownFirst, Up, NameInv, Active
<1>2. ASSUME NEW j \in Job, Post(j), PostName(j) # NoName
      PROVE  Active(j) /\ Claim(j) = PostName(j)
  <2>1. saved[j] # NoName => saved[j] = Claim(j)
    BY DEF NameInv
  <2>2. saved[j] = NoName
          => PostName(j) = NameOf(Normalized(work[j].inputs)) /\ PostName(j) = Claim(j)
    BY <1>2, JobNames DEF PostName
  <2> QED
    BY <1>2, <2>1, <2>2 DEF Post, PostName, Active
<1>3. ASSUME NEW j \in Job, DownFirst(j) PROVE builder'[n] = builder[n] \/ Claim(j) = n
  BY <1>1, <1>3 DEF DownFirst
<1>4. ASSUME NEW j \in Job, Up(j) PROVE builder'[n] = builder[n] \/ Claim(j) = n
  <2>1. \/ UNCHANGED builder
        \/ \E c : builder' = [builder EXCEPT ![named[j]] = c]
    BY <1>4 DEF Up
  <2> QED
    BY <1>1, <1>4, <2>1
<1>5. ASSUME NEW j \in Job, Post(j) PROVE builder'[n] = builder[n] \/ (Claim(j) = n /\ Active(j))
  <2>1. \/ UNCHANGED builder
        \/ PostName(j) # NoName /\ builder' = [builder EXCEPT ![PostName(j)] = None]
    BY <1>5 DEF Post
  <2> QED
    BY <1>2, <1>5, <2>1
<1>6. ASSUME NEW m \in Name, BuilderTurns(m)
      PROVE  builder'[n] = builder[n] \/ (builder[n] # None /\ builder'[n].job = builder[n].job)
  <2>1. builder[m] \in Container /\ builder[m] # None
    BY <1>6 DEF BuilderTurns, None
  <2>2. m # n => builder'[n] = builder[n]
    BY <1>6 DEF BuilderTurns
  <2>3. m = n => builder'[n].job = builder[n].job
    BY <1>6, <2>1 DEF BuilderTurns, Container
  <2> QED
    BY <2>1, <2>2, <2>3
<1>7. ASSUME NEW j \in Job,
             \/ BeginSetup(j) \/ ReadInputs(j) \/ Wait(j) \/ CancelSetup(j) \/ EditFile(j)
             \/ FindSource(j) \/ CopyScript(j) \/ RunScript(j) \/ FinishReport(j)
             \/ SkipReport(j) \/ CancelReport(j) \/ LoseRunner(j)
      PROVE  builder' = builder
  BY <1>7 DEF BeginSetup, ReadInputs, Wait, CancelSetup, EditFile, FindSource, CopyScript,
              RunScript, FinishReport, SkipReport, CancelReport, LoseRunner
<1>8. UNCHANGED vars => builder' = builder
  BY DEF vars
<1> QED
  BY <1>1, <1>3, <1>4, <1>5, <1>6, <1>7, <1>8 DEF Next, Step, Done

\* So nobody else touches the project of a job at work whose name is its own.
LEMMA OthersKeepOff ==
  ASSUME TypeOK, NameInv, SharedInv, NEW j \in Job, Active(j), j \notin shared,
         Claim(j) # NoName, NEW k \in Job, Active(k), Claim(k) = Claim(j)
  PROVE  k = j
BY DEF SharedInv

\* What a job's up leaves in its project: its own container, or whoever's was
\* there.
LEMMA UpMakes ==
  ASSUME TypeOK, NameInv, NEW j \in Job, Up(j), UNCHANGED builder => FALSE
  PROVE  /\ named[j] \in Name /\ \A n \in Name \ {named[j]} : builder'[n] = builder[n]
         /\ \/ builder'[named[j]].job = j
            \/ builder[named[j]] # None /\ builder'[named[j]].job = builder[named[j]].job
<1> USE DEF TypeOK
<1>1. named[j] \in Name
  BY DEF Up, NameInv
<1>2. CASE builder' = [builder EXCEPT ![named[j]] = [job |-> j, state |-> "starting"]]
  BY <1>1, <1>2
<1>3. CASE /\ builder[named[j]] # None
           /\ builder' = [builder EXCEPT ![named[j]].state = IF @ = "stopped" THEN "starting" ELSE @]
  <2>1. builder[named[j]] \in Container
    BY <1>1, <1>3
  <2> QED
    BY <1>1, <1>3, <2>1 DEF Container
<1> QED
  BY <1>1, <1>2, <1>3 DEF Up

LEMMA BuildersKept ==
  ASSUME TypeOK, NameInv, BuilderInv, [Next]_vars
  PROVE  BuilderInv'
<1>1. work' = work
  BY WorkStays
<1> USE <1>1, LifecycleAssumption DEF TypeOK, BuilderInv, Go, EndSetup, EndReport, setupVars,
        reportVars
<1>2. ASSUME NEW j \in Job, ReadInputs(j) PROVE BuilderInv'
  <2>1. \A n \in Name : builder[n].job # j
    BY <1>2 DEF ReadInputs, NameInv
  <2> QED
    BY <1>2, <2>1 DEF ReadInputs
<1>3. ASSUME NEW j \in Job, DownFirst(j) PROVE BuilderInv'
  BY <1>3 DEF DownFirst, None
<1>4. ASSUME NEW j \in Job, Up(j) PROVE BuilderInv'
  <2>1. CASE UNCHANGED builder
    BY <1>4, <2>1 DEF Up
  <2>2. CASE ~UNCHANGED builder
    <3>1. SUFFICES ASSUME NEW n \in Name, NEW k \in Job, builder'[n].job = k
                   PROVE  /\ named'[k] = n
                          /\ at'[k] = "over" => k \in trouble' \/ ~work[k].posts
      OBVIOUS
    <3>2. named' = named /\ trouble' = trouble /\ at'[j] # "over"
          /\ \A l \in Job \ {j} : at'[l] = at[l]
      BY <1>4 DEF Up
    <3>3. \/ builder[n].job = k
          \/ n = named[j] /\ k = j
      BY <1>4, <2>2, <3>1, UpMakes
    <3> QED
      BY <3>2, <3>3
  <2> QED
    BY <2>1, <2>2
<1>5. ASSUME NEW j \in Job,
             \/ BeginSetup(j) \/ Wait(j) \/ CancelSetup(j) \/ EditFile(j) \/ FindSource(j)
             \/ CopyScript(j) \/ RunScript(j) \/ FinishReport(j) \/ SkipReport(j)
             \/ CancelReport(j) \/ LoseRunner(j)
      PROVE  BuilderInv'
  BY <1>5 DEF BeginSetup, Wait, CancelSetup, EditFile, FindSource, CopyScript, RunScript,
              FinishReport, SkipReport, CancelReport, LoseRunner
<1>6. ASSUME NEW j \in Job, Post(j) PROVE BuilderInv'
  <2>1. saved[j] = IF work[j].posts THEN named[j] ELSE NoName
    BY DEF NameInv
  <2>2. CASE PostName(j) = NoName
    <3>1. work[j].posts => named[j] = NoName
      BY <2>1, <2>2 DEF PostName
    <3> QED
      BY <1>6, <2>2, <3>1 DEF Post
  <2>3. CASE PostName(j) # NoName /\ builder' = [builder EXCEPT ![PostName(j)] = None]
    <3>1. named[j] # NoName /\ work[j].posts => PostName(j) = named[j]
      BY <2>1 DEF PostName
    <3>2. \A n \in Name : builder'[n] = builder[n] \/ builder'[n] = None
      BY <2>3
    <3>3. named[j] \in Name /\ work[j].posts => builder'[named[j]] = None
      BY <2>3, <3>1
    <3>4. None.job \notin Job
      BY DEF None
    <3> QED
      BY <1>6, <3>2, <3>3, <3>4 DEF Post
  <2>4. CASE trouble' = trouble \cup {j} /\ UNCHANGED builder
    BY <1>6, <2>4 DEF Post
  <2> QED
    BY <1>6, <2>2, <2>3, <2>4 DEF Post
<1>7. ASSUME NEW n \in Name, BuilderTurns(n) PROVE BuilderInv'
  <2>1. builder[n] \in Container
    BY <1>7 DEF BuilderTurns, None
  <2>2. \A m \in Name : builder'[m].job = builder[m].job
    BY <1>7, <2>1 DEF BuilderTurns, Container
  <2> QED
    BY <1>7, <2>2 DEF BuilderTurns
<1>8. CASE UNCHANGED vars
  BY <1>8 DEF vars
<1> QED
  BY <1>2, <1>3, <1>4, <1>5, <1>6, <1>7, <1>8 DEF Next, Step, Done

\* A job that does not move keeps what its project holds, if it is alone there.
LEMMA AloneItStands ==
  ASSUME TypeOK, NameInv, SharedInv, [Next]_vars, NEW j \in Job, Active(j), j \notin shared,
         named[j] # NoName, at'[j] = at[j]
  PROVE  \/ builder'[named[j]] = builder[named[j]]
         \/ /\ builder[named[j]] # None
            /\ builder'[named[j]].job = builder[named[j]].job
<1>1. named[j] \in Name /\ named[j] = Claim(j) /\ Claim(j) # NoName
  BY LifecycleAssumption DEF TypeOK, NameInv
<1>2. ~DownFirst(j) /\ ~Up(j) /\ ~Post(j)
  BY DEF DownFirst, Up, Post, Go, EndSetup, TypeOK
<1>3. \A k \in Job : Active(k) /\ Claim(k) = named[j] => k = j
  BY <1>1, OthersKeepOff
<1> QED
  BY <1>1, <1>2, <1>3, OnlyClaimantsTouch

LEMMA OwnersKept ==
  ASSUME TypeOK, NameInv, SharedInv, OwnInv, [Next]_vars
  PROVE  OwnInv'
<1> USE DEF TypeOK, Go, EndSetup, EndReport, setupVars, reportVars
<1>1. shared \subseteq shared'
  BY SharingKept
<1>2. SUFFICES ASSUME NEW j \in Job, j \notin shared
               PROVE  /\ at'[j] = "up" => builder'[named'[j]] = None
                      /\ at'[j] = "wait" \/ (at'[j] = "steps" /\ setup'[j] = "ok")
                           => builder'[named'[j]].job = j
  BY <1>1 DEF OwnInv
<1>3. CASE at'[j] = at[j] /\ setup'[j] = setup[j] /\ named'[j] = named[j]
  <2>1. CASE at[j] \in {"up", "wait"} \/ (at[j] = "steps" /\ setup[j] = "ok")
    <3>1. Active(j) /\ named[j] # NoName
      BY <2>1 DEF Active, NameInv
    <3>2. \/ builder'[named[j]] = builder[named[j]]
          \/ /\ builder[named[j]] # None
             /\ builder'[named[j]].job = builder[named[j]].job
      BY <1>2, <1>3, <3>1, AloneItStands
    <3> QED
      BY <1>2, <1>3, <3>2 DEF OwnInv
  <2>2. CASE ~(at[j] \in {"up", "wait"} \/ (at[j] = "steps" /\ setup[j] = "ok"))
    BY <1>3, <2>2
  <2> QED
    BY <2>1, <2>2
<1>4. CASE DownFirst(j)
  <2>1. named[j] \in Name
    BY <1>4 DEF DownFirst, NameInv
  <2> QED
    BY <1>4, <2>1 DEF DownFirst
<1>5. CASE Up(j)
  <2>1. named[j] \in Name /\ builder[named[j]] = None
    BY <1>2, <1>5 DEF Up, NameInv, OwnInv
  <2>2. at'[j] = "wait" \/ (at'[j] = "steps" /\ setup'[j] = "failed")
    BY <1>5 DEF Up
  <2>3. at'[j] = "wait" => builder' = [builder EXCEPT ![named[j]] = [job |-> j, state |-> "starting"]]
    BY <1>5, <2>1 DEF Up
  <2>4. named' = named
    BY <1>5 DEF Up
  <2> QED
    BY <2>1, <2>2, <2>3, <2>4
<1>6. CASE Wait(j)
  BY <1>2, <1>6 DEF Wait, OwnInv
<1>7. CASE \/ BeginSetup(j) \/ ReadInputs(j) \/ CancelSetup(j) \/ EditFile(j) \/ FindSource(j)
           \/ CopyScript(j) \/ RunScript(j) \/ FinishReport(j) \/ SkipReport(j) \/ CancelReport(j)
           \/ Post(j) \/ LoseRunner(j)
  <2>1. \/ at'[j] \notin {"up", "wait", "steps"}
        \/ at'[j] = "steps" /\ setup'[j] = "failed"
        \/ EditFile(j)
    BY <1>7 DEF BeginSetup, ReadInputs, CancelSetup, FindSource, CopyScript, RunScript,
                FinishReport, SkipReport, CancelReport, Post, LoseRunner
  <2>2. EditFile(j) => at'[j] = at[j] /\ setup'[j] = setup[j] /\ named'[j] = named[j]
    BY DEF EditFile
  <2> QED
    BY <1>3, <2>1, <2>2
<1>8. CASE \E k \in Job \ {j} :
             \/ BeginSetup(k) \/ Step(k) \/ CancelSetup(k) \/ CancelReport(k) \/ EditFile(k)
             \/ LoseRunner(k)
  <2>1. at'[j] = at[j] /\ setup'[j] = setup[j] /\ named'[j] = named[j]
    BY <1>8 DEF Step, BeginSetup, ReadInputs, DownFirst, Up, Wait, CancelSetup, EditFile,
                FindSource, CopyScript, RunScript, FinishReport, SkipReport, CancelReport, Post,
                LoseRunner
  <2> QED
    BY <1>3, <2>1
<1>9. CASE \E n \in Name : BuilderTurns(n)
  BY <1>3, <1>9 DEF BuilderTurns
<1>10. CASE UNCHANGED vars
  BY <1>3, <1>10 DEF vars
<1> QED
  BY <1>4, <1>5, <1>6, <1>7, <1>8, <1>9, <1>10 DEF Next, Step, Done

-----------------------------------------------------------------------------
(* The report. *)

\* The scratch container and the directory go by the end of the report, or the
\* job is one whose removal failed.
LEMMA ScratchKept ==
  ASSUME TypeOK, ScratchInv, [Next]_vars
  PROVE  ScratchInv'
<1> USE DEF TypeOK, ScratchInv, Go, EndSetup, EndReport, setupVars, reportVars, Starting,
            SettingUp, Reporting, Place
<1>1. ASSUME NEW j \in Job,
             BeginSetup(j) \/ ReadInputs(j) \/ DownFirst(j) \/ Up(j) \/ Wait(j) \/ CancelSetup(j)
      PROVE  ScratchInv'
  BY <1>1 DEF BeginSetup, ReadInputs, DownFirst, Up, Wait, CancelSetup
<1>2. ASSUME NEW j \in Job, EditFile(j) \/ SkipReport(j) \/ Post(j) \/ LoseRunner(j)
      PROVE  ScratchInv'
  BY <1>2 DEF EditFile, SkipReport, Post, LoseRunner
<1>3. ASSUME NEW j \in Job, FindSource(j) PROVE ScratchInv'
  BY <1>3 DEF FindSource
<1>4. ASSUME NEW j \in Job, CopyScript(j) PROVE ScratchInv'
  BY <1>4 DEF CopyScript
<1>5. ASSUME NEW j \in Job, RunScript(j) PROVE ScratchInv'
  BY <1>5 DEF RunScript
<1>6. ASSUME NEW j \in Job, FinishReport(j) PROVE ScratchInv'
  BY <1>6 DEF FinishReport
<1>7. ASSUME NEW j \in Job, CancelReport(j) PROVE ScratchInv'
  BY <1>7 DEF CancelReport
<1>8. ASSUME NEW n \in Name, BuilderTurns(n) PROVE ScratchInv'
  BY <1>8 DEF BuilderTurns
<1>9. CASE UNCHANGED vars
  BY <1>9 DEF vars
<1> QED
  BY <1>1, <1>2, <1>3, <1>4, <1>5, <1>6, <1>7, <1>8, <1>9 DEF Next, Step, Done

\* A report that finds a builder by a name nobody shares finds the job's own:
\* the name is the one setup took, unless the file was changed.
LEMMA FindsOwn ==
  ASSUME TypeOK, NameInv, OwnInv, NEW j \in Job, FindSource(j), setup[j] = "ok", j \notin shared,
         ~Edited(j), at'[j] \in Reporting
  PROVE  source'[j] = j
<1> USE DEF TypeOK
<1>1. /\ CanRead(j) /\ ValidName(Inputs(j)) /\ at[j] = "steps"
      /\ \E k \in Job : Sources(NameOf(Inputs(j))) = {k} /\ source' = [source EXCEPT ![j] = k]
  BY DEF FindSource, EndReport, Go, Reporting
<1>2. NameOf(Inputs(j)) = Claim(j) /\ named[j] = Claim(j) /\ Claim(j) \in Name
  BY <1>1, JobNames, LifecycleAssumption DEF Edited, NameInv
<1>3. builder[named[j]].job = j
  BY <1>1 DEF OwnInv
<1>4. Sources(NameOf(Inputs(j))) \subseteq {j}
  BY <1>2, <1>3 DEF Sources
<1> QED
  BY <1>1, <1>4

LEMMA SourcesKept ==
  ASSUME TypeOK, NameInv, SharedInv, OwnInv, ScratchInv, SourceInv, [Next]_vars
  PROVE  SourceInv'
<1>1. work' = work /\ shared \subseteq shared'
  BY WorkStays, SharingKept
<1> USE <1>1 DEF TypeOK, SourceInv, Edited, Go, EndSetup, EndReport, setupVars, reportVars, Reporting
<1>2. ASSUME NEW j \in Job,
             BeginSetup(j) \/ ReadInputs(j) \/ DownFirst(j) \/ Up(j) \/ Wait(j) \/ CancelSetup(j)
      PROVE  SourceInv'
  BY <1>2 DEF BeginSetup, ReadInputs, DownFirst, Up, Wait, CancelSetup, SettingUp
<1>3. ASSUME NEW j \in Job, EditFile(j) PROVE SourceInv'
  BY <1>3 DEF EditFile
<1>4. ASSUME NEW j \in Job, SkipReport(j) PROVE SourceInv'
  BY <1>4 DEF SkipReport, ScratchInv
<1>5. ASSUME NEW j \in Job, FindSource(j) PROVE SourceInv'
  <2>1. \A k \in Job \ {j} : at'[k] = at[k] /\ exit'[k] = exit[k] /\ source'[k] = source[k]
    BY <1>5 DEF FindSource
  <2>2. UNCHANGED <<setup, file>>
    BY <1>5 DEF FindSource
  <2>3. at'[j] \in Reporting \/ exit'[j] = "failed"
    BY <1>5 DEF FindSource
  <2>4. setup[j] = "ok" /\ j \notin shared /\ ~Edited(j) /\ at'[j] \in Reporting => source'[j] = j
    BY <1>5, FindsOwn
  <2> QED
    BY <2>1, <2>2, <2>3, <2>4
<1>6. ASSUME NEW j \in Job,
             CopyScript(j) \/ RunScript(j) \/ FinishReport(j) \/ CancelReport(j) \/ Post(j)
             \/ LoseRunner(j)
      PROVE  SourceInv'
  BY <1>6 DEF CopyScript, RunScript, FinishReport, CancelReport, Post, LoseRunner
<1>7. ASSUME NEW n \in Name, BuilderTurns(n) PROVE SourceInv'
  BY <1>7 DEF BuilderTurns
<1>8. CASE UNCHANGED vars
  BY <1>8 DEF vars
<1> QED
  BY <1>2, <1>3, <1>4, <1>5, <1>6, <1>7, <1>8 DEF Next, Step, Done

LEMMA SwitchesKept ==
  ASSUME TypeOK, SwitchInv, [Next]_vars
  PROVE  SwitchInv'
<1>1. work' = work
  BY WorkStays
<1>2. \A j \in Job : file'[j] = file[j] => Inputs(j)' = Inputs(j)
  BY <1>1 DEF Inputs
<1> USE DEF TypeOK, SwitchInv, Go, EndSetup, EndReport, setupVars, reportVars, Reporting
<1>3. ASSUME NEW j \in Job, EditFile(j) PROVE SwitchInv'
  <2>1. at' = at /\ at[j] = "steps" /\ \A k \in Job \ {j} : file'[k] = file[k]
    BY <1>3 DEF EditFile
  <2> QED
    BY <1>2, <2>1
<1>4. ASSUME NEW j \in Job, FindSource(j) PROVE SwitchInv'
  <2>1. file' = file /\ (\A k \in Job \ {j} : at'[k] = at[k])
        /\ (ValidSwitch(Inputs(j)) \/ at'[j] = "post")
    BY <1>4 DEF FindSource
  <2> QED
    BY <1>2, <2>1
<1>5. ASSUME NEW j \in Job,
             \/ BeginSetup(j) \/ ReadInputs(j) \/ DownFirst(j) \/ Up(j) \/ Wait(j) \/ CancelSetup(j)
             \/ CopyScript(j) \/ RunScript(j) \/ FinishReport(j) \/ SkipReport(j)
             \/ CancelReport(j) \/ Post(j) \/ LoseRunner(j)
      PROVE  SwitchInv'
  <2>1. file' = file /\ \A k \in Job : at'[k] \in Reporting => at[k] \in Reporting
    BY <1>5 DEF BeginSetup, ReadInputs, DownFirst, Up, Wait, CancelSetup, CopyScript, RunScript,
                FinishReport, SkipReport, CancelReport, Post, LoseRunner
  <2> QED
    BY <1>2, <2>1
<1>6. ASSUME NEW n \in Name, BuilderTurns(n) PROVE SwitchInv'
  BY <1>2, <1>6 DEF BuilderTurns
<1>7. CASE UNCHANGED vars
  BY <1>2, <1>7 DEF vars
<1> QED
  BY <1>3, <1>4, <1>5, <1>6, <1>7 DEF Next, Step, Done

-----------------------------------------------------------------------------
(* The theorems. *)

LEMMA InvBegins == Init => Inv
<1> SUFFICES ASSUME Init PROVE Inv
  OBVIOUS
<1>1. TypeOK
  BY TypesBegin
<1>2. \A j \in Job : at[j] = "idle"
  BY DEF Init
<1>3. NameInv /\ SharedInv /\ OwnInv /\ ScratchInv /\ SourceInv /\ SwitchInv
  BY <1>2, LifecycleAssumption
  DEF Init, NameInv, SharedInv, OwnInv, ScratchInv, SourceInv, SwitchInv, Active, Starting,
      SettingUp, Reporting
<1>4. BuilderInv
  BY LifecycleAssumption DEF Init, BuilderInv, None
<1> QED
  BY <1>1, <1>3, <1>4 DEF Inv

LEMMA InvKept == Inv /\ [Next]_vars => Inv'
BY TypesKept, NamesKept, SharingKept, BuildersKept, OwnersKept, ScratchKept, SourcesKept,
   SwitchesKept DEF Inv

THEOREM Invariance == Spec => []Inv
BY InvBegins, InvKept, PTL DEF Spec

\* The state keeps its type, and a job's config file is its workflow's or one
\* its steps may leave.
THEOREM TypeCorrect == Spec => []TypeOK
<1>1. Inv => TypeOK
  BY DEF Inv
<1> QED
  BY <1>1, Invariance, PTL

\* A setup that ended well has a builder with its own job's rules, for as long
\* as no other job comes to its name (setup-step.ts:236-247).
THEOREM BuildsUnderOwnRules == Spec => []OwnRules
<1>1. Inv => OwnRules
  BY DEF Inv, OwnInv, OwnRules
<1> QED
  BY <1>1, Invariance, PTL

\* A job that is over has left nothing on the machine, wherever its setup
\* stopped (post-cleanup.ts:41-65, copy-from-image.ts:41-56).
THEOREM NothingIsLeft == Spec => []NothingLeftBehind
<1>1. Inv => NothingLeftBehind
  BY DEF Inv, ScratchInv, BuilderInv, NothingLeftBehind
<1> QED
  BY <1>1, Invariance, PTL

\* A green report was decided from the builder of the report's own job, if its
\* setup ended well (find-report-source.ts:13-38).
THEOREM GreenReportsAreEarned == Spec => []GreenIsEarned
<1>1. Inv => GreenIsEarned
  BY DEF Inv, SourceInv, GreenIsEarned
<1> QED
  BY <1>1, Invariance, PTL

\* Nobody but the job itself removes or replaces the builder of a job at work
\* under a name of its own (post-cleanup.ts:27-40).
THEOREM BuildersAreNobodyElses == Spec => NobodyElsesBuilder
<1>1. ASSUME Inv, [Next]_vars, NEW n \in Name, NEW j \in Job,
             builder[n].job = j, builder'[n].job # j, Active(j), j \notin shared
      PROVE  at'[j] # at[j]
  <2>1. named[j] = n /\ named[j] # NoName
    BY <1>1, LifecycleAssumption DEF Inv, BuilderInv
  <2> QED
    BY <1>1, <2>1, AloneItStands DEF Inv
<1>2. Inv /\ [Next]_vars =>
        [\A n \in Name, j \in Job :
           builder[n].job = j /\ builder'[n].job # j /\ Active(j) /\ j \notin shared
             => at'[j] # at[j]]_vars
  BY <1>1
<1> QED
  BY <1>2, Invariance, PTL DEF Spec, NobodyElsesBuilder

\* What the workflow sets stays what the report goes by, whatever a build left
\* in the config file (config-file.ts:283-302).
THEOREM WorkflowInputsAreKept == Spec => []WorkflowInputsHold
<1>1. ASSUME Inv, NEW j \in Job, at[j] \in Reporting
      PROVE  LET set(i) == {work[j].inputs[i][s] : s \in Spelling} \ {Blank}
             IN  /\ set("builder-name") # {} =>
                      /\ NameOf(Inputs(j)) \in set("builder-name")
                      /\ named[j] \in {NoName, NameOf(Inputs(j))}
                 /\ set("fail-on-blocked") # {} => FailOnBlocked(Inputs(j)) \in set("fail-on-blocked")
  <2> DEFINE written(i) == {work[j].inputs[i][s] : s \in Spelling} \ {Blank}
             inputs == Normalized(work[j].inputs)
             begun == IF work[j].configured THEN Merged(inputs, work[j].file) ELSE inputs
  <2>1. \A i \in {"builder-name", "fail-on-blocked"} : i \in Input /\ i \notin Lists
    BY DEF Input, Lists
  <2>2. \A i \in {"builder-name", "fail-on-blocked"} : written(i) # {} => inputs[i] \in written(i)
    BY <2>1 DEF Normalized, Empty, Spelling
  <2>3. \A i \in {"builder-name", "fail-on-blocked"} : \A f :
          inputs[i] # Blank => Merged(inputs, f)[i] = inputs[i]
    BY <2>1 DEF Merged
  <2>4. \A i \in {"builder-name", "fail-on-blocked"} :
          inputs[i] # Blank => Inputs(j)[i] = inputs[i] /\ begun[i] = inputs[i]
    BY <2>3 DEF Inputs
  <2>5. ASSUME written("builder-name") # {}
        PROVE  /\ NameOf(Inputs(j)) \in written("builder-name")
               /\ named[j] \in {NoName, NameOf(Inputs(j))}
    <3>1. inputs["builder-name"] \in written("builder-name") /\ inputs["builder-name"] # Blank
      BY <2>2, <2>5
    <3>2. NameOf(Inputs(j)) = inputs["builder-name"] /\ NameOf(begun) = inputs["builder-name"]
      BY <2>4, <3>1 DEF NameOf
    <3>3. Claim(j) \in {NoName, NameOf(begun)}
      BY DEF Claim
    <3>4. named[j] \in {NoName, Claim(j)}
      BY <1>1 DEF Inv, NameInv
    <3> QED
      BY <3>1, <3>2, <3>3, <3>4
  <2>6. ASSUME written("fail-on-blocked") # {}
        PROVE  FailOnBlocked(Inputs(j)) \in written("fail-on-blocked")
    <3> DEFINE value == inputs["fail-on-blocked"]
    <3>1. value \in written("fail-on-blocked") /\ value # Blank
      BY <2>2, <2>6
    <3>2. Inputs(j)["fail-on-blocked"] = value
      BY <2>4, <3>1
    <3>3. value \in BOOLEAN \cup {Blank, Malformed}
      BY <1>1, WorkTypes DEF Inv, TypeOK
    <3>4. value # Malformed
      BY <1>1, <3>2 DEF Inv, SwitchInv, ValidSwitch
    <3>5. value = TRUE \/ value = FALSE
      BY <3>1, <3>3, <3>4
    <3>6. FailOnBlocked(Inputs(j)) = (value = TRUE)
      BY <3>1, <3>2 DEF FailOnBlocked
    <3> HIDE DEF value
    <3>7. FailOnBlocked(Inputs(j)) = value
      BY <3>5, <3>6
    <3> QED
      BY <3>1, <3>7
  <2> QED
    BY <2>5, <2>6
<1>2. Inv => WorkflowInputsHold
  BY <1>1 DEF WorkflowInputsHold
<1> QED
  BY <1>2, Invariance, PTL
=============================================================================
