--------------------------- MODULE ActionLifecycle ---------------------------
(***************************************************************************)
(* The jobs of one machine, each with the setup step that starts a         *)
(* builder, the builds that use it, the report step that reads it and the  *)
(* post step that removes it.  They share a Docker daemon, and they meet   *)
(* in it wherever two of them come to the same builder name.               *)
(*                                                                         *)
(* A builder's Compose project is a hash of its name (deriveProjectName),  *)
(* so a name stands for its project, and the project's one container is    *)
(* known by the job whose setup created it: that job's rules are the ones  *)
(* it enforces.  A setup may be cancelled between any two of its calls, a  *)
(* machine may lose a runner with all its job had left to do, and every    *)
(* call of Docker may fail.                                                *)
(***************************************************************************)
EXTENDS ActionInputs

CONSTANTS
  Job,
  Workloads,  \* what the jobs' workflows are: the inputs and the config file
  Taken,      \* names of containers no Compose project of ours has
  NoJob, NoName,
  MaxLost,    \* bound: the runners lost
  MaxEdits    \* bound: the steps that change a config file

\* `configured` is whether config-file is set, and `posts` whether the runner
\* has a state file for the post step; `files` is what the file holds when the
\* job begins, and what a step of the job may leave in its place.
ASSUME LifecycleAssumption ==
  /\ NoJob \notin Job /\ NoName \notin Name /\ Taken \subseteq Name
  /\ MaxLost \in Nat /\ MaxEdits \in Nat
  /\ \A jobs \in Workloads : DOMAIN jobs = Job
  /\ \A w \in UNION {{jobs[j] : j \in Job} : jobs \in Workloads} :
       /\ w.configured \in BOOLEAN /\ w.posts \in BOOLEAN
       /\ Normalized(w.inputs)["builder-name"] \in Name \cup {Blank, Malformed}
       /\ Normalized(w.inputs)["fail-on-blocked"] \in BOOLEAN \cup {Blank, Malformed}
       /\ \A f \in w.files \cup {w.file} :
            FileValue(f, "builder-name") \in Name \cup {Blank, Malformed}

Container == [job : Job, state : {"starting", "healthy", "stopped"}]
None == [job |-> NoJob, state |-> "none"]

VARIABLES
  work,      \* each job's workflow, one of Workloads
  file,      \* its config file as it is now
  at,        \* [Job -> Place], the call its current step makes next
  setup,     \* [Job -> Outcome], how its setup step ended
  saved,     \* [Job -> Name \cup {NoName}], the state setup leaves for post
  named,     \* [Job -> Name \cup {NoName}], the builder-name output
  builder,   \* [Name -> Container], the container of each project
  source,    \* [Job -> Job \cup {NoJob}], the container its report reads
  scratch,   \* [Job -> SUBSET {"container", "directory"}], the report's own
  exit,      \* [Job -> {"none", "zero", "failed"}], its report's exit status
  shared,    \* history: the jobs that came to one name with another at work
  trouble    \* history: the jobs that were lost, whose report was cancelled, or a removal failed

setupVars == <<setup, saved, named>>
reportVars == <<source, scratch, exit>>
vars == <<work, file, at, setupVars, builder, reportVars, shared, trouble>>

SettingUp == {"inputs", "down", "up", "wait"}
Reporting == {"copy", "script", "finish"}
Place == {"idle", "steps", "post", "over", "lost"} \cup SettingUp \cup Reporting
Outcome == {"none", "ok", "failed"}

\* The inputs a step of the job reads, with its file as it is by then.
Inputs(j) ==
  LET inputs == Normalized(work[j].inputs)
  IN  IF work[j].configured THEN Merged(inputs, file[j]) ELSE inputs

CanRead(j) == work[j].configured => Readable(file[j])

\* The name a job has a claim to from its start: the one its setup takes, unless
\* something else refuses it first.
Claim(j) ==
  LET inputs == Normalized(work[j].inputs)
      merged == IF work[j].configured THEN Merged(inputs, work[j].file) ELSE inputs
  IN  IF (work[j].configured => Readable(work[j].file)) /\ ValidName(merged)
      THEN NameOf(merged) ELSE NoName

Active(j) == at[j] \notin {"idle", "over", "lost"}

Init ==
  /\ work \in Workloads
  /\ file = [j \in Job |-> work[j].file]
  /\ at = [j \in Job |-> "idle"] /\ setup = [j \in Job |-> "none"]
  /\ saved = [j \in Job |-> NoName] /\ named = [j \in Job |-> NoName]
  /\ builder = [n \in Name |-> None]
  /\ source = [j \in Job |-> NoJob] /\ scratch = [j \in Job |-> {}]
  /\ exit = [j \in Job |-> "none"]
  /\ shared = {} /\ trouble = {}

Go(j, place) == at' = [at EXCEPT ![j] = place]
EndSetup(j, outcome) == setup' = [setup EXCEPT ![j] = outcome] /\ Go(j, "steps")

-----------------------------------------------------------------------------
(* The setup step.                                                         *)

BeginSetup(j) ==
  LET same == {k \in Job \ {j} : Active(k) /\ Claim(k) = Claim(j)}
  IN  /\ at[j] = "idle" /\ Go(j, "inputs")
      /\ shared' = IF Claim(j) = NoName \/ same = {} THEN shared ELSE shared \cup same \cup {j}
      /\ UNCHANGED <<work, file, setupVars, builder, reportVars, trouble>>

\* Every input is read and checked, and the name left for post and for the
\* workflow, before anything is started.
ReadInputs(j) ==
  /\ at[j] = "inputs"
  /\ IF CanRead(j) /\ ValidName(Inputs(j)) /\ ValidRules(Inputs(j))
     THEN /\ saved' = [saved EXCEPT ![j] = IF work[j].posts THEN NameOf(Inputs(j)) ELSE NoName]
          /\ named' = [named EXCEPT ![j] = NameOf(Inputs(j))]
          /\ Go(j, "down") /\ UNCHANGED setup
     ELSE EndSetup(j, "failed") /\ UNCHANGED <<saved, named>>
  /\ UNCHANGED <<work, file, builder, reportVars, shared, trouble>>

\* Mutation: nothing is taken down ahead of the up.
UpOverLeftover(j) ==
  /\ at[j] = "down" /\ Go(j, "up")
  /\ UNCHANGED <<work, file, setupVars, builder, reportVars, shared, trouble>>

\* `compose down`: an earlier run's builder would be kept with its rules.  Ahead
\* of it the rules' support and sizes and the image's provenance are checked,
\* each of which may fail the step too.
DownFirst(j) ==
  /\ at[j] = "down"
  /\ \/ /\ builder' = [builder EXCEPT ![named[j]] = None]
        /\ Go(j, "up") /\ UNCHANGED setup
     \/ EndSetup(j, "failed") /\ UNCHANGED builder
  /\ UNCHANGED <<work, file, saved, named, reportVars, shared, trouble>>

\* `compose up`: a container of the project is kept, or made anew.
Up(j) ==
  /\ at[j] = "up"
  /\ \/ /\ named[j] \notin Taken
        /\ \/ builder' = [builder EXCEPT ![named[j]] = [job |-> j, state |-> "starting"]]
           \/ /\ builder[named[j]] # None
              /\ builder' = [builder EXCEPT ![named[j]].state =
                               IF @ = "stopped" THEN "starting" ELSE @]
        /\ Go(j, "wait") /\ UNCHANGED setup
     \/ EndSetup(j, "failed") /\ UNCHANGED builder
  /\ UNCHANGED <<work, file, saved, named, reportVars, shared, trouble>>

\* --wait: until it is healthy, has stopped, is gone, or the time is over.
Wait(j) ==
  /\ at[j] = "wait"
  /\ IF builder[named[j]].state = "healthy" THEN EndSetup(j, "ok") ELSE EndSetup(j, "failed")
  /\ UNCHANGED <<work, file, saved, named, builder, reportVars, shared, trouble>>

CancelSetup(j) ==
  /\ at[j] \in SettingUp /\ EndSetup(j, "failed")
  /\ UNCHANGED <<work, file, saved, named, builder, reportVars, shared, trouble>>

-----------------------------------------------------------------------------
(* Between setup and report: the builders, and the steps of the workflow.  *)

BuilderTurns(n) ==
  /\ \/ builder[n].state = "starting" /\ builder' = [builder EXCEPT ![n].state = "healthy"]
     \/ /\ builder[n].state \in {"starting", "healthy"}
        /\ builder' = [builder EXCEPT ![n].state = "stopped"]
  /\ UNCHANGED <<work, file, at, setupVars, reportVars, shared, trouble>>

Edited(j) == file[j] # work[j].file

\* A build's export, or a step, that writes the config file.
EditFile(j) ==
  /\ at[j] = "steps" /\ work[j].configured /\ ~Edited(j)
  /\ Cardinality({k \in Job : Edited(k)}) < MaxEdits
  /\ \E f \in work[j].files : file' = [file EXCEPT ![j] = f]
  /\ UNCHANGED <<work, at, setupVars, builder, reportVars, shared, trouble>>

-----------------------------------------------------------------------------
(* The report step.                                                        *)

EndReport(j, status) == exit' = [exit EXCEPT ![j] = status] /\ Go(j, "post")

\* Mutation: any container with the report-source label.
SourcesOfLabel(name) == {builder[n].job : n \in {m \in Name : builder[m].state \notin {"none", "stopped"}}}

\* findReportSourceContainer: the running containers of the name's project.
Sources(name) == {builder[n].job : n \in {m \in {name} : builder[m].state \notin {"none", "stopped"}}}

\* Its inputs are read again, with the config file as it is by now.
FindSource(j) ==
  /\ at[j] = "steps"
  /\ \/ /\ CanRead(j) /\ ValidName(Inputs(j)) /\ ValidSwitch(Inputs(j))
        /\ \E k \in Job : /\ Sources(NameOf(Inputs(j))) = {k}
                          /\ source' = [source EXCEPT ![j] = k]
        /\ scratch' = [scratch EXCEPT ![j] = {"directory"}]
        /\ Go(j, "copy") /\ UNCHANGED exit
     \/ EndReport(j, "failed") /\ UNCHANGED <<source, scratch>>
  /\ UNCHANGED <<work, file, setupVars, builder, shared, trouble>>

\* copyFromContainerImage: a container is made of the image the daemon has on
\* record for the source, the script is copied out of it, or not, and it is
\* removed either way.  A removal that fails fails nothing else.
CopyScript(j) ==
  /\ at[j] = "copy"
  /\ \/ \* docker inspect or docker create fails
        Go(j, "finish") /\ UNCHANGED <<scratch, trouble>>
     \/ /\ \E n \in Name : builder[n].job = source[j]
        /\ Go(j, "script") \/ Go(j, "finish")
        /\ \/ UNCHANGED <<scratch, trouble>>
           \/ /\ scratch' = [scratch EXCEPT ![j] = @ \cup {"container"}]
              /\ trouble' = trouble \cup {j}
  /\ UNCHANGED <<work, file, setupVars, builder, source, exit, shared>>

\* The script's status is the step's; one that could not be run, or was
\* killed, has none.
RunScript(j) ==
  /\ at[j] = "script" /\ Go(j, "finish")
  /\ \E status \in {"none", "zero", "failed"} :
       /\ status = "zero" => \E n \in Name :
                               builder[n].job = source[j] /\ builder[n].state # "stopped"
       /\ exit' = [exit EXCEPT ![j] = status]
  /\ UNCHANGED <<work, file, setupVars, builder, source, scratch, shared, trouble>>

\* The upload only warns, and the directory goes whatever came before.
FinishReport(j) ==
  /\ at[j] = "finish"
  /\ \/ /\ scratch' = [scratch EXCEPT ![j] = @ \ {"directory"}] /\ UNCHANGED trouble
        /\ EndReport(j, IF exit[j] = "none" THEN "failed" ELSE exit[j])
     \/ trouble' = trouble \cup {j} /\ EndReport(j, "failed") /\ UNCHANGED scratch
  /\ UNCHANGED <<work, file, setupVars, builder, source, shared>>

\* A workflow may have no report step.
SkipReport(j) ==
  /\ at[j] = "steps" /\ Go(j, "post")
  /\ UNCHANGED <<work, file, setupVars, builder, reportVars, shared, trouble>>

\* Cancelled between its calls, or while the scratch container exists.
CancelReport(j) ==
  /\ at[j] \in Reporting /\ EndReport(j, "failed") /\ trouble' = trouble \cup {j}
  /\ \/ UNCHANGED scratch
     \/ at[j] = "copy" /\ scratch' = [scratch EXCEPT ![j] = @ \cup {"container"}]
  /\ UNCHANGED <<work, file, setupVars, builder, source, shared>>

-----------------------------------------------------------------------------
(* The post step, and the end of a job.                                    *)

\* Mutation: the input stands in for a saved name whatever config-file is.
PostByInput(j) ==
  LET inputs == Normalized(work[j].inputs)
  IN  IF ~work[j].posts THEN NoName
      ELSE IF saved[j] # NoName THEN saved[j]
      ELSE IF ~ValidName(inputs) THEN NoName ELSE NameOf(inputs)

\* Mutation: the name is worked out again, from the file as it is by now.
PostReadsAgain(j) ==
  IF ~work[j].posts \/ ~CanRead(j) \/ ~ValidName(Inputs(j)) THEN NoName ELSE NameOf(Inputs(j))

\* Mutation: only a setup that ended well has a builder to remove.
PostAfterSuccess(j) == IF work[j].posts /\ setup[j] = "ok" THEN saved[j] ELSE NoName

\* planPostCleanup: the saved name first; else the input, unless config-file
\* is set or the name is invalid.
PostName(j) ==
  LET inputs == Normalized(work[j].inputs)
  IN  IF ~work[j].posts THEN NoName
      ELSE IF saved[j] # NoName THEN saved[j]
      ELSE IF work[j].configured \/ ~ValidName(inputs) THEN NoName
      ELSE NameOf(inputs)

Post(j) ==
  /\ at[j] = "post" /\ Go(j, "over")
  /\ \/ PostName(j) = NoName /\ UNCHANGED <<builder, trouble>>
     \/ /\ PostName(j) # NoName
        /\ \/ builder' = [builder EXCEPT ![PostName(j)] = None] /\ UNCHANGED trouble
           \/ trouble' = trouble \cup {j} /\ UNCHANGED builder
  /\ UNCHANGED <<work, file, setupVars, reportVars, shared>>

LoseRunner(j) ==
  /\ Active(j) /\ Cardinality({k \in Job : at[k] = "lost"}) < MaxLost
  /\ Go(j, "lost") /\ trouble' = trouble \cup {j}
  /\ UNCHANGED <<work, file, setupVars, builder, reportVars, shared>>

\* What a job does next, left alone.
Step(j) ==
  \/ ReadInputs(j) \/ DownFirst(j) \/ Up(j) \/ Wait(j)
  \/ FindSource(j) \/ SkipReport(j) \/ CopyScript(j) \/ RunScript(j) \/ FinishReport(j)
  \/ Post(j)

Done == (\A j \in Job : at[j] \in {"over", "lost"}) /\ UNCHANGED vars

Next ==
  \/ \E j \in Job : BeginSetup(j) \/ Step(j) \/ CancelSetup(j) \/ CancelReport(j)
                    \/ EditFile(j) \/ LoseRunner(j)
  \/ \E n \in Name : BuilderTurns(n)
  \/ Done

Spec == Init /\ [][Next]_vars

\* The runner goes through a job's steps, and each call returns in the end:
\* compose's wait has a timeout.
FairSpec == Spec /\ \A j \in Job : WF_vars(Step(j))

-----------------------------------------------------------------------------
\* Every variable keeps its type, and a job its workflow's own file or one its
\* steps may leave.
TypeOK ==
  /\ work \in Workloads
  /\ \A j \in Job : file[j] \in work[j].files \cup {work[j].file}
  /\ at \in [Job -> Place] /\ setup \in [Job -> Outcome]
  /\ saved \in [Job -> Name \cup {NoName}] /\ named \in [Job -> Name \cup {NoName}]
  /\ builder \in [Name -> Container \cup {None}]
  /\ source \in [Job -> Job \cup {NoJob}]
  /\ scratch \in [Job -> SUBSET {"container", "directory"}]
  /\ exit \in [Job -> {"none", "zero", "failed"}]
  /\ shared \subseteq Job /\ trouble \subseteq Job

\* The builds of a job run under that job's own rules: once its setup has ended
\* well, the container of its builder's name is the one that setup made, never
\* one a lost job left there, unless another job came to the name meanwhile
\* (setup-step.ts:236-247, docs/reference.md:49-52).
OwnRules ==
  \A j \in Job :
    at[j] = "steps" /\ setup[j] = "ok" /\ j \notin shared => builder[named[j]].job = j

\* While a job is at work under a name no other job came to, nobody else
\* removes or replaces its builder: not a post step whose setup stopped before
\* it had a name, nor one whose config file has changed (post-cleanup.ts:27-40).
NobodyElsesBuilder ==
  [][\A n \in Name, j \in Job :
       builder[n].job = j /\ builder'[n].job # j /\ Active(j) /\ j \notin shared
         => at'[j] # at[j]]_vars

\* A job that is over has left nothing on the machine, wherever its setup
\* stopped and however its report ended of itself: no builder, no scratch
\* container, no directory.  Nothing is said of a job whose report was cancelled
\* or that met another of the troubles (setup-step.ts:169, post-cleanup.ts:41-65,
\* copy-from-image.ts:41-56, report-step.ts:131-161).
NothingLeftBehind ==
  \A j \in Job :
    at[j] = "over" /\ work[j].posts /\ j \notin trouble =>
      scratch[j] = {} /\ \A n \in Name : builder[n].job # j

\* In the end every builder is down, unless its removal failed, its runner was
\* lost or there is no post step (post-cleanup.ts:41-65).
BuilderComesDown ==
  <>[](\A n \in Name : builder[n] = None \/ builder[n].job \in trouble
                       \/ ~work[builder[n].job].posts)

\* What the workflow sets in either spelling, no file can take back: whatever a
\* build wrote into the config file, the report looks for the builder setup
\* named and fails on blocked traffic as the workflow says (config-file.ts:283-302,
\* docs/security.md:45-49).
WorkflowInputsHold ==
  \A j \in Job :
    LET set(i) == {work[j].inputs[i][s] : s \in Spelling} \ {Blank}
    IN  at[j] \in Reporting =>
          /\ set("builder-name") # {} =>
               /\ NameOf(Inputs(j)) \in set("builder-name")
               /\ named[j] \in {NoName, NameOf(Inputs(j))}
          /\ set("fail-on-blocked") # {} => FailOnBlocked(Inputs(j)) \in set("fail-on-blocked")

\* A green report was decided by the script from the builder of the report's
\* own job, where its setup ended well, no other job came to its name and
\* nobody changed the file its name comes from (report-step.ts:129-161,
\* run-report-script.ts:47-62, find-report-source.ts:13-38).
GreenIsEarned ==
  \A j \in Job :
    at[j] \in {"post", "over"} /\ exit[j] = "zero" /\ setup[j] = "ok" /\ j \notin shared
      /\ ~Edited(j) => source[j] = j

\* "Anything other than exactly one match is an error rather than a guess:
\* reporting on the wrong container would report on the wrong build."
\* (find-report-source.ts:7-12): a report reads its own job's container.
ReportsOwnBuild ==
  \A j \in Job : j \notin shared /\ ~Edited(j) => source[j] \in {NoJob, j}
=============================================================================
