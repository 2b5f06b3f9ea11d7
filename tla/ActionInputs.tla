---------------------------- MODULE ActionInputs ----------------------------
(***************************************************************************)
(* What an action's inputs come to: the workflow's values under either     *)
(* spelling of an input's name, and the values of the YAML file            *)
(* `config-file` names.  Setup, report and post each work this out for     *)
(* themselves, from the same inputs and from the file as it is by then.    *)
(*                                                                         *)
(* Three inputs stand for the rest: the builder's name, a switch, and one  *)
(* rule list.  A list is a sequence of rules, the others hold one value.   *)
(***************************************************************************)
EXTENDS Naturals, Sequences, FiniteSets

CONSTANTS
  Name,        \* valid builder names
  DefaultName, \* "buildcage"
  Rule,        \* well-formed rules
  Blank,       \* an input that is not set, or set to nothing
  Malformed,   \* a value no input may have
  Absent       \* a key a map does not have

ASSUME NameAssumption ==
  /\ DefaultName \in Name
  /\ {Blank, Malformed, Absent} \cap (Name \cup Rule \cup BOOLEAN) = {}
  /\ Blank # Malformed /\ Absent \notin {Blank, Malformed}

Input == {"builder-name", "fail-on-blocked", "rules"}
Lists == {"rules"}
Spelling == {"hyphen", "underscore"}

Empty(input) == IF input \in Lists THEN <<>> ELSE Blank

(* normalizeInputNames: the underscore spelling moves to the hyphenated    *)
(* one; where both are set that one wins, and a list takes both.           *)
Normalized(written) ==
  [i \in Input |->
     IF written[i]["hyphen"] = Empty(i) THEN written[i]["underscore"]
     ELSE IF i \in Lists THEN written[i]["hyphen"] \o written[i]["underscore"]
     ELSE written[i]["hyphen"]]

(* A config file: the event the workflow runs on, the place its path leads *)
(* to, whether it is a flat mapping of known inputs to plain values, and   *)
(* its keys: `own` of its top map, `merged` those a merge key brings in.   *)

\* refuseUntrustedEvent: events on which the workspace may hold a pull request's
\* code, or whose payload cannot say.
UntrustedEvent ==
  {"pull_request_target", "workflow_run of a pull request", "workflow_run, unreadable"}

\* resolveConfigPath: both the path as written and the one behind its links.
InWorkspace(file) == file.place \notin {"absolute", "outside", "linked outside", "missing"}

OwnKeys(file, i) == {s \in Spelling : file.own[i][s] # Absent}
MergedKeys(file, i) == {s \in Spelling : file.merged[i][s] # Absent}

(* A map's own key wins over a merged one, of either spelling; two of the  *)
(* same standing are an error.                                             *)
KeysOf(file, i) ==
  IF OwnKeys(file, i) # {} THEN OwnKeys(file, i) ELSE MergedKeys(file, i)

Readable(file) ==
  /\ file.event \notin UntrustedEvent /\ InWorkspace(file) /\ file.flat
  /\ \A i \in Input : Cardinality(KeysOf(file, i)) < 2

FileValue(file, i) ==
  IF KeysOf(file, i) = {} THEN Empty(i)
  ELSE LET s == CHOOSE s \in KeysOf(file, i) : TRUE
       IN  IF OwnKeys(file, i) # {} THEN file.own[i][s] ELSE file.merged[i][s]

\* Mutation: the file's value wins wherever it has one.
FileWins(inputs, file) ==
  [i \in Input |->
     IF i \in Lists THEN inputs[i] \o FileValue(file, i)
     ELSE IF FileValue(file, i) # Empty(i) THEN FileValue(file, i)
     ELSE inputs[i]]

(* applyConfigFile: a value the workflow set wins, and a list gets both.   *)
Merged(inputs, file) ==
  [i \in Input |->
     IF i \in Lists THEN inputs[i] \o FileValue(file, i)
     ELSE IF inputs[i] = Blank THEN FileValue(file, i)
     ELSE inputs[i]]

\* Mutation: no default for a name that is not set.
NameAsGiven(inputs) == inputs["builder-name"]

(* resolveBuilderName, for a value it does not refuse.                     *)
NameOf(inputs) ==
  IF inputs["builder-name"] = Blank THEN DefaultName ELSE inputs["builder-name"]

ValidName(inputs) == inputs["builder-name"] # Malformed

(* readBooleanInput, with the fallback of fail-on-blocked.                 *)
FailOnBlocked(inputs) ==
  inputs["fail-on-blocked"] = Blank \/ inputs["fail-on-blocked"] = TRUE

ValidSwitch(inputs) == inputs["fail-on-blocked"] # Malformed

(* Setup reads the rules too, and refuses all of them for one of them.     *)
ValidRules(inputs) == \A n \in 1..Len(inputs["rules"]) : inputs["rules"][n] # Malformed
=============================================================================
