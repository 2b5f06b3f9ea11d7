-------------------------- MODULE MCActionLifecycle --------------------------
(* Two jobs on one machine, with the pairs of workflows below.               *)
EXTENDS ActionLifecycle

CONSTANTS j1, j2, default, own, taken, rule, other

MCName == {default, own, taken}

Unset == [i \in Input |-> [s \in Spelling |-> Empty(i)]]
NoKeys == [i \in Input |-> [s \in Spelling |-> Absent]]
EmptyFile == [event |-> "push", place |-> "inside", flat |-> TRUE,
              own |-> NoKeys, merged |-> NoKeys]

Plain == [inputs |-> Unset, configured |-> FALSE, posts |-> TRUE,
          file |-> EmptyFile, files |-> {}]

Names(n) == [NoKeys EXCEPT !["builder-name"]["hyphen"] = n]

\* A file that names the builder, over a name of the other spelling merged in.
OwnFile ==
  [EmptyFile EXCEPT
     !.own = [Names(own) EXCEPT !["rules"]["underscore"] = <<rule>>],
     !.merged = [NoKeys EXCEPT !["builder-name"]["underscore"] = default]]

\* What a build may leave there: another name, no failing, nothing readable.
Edits ==
  {[EmptyFile EXCEPT !.own = [Names(default) EXCEPT !["fail-on-blocked"]["hyphen"] = FALSE]],
   [EmptyFile EXCEPT !.place = "missing"]}

Configured == [Plain EXCEPT !.configured = TRUE, !.file = OwnFile, !.files = Edits]

\* The name under both spellings, and a rule that is refused.
BadRule == [Plain EXCEPT !.inputs["builder-name"]["hyphen"] = own,
                         !.inputs["builder-name"]["underscore"] = default,
                         !.inputs["rules"]["hyphen"] = <<rule>>,
                         !.inputs["rules"]["underscore"] = <<other, Malformed>>]
\* The workflow sets what the file sets too, under the older spelling.
Insisting == [Configured EXCEPT !.inputs["builder-name"]["underscore"] = own,
                                !.inputs["fail-on-blocked"]["underscore"] = TRUE]
\* A file that sets one input twice, one that may not be read, and other starts
\* that fail.
Twice == [Configured EXCEPT !.file.own["builder-name"]["underscore"] = own]
Untrusted == [Configured EXCEPT !.file.event = "pull_request_target"]
NameTaken == [Plain EXCEPT !.inputs["builder-name"]["hyphen"] = taken]
BadName == [Plain EXCEPT !.inputs["builder-name"]["hyphen"] = Malformed]
NoPost == [Plain EXCEPT !.posts = FALSE]

MCJob == {j1, j2}
Pair(a, b) == [j \in MCJob |-> IF j = j1 THEN a ELSE b]

MCWorkloads ==
  {Pair(Plain, Plain), Pair(Plain, Configured), Pair(Plain, Insisting), Pair(Plain, Twice),
   Pair(Plain, NoPost), Pair(BadRule, Configured), Pair(NameTaken, BadName),
   Pair(Untrusted, BadRule)}
==============================================================================
