----------------------------- MODULE RuleInput ------------------------------
(***************************************************************************)
(* One rule as an author writes it, fragment by fragment, in the field of  *)
(* the action's input it belongs to.                                       *)
(***************************************************************************)
EXTENDS Integers, Sequences

\* Wildcards or, after `~`, an expression; an address is chosen whole.
Field == {"host", "rawHost", "url", "rawUrl", "address"}

CONSTANTS
  Fields,         \* the fields written in
  Beginnings,     \* [Field -> what has been written so far]
  Fragments,      \* [Field -> what an author writes next]
  MaxFragments    \* bound: fragments written after the beginning

ASSUME FieldAssumption == Fields \subseteq Field /\ MaxFragments \in Nat

VARIABLES field, rule, written

vars == <<field, rule, written>>

Init == field \in Fields /\ rule \in Beginnings[field] /\ written = 0

Write ==
  /\ field # "address"
  /\ written < MaxFragments /\ written' = written + 1
  /\ \E f \in Fragments[field] : rule' = rule \o f
  /\ UNCHANGED field
=============================================================================
