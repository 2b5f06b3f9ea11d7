------------------------------ MODULE RuleText ------------------------------
(***************************************************************************)
(* The text of one rule.  HostRule, RawHostRule and UrlRule say what       *)
(* becomes of it.                                                          *)
(***************************************************************************)
EXTENDS RuleInput, RuleWildcard

CONSTANTS
  Names, Ports,   \* [Field -> names looked up, ports connected to]
  Paths           \* [Field -> paths requested]

\* A rule of wildcards is written in characters; a name has no colon in it, and
\* a path begins with a slash.
ASSUME TextAssumption ==
  \A f \in Fields \cap {"host", "url"} :
    /\ Beginnings[f] \cup Fragments[f] \cup Names[f] \cup Paths[f] \subseteq Seq(Character)
    /\ \A n \in Names[f] : \A i \in 1 .. Len(n) : n[i] # ":"
    /\ \A s \in Paths[f] : s # <<>> /\ s[1] = "/"

\* An expression is written in tokens; neither a name nor a port has a colon in
\* it.
ASSUME ExpressionAssumption ==
  \A f \in Fields \cap {"rawHost", "rawUrl"} :
    /\ Beginnings[f] \cup Fragments[f] \subseteq Seq(Token)
    /\ \A t \in Names[f] \cup Ports[f] : t \in Seq(Character) /\ \A i \in 1 .. Len(t) : t[i] # ":"
    /\ f = "rawUrl" => Paths[f] \subseteq Seq(Character)

\* An expression that could not be completed any more is given up.
WriteText == Write /\ (field \in {"rawHost", "rawUrl"} => Begins(rule', "JavaScript"))

Next == WriteText
Spec == Init /\ [][Next]_vars

-----------------------------------------------------------------------------
\* The name and the port of a connection, as one text.
Authority(name, port) == name \o <<":">> \o port
=============================================================================
