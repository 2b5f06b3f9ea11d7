---------------------------- MODULE InspectProxy ----------------------------
(***************************************************************************)
(* The `inspect` engine: one connection through the generated haproxy.cfg, *)
(* step by step, and what the report reads from the line it leaves.       *)
(*                                                                         *)
(* The detect frontend passes a connection through on an IP or tls rule,   *)
(* or hands it to the stage that terminates TLS or the one for plaintext.  *)
(* A stage runs its http-request rules in the order they were written,     *)
(* which is NextRule.  The real resolver may answer any address, or none,  *)
(* each time it is asked; the origin and the client end an exchange in any *)
(* of the ways HAProxy has a termination state for.                        *)
(***************************************************************************)
EXTENDS RuleSet, Sequences

VARIABLES
  rules, conn,  \* the rules compiled into the config, the connection
  pc,           \* the rule HAProxy runs next
  pass,         \* txn.pass and txn.proto: "no", "tcp" or "tls"
  resolved,     \* txn.dst
  target,       \* dst, overwritten by set-dst
  asked, answers, peer,
  lines,        \* what HAProxy logged for us
  end           \* history: how the connection really ended

fixed == <<rules, conn>>

Stage == IF pass = "no" THEN SchemeOf(conn) ELSE pass
Audit == rules.mode = "audit"

\* The log-format's fields: the termination state's cause and phase, the
\* reason, tlserr, fcerr, whether a request was parsed, and %[dst].
Ends(how, ts, reason, tlserr, fcerr, parsed) ==
  /\ pc' = "ended" /\ end' = how
  /\ lines' = Append(lines,
       [stage |-> Stage, ts |-> ts, reason |-> reason, tlserr |-> tlserr,
        fcerr |-> fcerr, parsed |-> parsed, dst |-> target])

\* A reject of a connection and a deny of a request end alike.  A rule that
\* sets no reason leaves it `-`.
Deny(reason) == Ends("denied", <<"P", "R">>, reason, "-", "-", pass = "no")

Relay == pc' = "origin" /\ peer' = target /\ UNCHANGED <<lines, end>>

Ask(n) ==
  \E a \in Address \cup {NoAddress} :
    /\ resolved' = a
    /\ asked' = asked \cup {n}
    /\ answers' = answers \cup ({a} \ {NoAddress})

Init ==
  /\ pc = "address" /\ pass = "no" /\ resolved = NoAddress /\ target = conn.dst
  /\ asked = {} /\ answers = {} /\ peer = NoAddress /\ lines = <<>> /\ end = "open"

-----------------------------------------------------------------------------
(* The detect frontend. *)

PassesAddress == conn.dst # ProxyAddress /\ AddressMatches(rules, conn)

JudgeAddress ==
  /\ pc = "address"
  /\ IF PassesAddress
       THEN pass' = "tcp" /\ pc' = "guardAddress"
       ELSE pc' = "sni" /\ UNCHANGED pass
  /\ UNCHANGED <<fixed, resolved, target, asked, answers, peer, lines, end>>

GuardAddress ==
  /\ pc = "guardAddress"
  /\ IF conn.dst \in Internal /\ conn.port = ListenPort
       THEN Deny("internal-address") /\ UNCHANGED peer
       ELSE Relay
  /\ UNCHANGED <<fixed, pass, resolved, target, asked, answers>>

JudgeSni ==
  /\ pc = "sni"
  /\ IF SniMatches(rules, conn)
       THEN pass' = "tls" /\ pc' = "askSni"
       ELSE pc' = "head" /\ UNCHANGED pass
  /\ UNCHANGED <<fixed, resolved, target, asked, answers, peer, lines, end>>

AskSni ==
  /\ pc = "askSni" /\ pc' = "foundSni"
  /\ Ask(conn.sni)
  /\ UNCHANGED <<fixed, pass, target, peer, lines, end>>

\* Mutation: where nothing was resolved, the connection falls through to the
\* address the client chose.
FoundSniFallsThrough ==
  /\ pc = "foundSni" /\ pc' = "guardSni"
  /\ target' = IF resolved = NoAddress THEN target ELSE resolved
  /\ UNCHANGED <<fixed, pass, resolved, asked, answers, peer, lines, end>>

FoundSni ==
  /\ pc = "foundSni"
  /\ IF resolved = NoAddress
       THEN Deny("dns-failed") /\ UNCHANGED target
       ELSE pc' = "guardSni" /\ target' = resolved /\ UNCHANGED <<lines, end>>
  /\ UNCHANGED <<fixed, pass, resolved, asked, answers, peer>>

GuardSni ==
  /\ pc = "guardSni"
  /\ IF resolved \in Internal THEN Deny("internal-address") /\ UNCHANGED peer ELSE Relay
  /\ UNCHANGED <<fixed, pass, resolved, target, asked, answers>>

-----------------------------------------------------------------------------
(* The inspected stages. *)

\* What the stage reads ahead of its rules.  A handshake the client broke off
\* is logged with the proxy's own cause; one it broke after completing is not.
ReadHead ==
  /\ pc = "head"
  /\ \/ /\ conn.sends = "request" /\ pc' = "host" /\ UNCHANGED <<lines, end>>
     \/ /\ conn.sends = "garbage"
        /\ Ends("denied", <<"P", "R">>, "-", "-", "-", FALSE)
     \/ /\ conn.sends = "nothing"
        /\ \E cause \in {"C", "c"} :
             Ends("clientLeft", <<cause, "R">>, "-", "-", "-", FALSE)
     \/ /\ conn.sends = "nothing"
        /\ Ends("machinery", <<"R", "R">>, "-", "-", "-", FALSE)
     \/ /\ conn.hello /\ conn.sends = "nothing"
        /\ Ends("clientLeft", <<"P", "R">>, "-", "-", "SSL_HANDSHAKE", FALSE)
     \/ /\ conn.hello /\ conn.sends = "nothing"
        /\ Ends("clientLeft", <<"C", "R">>, "-", "-", "SSL_FATAL", FALSE)
  /\ UNCHANGED <<fixed, pass, resolved, target, asked, answers, peer>>

\* Mutation: the name is resolved ahead of the rules.
NextRuleResolvesFirst ==
  [host |-> "path", path |-> "resolve", resolve |-> "again", again |-> "rules",
   rules |-> "found", found |-> "guard"]

\* The order in which the stage's rules are written.
NextRule ==
  [host |-> "path", path |-> "rules", rules |-> "resolve", resolve |-> "again",
   again |-> "found", found |-> "guard"]

Continue == pc' = NextRule[pc] /\ UNCHANGED <<lines, end>>

JudgeHost ==
  /\ pc = "host"
  /\ \/ conn.host = NoHost /\ Deny("missing-host-header")
     \/ conn.host = NotAName /\ Deny("invalid-host")
     \/ conn.host \in Host /\ Continue
  /\ UNCHANGED <<fixed, pass, resolved, target, asked, answers, peer>>

JudgePath ==
  /\ pc = "path"
  /\ IF conn.path = Traversal THEN Deny("-") ELSE Continue
  /\ UNCHANGED <<fixed, pass, resolved, target, asked, answers, peer>>

Allows == \E r \in SchemeRules(rules, conn) : RequestMatches(r, conn, SchemeOf(conn))

JudgeRequest ==
  /\ pc = "rules"
  /\ IF Audit \/ Allows THEN Continue ELSE Deny("-")
  /\ UNCHANGED <<fixed, pass, resolved, target, asked, answers, peer>>

\* An address is taken as it is: no resolver can answer one.
Resolve ==
  /\ pc = "resolve" /\ Continue
  /\ IF conn.host \in Address
       THEN resolved' = conn.host /\ UNCHANGED <<asked, answers>>
       ELSE Ask(conn.host)
  /\ UNCHANGED <<fixed, pass, target, peer>>

\* Mutation: it asks until the resolver answers.
ResolveUntilAnswered ==
  /\ pc = "again"
  /\ pc' = IF resolved = NoAddress THEN "resolve" ELSE "found"
  /\ UNCHANGED <<fixed, pass, resolved, target, asked, answers, peer, lines, end>>

ResolveAgain ==
  /\ pc = "again" /\ Continue
  /\ IF conn.host \in Address \/ resolved # NoAddress
       THEN UNCHANGED <<resolved, asked, answers>>
       ELSE Ask(conn.host)
  /\ UNCHANGED <<fixed, pass, target, peer>>

\* Mutation: set-dst runs whether a name was resolved or not.
FoundUnchecked ==
  /\ pc = "found" /\ Continue /\ target' = resolved
  /\ UNCHANGED <<fixed, pass, resolved, asked, answers, peer>>

\* dst is overwritten ahead of the guard, so that a block shows what tripped it.
Found ==
  /\ pc = "found"
  /\ IF resolved = NoAddress
       THEN Deny("dns-failed") /\ UNCHANGED target
       ELSE Continue /\ target' = resolved
  /\ UNCHANGED <<fixed, pass, resolved, asked, answers, peer>>

RefusesInternal ==
  /\ resolved \in Internal
  /\ NamesAddress(rules, conn) => resolved \in ProxySubnet \/ conn.port = ListenPort

GuardInternal ==
  /\ pc = "guard"
  /\ IF RefusesInternal
       THEN Deny("internal-address") /\ UNCHANGED peer
       ELSE Relay
  /\ UNCHANGED <<fixed, pass, resolved, target, asked, answers>>

-----------------------------------------------------------------------------
(* The origin, and how HAProxy names what becomes of the exchange. *)

\* A certificate is checked by the https stage alone.  A handshake that failed
\* is retried, and a retry failing at TCP leaves no trace of it.
Outcomes ==
  {[end |-> "served", ts |-> <<"-", "-">>, tlserr |-> "0"],
   [end |-> "clientLeft", ts |-> <<"C", "D">>, tlserr |-> "0"],
   [end |-> "clientLeft", ts |-> <<"C", "C">>, tlserr |-> "-"],
   [end |-> "cut", ts |-> <<"S", "D">>, tlserr |-> "0"],
   [end |-> "stalled", ts |-> <<"s", "D">>, tlserr |-> "0"],
   [end |-> "silent", ts |-> <<"S", "H">>, tlserr |-> "0"],
   [end |-> "silent", ts |-> <<"s", "H">>, tlserr |-> "0"],
   [end |-> "unreachable", ts |-> <<"S", "C">>, tlserr |-> "-"],
   [end |-> "unreachable", ts |-> <<"s", "C">>, tlserr |-> "-"],
   [end |-> "invalidAnswer", ts |-> <<"P", "H">>, tlserr |-> "0"]}
Impostors ==
  {[end |-> "untrusted", ts |-> <<"S", "C">>, tlserr |-> "error"],
   [end |-> "untrusted", ts |-> <<"S", "C">>, tlserr |-> "-"]}

Origin ==
  /\ pc = "origin"
  /\ \E o \in Outcomes \cup (IF Stage = "https" THEN Impostors ELSE {}) :
       /\ o.ts[2] = "H" => pass = "no"
       /\ Ends(o.end, o.ts, "-", o.tlserr, "-", pass = "no")
  /\ UNCHANGED <<fixed, pass, resolved, target, asked, answers, peer>>

Step ==
  \/ JudgeAddress \/ GuardAddress \/ JudgeSni \/ AskSni \/ FoundSni \/ GuardSni
  \/ ReadHead \/ JudgeHost \/ JudgePath \/ JudgeRequest
  \/ Resolve \/ ResolveAgain \/ Found \/ GuardInternal \/ Origin

-----------------------------------------------------------------------------
(* What the report makes of a line. *)

IsBlock(ts) == ts[1] \in {"P", "S"} \/ (ts[1] = "s" /\ ts[2] \in {"C", "H"})

\* What ended a connection before a whole request, "none" where one arrived or
\* this proxy ended it.  The client's failed handshake is logged as the
\* proxy's own doing.
Incomplete(l) ==
  IF ~l.parsed /\ l.fcerr = "SSL_HANDSHAKE" THEN "client-tls-failed"
  ELSE IF l.ts[1] = "P" THEN "none"
  ELSE IF l.ts[2] # "R" THEN IF l.parsed THEN "none" ELSE "no-request"
  ELSE IF l.ts[1] = "C" THEN "client-aborted"
  ELSE IF l.ts[1] = "c" THEN "client-timeout"
  ELSE "no-request"

\* Mutation: only the verify error of the last attempt names a block.
ReasonOfLastAttempt(l) ==
  IF l.reason # "-" THEN l.reason
  ELSE IF l.ts[1] \notin {"S", "s"} THEN IF l.parsed THEN "not-allowed" ELSE "bad-request"
  ELSE IF l.ts[2] = "H" THEN "origin-no-response"
  ELSE IF l.ts[2] \in {"D", "L"} THEN "origin-aborted"
  ELSE IF l.stage = "https" /\ l.tlserr = "error" THEN "origin-untrusted"
  ELSE "origin-unreachable"

ReasonOf(l) ==
  IF l.reason # "-" THEN l.reason
  ELSE IF l.ts[1] \notin {"S", "s"} THEN IF l.parsed THEN "not-allowed" ELSE "bad-request"
  ELSE IF l.ts[2] = "H" THEN "origin-no-response"
  ELSE IF l.ts[2] \in {"D", "L"} THEN "origin-aborted"
  ELSE IF l.stage # "https" THEN "origin-unreachable"
  ELSE IF l.ts[1] = "S" /\ l.tlserr \notin {"-", "0"} THEN "origin-untrusted"
  ELSE "origin-connect-failed"

FailureReason == {"origin-unreachable", "origin-no-response", "origin-aborted", "dns-failed"}

\* The row of a line, before the connections sent straight to an address are
\* looked for.
ActionOf(l) ==
  IF l.stage \in {"https", "http"} /\ Incomplete(l) # "none" THEN "incomplete"
  ELSE IF IsBlock(l.ts) THEN IF ReasonOf(l) \in FailureReason THEN "failed" ELSE "block"
  ELSE IF Audit THEN "audit" ELSE "allow"

-----------------------------------------------------------------------------
Labels ==
  {"address", "guardAddress", "sni", "askSni", "foundSni", "guardSni", "head",
   "host", "path", "rules", "resolve", "again", "found", "guard", "origin", "ended"}

\* A connection that named its destination goes where the proxy resolved the
\* name, never where the client sent it (haproxy-inspect-stage.ts:258-260,
\* haproxy-detect-frontend.ts:132-138).
ClientChoosesNoTarget ==
  peer # NoAddress /\ pass # "tcp" => peer \in answers \/ peer = conn.host

\* The report's row agrees with what happened: what the proxy refused, or
\* could not authenticate, is never an allowed row or an outage, what was
\* served is never a block, and what is set aside as incomplete left no query
\* and no connection behind (log/inspect.ts, log/termination.ts).
RowTellsWhatHappened ==
  \A i \in DOMAIN lines :
    LET act == ActionOf(lines[i]) IN
    /\ end \in {"denied", "untrusted"} =>
         act = "block" \/ (act = "failed" /\ lines[i].reason = "dns-failed")
    /\ end = "served" => act \in {"allow", "audit"}
    /\ act \in {"allow", "audit"} => peer # NoAddress
    /\ act = "incomplete" => peer = NoAddress /\ asked = {}
    /\ act = "failed" => asked # {} \/ peer # NoAddress

\* The resolver and the proxy agree about a name: a request that was relayed
\* by its name was not logged as denied by the resolver it looked it up with
\* (coredns-config.ts:215-219).
ResolverAgrees ==
  LET named == IF pass = "tls" THEN conn.sni ELSE conn.host IN
  peer # NoAddress /\ pass # "tcp" /\ named \in Name =>
    Verdict(rules, [form |-> "host", host |-> named, type |-> "A"]) = "allowed"
=============================================================================
