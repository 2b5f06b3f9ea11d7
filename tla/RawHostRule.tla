---------------------------- MODULE RawHostRule ----------------------------
(***************************************************************************)
(* What a `~` host rule comes to mean, for every expression an author can  *)
(* write out of a set of fragments.                                        *)
(***************************************************************************)
EXTENDS RuleText

-----------------------------------------------------------------------------
Proxy == anchorRawRegex(rule)
ProxyAccepts(n, p) == Finds(Lowered(Proxy), Authority(Lowered(n), p))
ResolverAccepts(n) == Spans(Lowered(HostHalf(rule)), Lowered(n))
HostRuns ==
  field = "rawHost" /\ Accepted(rule) /\ Compiles(rule, "PCRE2") /\ Compiles(HostHalf(rule), "PCRE2")

\* What r matches of s is nothing or begins with a colon; it is something; and
\* what r matches of any text holds no colon.
ColonFirst(r, s) == \A i \in 1 .. Len(s) + 1 : \A e \in Ends(r, s, {i}) : e = i \/ s[i] = ":"
NeverEmpty(r, s) == \A i \in 1 .. Len(s) + 1 : i \notin Ends(r, s, {i})
WithoutColon(r) == \A i \in 1 .. Len(r) : r[i] \notin {".", "[^"} /\ Chars(r[i]) # ":"

\* The proxy admits only what the whole expression matches, so an anchor never
\* binds to one branch of it, however the two engines read its classes and
\* escapes; and only names the resolver answers for, where the part cut off as
\* the port takes the colon first and either must take it or is the only one
\* that may (partial-wildcard.ts:252-271, :430-465, haproxy-rules.ts:151-157).
AnchorsBindTheWhole ==
  HostRuns =>
    \A n \in Names[field], p \in Ports[field] :
      LET s == Authority(Lowered(n), p)
          port == Lowered(splitDomainFromPortPattern(rule).port)
      IN ProxyAccepts(n, p) =>
           /\ Spans(Lowered(rule), s)
           /\ ColonFirst(port, s) /\ (NeverEmpty(port, s) \/ WithoutColon(HostHalf(rule))) =>
                ResolverAccepts(n)

\* The resolver and the proxy "can never accept different names"
\* (haproxy-rules.ts:156).
OneDerivation ==
  HostRuns => \A n \in Names[field] : (\E p \in Ports[field] : ProxyAccepts(n, p)) => ResolverAccepts(n)
=============================================================================
