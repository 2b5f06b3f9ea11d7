----------------------------- MODULE MCRuleText -----------------------------
(***************************************************************************)
(* Every rule of up to four fragments after a few beginnings.  The         *)
(* fragments of an expression reach every place a class, an escape, a      *)
(* group or a port group can open; of an address there are three octets of *)
(* two bits: every address, block and pattern.                             *)
(***************************************************************************)
EXTENDS HostRule, RawHostRule, UrlRule, AddressRule, TLC

MCCharacter ==
  Meta \cup Quantifiers \cup Digits \cup {"/", ":", "a", "A", "b", "Q", "E", "-", "_", "~", "%", "@", "=", "'", "http", "s"}

MCBeginnings ==
  "host" :> {<<>>, <<"*", "*", ".", "a">>, <<"a", "?", ".">>, <<"*", ".">>,
             <<"4", ".", "0", ".", "8", ".", "8">>}
  @@ "rawHost" :> {<<>>, <<"^">>, <<"(?:", "a", "|">>, <<"a", "(", ":", "4">>, <<"a", ".", "4", "(", ":">>, <<"[", "[", "]">>, <<"[", "]", "(", "]", "|">>,
                   <<"\\Q", "[", "\\E", "|">>}
  @@ "url" :> {<<"http", "s", ":", "/", "/">>, <<"http", ":", "/", "/", "a", "/", "b">>}
  @@ "rawUrl" :> {<<"http", "s", "?", ":", "/", "/">>, <<"^", "http", ":", "/", "/", "a">>,
                  <<"http", ":", "/", "/", "a", "(", ":", "4">>}
  @@ "address" :> IpRules

MCFragments ==
  "host" :> {<<"a">>, <<"A">>, <<"*">>, <<"?">>, <<".">>, <<":", "4">>, <<":">>, <<"0", "4">>, <<"8">>, <<"/">>}
  @@ "rawHost" :> {<<"a">>, <<":", "4">>, <<"(">>, <<"(?:">>, <<")">>, <<"|">>, <<"?">>, <<"$">>,
                   <<"A", "\\.", "b">>, <<"\\$">>, <<"[", ":", "|", "]">>, <<"[", "]", "(", "]">>,
                   <<"[", "]", ")", "]">>, <<"\\Q", "[", "\\E">>}
  @@ "url" :> {<<"a">>, <<"*">>, <<"?">>, <<".">>, <<"/">>, <<":", "4">>, <<":">>, <<"b", "*", "*">>,
               <<"=">>, <<"(">>}
  @@ "rawUrl" :> {<<"A">>, <<".">>, <<"?">>, <<"*">>, <<":", "4">>, <<"/", "b">>, <<"\\/">>, <<"(">>, <<")">>,
                  <<"|">>, <<"^">>, <<"$">>, <<"[^", "/", "]">>}

MCNames ==
  "host" :> {<<"a">>, <<"a", "a">>, <<"a", ".", "a">>, <<"b", ".", "a", "b">>, <<"4", ".", "a">>,
             <<"a", "b", ".", "a", "a">>}
  @@ "rawHost" :> {<<"a">>, <<"a", "a">>, <<"a", "b">>, <<"a", ".", "b">>, <<"A", ".", "b">>}
  @@ "url" :> {<<"a">>, <<"a", "a">>, <<"a", ".", "a">>}
  @@ "rawUrl" :> {<<"a">>, <<"a", "a">>, <<"a", ".", "a">>}

\* A wildcard rule's port is a number to one engine and text to the other.
MCPorts ==
  "host" :> {4, 44, 80}
  @@ "rawHost" :> {<<"4">>, <<"4", "4">>}
  @@ "url" :> {<<"4">>, <<"8">>}
  @@ "rawUrl" :> {<<"4">>, <<"8">>}

MCPaths ==
  "host" :> {<<"/">>, <<"/", "a">>, <<"/", "a", "/">>, <<"/", "a", "/", "a">>, <<"/", "A", "4">>}
  @@ "url" :> {<<"/">>, <<"/", "b">>, <<"/", "b", "/", "a">>, <<"/", "b", "a">>}
  @@ "rawUrl" :> {<<"/">>, <<"/", "b">>, <<"/", "b", "/", "A">>, <<"/", "b", "A">>}
=============================================================================
