---------------------------- MODULE AddressRule -----------------------------
(***************************************************************************)
(* IP rules: an address, a CIDR block or an address with wildcards.  The   *)
(* `inspect` engine has HAProxy compare a block numerically (`dst`); the   *)
(* `universal` engine matches every rule as text, a block turned into an   *)
(* expression over the addresses it covers.  An address here has Octets of *)
(* Bits bits each, in place of four of eight.                              *)
(***************************************************************************)
EXTENDS RuleInput

CONSTANTS Bits, Octets

ASSUME AddressAssumption == Bits \in Nat \ {0} /\ Octets \in Nat \ {0}

\* Two to the n, which the code has as shifts.
twoTo[n \in 0 .. Bits * Octets] == IF n = 0 THEN 1 ELSE 2 * twoTo[n - 1]
Base == twoTo[Bits]

Values == 0 .. Base - 1
Addresses == [1 .. Octets -> Values]

\* The wildcards, as octets no address has.
Star == -1
One == -2
Across == -3
Wild == {Star, One, Across}
Pieces == Values \cup {Base} \cup Wild

\* A block, or a pattern: per octet a value, "*", "?" or "**".
IpRules ==
  [address : Addresses, prefix : 0 .. Bits * Octets]
  \cup [pattern : UNION {[1 .. n -> Pieces] : n \in 1 .. Octets}]

\* An address is chosen whole, and is a rule of this kind.
ASSUME AddressesAreRules == "address" \in Fields => Beginnings["address"] \subseteq IpRules

IsBlock == "prefix" \in DOMAIN rule
HasWildcard(p) == \E i \in DOMAIN p : p[i] \in Wild

-----------------------------------------------------------------------------
(* ipv4.ts *)

isIpRuleAddress(p) ==
  /\ \A i \in DOMAIN p : p[i] \in Values \cup Wild
  /\ Len(p) = Octets \/ (Len(p) < Octets /\ \E i \in DOMAIN p : p[i] = Across)

(* wildcard-rules.ts *)

\* Mutation: the octet the prefix cuts is taken to be free.
octetOfWhole(octet, bits) == IF bits < Bits THEN Values ELSE {octet}

\* The values an octet may take of which the prefix fixes so many bits: the
\* mask leaves those, and the rest count up from there.
octetOf(octet, bits) ==
  LET low == (octet \div twoTo[Bits - bits]) * twoTo[Bits - bits] IN
  IF bits = 0 THEN Values
  ELSE IF bits = Bits THEN {low}
  ELSE {low + n : n \in 0 .. twoTo[Bits - bits] - 1}

Least(a, b) == IF a <= b THEN a ELSE b
Most(a, b) == IF a >= b THEN a ELSE b

\* The bits of the i-th octet that the prefix fixes.
FixedBits(prefix, i) == Least(Most(prefix - Bits * (i - 1), 0), Bits)
cidrToRegex(block) ==
  [i \in 1 .. Octets |-> octetOf(block.address[i], FixedBits(block.prefix, i))]

\* A `?` is one digit, and an octet of a single digit is below ten.
OctetMatches(piece, octet) ==
  CASE piece = Star -> TRUE [] piece = One -> octet < 10 [] OTHER -> octet = piece

\* How the text of an address matches: the pieces of a pattern divide its
\* octets among them, one each but for `**`, which takes any number.
TextMatches(p, a) ==
  \E cut \in [0 .. Len(p) -> 0 .. Octets] :
    /\ cut[0] = 0 /\ cut[Len(p)] = Octets
    /\ \A i \in 1 .. Len(p) :
         IF p[i] = Across THEN cut[i - 1] < cut[i]
         ELSE cut[i] = cut[i - 1] + 1 /\ OctetMatches(p[i], a[cut[i]])

\* What the universal engine's expression accepts.
UniversalCovers(r, a) ==
  IF "prefix" \in DOMAIN r
    THEN \A i \in 1 .. Octets : a[i] \in cidrToRegex(r)[i]
    ELSE TextMatches(r.pattern, a)

(* haproxy-rules.ts compileIpRules: `dst` for a block or an address, the text *)
(* otherwise.                                                                 *)
\* An address as a number: what its octets come to, one after the other.
UpToOctet(a) ==
  LET upTo[i \in 0 .. Octets] == IF i = 0 THEN 0 ELSE upTo[i - 1] * Base + a[i] IN upTo
Number(a) == UpToOctet(a)[Octets]
Covers(r, a) ==
  LET free == twoTo[Bits * Octets - r.prefix] IN Number(a) \div free = Number(r.address) \div free

InspectCovers(r, a) ==
  IF "prefix" \in DOMAIN r THEN Covers(r, a)
  ELSE IF HasWildcard(r.pattern) THEN TextMatches(r.pattern, a)
  ELSE r.pattern = a

-----------------------------------------------------------------------------
\* An IP rule covers the same addresses in both engines, whatever octet its
\* prefix cuts (wildcard-rules.ts:140-163, haproxy-rules.ts:259-308).
EnginesCoverTheSame ==
  field = "address" /\ (IsBlock \/ isIpRuleAddress(rule.pattern)) =>
    \A a \in Addresses : InspectCovers(rule, a) = UniversalCovers(rule, a)
=============================================================================
