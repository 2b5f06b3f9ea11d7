------------------------ MODULE TrafficReportProofs ------------------------
(***************************************************************************)
(* Theorems about TrafficReport, for every build, every size of pipe and   *)
(* segment and any number of crashes.                                      *)
(***************************************************************************)
EXTENDS TrafficReport, WellFoundedInduction, TLAPS

-----------------------------------------------------------------------------
(* The inductive invariant. *)

\* The directory of s6-log, and how far the report is through it.  Before a
\* service's directory is listed, nothing has been read from it.
Unlisted(s) ==
  stage \in {"running", "proxy asked", "both asked"} \/ (s = "resolver" /\ stage = "proxy listed")

Placed(s) ==
  /\ \A n \in ends[s] : 0 < n /\ n < Len(log[s])
  /\ lost[s] = 0 \/ lost[s] \in ends[s]
  /\ gone[s] = 0 \/ (gone[s] \in ends[s] /\ gone[s] < upto[s])
  /\ gone[s] <= lost[s] /\ upto[s] <= Len(log[s])
  /\ listing[s] \subseteq ends[s]
  /\ read[s] \subseteq gone[s] + 1 .. Len(log[s])
  /\ Unlisted(s) => read[s] = {} /\ gone[s] = 0

ReadInv == \A s \in Service : Placed(s)

\* The lines due are read, or in an archive still to be read.
DueInv ==
  /\ \A s \in Service :
       /\ due[s] \subseteq read[s] \cup UNION {ArchiveLines(s, n) : n \in listing[s]}
       /\ s \in finished => listing[s] = {} /\ ~Unlisted(s)
  /\ stage = "passed" => finished = Service

\* A line of a service's stream tells of an event: it is the event's, or it is
\* one for which the record does not count as whole.
Tells(line, i, e) ==
  \/ line = LineOf(e)
  \/ line.kind = "cut"
  \/ i > 1 /\ line.kind \in {"start", "bare"}

ToldInLog(s, e, n) == \E i \in 1 .. n : Tells(log[s][i], i, e)
ToldInPipe(s, e) == \E j \in 1 .. Len(pipe[s]) : Tells(pipe[s][j], Len(log[s]) + j, e)

\* A service's stream is never empty, and holds no event that did not happen.
Streamed(s) ==
  /\ Len(log[s]) + Len(pipe[s]) > 0
  /\ \A i \in 1 .. Len(log[s]) : log[s][i].kind = "event" => log[s][i].event \in happened
  /\ \A j \in 1 .. Len(pipe[s]) : pipe[s][j].kind = "event" => pipe[s][j].event \in happened

StreamInv == open \subseteq happened /\ \A s \in Service : Streamed(s)

\* Every event is told of in its stream, or the proxy can still say that it is
\* not: the connection is open, the proxy is down, or its counter is not zero.
Unheard(e) == e.log = "proxy" /\ (e \in open \/ ~up["proxy"] \/ dropped > 0)
Told(e) == ToldInLog(e.log, e, Len(log[e.log])) \/ ToldInPipe(e.log, e)

AccountInv == \A e \in happened : Unheard(e) \/ Told(e)

\* A report that began once all had settled was told by the proxy that a line
\* is missing, or every event is told of among the lines it lists.
AskedInv ==
  quiet /\ stage # "failed" =>
    /\ stage # "running"
    /\ \A e \in happened :
         \/ e.log = "proxy" /\ (~answered["proxy"] \/ count # {0})
         \/ ToldInLog(e.log, e, IF Unlisted(e.log) THEN Len(log[e.log]) ELSE upto[e.log])

VerdictInv == stage = "passed" => ~ShouldFail

-----------------------------------------------------------------------------
(* The state keeps its type, and the report its place in the directory. *)

\* The lines a step writes are lines.
LEMMA LineTypes ==
  /\ Marker \in Line /\ [Marker EXCEPT !.kind = "bare"] \in Line
  /\ Unreadable \in Line
  /\ \A e \in Event : LineOf(e) \in Line
BY DEF Marker, Unreadable, LineOf, Line

\* The lines of an archive, and of `current`, are lines of the log; none of
\* them is of an older archive.
LEMMA FileLines ==
  ASSUME TypeOK, ReadInv, NEW s \in Service
  PROVE  /\ \A n \in ends[s] : ArchiveLines(s, n) \subseteq 1 .. Len(log[s])
         /\ \A n \in Archives(s) : ArchiveLines(s, n) \subseteq gone[s] + 1 .. Len(log[s])
         /\ CurrentLines(s) \subseteq gone[s] + 1 .. Len(log[s])
<1>1. Len(log[s]) \in Nat /\ gone[s] \in Nat /\ lost[s] \in Nat
  <2>1. log[s] \in Seq(Line) /\ gone[s] \in Nat /\ lost[s] \in Nat
    BY DEF TypeOK
  <2> QED
    BY <2>1
<1>2. ends[s] \subseteq Nat
  BY DEF TypeOK
<1>3. \A n \in ends[s] : n < Len(log[s])
  BY DEF ReadInv, Placed
<1>4. \A n \in ends[s] : ArchiveLines(s, n) \subseteq 1 .. Len(log[s])
  BY <1>1, <1>2, <1>3 DEF ArchiveLines
<1>5. gone[s] = 0 \/ gone[s] \in ends[s]
  BY DEF ReadInv, Placed
<1>6. gone[s] <= lost[s]
  BY DEF ReadInv, Placed
<1>7. CurrentLines(s) \subseteq gone[s] + 1 .. Len(log[s])
  BY <1>1, <1>5 DEF CurrentLines
<1>8. ASSUME NEW n \in Archives(s), NEW i \in ArchiveLines(s, n)
      PROVE  i \in gone[s] + 1 .. Len(log[s])
  <2>1. n \in ends[s] /\ n \in Nat /\ gone[s] < n
    BY <1>1, <1>2, <1>6 DEF Archives
  <2>2. i \in 1 .. Len(log[s])
    BY <2>1, <1>4
  <2>3. gone[s] = 0 \/ i > gone[s]
    BY <2>1, <1>5 DEF ArchiveLines
  <2> QED
    BY <2>2, <2>3, <1>1
<1> QED
  BY <1>4, <1>7, <1>8

\* The types of everything but the lines read, whose place in the log ReadInv
\* gives.
Types ==
  /\ up \in [Service -> BOOLEAN] /\ crashes \in 0 .. MaxCrashes
  /\ open \subseteq Event /\ dropped \in Nat
  /\ pipe \in [Service -> Seq(Line)] /\ log \in [Service -> Seq(Line)]
  /\ ends \in [Service -> SUBSET Nat] /\ lost \in [Service -> Nat]
  /\ quiet \in BOOLEAN /\ trouble \in BOOLEAN
  /\ stage \in {"running", "proxy asked", "both asked", "proxy listed", "reading",
                "passed", "failed"}
  /\ answered \in [Service -> BOOLEAN] /\ count \subseteq Nat
  /\ listing \in [Service -> SUBSET Nat] /\ finished \subseteq Service
  /\ happened \subseteq Event
  /\ due \in [Service -> SUBSET Nat] /\ gone \in [Service -> Nat]
  /\ upto \in [Service -> Nat] /\ read \in [Service -> SUBSET Nat]

LEMMA TypesStep ==
  ASSUME TypeOK, ReadInv, [Next]_vars
  PROVE  Types'
<1> USE LimitAssumption
<1> USE DEF serviceVars, logVars, reportVars, Types
<1>0. Types
  BY DEF TypeOK
<1>1. ASSUME NEW e \in Event, Connects(e) PROVE Types'
  BY <1>0, <1>1 DEF Connects
<1>2. ASSUME NEW e \in Event, Ends(e) PROVE Types'
  <2>1. pipe' \in [Service -> Seq(Line)]
    <3>1. pipe["proxy"] \in Seq(Line) /\ "proxy" \in Service
      BY <1>0 DEF Service
    <3>2. /\ Append(pipe["proxy"], LineOf(e)) \in Seq(Line)
          /\ Append(pipe["proxy"], Unreadable) \in Seq(Line)
      BY <3>1, LineTypes
    <3> QED
      BY <1>0, <1>2, <3>1, <3>2 DEF Ends, Put
  <2>2. dropped' = dropped \/ dropped' = dropped + 1
    BY <1>2 DEF Ends
  <2>3. trouble' = trouble \/ trouble' = TRUE
    BY <1>2 DEF Ends
  <2>4. dropped' \in Nat /\ trouble' \in BOOLEAN
    <3>1. dropped \in Nat /\ trouble \in BOOLEAN
      BY <1>0
    <3>2. dropped' \in Nat
      BY <2>2, <3>1
    <3> QED
      BY <2>3, <3>1, <3>2
  <2> QED
    BY <1>0, <1>2, <2>1, <2>4 DEF Ends
<1>3. ASSUME NEW e \in Event, LooksUp(e) PROVE Types'
  <2>1. pipe["resolver"] \in Seq(Line) /\ LineOf(e) \in Line
    BY <1>0, LineTypes DEF Service
  <2>2. Append(pipe["resolver"], LineOf(e)) \in Seq(Line)
    BY <2>1
  <2>3. pipe' \in [Service -> Seq(Line)]
    BY <1>0, <1>3, <2>2 DEF LooksUp, Put
  <2> QED
    BY <1>0, <1>3, <2>3 DEF LooksUp
<1>4. ASSUME NEW s \in Service, Crashes(s) PROVE Types'
  <2>1. open' \subseteq Event
    BY <1>0, <1>4 DEF Crashes
  <2>2. crashes' \in 0 .. MaxCrashes
    <3>1. crashes \in 0 .. MaxCrashes
      BY <1>0
    <3>2. crashes < MaxCrashes /\ crashes' = crashes + 1
      BY <1>4 DEF Crashes
    <3> QED
      BY <3>1, <3>2
  <2>3. up' \in [Service -> BOOLEAN]
    BY <1>0, <1>4 DEF Crashes
  <2> QED
    BY <1>0, <1>4, <2>1, <2>2, <2>3 DEF Crashes
<1>5. ASSUME NEW s \in Service, Restarts(s) PROVE Types'
  <2>1. pipe[s] \in Seq(Line)
    BY <1>0
  <2>2. /\ Append(pipe[s], Marker) \in Seq(Line)
        /\ Append(pipe[s], [Marker EXCEPT !.kind = "bare"]) \in Seq(Line)
    BY <2>1, LineTypes
  <2>3. pipe' \in [Service -> Seq(Line)]
    BY <1>0, <1>5, <2>2 DEF Restarts, Put
  <2> QED
    BY <1>0, <1>5, <2>3 DEF Restarts
<1>6. ASSUME NEW s \in Service, LogsLine(s) PROVE Types'
  <2>1. pipe[s] \in Seq(Line) /\ pipe[s] # <<>> /\ log[s] \in Seq(Line)
    BY <1>0, <1>6 DEF LogsLine
  <2>2. Tail(pipe[s]) \in Seq(Line) /\ Head(pipe[s]) \in Line
    BY <2>1
  <2>3. Append(log[s], Head(pipe[s])) \in Seq(Line) /\ Len(log[s]) \in Nat
    BY <2>1, <2>2
  <2>4. pipe' \in [Service -> Seq(Line)] /\ log' \in [Service -> Seq(Line)]
    BY <1>0, <1>6, <2>2, <2>3 DEF LogsLine
  <2>5. ends' \in [Service -> SUBSET Nat] /\ lost' \in [Service -> Nat] /\ trouble' \in BOOLEAN
    <3>1. ends' = ends \/ ends' = [ends EXCEPT ![s] = @ \cup {Len(log[s])}]
      BY <1>6 DEF LogsLine
    <3>2. lost' = lost \/ \E n \in Nat : lost' = [lost EXCEPT ![s] = n]
      <4>1. Archives(s) \subseteq Nat
        BY <1>0 DEF Archives
      <4> QED
        BY <1>6, <4>1 DEF LogsLine
    <3>3. trouble' = trouble \/ trouble' = TRUE
      BY <1>6 DEF LogsLine
    <3>4. ends \in [Service -> SUBSET Nat] /\ lost \in [Service -> Nat] /\ trouble \in BOOLEAN
      BY <1>0
    <3>5. ends' \in [Service -> SUBSET Nat]
      BY <2>3, <3>1, <3>4
    <3>6. lost' \in [Service -> Nat]
      BY <3>2, <3>4
    <3>7. trouble' \in BOOLEAN
      BY <3>3, <3>4
    <3> QED
      BY <3>5, <3>6, <3>7
  <2> QED
    BY <1>0, <1>6, <2>4, <2>5 DEF LogsLine
<1>7. CASE AsksProxy
  <2>1. quiet' \in BOOLEAN
    BY <1>0, <1>7 DEF AsksProxy, Settled
  <2>2. PICK a \in BOOLEAN, c \in {{dropped}, {}} :
          /\ answered' = [answered EXCEPT !["proxy"] = a]
          /\ count' = IF a THEN c ELSE {}
          /\ trouble' \in BOOLEAN
    BY <1>0, <1>7 DEF AsksProxy, Service
  <2> QED
    BY <1>0, <1>7, <2>1, <2>2 DEF AsksProxy
<1>8. CASE AsksResolver
  <2>1. PICK a \in BOOLEAN :
          /\ answered' = [answered EXCEPT !["resolver"] = a]
          /\ trouble' \in BOOLEAN
    BY <1>0, <1>8 DEF AsksResolver, Service
  <2> QED
    BY <1>0, <1>8, <2>1 DEF AsksResolver
<1>9. ASSUME NEW s \in Service, Lists(s) PROVE Types'
  <2>1. Archives(s) \subseteq Nat /\ lost[s] \in Nat /\ Len(log[s]) \in Nat
    <3>1. log[s] \in Seq(Line) /\ ends[s] \subseteq Nat /\ lost[s] \in Nat
      BY <1>0
    <3> QED
      BY <3>1 DEF Archives
  <2>2. UNION {ArchiveLines(s, n) : n \in Archives(s)} \subseteq Nat
    BY DEF ArchiveLines
  <2> QED
    BY <1>0, <1>9, <2>1, <2>2 DEF Lists
<1>10. ASSUME NEW s \in Service, ReadsArchive(s) PROVE Types'
  <2>1. \A n \in listing[s] : ArchiveLines(s, n) \subseteq Nat
    BY DEF ArchiveLines
  <2>2. /\ listing' \in [Service -> SUBSET Nat] /\ read' \in [Service -> SUBSET Nat]
        /\ stage' \in {stage, "failed"}
    <3>1. PICK n \in listing[s] :
            IF n > lost[s]
            THEN /\ listing' = [listing EXCEPT ![s] = @ \ {n}]
                 /\ read' = [read EXCEPT ![s] = @ \cup ArchiveLines(s, n)]
                 /\ UNCHANGED stage
            ELSE stage' = "failed" /\ UNCHANGED <<listing, read>>
      BY <1>10 DEF ReadsArchive
    <3>2. listing \in [Service -> SUBSET Nat] /\ read \in [Service -> SUBSET Nat]
      BY <1>0
    <3>3. listing' \in [Service -> SUBSET Nat]
      BY <3>1, <3>2
    <3>4. read' \in [Service -> SUBSET Nat]
      BY <2>1, <3>1, <3>2
    <3> QED
      BY <3>1, <3>3, <3>4
  <2> QED
    BY <1>0, <1>10, <2>2 DEF ReadsArchive
<1>11. ASSUME NEW s \in Service, ReadsCurrent(s) PROVE Types'
  <2>1. CurrentLines(s) \subseteq Nat
    BY DEF CurrentLines
  <2> QED
    BY <1>0, <1>11, <2>1 DEF ReadsCurrent
<1>12. CASE Judges
  BY <1>0, <1>12 DEF Judges
<1>13. CASE UNCHANGED vars
  BY <1>0, <1>13 DEF vars
<1> QED
  BY <1>1, <1>2, <1>3, <1>4, <1>5, <1>6, <1>7, <1>8, <1>9, <1>10, <1>11, <1>12, <1>13
  DEF Next, Build, Services, Report

LEMMA ReadStep ==
  ASSUME TypeOK, ReadInv, [Next]_vars
  PROVE  ReadInv'
<1> USE DEF serviceVars, logVars, reportVars
<1>0. /\ \A s \in Service : Placed(s)
      /\ (\A s \in Service : Placed(s)') => ReadInv'
  BY DEF ReadInv, Placed
<1>a. ASSUME UNCHANGED <<log, ends, lost, gone, upto, listing, read, stage>> PROVE ReadInv'
  BY <1>a DEF ReadInv, Placed, Unlisted
<1>1. ASSUME NEW e \in Event, Connects(e) \/ Ends(e) \/ LooksUp(e) PROVE ReadInv'
  BY <1>a, <1>1 DEF Connects, Ends, LooksUp
<1>2. ASSUME NEW s \in Service, Crashes(s) \/ Restarts(s) PROVE ReadInv'
  BY <1>a, <1>2 DEF Crashes, Restarts
<1>3. ASSUME NEW s \in Service, LogsLine(s) PROVE ReadInv'
  <2> SUFFICES ASSUME NEW t \in Service PROVE Placed(t)'
    BY <1>0
  <2>0. /\ UNCHANGED <<gone, upto, listing, read, stage>>
        /\ log' = [log EXCEPT ![s] = Append(@, Head(pipe[s]))]
        /\ pipe[s] # <<>>
    BY <1>3 DEF LogsLine
  <2>1. CASE t # s
    <3>1. log'[t] = log[t] /\ ends'[t] = ends[t] /\ lost'[t] = lost[t]
      BY <1>3, <2>1 DEF LogsLine, TypeOK
    <3> QED
      BY <1>0, <2>0, <3>1 DEF Placed, Unlisted
  <2>2. CASE t = s
    <3>1. /\ Len(log[s]) \in Nat /\ ends[s] \subseteq Nat /\ lost[s] \in Nat
          /\ gone[s] \in Nat /\ upto[s] \in Nat
      <4>1. /\ log[s] \in Seq(Line) /\ ends[s] \subseteq Nat
            /\ lost[s] \in Nat /\ gone[s] \in Nat /\ upto[s] \in Nat
        BY DEF TypeOK
      <4> QED
        BY <4>1
    <3>2. Len(log'[s]) = Len(log[s]) + 1
      <4>1. log[s] \in Seq(Line) /\ pipe[s] \in Seq(Line)
        BY DEF TypeOK
      <4>2. log'[s] = Append(log[s], Head(pipe[s]))
        BY <2>0 DEF TypeOK
      <4>3. Head(pipe[s]) \in Line
        BY <2>0, <4>1
      <4> QED
        BY <4>1, <4>2, <4>3
    <3>3. CASE UNCHANGED <<ends, lost>>
      <4>1. Placed(s)
        BY <1>0
      <4>2. /\ \A n \in ends[s] : 0 < n /\ n < Len(log'[s])
            /\ upto[s] <= Len(log'[s]) /\ read[s] \subseteq gone[s] + 1 .. Len(log'[s])
        BY <3>1, <3>2, <4>1 DEF Placed
      <4> QED
        BY <2>0, <2>2, <3>3, <4>1, <4>2 DEF Placed, Unlisted
    <3>4. CASE /\ CurrentLines(s) # {}
               /\ ends' = [ends EXCEPT ![s] = @ \cup {Len(log[s])}]
               /\ \/ UNCHANGED lost
                  \/ \E n \in Archives(s) : lost' = [lost EXCEPT ![s] = n]
      <4>1. 0 < Len(log[s])
        BY <3>1, <3>4 DEF CurrentLines
      <4>2. ends'[s] = ends[s] \cup {Len(log[s])}
        BY <3>4 DEF TypeOK
      <4>3. lost'[s] = lost[s] \/ (lost'[s] \in ends[s] /\ lost[s] < lost'[s])
        BY <3>4 DEF TypeOK, Archives
      <4>4. \A n \in ends'[s] : 0 < n /\ n < Len(log'[s])
        BY <1>0, <3>1, <3>2, <4>1, <4>2 DEF Placed
      <4>5. gone[s] <= lost'[s] /\ (lost'[s] = 0 \/ lost'[s] \in ends'[s])
        BY <1>0, <3>1, <4>2, <4>3 DEF Placed
      <4>6. Placed(s)
        BY <1>0
      <4>7. gone[s] = 0 \/ (gone[s] \in ends'[s] /\ gone[s] < upto[s])
        BY <4>2, <4>6 DEF Placed
      <4>8. upto[s] <= Len(log'[s]) /\ listing[s] \subseteq ends'[s]
        BY <3>1, <3>2, <4>2, <4>6 DEF Placed
      <4>9. read[s] \subseteq gone[s] + 1 .. Len(log'[s])
        BY <3>1, <3>2, <4>6 DEF Placed
      <4> QED
        BY <2>0, <2>2, <4>4, <4>5, <4>6, <4>7, <4>8, <4>9 DEF Placed, Unlisted
    <3> QED
      BY <1>3, <3>3, <3>4 DEF LogsLine
  <2> QED
    BY <2>1, <2>2
<1>4. CASE AsksProxy \/ AsksResolver
  BY <1>4 DEF AsksProxy, AsksResolver, ReadInv, Placed, Unlisted
<1>5. ASSUME NEW s \in Service, Lists(s) PROVE ReadInv'
  <2> SUFFICES ASSUME NEW t \in Service PROVE Placed(t)'
    BY <1>0
  <2>0. /\ UNCHANGED <<log, ends, lost, read>>
        /\ Unlisted(s) /\ (Unlisted(t)' => t # s /\ Unlisted(t))
    BY <1>5 DEF Lists, Unlisted, Service
  <2>1. CASE t # s
    <3>1. listing'[t] = listing[t] /\ gone'[t] = gone[t] /\ upto'[t] = upto[t]
      BY <1>5, <2>1 DEF Lists, TypeOK
    <3> QED
      BY <1>0, <2>0, <3>1 DEF Placed
  <2>2. CASE t = s
    <3>1. listing'[s] = Archives(s) /\ gone'[s] = lost[s] /\ upto'[s] = Len(log[s])
      BY <1>5 DEF Lists, TypeOK
    <3>2. Len(log[s]) \in Nat /\ lost[s] \in Nat
      <4>1. log[s] \in Seq(Line) /\ lost[s] \in Nat
        BY DEF TypeOK
      <4> QED
        BY <4>1
    <3>3. read[s] = {}
      BY <1>0, <2>0 DEF Placed
    <3>4. lost[s] = 0 \/ (lost[s] \in ends[s] /\ lost[s] < Len(log[s]))
      BY <1>0 DEF Placed
    <3>5. Archives(s) \subseteq ends[s]
      BY DEF Archives
    <3> QED
      BY <1>0, <2>0, <2>2, <3>1, <3>2, <3>3, <3>4, <3>5 DEF Placed
  <2> QED
    BY <2>1, <2>2
<1>6. ASSUME NEW s \in Service, ReadsArchive(s) PROVE ReadInv'
  <2>0. UNCHANGED <<log, ends, lost, gone, upto>> /\ ~Unlisted(s)
    BY <1>6 DEF ReadsArchive, Reading, Unlisted, Service
  <2>1. PICK n \in listing[s] :
          IF n > lost[s]
          THEN /\ listing' = [listing EXCEPT ![s] = @ \ {n}]
               /\ read' = [read EXCEPT ![s] = @ \cup ArchiveLines(s, n)]
               /\ UNCHANGED stage
          ELSE stage' = "failed" /\ UNCHANGED <<listing, read>>
    BY <1>6 DEF ReadsArchive
  <2>2. CASE n > lost[s]
    <3> SUFFICES ASSUME NEW t \in Service PROVE Placed(t)'
      BY <1>0
    <3>1. CASE t # s
      <4>1. listing'[t] = listing[t] /\ read'[t] = read[t]
        BY <2>1, <2>2, <3>1 DEF TypeOK
      <4> QED
        BY <1>0, <2>0, <2>1, <2>2, <4>1 DEF Placed, Unlisted
    <3>2. CASE t = s
      <4>1. n \in Archives(s)
        BY <1>0, <2>1, <2>2 DEF Archives, Placed
      <4>2. ArchiveLines(s, n) \subseteq gone[s] + 1 .. Len(log[s])
        BY <4>1, FileLines
      <4>3. /\ listing'[s] = listing[s] \ {n}
            /\ read'[s] = read[s] \cup ArchiveLines(s, n)
        BY <2>1, <2>2 DEF TypeOK
      <4> QED
        BY <1>0, <2>0, <2>1, <2>2, <3>2, <4>2, <4>3 DEF Placed, Unlisted
    <3> QED
      BY <3>1, <3>2
  <2>3. CASE ~(n > lost[s])
    BY <2>0, <2>1, <2>3 DEF ReadInv, Placed, Unlisted
  <2> QED
    BY <2>2, <2>3
<1>7. ASSUME NEW s \in Service, ReadsCurrent(s) PROVE ReadInv'
  <2> SUFFICES ASSUME NEW t \in Service PROVE Placed(t)'
    BY <1>0
  <2>0. UNCHANGED <<log, ends, lost, gone, upto, listing, stage>> /\ ~Unlisted(s)
    BY <1>7 DEF ReadsCurrent, Reading, Unlisted, Service
  <2>1. read' = [read EXCEPT ![s] = @ \cup CurrentLines(s)]
    BY <1>7 DEF ReadsCurrent
  <2>2. CurrentLines(s) \subseteq gone[s] + 1 .. Len(log[s])
    BY FileLines
  <2>3. CASE t # s
    <3>1. read'[t] = read[t]
      BY <2>1, <2>3 DEF TypeOK
    <3> QED
      BY <1>0, <2>0, <3>1 DEF Placed, Unlisted
  <2>4. CASE t = s
    <3>1. read'[s] = read[s] \cup CurrentLines(s)
      BY <2>1 DEF TypeOK
    <3> QED
      BY <1>0, <2>0, <2>2, <2>4, <3>1 DEF Placed, Unlisted
  <2> QED
    BY <2>3, <2>4
<1>8. CASE Judges
  BY <1>8 DEF Judges, ReadInv, Placed, Unlisted
<1>9. CASE UNCHANGED vars
  BY <1>a, <1>9 DEF vars
<1> QED
  BY <1>1, <1>2, <1>3, <1>4, <1>5, <1>6, <1>7, <1>8, <1>9
  DEF Next, Build, Services, Report

\* Everything keeps its type, whatever is logged, rotated, pruned and read.
THEOREM TypeCorrect == Spec => [](TypeOK /\ ReadInv)
<1>1. Init => TypeOK /\ ReadInv
  <2> SUFFICES ASSUME Init PROVE TypeOK /\ ReadInv
    OBVIOUS
  <2>1. <<Marker>> \in Seq(Line) /\ <<>> \in Seq(Line) /\ Len(<<>>) = 0
    BY LineTypes
  <2>2. 0 \in 0 .. MaxCrashes
    BY LimitAssumption
  <2>3. Types
    BY <2>1, <2>2 DEF Init, Types
  <2>4. ReadInv
    BY <2>1 DEF Init, ReadInv, Placed
  <2>5. \A s \in Service : read[s] \subseteq 1 .. Len(log[s])
    BY DEF Init
  <2> QED
    BY <2>3, <2>4, <2>5 DEF TypeOK, Types
<1>2. TypeOK /\ ReadInv /\ [Next]_vars => (TypeOK /\ ReadInv)'
  <2> SUFFICES ASSUME TypeOK, ReadInv, [Next]_vars PROVE (TypeOK /\ ReadInv)'
    OBVIOUS
  <2>1. Types' /\ ReadInv'
    BY TypesStep, ReadStep
  <2>2. \A s \in Service : read'[s] \subseteq 1 .. Len(log'[s])
    <3> SUFFICES ASSUME NEW s \in Service, NEW i \in read'[s] PROVE i \in 1 .. Len(log'[s])
      OBVIOUS
    <3>1. i \in gone'[s] + 1 .. Len(log'[s]) /\ gone'[s] \in Nat
      BY <2>1 DEF Types, ReadInv, Placed
    <3> QED
      BY <3>1
  <2> QED
    BY <2>1, <2>2 DEF TypeOK, Types
<1> QED
  BY <1>1, <1>2, PTL DEF Spec

-----------------------------------------------------------------------------
(* Every line due is read. *)

LEMMA DueStep ==
  ASSUME TypeOK, ReadInv, DueInv, [Next]_vars
  PROVE  DueInv'
<1> USE DEF serviceVars, logVars, reportVars
<1> DEFINE Left(s) == UNION {ArchiveLines(s, n) : n \in listing[s]}
<1>a. ASSUME UNCHANGED <<ends, listing, read, due, finished>>, stage' # "passed",
             \A s \in Service : Unlisted(s)' => Unlisted(s)
      PROVE  DueInv'
  <2>1. \A s \in Service : Left(s)' = Left(s)
    BY <1>a DEF ArchiveLines
  <2> QED
    BY <1>a, <2>1 DEF DueInv
<1>b. ASSUME UNCHANGED <<ends, listing, read, due, finished, stage>> PROVE DueInv'
  <2>1. \A s \in Service : Left(s)' = Left(s)
    BY <1>b DEF ArchiveLines
  <2> QED
    BY <1>b, <2>1 DEF DueInv, Unlisted
<1>1. ASSUME NEW e \in Event, Connects(e) \/ Ends(e) \/ LooksUp(e) PROVE DueInv'
  BY <1>b, <1>1 DEF Connects, Ends, LooksUp
<1>2. ASSUME NEW s \in Service, Crashes(s) \/ Restarts(s) PROVE DueInv'
  BY <1>b, <1>2 DEF Crashes, Restarts
<1>3. ASSUME NEW s \in Service, LogsLine(s) PROVE DueInv'
  <2>0. UNCHANGED <<listing, read, due, finished, stage>>
    BY <1>3 DEF LogsLine
  <2>1. ASSUME NEW t \in Service, NEW n \in listing[t]
        PROVE  ArchiveLines(t, n)' = ArchiveLines(t, n)
    <3>1. n \in ends[t] /\ n < Len(log[t])
      BY DEF ReadInv, Placed
    <3>2. n \in Nat /\ Len(log[t]) \in Nat
      <4>1. log[t] \in Seq(Line) /\ ends[t] \subseteq Nat
        BY DEF TypeOK
      <4> QED
        BY <3>1, <4>1
    <3>3. ends'[t] = ends[t] \/ ends'[t] = ends[t] \cup {Len(log[t])}
      BY <1>3 DEF LogsLine, TypeOK
    <3>4. \A m : (m \in ends'[t] /\ m < n) <=> (m \in ends[t] /\ m < n)
      BY <3>1, <3>2, <3>3
    <3> QED
      BY <3>4 DEF ArchiveLines
  <2>2. \A t \in Service : Left(t)' = Left(t)
    BY <2>0, <2>1
  <2> QED
    BY <2>0, <2>2 DEF DueInv, Unlisted
<1>4. CASE AsksProxy \/ AsksResolver
  BY <1>a, <1>4 DEF AsksProxy, AsksResolver, Unlisted
<1>5. ASSUME NEW s \in Service, Lists(s) PROVE DueInv'
  <2>0. UNCHANGED <<ends, read, finished>> /\ stage' # "passed"
    BY <1>5 DEF Lists
  <2>1. /\ listing' = [listing EXCEPT ![s] = Archives(s)]
        /\ due' = [due EXCEPT ![s] = UNION {ArchiveLines(s, n) : n \in Archives(s)}]
    BY <1>5 DEF Lists
  <2>2. s \notin finished
    BY <1>5 DEF Lists, DueInv, Unlisted
  <2>3. \A t \in Service : Unlisted(t)' => Unlisted(t)
    BY <1>5 DEF Lists, Unlisted
  <2>4. ASSUME NEW t \in Service
        PROVE  /\ due'[t] \subseteq read'[t] \cup Left(t)'
               /\ t \in finished' => listing'[t] = {} /\ ~Unlisted(t)'
    <3>1. CASE t = s
      <4>1. listing'[s] = Archives(s)
        BY <2>1 DEF TypeOK
      <4>2. due'[s] = UNION {ArchiveLines(s, n) : n \in Archives(s)}
        BY <2>1 DEF TypeOK
      <4>3. Left(s)' = UNION {ArchiveLines(s, n) : n \in Archives(s)}
        BY <2>0, <4>1 DEF ArchiveLines
      <4> QED
        BY <2>0, <2>2, <3>1, <4>2, <4>3
    <3>2. CASE t # s
      <4>1. listing'[t] = listing[t] /\ due'[t] = due[t]
        BY <2>1, <3>2 DEF TypeOK
      <4>2. Left(t)' = Left(t)
        BY <2>0, <4>1 DEF ArchiveLines
      <4> QED
        BY <2>0, <2>3, <4>1, <4>2 DEF DueInv
    <3> QED
      BY <3>1, <3>2
  <2> QED
    BY <2>0, <2>4 DEF DueInv
<1>6. ASSUME NEW s \in Service, ReadsArchive(s) PROVE DueInv'
  <2>0. UNCHANGED <<ends, due, finished>> /\ s \notin finished /\ stage' # "passed"
    BY <1>6 DEF ReadsArchive, Reading
  <2>1. PICK n \in listing[s] :
          \/ /\ listing' = [listing EXCEPT ![s] = @ \ {n}]
             /\ read' = [read EXCEPT ![s] = @ \cup ArchiveLines(s, n)]
             /\ stage' = stage
          \/ stage' = "failed" /\ listing' = listing /\ read' = read
    BY <1>6 DEF ReadsArchive
  <2>2. CASE stage' = "failed" /\ listing' = listing /\ read' = read
    <3>1. \A t \in Service : ~Unlisted(t)'
      BY <2>2 DEF Unlisted
    <3> QED
      BY <1>a, <2>0, <2>2, <3>1
  <2>3. CASE /\ listing' = [listing EXCEPT ![s] = @ \ {n}]
             /\ read' = [read EXCEPT ![s] = @ \cup ArchiveLines(s, n)]
             /\ stage' = stage
    <3>1. ASSUME NEW t \in Service
          PROVE  /\ due'[t] \subseteq read'[t] \cup Left(t)'
                 /\ t \in finished' => listing'[t] = {} /\ ~Unlisted(t)'
      <4>1. CASE t = s
        <5>1. /\ listing'[s] = listing[s] \ {n}
              /\ read'[s] = read[s] \cup ArchiveLines(s, n)
          BY <2>3 DEF TypeOK
        <5>2. Left(s) \subseteq ArchiveLines(s, n) \cup Left(s)'
          BY <2>0, <5>1 DEF ArchiveLines
        <5> QED
          BY <2>0, <4>1, <5>1, <5>2 DEF DueInv
      <4>2. CASE t # s
        <5>1. listing'[t] = listing[t] /\ read'[t] = read[t]
          BY <2>3, <4>2 DEF TypeOK
        <5>2. Left(t)' = Left(t)
          BY <2>0, <5>1 DEF ArchiveLines
        <5> QED
          BY <2>0, <2>3, <5>1, <5>2 DEF DueInv, Unlisted
      <4> QED
        BY <4>1, <4>2
    <3> QED
      BY <2>0, <3>1 DEF DueInv
  <2> QED
    BY <2>1, <2>2, <2>3
<1>7. ASSUME NEW s \in Service, ReadsCurrent(s) PROVE DueInv'
  <2>1. /\ UNCHANGED <<ends, due, listing, stage>> /\ listing[s] = {}
        /\ finished' = finished \cup {s} /\ ~Unlisted(s) /\ stage # "passed"
    BY <1>7 DEF ReadsCurrent, Reading, Unlisted, Service
  <2>2. \A t \in Service : read[t] \subseteq read'[t]
    BY <1>7 DEF ReadsCurrent, TypeOK
  <2>3. \A t \in Service : Left(t)' = Left(t)
    BY <2>1 DEF ArchiveLines
  <2> QED
    BY <2>1, <2>2, <2>3 DEF DueInv, Unlisted
<1>8. CASE Judges
  <2>1. UNCHANGED <<ends, listing, read, due, finished>> /\ finished = Service
    BY <1>8 DEF Judges
  <2>2. stage = "reading" /\ stage' \in {"passed", "failed"}
    BY <1>8 DEF Judges
  <2> QED
    BY <2>1, <2>2 DEF DueInv, ArchiveLines, Unlisted
<1>9. CASE UNCHANGED vars
  BY <1>b, <1>9 DEF vars
<1> QED
  BY <1>1, <1>2, <1>3, <1>4, <1>5, <1>6, <1>7, <1>8, <1>9
  DEF Next, Build, Services, Report

\* A report that comes to a verdict has read every line that was in an archive
\* when it listed the directory, whatever s6-log prunes meanwhile.
THEOREM EveryArchiveIsRead == Spec => []ReadsArchives
<1>1. Init => DueInv
  BY DEF Init, DueInv, ArchiveLines
<1>2. TypeOK /\ ReadInv /\ DueInv /\ [Next]_vars => DueInv'
  BY DueStep
<1>3. DueInv => ReadsArchives
  BY DEF DueInv, ReadsArchives
<1> QED
  BY <1>1, <1>2, <1>3, TypeCorrect, PTL DEF Spec

-----------------------------------------------------------------------------
(* The streams: what a service wrote moves from its pipe to its log. *)

LEMMA Lengths ==
  ASSUME TypeOK, NEW s \in Service
  PROVE  /\ log[s] \in Seq(Line) /\ Len(log[s]) \in Nat
         /\ pipe[s] \in Seq(Line) /\ Len(pipe[s]) \in Nat
         /\ \A i \in 1 .. Len(log[s]) : log[s][i] \in Line
         /\ \A j \in 1 .. Len(pipe[s]) : pipe[s][j] \in Line
<1>1. log[s] \in Seq(Line) /\ pipe[s] \in Seq(Line)
  BY DEF TypeOK
<1> QED
  BY <1>1

\* A write adds its line at the end of the pipe.
LEMMA PutAppends ==
  ASSUME TypeOK, NEW s \in Service, NEW line \in Line, Put(s, line)
  PROVE  /\ Len(pipe'[s]) = Len(pipe[s]) + 1
         /\ \A j \in 1 .. Len(pipe[s]) : pipe'[s][j] = pipe[s][j]
         /\ pipe'[s][Len(pipe[s]) + 1] = line
         /\ \A t \in Service : t # s => pipe'[t] = pipe[t]
<1>1. pipe'[s] = Append(pipe[s], line)
  BY DEF Put, TypeOK
<1>2. \A t \in Service : t # s => pipe'[t] = pipe[t]
  BY DEF Put, TypeOK
<1>3. pipe[s] \in Seq(Line)
  BY Lengths
<1> QED
  BY <1>1, <1>2, <1>3

\* s6-log moves the first line of the pipe to the end of the log.
LEMMA LineMoves ==
  ASSUME TypeOK, NEW s \in Service, LogsLine(s)
  PROVE  /\ Len(pipe[s]) > 0
         /\ Len(log'[s]) = Len(log[s]) + 1
         /\ \A i \in 1 .. Len(log[s]) : log'[s][i] = log[s][i]
         /\ log'[s][Len(log[s]) + 1] = pipe[s][1]
         /\ Len(pipe'[s]) = Len(pipe[s]) - 1
         /\ \A j \in 1 .. Len(pipe'[s]) : pipe'[s][j] = pipe[s][j + 1]
         /\ \A t \in Service : t # s => pipe'[t] = pipe[t] /\ log'[t] = log[t]
<1>1. pipe'[s] = Tail(pipe[s]) /\ log'[s] = Append(log[s], Head(pipe[s])) /\ pipe[s] # <<>>
  BY DEF LogsLine, TypeOK
<1>2. \A t \in Service : t # s => pipe'[t] = pipe[t] /\ log'[t] = log[t]
  BY DEF LogsLine, TypeOK
<1>3. pipe[s] \in Seq(Line) /\ log[s] \in Seq(Line)
  BY Lengths
<1>4. Head(pipe[s]) = pipe[s][1] /\ Head(pipe[s]) \in Line /\ Len(pipe[s]) > 0
  BY <1>1, <1>3
<1>5. /\ Len(log'[s]) = Len(log[s]) + 1
      /\ \A i \in 1 .. Len(log[s]) : log'[s][i] = log[s][i]
      /\ log'[s][Len(log[s]) + 1] = pipe[s][1]
  BY <1>1, <1>3, <1>4
<1>6. /\ Len(pipe'[s]) = Len(pipe[s]) - 1
      /\ \A j \in 1 .. Len(pipe'[s]) : pipe'[s][j] = pipe[s][j + 1]
  BY <1>1, <1>3, <1>4
<1> QED
  BY <1>2, <1>4, <1>5, <1>6

\* What is told of in a stream stays told of as its lines move, and as others
\* are added; in the log it keeps its place.
LEMMA ToldMoves ==
  ASSUME TypeOK, NEW s \in Service, LogsLine(s), NEW t \in Service, NEW e
  PROVE  /\ \A n \in 0 .. Len(log[t]) : ToldInLog(t, e, n) => ToldInLog(t, e, n)'
         /\ ToldInLog(t, e, Len(log[t])) => ToldInLog(t, e, Len(log[t]))'
         /\ ToldInPipe(t, e) => ToldInPipe(t, e)' \/ ToldInLog(t, e, Len(log[t]))'
<1>0. Len(log[t]) \in Nat /\ Len(pipe[t]) \in Nat
  BY Lengths
<1>1. CASE t # s
  <2>1. log'[t] = log[t] /\ pipe'[t] = pipe[t]
    BY <1>1, LineMoves
  <2> QED
    BY <2>1 DEF ToldInLog, ToldInPipe
<1>2. CASE t = s
  <2>1. /\ Len(log'[t]) = Len(log[t]) + 1
        /\ \A i \in 1 .. Len(log[t]) : log'[t][i] = log[t][i]
        /\ log'[t][Len(log[t]) + 1] = pipe[t][1]
        /\ Len(pipe'[t]) = Len(pipe[t]) - 1
        /\ \A j \in 1 .. Len(pipe'[t]) : pipe'[t][j] = pipe[t][j + 1]
    BY <1>2, LineMoves
  <2>2. ASSUME NEW n \in 0 .. Len(log[t]), ToldInLog(t, e, n)
        PROVE  ToldInLog(t, e, n)' /\ ToldInLog(t, e, Len(log[t]))'
    <3>1. PICK i \in 1 .. n : Tells(log[t][i], i, e)
      BY <2>2 DEF ToldInLog
    <3>2. i \in 1 .. Len(log[t]) /\ i \in 1 .. Len(log'[t]) /\ log'[t][i] = log[t][i]
      BY <1>0, <2>1, <2>2
    <3> QED
      BY <3>1, <3>2 DEF ToldInLog
  <2>3. ASSUME ToldInPipe(t, e)
        PROVE  ToldInPipe(t, e)' \/ ToldInLog(t, e, Len(log[t]))'
    <3>1. PICK j \in 1 .. Len(pipe[t]) : Tells(pipe[t][j], Len(log[t]) + j, e)
      BY <2>3 DEF ToldInPipe
    <3>2. CASE j = 1
      <4>1. Len(log[t]) + 1 \in 1 .. Len(log'[t])
        BY <1>0, <2>1
      <4>2. Tells(log'[t][Len(log[t]) + 1], Len(log[t]) + 1, e)
        BY <2>1, <3>1, <3>2
      <4> QED
        BY <4>1, <4>2 DEF ToldInLog
    <3>3. CASE j # 1
      <4>1. j - 1 \in 1 .. Len(pipe'[t]) /\ Len(log'[t]) + (j - 1) = Len(log[t]) + j
        BY <1>0, <2>1, <3>1, <3>3
      <4>2. pipe'[t][j - 1] = pipe[t][j]
        <5>1. pipe'[t][j - 1] = pipe[t][(j - 1) + 1] /\ (j - 1) + 1 = j
          BY <2>1, <4>1
        <5> QED
          BY <5>1
      <4>3. Tells(pipe'[t][j - 1], Len(log'[t]) + (j - 1), e)
        BY <3>1, <4>1, <4>2
      <4> QED
        BY <4>1, <4>3 DEF ToldInPipe
    <3> QED
      BY <3>2, <3>3
  <2>4. Len(log[t]) \in 0 .. Len(log[t])
    BY <1>0
  <2> QED
    BY <2>2, <2>3, <2>4
<1> QED
  BY <1>1, <1>2

LEMMA ToldPut ==
  ASSUME TypeOK, NEW s \in Service, NEW line \in Line, Put(s, line), log' = log,
         NEW t \in Service, NEW e
  PROVE  /\ ToldInLog(t, e, Len(log[t])) => ToldInLog(t, e, Len(log[t]))'
         /\ ToldInPipe(t, e) => ToldInPipe(t, e)'
         /\ t = s /\ Tells(line, Len(log[s]) + (Len(pipe[s]) + 1), e) => ToldInPipe(t, e)'
<1>0. Len(log[t]) \in Nat /\ Len(pipe[t]) \in Nat
  BY Lengths
<1>1. ToldInLog(t, e, Len(log[t])) => ToldInLog(t, e, Len(log[t]))'
  BY DEF ToldInLog
<1>2. ASSUME ToldInPipe(t, e) PROVE ToldInPipe(t, e)'
  <2>1. PICK j \in 1 .. Len(pipe[t]) : Tells(pipe[t][j], Len(log[t]) + j, e)
    BY <1>2 DEF ToldInPipe
  <2>2. j \in 1 .. Len(pipe'[t]) /\ pipe'[t][j] = pipe[t][j]
    <3>1. CASE t = s
      BY <1>0, <3>1, PutAppends
    <3>2. CASE t # s
      BY <3>2, PutAppends
    <3> QED
      BY <3>1, <3>2
  <2> QED
    BY <2>1, <2>2 DEF ToldInPipe
<1>3. ASSUME t = s, Tells(line, Len(log[s]) + (Len(pipe[s]) + 1), e) PROVE ToldInPipe(t, e)'
  <2>1. Len(pipe[t]) + 1 \in 1 .. Len(pipe'[t]) /\ pipe'[t][Len(pipe[t]) + 1] = line
    BY <1>0, <1>3, PutAppends
  <2> QED
    BY <1>3, <2>1 DEF ToldInPipe
<1> QED
  BY <1>1, <1>2, <1>3

\* The length of a stream that grows by a line, or of which a line moves.
LEMMA Sums ==
  \A a, b \in Nat :
    /\ a + b > 0 => a + (b + 1) > 1
    /\ a + (b + 1) > 0
    /\ b > 0 => (a + 1) + (b - 1) > 0
OBVIOUS

\* A stream stays known through each of the ways it can change.
LEMMA StreamStep ==
  ASSUME TypeOK, StreamInv, [Next]_vars
  PROVE  StreamInv'
<1> USE DEF serviceVars, logVars, reportVars
<1>a. ASSUME UNCHANGED <<log, pipe>>, happened \subseteq happened', open' \subseteq happened'
      PROVE  StreamInv'
  BY <1>a DEF StreamInv, Streamed
<1>b. ASSUME NEW s \in Service, NEW line \in Line, Put(s, line), log' = log,
             happened \subseteq happened', open' \subseteq happened',
             line.kind = "event" => line.event \in happened'
      PROVE  StreamInv'
  <2> SUFFICES ASSUME NEW t \in Service PROVE Streamed(t)'
    BY <1>b DEF StreamInv
  <2>0. Streamed(t) /\ Len(log[t]) \in Nat /\ Len(pipe[t]) \in Nat
    BY Lengths DEF StreamInv
  <2>1. CASE t = s
    <3>1. /\ Len(pipe'[t]) = Len(pipe[t]) + 1
          /\ \A j \in 1 .. Len(pipe[t]) : pipe'[t][j] = pipe[t][j]
          /\ pipe'[t][Len(pipe[t]) + 1] = line
      BY <1>b, <2>1, PutAppends
    <3>2. ASSUME NEW j \in 1 .. Len(pipe'[t]), pipe'[t][j].kind = "event"
          PROVE  pipe'[t][j].event \in happened'
      <4>1. j \in 1 .. Len(pipe[t]) \/ j = Len(pipe[t]) + 1
        BY <2>0, <3>1
      <4> QED
        BY <1>b, <2>0, <3>1, <3>2, <4>1 DEF Streamed
    <3>3. Len(log'[t]) + Len(pipe'[t]) > 0
      BY <1>b, <2>0, <3>1, Sums
    <3>4. \A i \in 1 .. Len(log'[t]) : log'[t][i].kind = "event" => log'[t][i].event \in happened'
      BY <1>b, <2>0 DEF Streamed
    <3> QED
      BY <3>2, <3>3, <3>4 DEF Streamed
  <2>2. CASE t # s
    <3>1. pipe'[t] = pipe[t]
      BY <1>b, <2>2, PutAppends
    <3> QED
      BY <1>b, <2>0, <3>1 DEF Streamed
  <2> QED
    BY <2>1, <2>2
<1>1. ASSUME NEW e \in Event, Connects(e) PROVE StreamInv'
  BY <1>a, <1>1 DEF Connects, StreamInv
<1>2. ASSUME NEW e \in Event, Ends(e) PROVE StreamInv'
  <2>0. /\ log' = log /\ happened' = happened /\ open' = open \ {e} /\ e \in open
        /\ open \subseteq happened
    BY <1>2 DEF Ends, StreamInv
  <2>1. CASE Put("proxy", LineOf(e))
    <3>1. LineOf(e).event \in happened'
      BY <2>0 DEF LineOf
    <3> QED
      BY <1>b, <2>0, <2>1, <3>1, LineTypes DEF Service
  <2>2. CASE Put("proxy", Unreadable)
    <3>1. Unreadable.kind # "event"
      BY DEF Unreadable
    <3> QED
      BY <1>b, <2>0, <2>2, <3>1, LineTypes DEF Service
  <2>3. CASE UNCHANGED pipe
    BY <1>a, <2>0, <2>3
  <2> QED
    BY <1>2, <2>1, <2>2, <2>3 DEF Ends
<1>3. ASSUME NEW e \in Event, LooksUp(e) PROVE StreamInv'
  <2>1. /\ Put("resolver", LineOf(e)) /\ log' = log /\ happened' = happened \cup {e}
        /\ open' = open /\ open \subseteq happened
    BY <1>3 DEF LooksUp, StreamInv
  <2>2. LineOf(e).event \in happened'
    BY <2>1 DEF LineOf
  <2> QED
    BY <1>b, <2>1, <2>2, LineTypes DEF Service
<1>4. ASSUME NEW s \in Service, Crashes(s) PROVE StreamInv'
  BY <1>a, <1>4 DEF Crashes, StreamInv
<1>5. ASSUME NEW s \in Service, Restarts(s) PROVE StreamInv'
  <2>1. log' = log /\ happened' = happened /\ open' = open /\ open \subseteq happened
    BY <1>5 DEF Restarts, StreamInv
  <2>2. PICK line \in {Marker, [Marker EXCEPT !.kind = "bare"]} : Put(s, line)
    BY <1>5 DEF Restarts
  <2>3. line \in Line /\ line.kind # "event"
    BY <2>2, LineTypes DEF Marker
  <2> QED
    BY <1>b, <2>1, <2>2, <2>3
<1>6. ASSUME NEW s \in Service, LogsLine(s) PROVE StreamInv'
  <2>0. happened' = happened /\ open' = open
    BY <1>6 DEF LogsLine
  <2> SUFFICES ASSUME NEW t \in Service PROVE Streamed(t)'
    BY <2>0 DEF StreamInv
  <2>1. Streamed(t) /\ Len(log[t]) \in Nat /\ Len(pipe[t]) \in Nat
    BY Lengths DEF StreamInv
  <2>2. CASE t = s
    <3>1. /\ Len(pipe[t]) > 0
          /\ Len(log'[t]) = Len(log[t]) + 1
          /\ \A i \in 1 .. Len(log[t]) : log'[t][i] = log[t][i]
          /\ log'[t][Len(log[t]) + 1] = pipe[t][1]
          /\ Len(pipe'[t]) = Len(pipe[t]) - 1
          /\ \A j \in 1 .. Len(pipe'[t]) : pipe'[t][j] = pipe[t][j + 1]
      BY <1>6, <2>2, LineMoves
    <3>2. ASSUME NEW i \in 1 .. Len(log'[t]), log'[t][i].kind = "event"
          PROVE  log'[t][i].event \in happened
      <4>1. i \in 1 .. Len(log[t]) \/ (i = Len(log[t]) + 1 /\ 1 \in 1 .. Len(pipe[t]))
        BY <2>1, <3>1
      <4> QED
        BY <2>1, <3>1, <3>2, <4>1 DEF Streamed
    <3>3. ASSUME NEW j \in 1 .. Len(pipe'[t]), pipe'[t][j].kind = "event"
          PROVE  pipe'[t][j].event \in happened
      <4>1. j + 1 \in 1 .. Len(pipe[t]) /\ pipe'[t][j] = pipe[t][j + 1]
        BY <2>1, <3>1
      <4> QED
        BY <2>1, <3>3, <4>1 DEF Streamed
    <3>4. Len(log'[t]) + Len(pipe'[t]) > 0
      BY <2>1, <3>1, Sums
    <3> QED
      BY <2>0, <3>2, <3>3, <3>4 DEF Streamed
  <2>3. CASE t # s
    <3>1. pipe'[t] = pipe[t] /\ log'[t] = log[t]
      BY <1>6, <2>3, LineMoves
    <3> QED
      BY <2>0, <2>1, <3>1 DEF Streamed
  <2> QED
    BY <2>2, <2>3
<1>7. ASSUME NEW s \in Service,
             AsksProxy \/ AsksResolver \/ Judges \/ Lists(s) \/ ReadsArchive(s) \/ ReadsCurrent(s)
      PROVE  StreamInv'
  BY <1>a, <1>7
  DEF AsksProxy, AsksResolver, Judges, Lists, ReadsArchive, ReadsCurrent, StreamInv
<1>8. CASE UNCHANGED vars
  BY <1>a, <1>8 DEF vars, StreamInv
<1> QED
  BY <1>1, <1>2, <1>3, <1>4, <1>5, <1>6, <1>7, <1>8
  DEF Next, Build, Services, Report, Service

\* No event goes unaccounted for: a line dropped is counted, a crash leaves the
\* proxy down, and its restart leaves a marker.
LEMMA AccountStep ==
  ASSUME TypeOK, StreamInv, AccountInv, [Next]_vars
  PROVE  AccountInv'
<1> USE DEF serviceVars, logVars, reportVars
<1>0. \A e \in happened : e \in Event /\ e.log \in Service
  BY EventAssumption DEF TypeOK
<1>0b. dropped \in Nat /\ happened \subseteq Event
  BY DEF TypeOK
<1>a. ASSUME UNCHANGED <<log, pipe, happened, up, dropped, open>> PROVE AccountInv'
  BY <1>a DEF AccountInv, Unheard, Told, ToldInLog, ToldInPipe
<1>b. ASSUME NEW s \in Service, NEW line \in Line, Put(s, line), log' = log,
             NEW e \in happened, Told(e)
      PROVE  Told(e)'
  BY <1>0, <1>b, ToldPut DEF Told
<1>1. ASSUME NEW f \in Event, Connects(f) PROVE AccountInv'
  <2>1. /\ UNCHANGED <<log, pipe, up, dropped>> /\ happened' = happened \cup {f}
        /\ open' = open \cup {f} /\ f.log = "proxy"
    BY <1>1 DEF Connects
  <2> QED
    BY <2>1 DEF AccountInv, Unheard, Told, ToldInLog, ToldInPipe
<1>2. ASSUME NEW f \in Event, Ends(f) PROVE AccountInv'
  <2>0. /\ log' = log /\ happened' = happened /\ up' = up /\ open' = open \ {f}
        /\ f \in open /\ f \in happened
    BY <1>2 DEF Ends, StreamInv
  <2> SUFFICES ASSUME NEW e \in happened PROVE Unheard(e)' \/ Told(e)'
    BY <2>0 DEF AccountInv
  <2>1. ASSUME NEW line \in Line, Put("proxy", line), dropped' = dropped,
               line = LineOf(f) \/ line.kind = "cut"
        PROVE  Unheard(e)' \/ Told(e)'
    <3>1. CASE Told(e)
      BY <1>b, <2>0, <2>1, <3>1 DEF Service
    <3>2. CASE Unheard(e) /\ e # f
      BY <2>0, <2>1, <3>2 DEF Unheard
    <3>3. CASE Unheard(e) /\ e = f
      <4>1. e.log = "proxy" /\ Tells(line, Len(log["proxy"]) + (Len(pipe["proxy"]) + 1), e)
        BY <2>1, <3>3 DEF Unheard, Tells
      <4>2. ToldInPipe("proxy", e)'
        BY <2>0, <2>1, <4>1, ToldPut DEF Service
      <4> QED
        BY <4>1, <4>2 DEF Told
    <3> QED
      BY <3>1, <3>2, <3>3 DEF AccountInv
  <2>2. CASE dropped' = dropped + 1 /\ UNCHANGED pipe
    <3>1. dropped' > 0
      BY <1>0b, <2>2
    <3> QED
      BY <2>0, <2>2, <3>1 DEF AccountInv, Unheard, Told, ToldInLog, ToldInPipe
  <2>3. Unreadable.kind = "cut"
    BY DEF Unreadable
  <2>4. \/ Put("proxy", LineOf(f)) /\ dropped' = dropped
        \/ Put("proxy", Unreadable) /\ dropped' = dropped
        \/ dropped' = dropped + 1 /\ UNCHANGED pipe
    BY <1>2 DEF Ends
  <2> QED
    BY <2>1, <2>2, <2>3, <2>4, LineTypes
<1>3. ASSUME NEW f \in Event, LooksUp(f) PROVE AccountInv'
  <2>0. /\ log' = log /\ happened' = happened \cup {f} /\ UNCHANGED <<up, open, dropped>>
        /\ Put("resolver", LineOf(f)) /\ f.log = "resolver"
    BY <1>3 DEF LooksUp
  <2>1. LineOf(f) \in Line /\ "resolver" \in Service
    BY LineTypes DEF Service
  <2>2. ASSUME NEW e \in happened PROVE Unheard(e)' \/ Told(e)'
    <3>1. CASE Told(e)
      BY <1>b, <2>0, <2>1, <3>1
    <3>2. CASE Unheard(e)
      BY <2>0, <3>2 DEF Unheard
    <3> QED
      BY <3>1, <3>2 DEF AccountInv
  <2>3. Told(f)'
    <3>1. Tells(LineOf(f), Len(log["resolver"]) + (Len(pipe["resolver"]) + 1), f)
      BY DEF Tells
    <3>2. ToldInPipe("resolver", f)'
      BY <2>0, <2>1, <3>1, ToldPut
    <3> QED
      BY <2>0, <3>2 DEF Told
  <2> QED
    BY <2>0, <2>2, <2>3 DEF AccountInv
<1>4. ASSUME NEW s \in Service, Crashes(s) PROVE AccountInv'
  <2>0. UNCHANGED <<log, pipe, happened, dropped>>
    BY <1>4 DEF Crashes
  <2>1. ASSUME NEW e \in happened, Unheard(e) PROVE Unheard(e)'
    <3>1. CASE s = "proxy"
      <4>1. up'["proxy"] = FALSE
        BY <1>4, <3>1 DEF Crashes, TypeOK
      <4> QED
        BY <2>1, <4>1 DEF Unheard
    <3>2. CASE s # "proxy"
      <4>1. open' = open
        BY <1>4, <3>2 DEF Crashes
      <4>2. up'["proxy"] = up["proxy"]
        BY <1>4, <3>2, ZenonT(30) DEF Crashes, TypeOK, Service
      <4> QED
        BY <2>0, <2>1, <4>1, <4>2 DEF Unheard
    <3> QED
      BY <3>1, <3>2
  <2>2. \A e \in happened : Told(e) => Told(e)'
    BY <2>0 DEF Told, ToldInLog, ToldInPipe
  <2> QED
    BY <2>0, <2>1, <2>2 DEF AccountInv
<1>5. ASSUME NEW s \in Service, Restarts(s) PROVE AccountInv'
  <2>0. log' = log /\ happened' = happened /\ open' = open
    BY <1>5 DEF Restarts
  <2>1. PICK line \in {Marker, [Marker EXCEPT !.kind = "bare"]} : Put(s, line)
    BY <1>5 DEF Restarts
  <2>2. line \in Line /\ line.kind \in {"start", "bare"}
    BY <2>1, LineTypes DEF Marker
  <2> SUFFICES ASSUME NEW e \in happened PROVE Unheard(e)' \/ Told(e)'
    BY <2>0 DEF AccountInv
  <2>3. CASE e.log = s
    <3>1. Len(log[s]) + (Len(pipe[s]) + 1) > 1
      <4>1. Len(log[s]) + Len(pipe[s]) > 0
        BY DEF StreamInv, Streamed
      <4>2. Len(log[s]) \in Nat /\ Len(pipe[s]) \in Nat
        BY Lengths
      <4> QED
        BY <4>1, <4>2, Sums
    <3>2. Tells(line, Len(log[s]) + (Len(pipe[s]) + 1), e)
      BY <2>2, <3>1 DEF Tells
    <3>3. ToldInPipe(s, e)'
      BY <2>0, <2>1, <2>2, <3>2, ToldPut
    <3> QED
      BY <2>3, <3>3 DEF Told
  <2>4. CASE e.log # s
    <3>1. CASE Told(e)
      BY <1>b, <2>0, <2>1, <2>2, <3>1
    <3>2. CASE Unheard(e)
      <4>1. s # "proxy"
        BY <2>4, <3>2 DEF Unheard
      <4>2. dropped' = dropped
        BY <1>5, <4>1 DEF Restarts
      <4>3. up'["proxy"] = up["proxy"]
        BY <1>5, <4>1, ZenonT(30) DEF Restarts, TypeOK, Service
      <4> QED
        BY <2>0, <3>2, <4>2, <4>3 DEF Unheard
    <3> QED
      BY <3>1, <3>2 DEF AccountInv
  <2> QED
    BY <2>3, <2>4
<1>6. ASSUME NEW s \in Service, LogsLine(s) PROVE AccountInv'
  <2>0. UNCHANGED <<happened, open, up, dropped>>
    BY <1>6 DEF LogsLine
  <2>1. ASSUME NEW e \in happened PROVE Unheard(e)' \/ Told(e)'
    <3>1. CASE Told(e)
      BY <1>0, <1>6, <3>1, ToldMoves DEF Told
    <3>2. CASE Unheard(e)
      BY <2>0, <3>2 DEF Unheard
    <3> QED
      BY <3>1, <3>2 DEF AccountInv
  <2> QED
    BY <2>0, <2>1 DEF AccountInv
<1>7. ASSUME NEW s \in Service,
             AsksProxy \/ AsksResolver \/ Judges \/ Lists(s) \/ ReadsArchive(s) \/ ReadsCurrent(s)
      PROVE  AccountInv'
  BY <1>a, <1>7 DEF AsksProxy, AsksResolver, Judges, Lists, ReadsArchive, ReadsCurrent
<1>8. CASE UNCHANGED vars
  BY <1>a, <1>8 DEF vars
<1> QED
  BY <1>1, <1>2, <1>3, <1>4, <1>5, <1>6, <1>7, <1>8
  DEF Next, Build, Services, Report, Service

-----------------------------------------------------------------------------
(* The report: what it asked, what it lists, and its verdict. *)

\* The lines of a service that the report is to judge.
Listed(s) == IF Unlisted(s) THEN Len(log[s]) ELSE upto[s]

LEMMA AskedStep ==
  ASSUME TypeOK, ReadInv, AccountInv, AskedInv, [Next]_vars
  PROVE  AskedInv'
<1> USE DEF serviceVars, logVars, reportVars
<1>0. /\ \A e \in happened : e \in Event /\ e.log \in Service
      /\ \A s \in Service : Len(log[s]) \in Nat /\ upto[s] \in Nat /\ upto[s] <= Len(log[s])
  <2>1. \A s \in Service : Len(log[s]) \in Nat /\ upto[s] \in Nat
    BY Lengths DEF TypeOK
  <2>2. \A s \in Service : upto[s] <= Len(log[s])
    BY DEF ReadInv, Placed
  <2> QED
    BY <2>1, <2>2, EventAssumption DEF TypeOK
<1> DEFINE Knows(e) ==
      \/ e.log = "proxy" /\ (~answered["proxy"] \/ count # {0})
      \/ ToldInLog(e.log, e, Listed(e.log))
<1>b. AskedInv <=> (quiet /\ stage # "failed" =>
                      stage # "running" /\ \A e \in happened : Knows(e))
  BY DEF AskedInv, Listed
<1>c. AskedInv' <=> (quiet' /\ stage' # "failed" =>
                       stage' # "running" /\ \A e \in happened' : Knows(e)')
  BY DEF AskedInv, Listed
<1> HIDE DEF Knows
<1>a. ASSUME UNCHANGED <<log, upto, stage, answered, count, happened, quiet>>
      PROVE  AskedInv'
  BY <1>a DEF AskedInv, ToldInLog, Unlisted
<1>1. ASSUME NEW f \in Event, Connects(f) \/ LooksUp(f) PROVE AskedInv'
  <2>1. ~quiet'
    BY <1>1 DEF Connects, LooksUp
  <2> QED
    BY <1>c, <2>1
<1>2. ASSUME NEW f \in Event, Ends(f) PROVE AskedInv'
  BY <1>a, <1>2 DEF Ends
<1>3. ASSUME NEW s \in Service, Crashes(s) \/ Restarts(s) PROVE AskedInv'
  BY <1>a, <1>3 DEF Crashes, Restarts
<1>4. ASSUME NEW s \in Service, LogsLine(s) PROVE AskedInv'
  <2>0. UNCHANGED <<upto, stage, answered, count, happened, quiet>>
    BY <1>4 DEF LogsLine
  <2>1. ASSUME NEW e \in happened, Knows(e) PROVE Knows(e)'
    <3>1. CASE e.log = "proxy" /\ (~answered["proxy"] \/ count # {0})
      BY <2>0, <3>1 DEF Knows
    <3>2. CASE ToldInLog(e.log, e, Listed(e.log))
      <4>1. CASE Unlisted(e.log)
        BY <1>0, <1>4, <2>0, <3>2, <4>1, ToldMoves DEF Knows, Listed, Unlisted
      <4>2. CASE ~Unlisted(e.log)
        <5>1. upto[e.log] \in 0 .. Len(log[e.log])
          BY <1>0
        <5>2. ToldInLog(e.log, e, upto[e.log])'
          BY <1>0, <1>4, <2>0, <3>2, <4>2, <5>1, ToldMoves DEF Listed, ToldInLog
        <5> QED
          BY <2>0, <4>2, <5>2 DEF Knows, Listed, Unlisted, ToldInLog
      <4> QED
        BY <4>1, <4>2
    <3> QED
      BY <2>1, <3>1, <3>2 DEF Knows
  <2> QED
    BY <1>b, <1>c, <2>0, <2>1
<1>5. CASE AsksProxy
  <2>0. /\ UNCHANGED <<log, happened>> /\ stage' = "proxy asked"
        /\ quiet' => open = {} /\ \A s \in Service : pipe[s] = <<>>
    BY <1>5 DEF AsksProxy, Settled
  <2>1. ASSUME quiet', NEW e \in happened PROVE Knows(e)'
    <3>1. CASE ToldInLog(e.log, e, Len(log[e.log]))
      BY <2>0, <3>1 DEF Knows, Listed, Unlisted, ToldInLog
    <3>2. CASE ToldInPipe(e.log, e)
      <4>1. pipe[e.log] = <<>>
        BY <1>0, <2>0, <2>1
      <4> QED
        BY <3>2, <4>1 DEF ToldInPipe
    <3>3. CASE Unheard(e)
      <4>1. e.log = "proxy" /\ (~up["proxy"] \/ dropped > 0)
        BY <2>0, <2>1, <3>3 DEF Unheard
      <4>2. CASE ~up["proxy"]
        <5>1. up["proxy"] = FALSE
          BY <4>2 DEF TypeOK, Service
        <5>2. answered'["proxy"] = FALSE
          BY <1>5, <5>1 DEF AsksProxy, TypeOK, Service
        <5> QED
          BY <4>1, <5>2 DEF Knows
      <4>3. CASE dropped > 0
        <5>1. count' \in {{dropped}, {}}
          BY <1>5 DEF AsksProxy
        <5>2. dropped # 0
          <6>1. dropped \in Nat
            BY DEF TypeOK
          <6> QED
            BY <4>3, <6>1
        <5>3. count' # {0}
          BY <5>1, <5>2
        <5> QED
          BY <4>1, <5>3 DEF Knows
      <4> QED
        BY <4>1, <4>2, <4>3
    <3> QED
      BY <3>1, <3>2, <3>3 DEF AccountInv, Told
  <2> QED
    BY <1>c, <2>0, <2>1
<1>6. CASE AsksResolver
  <2>0. /\ UNCHANGED <<log, upto, count, happened, quiet>>
        /\ stage = "proxy asked" /\ stage' = "both asked"
    BY <1>6 DEF AsksResolver
  <2>1. answered'["proxy"] = answered["proxy"]
    BY <1>6 DEF AsksResolver, TypeOK, Service
  <2>2. ASSUME NEW e \in happened, Knows(e) PROVE Knows(e)'
    <3>1. Listed(e.log)' = Listed(e.log)
      BY <2>0 DEF Listed, Unlisted
    <3> QED
      BY <2>0, <2>1, <2>2, <3>1 DEF Knows, ToldInLog
  <2> QED
    BY <1>b, <1>c, <2>0, <2>2
<1>7. ASSUME NEW s \in Service, Lists(s) PROVE AskedInv'
  <2>0. /\ UNCHANGED <<log, answered, count, happened, quiet>>
        /\ stage # "failed" /\ stage' # "running" /\ upto' = [upto EXCEPT ![s] = Len(log[s])]
    BY <1>7 DEF Lists
  <2>1. Unlisted(s) /\ \A t \in Service : t # s => (Unlisted(t)' <=> Unlisted(t))
    BY <1>7 DEF Lists, Unlisted, Service
  <2>2. upto'[s] = Len(log[s]) /\ \A t \in Service : t # s => upto'[t] = upto[t]
    BY <2>0 DEF TypeOK
  <2>3. \A t \in Service : Listed(t)' = Listed(t)
    BY <2>0, <2>1, <2>2 DEF Listed
  <2>4. ASSUME NEW e \in happened, Knows(e) PROVE Knows(e)'
    <3>1. Listed(e.log)' = Listed(e.log)
      BY <1>0, <2>3
    <3> QED
      BY <2>0, <2>4, <3>1 DEF Knows, ToldInLog
  <2> QED
    BY <1>b, <1>c, <2>0, <2>4
<1>8. ASSUME NEW s \in Service, ReadsArchive(s) PROVE AskedInv'
  <2>0. /\ UNCHANGED <<log, upto, answered, count, happened, quiet>>
        /\ stage' = stage \/ stage' = "failed"
    BY <1>8 DEF ReadsArchive
  <2>1. CASE stage' = stage
    BY <1>a, <2>0, <2>1
  <2>2. CASE stage' = "failed"
    BY <1>c, <2>2
  <2> QED
    BY <2>0, <2>1, <2>2
<1>9. ASSUME NEW s \in Service, ReadsCurrent(s) PROVE AskedInv'
  BY <1>a, <1>9 DEF ReadsCurrent
<1>10. CASE Judges
  <2>0. /\ UNCHANGED <<log, upto, answered, count, happened, quiet>>
        /\ stage = "reading" /\ stage' \in {"passed", "failed"}
    BY <1>10 DEF Judges
  <2>1. ASSUME NEW e \in happened, Knows(e) PROVE Knows(e)'
    <3>1. Listed(e.log)' = Listed(e.log)
      BY <1>0, <2>0 DEF Listed, Unlisted
    <3> QED
      BY <2>0, <2>1, <3>1 DEF Knows, ToldInLog
  <2> QED
    BY <1>b, <1>c, <2>0, <2>1
<1>11. CASE UNCHANGED vars
  BY <1>a, <1>11 DEF vars
<1> QED
  BY <1>1, <1>2, <1>3, <1>4, <1>5, <1>6, <1>7, <1>8, <1>9, <1>10, <1>11
  DEF Next, Build, Services, Report

\* The verdict depends on nothing but the answers and the lines read.
LEMMA SameVerdict ==
  ASSUME UNCHANGED <<answered, count, read, log>>
  PROVE  ShouldFail' = ShouldFail
<1>1. \A s : EventsOf(s)' = EventsOf(s)
  BY DEF EventsOf
<1>2. Events' = Events
  BY <1>1 DEF Events
<1>3. Unexpected(Events)' = Unexpected(Events)
  BY <1>2 DEF Unexpected, Expected, Row, Tabled, Redundant, Blocked, Promoted, Served, Overruled
<1>4. LogLooksPlausible' <=> LogLooksPlausible
  BY DEF LogLooksPlausible, HeadIntact, Restarted, Unparsed
<1> QED
  BY <1>3, <1>4 DEF ShouldFail

LEMMA VerdictStep ==
  ASSUME VerdictInv, [Next]_vars
  PROVE  VerdictInv'
<1> USE DEF serviceVars, logVars, reportVars
<1>1. CASE stage' # "passed"
  BY <1>1 DEF VerdictInv
<1>2. ASSUME stage' = "passed" PROVE VerdictInv'
  <2>1. ASSUME Judges PROVE ~ShouldFail
    BY <1>2, <2>1 DEF Judges
  <2>2. ASSUME ~Judges PROVE UNCHANGED <<answered, count, read, log, stage>>
    <3>1. ASSUME NEW e \in Event PROVE ~Connects(e) /\ ~Ends(e) /\ ~LooksUp(e)
      BY <1>2 DEF Connects, Ends, LooksUp, Live
    <3>2. ASSUME NEW s \in Service PROVE ~Crashes(s) /\ ~Restarts(s) /\ ~LogsLine(s)
      BY <1>2 DEF Crashes, Restarts, LogsLine, Live
    <3>3. ASSUME NEW s \in Service PROVE ~Lists(s) /\ ~ReadsArchive(s) /\ ~ReadsCurrent(s)
      BY <1>2 DEF Lists, ReadsArchive, ReadsCurrent, Reading
    <3>4. ~AsksProxy /\ ~AsksResolver
      BY <1>2 DEF AsksProxy, AsksResolver
    <3>5. UNCHANGED vars
      BY <2>2, <3>1, <3>2, <3>3, <3>4 DEF Next, Build, Services, Report
    <3> QED
      BY <3>5 DEF vars
  <2>3. UNCHANGED <<answered, count, read, log>>
    BY <2>2 DEF Judges
  <2>4. ~ShouldFail
    BY <1>2, <2>1, <2>2 DEF VerdictInv
  <2>5. ShouldFail' = ShouldFail
    BY <2>3, SameVerdict
  <2> QED
    BY <2>4, <2>5 DEF VerdictInv
<1> QED
  BY <1>1, <1>2

-----------------------------------------------------------------------------
(* Failing closed. *)

\* A record that looks whole, none of the three hidden cases being met, is read
\* from its first line to the last one listed, and no line of it is a marker
\* after the first or unreadable.
LEMMA WholeRecord ==
  ASSUME TypeOK, ReadInv, LogLooksPlausible, ~Hidden, NEW s \in Service
  PROVE  /\ 1 .. upto[s] \subseteq read[s]
         /\ \A i \in 1 .. upto[s] :
              log[s][i].kind # "cut" /\ (i > 1 => log[s][i].kind \notin {"start", "bare"})
<1>0. Len(log[s]) \in Nat /\ upto[s] \in Nat /\ gone[s] \in Nat
  BY Lengths DEF TypeOK
<1>1. upto[s] <= Len(log[s]) /\ (gone[s] = 0 \/ gone[s] < upto[s])
  BY DEF ReadInv, Placed
<1>2. read[s] \subseteq gone[s] + 1 .. Len(log[s])
  BY DEF ReadInv, Placed
<1>3. \A i \in gone[s] + 1 .. upto[s] : i \in read[s]
  BY DEF Hidden, Overtaken
<1>4. PICK h \in read[s] : IsLeast(h, read[s]) /\ log[s][h].kind = "start"
  BY DEF LogLooksPlausible, HeadIntact
<1>5. gone[s] = 0
  <2> SUFFICES ASSUME gone[s] # 0 PROVE FALSE
    OBVIOUS
  <2>1. gone[s] + 1 \in read[s]
    BY <1>0, <1>1, <1>3
  <2>2. h = gone[s] + 1
    BY <1>0, <1>2, <1>4, <2>1 DEF IsLeast
  <2>3. gone[s] > 0
    BY <1>0
  <2> QED
    BY <1>4, <2>2, <2>3 DEF Hidden, Vouched
<1>6. 1 .. upto[s] \subseteq read[s]
  BY <1>0, <1>3, <1>5
<1>7. ASSUME NEW i \in 1 .. upto[s]
      PROVE  log[s][i].kind # "cut" /\ (i > 1 => log[s][i].kind \notin {"start", "bare"})
  <2>1. i \in read[s]
    BY <1>6
  <2>2. log[s][i].kind # "cut"
    BY <2>1 DEF LogLooksPlausible, Unparsed
  <2>3. i > 1 => log[s][i].kind # "start"
    <3>1. ASSUME i > 1 PROVE ~IsLeast(i, read[s])
      <4>1. 1 \in read[s]
        BY <1>0, <1>6, <3>1
      <4> QED
        BY <1>0, <3>1, <4>1 DEF IsLeast
    <3> QED
      BY <2>1, <3>1 DEF LogLooksPlausible, Restarted
  <2>4. i > 1 => log[s][i].kind # "bare"
    <3>1. i > 1 => i \in 2 .. Len(log[s])
      BY <1>0, <1>1
    <3> QED
      BY <3>1 DEF Hidden, Unstamped
  <2> QED
    BY <2>2, <2>3, <2>4
<1> QED
  BY <1>6, <1>7

\* Such a record holds exactly what happened.
LEMMA EventsAreThoseThatHappened ==
  ASSUME TypeOK, ReadInv, StreamInv, AskedInv, LogLooksPlausible, ~Hidden, quiet,
         \A s \in Service : answered[s], stage = "passed"
  PROVE  Events = happened
<1>1. ASSUME NEW e \in Events PROVE e \in happened
  <2>1. PICK s \in Service : e \in EventsOf(s)
    BY <1>1 DEF Events
  <2>2. PICK i \in read[s] : log[s][i].kind = "event" /\ e = log[s][i].event
    BY <2>1 DEF EventsOf
  <2>3. i \in 1 .. Len(log[s])
    BY DEF TypeOK
  <2> QED
    BY <2>2, <2>3 DEF StreamInv, Streamed
<1>2. ASSUME NEW e \in happened PROVE e \in Events
  <2>0. e.log \in Service
    BY EventAssumption DEF TypeOK
  <2>1. ToldInLog(e.log, e, upto[e.log])
    <3>1. answered["proxy"] /\ count = {0}
      BY DEF Service, LogLooksPlausible
    <3>2. ~Unlisted(e.log)
      BY DEF Unlisted
    <3> QED
      BY <3>1, <3>2 DEF AskedInv
  <2>2. PICK i \in 1 .. upto[e.log] : Tells(log[e.log][i], i, e)
    BY <2>1 DEF ToldInLog
  <2>3. i \in read[e.log] /\ log[e.log][i] = LineOf(e)
    BY <2>0, <2>2, WholeRecord DEF Tells
  <2>4. e \in EventsOf(e.log)
    BY <2>3 DEF EventsOf, LineOf
  <2> QED
    BY <2>0, <2>4 DEF Events
<1> QED
  BY <1>1, <1>2

\* A step that enforces and passes has a record of all that happened, and every
\* block of it was to be expected.
LEMMA PassedIsRight ==
  ASSUME TypeOK, ReadInv, StreamInv, AskedInv, VerdictInv
  PROVE  FailsClosed
<1> SUFFICES ASSUME stage = "passed", quiet, Enforcing, ~Hidden
             PROVE  \A e \in Tabled(happened) : e.known
  BY DEF FailsClosed
<1>1. /\ \A s \in Service : answered[s]
      /\ LogLooksPlausible /\ Unexpected(Events) = {}
  BY DEF VerdictInv, ShouldFail
<1>2. Events = happened
  BY <1>1, EventsAreThoseThatHappened
<1>3. ASSUME NEW e \in Tabled(happened) PROVE e.known
  <2>1. Row(e) \in {Row(f) : f \in Tabled(Events)}
    BY <1>2
  <2>2. Expected(Row(e), Events)
    BY <1>1, <2>1 DEF Unexpected
  <2> QED
    BY <1>2, <2>2 DEF Expected
<1> QED
  BY <1>3

\* A step that enforces passes only if known-blocked-rules account for every
\* block of the run, whatever was dropped, cut, pruned or lost in a crash.
THEOREM ReportFailsClosed == Spec => []FailsClosed
<1>1. Init => StreamInv /\ AccountInv /\ AskedInv /\ VerdictInv
  <2> SUFFICES ASSUME Init PROVE StreamInv /\ AccountInv /\ AskedInv /\ VerdictInv
    OBVIOUS
  <2>1. ASSUME NEW s \in Service PROVE Streamed(s)
    <3>1. log[s] = <<>> /\ pipe[s] = <<Marker>>
      BY DEF Init
    <3>2. Len(log[s]) = 0 /\ Len(pipe[s]) = 1 /\ pipe[s][1] = Marker
      BY <3>1
    <3>3. Marker.kind # "event"
      BY DEF Marker
    <3> QED
      BY <3>2, <3>3 DEF Streamed
  <2> QED
    BY <2>1 DEF Init, StreamInv, AccountInv, AskedInv, VerdictInv
<1>2. TypeOK /\ ReadInv /\ StreamInv /\ AccountInv /\ AskedInv /\ VerdictInv /\ [Next]_vars
        => (StreamInv /\ AccountInv /\ AskedInv /\ VerdictInv)'
  BY StreamStep, AccountStep, AskedStep, VerdictStep
<1>3. TypeOK /\ ReadInv /\ StreamInv /\ AskedInv /\ VerdictInv => FailsClosed
  BY PassedIsRight
<1> QED
  BY <1>1, <1>2, <1>3, TypeCorrect, PTL DEF Spec

-----------------------------------------------------------------------------
(* An ordinary run is not failed.  Where nothing went wrong on the way to   *)
(* the log, each service's stream is one marker and then events, the        *)
(* answers are those of services that are up, and what the report reads     *)
(* once all has settled is every line of both logs.                         *)

\* A service that never stopped has written its marker first and only events
\* since.
KindAt(k) == IF k = 1 THEN "start" ELSE "event"
InOrder(s) ==
  /\ \A i \in 1 .. Len(log[s]) : log[s][i].kind = KindAt(i)
  /\ \A j \in 1 .. Len(pipe[s]) : pipe[s][j].kind = KindAt(Len(log[s]) + j)

\* No service has stopped, and the report was told so.
Sound ==
  /\ up["proxy"] /\ up["resolver"] /\ dropped = 0
  /\ \A s \in Service : lost[s] = 0
  /\ stage # "running" => answered["proxy"] /\ count = {0}
  /\ stage \notin {"running", "proxy asked"} => answered["resolver"]

\* A line of a log is read, or in a file still to be read.
Covered(s) ==
  \A i \in 1 .. Len(log[s]) :
    \/ i \in read[s]
    \/ \E n \in listing[s] : i \in ArchiveLines(s, n)
    \/ s \notin finished /\ i \in CurrentLines(s)

CalmInv == ~trouble => Sound /\ \A s \in Service : InOrder(s)

StillInv ==
  quiet /\ ~trouble =>
    /\ stage # "running" /\ Settled
    /\ \A s \in Service : Unlisted(s) \/ stage = "failed" \/ Covered(s)

-----------------------------------------------------------------------------
(* Nothing going wrong. *)

\* What has gone wrong on the way to the log stays so.
LEMMA TroubleStays ==
  ASSUME TypeOK, [Next]_vars, trouble
  PROVE  trouble'
BY DEF TypeOK, Next, Build, Services, Report, Connects, Ends, LooksUp, Crashes, Restarts, LogsLine,
       AsksProxy, AsksResolver, Lists, ReadsArchive, ReadsCurrent, Judges, vars, serviceVars,
       logVars, reportVars

\* An untroubled service goes on as before, and says so when it is asked.
LEMMA SoundStep ==
  ASSUME TypeOK, Sound, [Next]_vars, ~trouble'
  PROVE  Sound'
<1> USE DEF serviceVars, logVars, reportVars
<1>a. ASSUME UNCHANGED <<up, dropped, lost, stage, answered, count>> PROVE Sound'
  BY <1>a DEF Sound
<1>b. ASSUME UNCHANGED <<up, dropped, lost, answered, count>>, stage # "running",
             stage # "proxy asked"
      PROVE  Sound'
  BY <1>b DEF Sound
<1>1. ASSUME NEW e \in Event, Connects(e) \/ Ends(e) \/ LooksUp(e) PROVE Sound'
  BY <1>a, <1>1 DEF Connects, Ends, LooksUp
<1>2. ASSUME NEW s \in Service, Crashes(s) \/ Restarts(s) PROVE Sound'
  BY <1>2 DEF Crashes, Restarts, Sound, Service
<1>3. ASSUME NEW s \in Service, LogsLine(s) PROVE Sound'
  BY <1>a, <1>3 DEF LogsLine
<1>4. CASE AsksProxy
  <2>1. PICK a \in {up["proxy"], FALSE}, c \in {{dropped}, {}} :
          /\ answered' = [answered EXCEPT !["proxy"] = a]
          /\ count' = IF a THEN c ELSE {}
          /\ trouble' = (trouble \/ a # up["proxy"] \/ c = {})
    BY <1>4 DEF AsksProxy
  <2>2. a = TRUE /\ c = {0}
    BY <2>1 DEF Sound
  <2> QED
    BY <1>4, <2>1, <2>2 DEF AsksProxy, Sound, TypeOK, Service
<1>5. CASE AsksResolver
  <2>1. PICK a \in {up["resolver"], FALSE} :
          /\ answered' = [answered EXCEPT !["resolver"] = a]
          /\ trouble' = (trouble \/ a # up["resolver"])
    BY <1>5 DEF AsksResolver
  <2>2. a = TRUE
    BY <2>1 DEF Sound
  <2> QED
    BY <1>5, <2>1, <2>2 DEF AsksResolver, Sound, TypeOK, Service
<1>6. ASSUME NEW s \in Service, Lists(s) \/ ReadsArchive(s) \/ ReadsCurrent(s) PROVE Sound'
  BY <1>b, <1>6 DEF Lists, ReadsArchive, ReadsCurrent, Reading
<1>7. CASE Judges
  BY <1>b, <1>7 DEF Judges
<1>8. CASE UNCHANGED vars
  BY <1>a, <1>8 DEF vars
<1> QED
  BY <1>1, <1>2, <1>3, <1>4, <1>5, <1>6, <1>7, <1>8 DEF Next, Build, Services, Report

\* A line of an event, put behind what is there, keeps a stream in order.
LEMMA OrderPut ==
  ASSUME TypeOK, StreamInv, NEW s \in Service, NEW line \in Line, Put(s, line), log' = log,
         line.kind = "event", NEW t \in Service, InOrder(t)
  PROVE  InOrder(t)'
<1>0. Len(log[s]) \in Nat /\ Len(pipe[s]) \in Nat /\ Len(log[s]) + Len(pipe[s]) > 0
  BY Lengths DEF StreamInv, Streamed
<1>1. CASE t # s
  <2>1. pipe'[t] = pipe[t]
    BY <1>1, PutAppends
  <2> QED
    BY <2>1 DEF InOrder
<1>2. CASE t = s
  <2>1. ASSUME NEW j \in 1 .. Len(pipe'[s]) PROVE pipe'[s][j].kind = KindAt(Len(log'[s]) + j)
    <3>1. CASE j \in 1 .. Len(pipe[s])
      <4>1. pipe'[s][j] = pipe[s][j]
        BY <3>1, PutAppends
      <4> QED
        BY <1>2, <3>1, <4>1 DEF InOrder
    <3>2. CASE j \notin 1 .. Len(pipe[s])
      <4>1. j = Len(pipe[s]) + 1
        BY <1>0, <2>1, <3>2, PutAppends
      <4>2. pipe'[s][j].kind = "event"
        BY <4>1, PutAppends
      <4>3. Len(log[s]) + j # 1
        <5>1. Len(log[s]) + (Len(pipe[s]) + 1) > 1
          BY <1>0, Sums
        <5>2. Len(log[s]) + j > 1
          BY <4>1, <5>1
        <5> QED
          BY <1>0, <5>2
      <4> QED
        BY <4>2, <4>3 DEF KindAt
    <3> QED
      BY <3>1, <3>2
  <2> QED
    BY <1>2, <2>1 DEF InOrder
<1> QED
  BY <1>1, <1>2

\* So does moving one from the pipe to the log.
LEMMA OrderMoves ==
  ASSUME TypeOK, NEW s \in Service, LogsLine(s), NEW t \in Service, InOrder(t)
  PROVE  InOrder(t)'
<1>0. Len(log[s]) \in Nat /\ Len(pipe[s]) \in Nat
  BY Lengths
<1>1. CASE t # s
  <2>1. pipe'[t] = pipe[t] /\ log'[t] = log[t]
    BY <1>1, LineMoves
  <2> QED
    BY <2>1 DEF InOrder
<1>2. CASE t = s
  <2>0. /\ Len(log'[s]) = Len(log[s]) + 1 /\ Len(pipe[s]) > 0
        /\ Len(pipe'[s]) = Len(pipe[s]) - 1
    BY LineMoves
  <2>1. ASSUME NEW i \in 1 .. Len(log'[s]) PROVE log'[s][i].kind = KindAt(i)
    <3>1. CASE i \in 1 .. Len(log[s])
      <4>1. log'[s][i] = log[s][i]
        BY <3>1, LineMoves
      <4> QED
        BY <1>2, <3>1, <4>1 DEF InOrder
    <3>2. CASE i \notin 1 .. Len(log[s])
      <4>1. i = Len(log[s]) + 1
        BY <1>0, <2>0, <2>1, <3>2
      <4>2. log'[s][i] = pipe[s][1] /\ 1 \in 1 .. Len(pipe[s])
        BY <1>0, <2>0, <4>1, LineMoves
      <4> QED
        BY <1>2, <4>1, <4>2 DEF InOrder
    <3> QED
      BY <3>1, <3>2
  <2>2. ASSUME NEW j \in 1 .. Len(pipe'[s]) PROVE pipe'[s][j].kind = KindAt(Len(log'[s]) + j)
    <3>1. pipe'[s][j] = pipe[s][j + 1]
      BY <2>2, LineMoves
    <3>2. j + 1 \in 1 .. Len(pipe[s]) /\ Len(log'[s]) + j = Len(log[s]) + (j + 1)
      <4>1. \A a, b \in Nat : \A k \in 1 .. b - 1 : k + 1 \in 1 .. b /\ (a + 1) + k = a + (k + 1)
        OBVIOUS
      <4>2. j \in 1 .. Len(pipe[s]) - 1
        BY <2>0, <2>2
      <4> QED
        BY <1>0, <2>0, <4>1, <4>2
    <3>3. pipe[s][j + 1].kind = KindAt(Len(log[s]) + (j + 1))
      BY <1>2, <3>2 DEF InOrder
    <3> QED
      BY <3>1, <3>2, <3>3
  <2> QED
    BY <1>2, <2>1, <2>2 DEF InOrder
<1> QED
  BY <1>1, <1>2

\* No step but a restart, a cut line or a stop disturbs the order.
LEMMA CalmStep ==
  ASSUME TypeOK, StreamInv, CalmInv, [Next]_vars
  PROVE  CalmInv'
<1> USE DEF serviceVars, logVars, reportVars
<1> SUFFICES ASSUME ~trouble' PROVE Sound' /\ \A s \in Service : InOrder(s)'
  BY DEF CalmInv
<1>0. Sound /\ \A s \in Service : InOrder(s)
  BY TroubleStays DEF CalmInv
<1>s. Sound'
  BY <1>0, SoundStep
<1>a. ASSUME UNCHANGED <<log, pipe>> PROVE \A s \in Service : InOrder(s)'
  BY <1>0, <1>a DEF InOrder
<1>b. \A e \in Event : LineOf(e) \in Line /\ LineOf(e).kind = "event"
  BY LineTypes DEF LineOf
<1>1. ASSUME NEW e \in Event, Connects(e) PROVE \A s \in Service : InOrder(s)'
  BY <1>a, <1>1 DEF Connects
<1>2. ASSUME NEW e \in Event, Ends(e) PROVE \A s \in Service : InOrder(s)'
  <2>1. "proxy" \in Service /\ Put("proxy", LineOf(e)) /\ log' = log
    BY <1>2 DEF Ends, Service
  <2> QED
    BY <1>0, <1>b, <2>1, OrderPut
<1>3. ASSUME NEW e \in Event, LooksUp(e) PROVE \A s \in Service : InOrder(s)'
  <2>1. "resolver" \in Service /\ Put("resolver", LineOf(e)) /\ log' = log
    BY <1>3 DEF LooksUp, Service
  <2> QED
    BY <1>0, <1>b, <2>1, OrderPut
<1>4. ASSUME NEW s \in Service, Crashes(s) \/ Restarts(s) PROVE \A t \in Service : InOrder(t)'
  BY <1>0, <1>4 DEF Crashes, Restarts, Sound, Service
<1>5. ASSUME NEW s \in Service, LogsLine(s) PROVE \A t \in Service : InOrder(t)'
  BY <1>0, <1>5, OrderMoves
<1>6. ASSUME AsksProxy \/ AsksResolver \/ Judges PROVE \A s \in Service : InOrder(s)'
  BY <1>a, <1>6 DEF AsksProxy, AsksResolver, Judges
<1>7. ASSUME NEW s \in Service, Lists(s) \/ ReadsArchive(s) \/ ReadsCurrent(s)
      PROVE  \A t \in Service : InOrder(t)'
  BY <1>a, <1>7 DEF Lists, ReadsArchive, ReadsCurrent
<1>8. ASSUME UNCHANGED vars PROVE \A s \in Service : InOrder(s)'
  BY <1>a, <1>8 DEF vars
<1> QED
  BY <1>s, <1>1, <1>2, <1>3, <1>4, <1>5, <1>6, <1>7, <1>8 DEF Next, Build, Services, Report

-----------------------------------------------------------------------------
(* Once all has settled. *)

\* A line rotated away is in the archive of the least end behind it.
LEMMA InSomeFile ==
  ASSUME TypeOK, NEW s \in Service, NEW i \in 1 .. Len(log[s])
  PROVE  i \in CurrentLines(s) \/ \E n \in ends[s] : i \in ArchiveLines(s, n)
<1> DEFINE T == {m \in ends[s] : ~ i > m}
<1>0. ends[s] \subseteq Nat /\ i \in Nat /\ i >= 1
  <2>1. ends[s] \subseteq Nat /\ Len(log[s]) \in Nat
    BY Lengths DEF TypeOK
  <2> QED
    BY <2>1
<1>1. CASE T = {}
  BY <1>1 DEF CurrentLines
<1>2. CASE T # {}
  <2>1. T \subseteq Nat
    BY <1>0
  <2>2. PICK n \in T : \A m \in T : ~ (<<m, n>> \in OpToRel(<, Nat))
    <3> HIDE DEF T
    <3> QED
      BY <1>2, <2>1, NatLessThanWellFounded, WFMin
  <2>3. \A m \in T : ~ (m < n)
    BY <2>1, <2>2 DEF OpToRel
  <2>4. \A m \in ends[s] : m < n => i > m
    BY <2>3
  <2>5. n \in ends[s] /\ i \in 1 .. n
    BY <1>0
  <2> QED
    BY <2>4, <2>5 DEF ArchiveLines
<1> QED
  BY <1>1, <1>2

\* Nothing is written any more, and the report comes to read all there is.
LEMMA StillStep ==
  ASSUME TypeOK, ReadInv, DueInv, CalmInv, StillInv, [Next]_vars
  PROVE  StillInv'
<1> USE DEF serviceVars, logVars, reportVars
<1> SUFFICES ASSUME quiet', ~trouble'
             PROVE  /\ stage' # "running" /\ Settled'
                    /\ \A s \in Service : Unlisted(s)' \/ stage' = "failed" \/ Covered(s)'
  BY DEF StillInv
<1>0. ~trouble /\ Sound
  BY TroubleStays DEF CalmInv
<1>1. CASE AsksProxy
  <2>1. Settled' /\ stage' = "proxy asked"
    BY <1>1 DEF AsksProxy, Settled
  <2> QED
    BY <2>1 DEF Unlisted, Service
<1>q. ASSUME ~AsksProxy PROVE quiet
  BY <1>q DEF Next, Build, Services, Report, Connects, Ends, LooksUp, Crashes, Restarts, LogsLine,
       AsksResolver, Lists, ReadsArchive, ReadsCurrent, Judges, vars
<1>2. CASE quiet
  <2>0. /\ stage # "running" /\ Settled
        /\ \A s \in Service : Unlisted(s) \/ stage = "failed" \/ Covered(s)
    BY <1>0, <1>2 DEF StillInv
  <2>1. ASSUME NEW e \in Event PROVE ~Connects(e) /\ ~Ends(e) /\ ~LooksUp(e)
    BY <1>2, <2>0 DEF Connects, Ends, LooksUp, Settled
  <2>2. ASSUME NEW s \in Service PROVE ~Crashes(s) /\ ~Restarts(s) /\ ~LogsLine(s)
    BY <1>0, <2>0 DEF Crashes, Restarts, LogsLine, Settled, Sound, Service
  <2>3. ~AsksProxy
    BY <2>0 DEF AsksProxy
  <2>a. ASSUME NEW s \in Service, Covered(s),
               log'[s] = log[s], ends'[s] = ends[s], listing'[s] = listing[s],
               read'[s] = read[s], s \notin finished' \/ finished' = finished,
               s \notin finished' => s \notin finished
        PROVE  Covered(s)'
    BY <2>a DEF Covered, ArchiveLines, CurrentLines
  <2>b. ASSUME UNCHANGED <<log, ends, listing, read, finished>>, stage' # "running",
               \A s \in Service : (Unlisted(s) => Unlisted(s)'),
               stage = "failed" => stage' = "failed"
        PROVE  \A s \in Service : Unlisted(s)' \/ stage' = "failed" \/ Covered(s)'
    BY <2>0, <2>b DEF Covered, ArchiveLines, CurrentLines
  <2>4. CASE AsksResolver
    <3>1. Settled' /\ stage' # "running"
      BY <2>0, <2>4 DEF AsksResolver, Settled
    <3>2. \A s \in Service : Unlisted(s)'
      BY <2>4 DEF AsksResolver, Unlisted
    <3> QED
      BY <3>1, <3>2
  <2>5. CASE Judges
    <3>1. Settled' /\ stage' # "running"
      BY <2>0, <2>5 DEF Judges, Settled
    <3>2. \A s \in Service : ~Unlisted(s)
      BY <2>5 DEF Judges, Unlisted
    <3>3. UNCHANGED <<log, ends, listing, read, finished>> /\ stage # "failed"
      BY <2>5 DEF Judges
    <3> QED
      BY <2>b, <3>1, <3>2, <3>3
  <2>6. ASSUME NEW s \in Service, Lists(s)
        PROVE  /\ stage' # "running" /\ Settled'
               /\ \A t \in Service : Unlisted(t)' \/ stage' = "failed" \/ Covered(t)'
    <3>1. Settled' /\ stage' # "running" /\ stage # "failed"
      BY <2>0, <2>6 DEF Lists, Settled
    <3>2. UNCHANGED <<log, ends, read, finished>>
      BY <2>6 DEF Lists
    <3>3. ASSUME NEW t \in Service, t # s PROVE Unlisted(t)' \/ Covered(t)'
      <4>1. listing'[t] = listing[t]
        BY <2>6, <3>3 DEF Lists, TypeOK
      <4>2. Unlisted(t) => Unlisted(t)'
        BY <2>6, <3>3 DEF Lists, Unlisted, Service
      <4> QED
        BY <2>0, <2>a, <3>1, <3>2, <4>1, <4>2
    <3>4. Covered(s)'
      <4>1. listing'[s] = Archives(s)
        BY <2>6 DEF Lists, TypeOK
      <4>2. Archives(s) = ends[s]
        <5>1. \A n \in ends[s] : 0 < n
          BY DEF ReadInv, Placed
        <5> QED
          BY <1>0, <5>1 DEF Archives, Sound
      <4>3. s \notin finished
        <5>1. Unlisted(s)
          BY <2>6 DEF Lists, Unlisted
        <5> QED
          BY <5>1 DEF DueInv
      <4> QED
        BY <3>2, <4>1, <4>2, <4>3, InSomeFile DEF Covered, ArchiveLines, CurrentLines
    <3> QED
      BY <3>1, <3>3, <3>4
  <2>7. ASSUME NEW s \in Service, ReadsArchive(s)
        PROVE  /\ stage' # "running" /\ Settled'
               /\ \A t \in Service : Unlisted(t)' \/ stage' = "failed" \/ Covered(t)'
    <3>1. Settled' /\ stage' # "running"
      BY <2>0, <2>7 DEF ReadsArchive, Settled
    <3>2. PICK n \in listing[s] :
            IF n > lost[s]
            THEN /\ listing' = [listing EXCEPT ![s] = @ \ {n}]
                 /\ read' = [read EXCEPT ![s] = @ \cup ArchiveLines(s, n)]
                 /\ UNCHANGED stage
            ELSE stage' = "failed" /\ UNCHANGED <<listing, read>>
      BY <2>7 DEF ReadsArchive
    <3>3. CASE n > lost[s]
      <4>0. UNCHANGED <<log, ends, finished, stage>>
        BY <2>7, <3>2, <3>3 DEF ReadsArchive
      <4>1. \A t \in Service : Unlisted(t)' <=> Unlisted(t)
        BY <4>0 DEF Unlisted
      <4>2. ASSUME NEW t \in Service, Covered(t) PROVE Covered(t)'
        <5>1. CASE t # s
          <6>1. listing'[t] = listing[t] /\ read'[t] = read[t]
            BY <3>2, <3>3, <5>1 DEF TypeOK
          <6> QED
            BY <2>a, <4>0, <4>2, <6>1
        <5>2. CASE t = s
          <6>1. listing'[s] = listing[s] \ {n} /\ read'[s] = read[s] \cup ArchiveLines(s, n)
            BY <3>2, <3>3 DEF TypeOK
          <6> QED
            BY <4>0, <4>2, <5>2, <6>1 DEF Covered, ArchiveLines, CurrentLines
        <5> QED
          BY <5>1, <5>2
      <4> QED
        BY <2>0, <3>1, <4>0, <4>1, <4>2
    <3>4. CASE ~ n > lost[s]
      BY <3>1, <3>2, <3>4
    <3> QED
      BY <3>3, <3>4
  <2>8. ASSUME NEW s \in Service, ReadsCurrent(s)
        PROVE  /\ stage' # "running" /\ Settled'
               /\ \A t \in Service : Unlisted(t)' \/ stage' = "failed" \/ Covered(t)'
    <3>1. Settled' /\ stage' # "running"
      BY <2>0, <2>8 DEF ReadsCurrent, Settled
    <3>2. UNCHANGED <<log, ends, listing, stage>> /\ finished' = finished \cup {s}
      BY <2>8 DEF ReadsCurrent
    <3>3. \A t \in Service : Unlisted(t)' <=> Unlisted(t)
      BY <3>2 DEF Unlisted
    <3>4. ASSUME NEW t \in Service, Covered(t) PROVE Covered(t)'
      <4>1. CASE t # s
        <5>1. read'[t] = read[t] /\ (t \in finished' <=> t \in finished)
          BY <2>8, <4>1 DEF ReadsCurrent, TypeOK
        <5> QED
          BY <3>2, <3>4, <5>1 DEF Covered, ArchiveLines, CurrentLines
      <4>2. CASE t = s
        <5>1. read'[s] = read[s] \cup CurrentLines(s)
          BY <2>8 DEF ReadsCurrent, TypeOK
        <5> QED
          BY <3>2, <3>4, <4>2, <5>1 DEF Covered, ArchiveLines, CurrentLines
      <4> QED
        BY <4>1, <4>2
    <3> QED
      BY <2>0, <3>1, <3>2, <3>3, <3>4
  <2>9. CASE UNCHANGED vars
    <3>1. UNCHANGED <<log, ends, listing, read, finished, stage, open, pipe>>
      BY <2>9 DEF vars
    <3>2. \A s \in Service : Unlisted(s)' <=> Unlisted(s)
      BY <3>1 DEF Unlisted
    <3> QED
      BY <2>0, <2>b, <3>1, <3>2 DEF Settled
  <2> QED
    BY <2>1, <2>2, <2>3, <2>4, <2>5, <2>6, <2>7, <2>8, <2>9 DEF Next, Build, Services, Report
<1> QED
  BY <1>1, <1>2, <1>q

-----------------------------------------------------------------------------
(* The verdict. *)

\* Read to its end, an untroubled record looks whole and is.
LEMMA UntroubledIsWhole ==
  ASSUME TypeOK, DueInv, StreamInv, AccountInv, CalmInv, StillInv,
         quiet, ~trouble, stage = "reading", finished = Service
  PROVE  (\A s \in Service : answered[s]) /\ LogLooksPlausible /\ Events = happened
<1>0. Sound /\ Settled /\ \A s \in Service : InOrder(s)
  BY DEF CalmInv, StillInv
<1>1. (\A s \in Service : answered[s]) /\ count = {0}
  BY <1>0 DEF Sound, Service
<1>2. ASSUME NEW s \in Service
      PROVE  Len(log[s]) \in Nat /\ Len(log[s]) > 0 /\ read[s] = 1 .. Len(log[s])
  <2>1. Len(log[s]) \in Nat /\ Len(log[s]) > 0
    <3>1. Len(pipe[s]) = 0
      BY <1>0 DEF Settled
    <3>2. Len(log[s]) \in Nat /\ Len(log[s]) + Len(pipe[s]) > 0
      BY Lengths DEF StreamInv, Streamed
    <3> QED
      BY <3>1, <3>2
  <2>2. ~Unlisted(s) /\ listing[s] = {}
    BY DEF DueInv
  <2>3. Covered(s)
    BY <2>2 DEF StillInv
  <2>4. read[s] \subseteq 1 .. Len(log[s])
    BY DEF TypeOK
  <2> QED
    BY <2>1, <2>2, <2>3, <2>4 DEF Covered
<1>3. ASSUME NEW s \in Service, NEW i \in read[s] PROVE log[s][i].kind = KindAt(i)
  BY <1>0, <1>2, <1>3 DEF InOrder
<1>4. ASSUME NEW s \in Service
      PROVE  HeadIntact(s) /\ Restarted(s) = {} /\ Unparsed(s) = {}
  <2>1. 1 \in read[s] /\ IsLeast(1, read[s])
    BY <1>2 DEF IsLeast
  <2>2. HeadIntact(s)
    BY <1>3, <2>1 DEF HeadIntact, KindAt
  <2>3. Restarted(s) = {}
    BY <1>3, <2>1 DEF Restarted, KindAt
  <2>4. Unparsed(s) = {}
    BY <1>3 DEF Unparsed, KindAt
  <2> QED
    BY <2>2, <2>3, <2>4
<1>5. LogLooksPlausible
  BY <1>1, <1>4 DEF LogLooksPlausible, Service
<1>6. ASSUME NEW e \in Events PROVE e \in happened
  <2>1. PICK s \in Service : e \in EventsOf(s)
    BY <1>6 DEF Events
  <2>2. PICK i \in read[s] : log[s][i].kind = "event" /\ e = log[s][i].event
    BY <2>1 DEF EventsOf
  <2> QED
    BY <1>2, <2>2 DEF StreamInv, Streamed
<1>7. ASSUME NEW e \in happened PROVE e \in Events
  <2>0. e.log \in Service
    BY EventAssumption DEF TypeOK
  <2>1. ~Unheard(e)
    BY <1>0 DEF Unheard, Settled, Sound
  <2>2. ~ToldInPipe(e.log, e)
    <3>1. Len(pipe[e.log]) = 0
      BY <1>0, <2>0 DEF Settled
    <3> QED
      BY <3>1 DEF ToldInPipe
  <2>3. PICK i \in 1 .. Len(log[e.log]) : Tells(log[e.log][i], i, e)
    BY <2>1, <2>2 DEF AccountInv, Told, ToldInLog
  <2>4. i \in read[e.log] /\ (i > 1 => i # 1)
    <3>1. Len(log[e.log]) \in Nat /\ read[e.log] = 1 .. Len(log[e.log])
      BY <1>2, <2>0
    <3> QED
      BY <3>1
  <2>5. log[e.log][i] = LineOf(e)
    BY <1>3, <2>0, <2>3, <2>4 DEF Tells, KindAt
  <2>6. e \in EventsOf(e.log)
    BY <2>4, <2>5 DEF EventsOf, LineOf
  <2> QED
    BY <2>0, <2>6 DEF Events
<1> QED
  BY <1>1, <1>5, <1>6, <1>7

\* A step that has failed stays as it is.
LEMMA FailedStays ==
  ASSUME [Next]_vars, stage = "failed"
  PROVE  UNCHANGED vars
<1>1. ASSUME NEW e \in Event PROVE ~Connects(e) /\ ~Ends(e) /\ ~LooksUp(e)
  BY DEF Connects, Ends, LooksUp, Live
<1>2. ASSUME NEW s \in Service PROVE ~Crashes(s) /\ ~Restarts(s) /\ ~LogsLine(s)
  BY DEF Crashes, Restarts, LogsLine, Live
<1>3. ASSUME NEW s \in Service PROVE ~Lists(s) /\ ~ReadsArchive(s) /\ ~ReadsCurrent(s)
  BY DEF Lists, ReadsArchive, ReadsCurrent, Reading
<1>4. ~AsksProxy /\ ~AsksResolver /\ ~Judges
  BY DEF AsksProxy, AsksResolver, Judges
<1> QED
  BY <1>1, <1>2, <1>3, <1>4 DEF Next, Build, Services, Report

\* The step comes to fail by its verdict or over an archive that is gone, and
\* an untroubled run loses no archive.
LEMMA AlarmStep ==
  ASSUME TypeOK, ReadInv, DueInv, StreamInv, AccountInv, CalmInv, StillInv, NoFalseAlarm,
         [Next]_vars
  PROVE  NoFalseAlarm'
<1> USE DEF serviceVars, logVars, reportVars
<1> SUFFICES ASSUME stage' = "failed", quiet', ~trouble'
             PROVE  Enforcing /\ \E e \in Tabled(happened') : ~e.known
  BY DEF NoFalseAlarm, Enforcing, Tabled, Redundant, Blocked, Promoted, Served, Overruled
<1>0. ~trouble /\ Sound
  BY TroubleStays DEF CalmInv
<1>1. CASE stage = "failed"
  <2>1. UNCHANGED <<stage, quiet, trouble, happened>>
    BY <1>1, FailedStays DEF vars
  <2> QED
    BY <1>0, <1>1, <2>1 DEF NoFalseAlarm
<1>2. CASE stage # "failed"
  <2>1. ASSUME NEW s \in Service PROVE ~ReadsArchive(s)
    <3> SUFFICES ASSUME ReadsArchive(s) PROVE FALSE
      OBVIOUS
    <3>1. PICK n \in listing[s] : ~ n > lost[s]
      BY <1>2 DEF ReadsArchive
    <3>2. n \in ends[s] /\ 0 < n
      BY DEF ReadInv, Placed
    <3> QED
      BY <1>0, <3>1, <3>2 DEF Sound
  <2>2. Judges
    <3>1. ASSUME NEW e \in Event PROVE ~Connects(e) /\ ~Ends(e) /\ ~LooksUp(e)
      BY <1>2 DEF Connects, Ends, LooksUp
    <3>2. ASSUME NEW s \in Service PROVE ~Crashes(s) /\ ~Restarts(s) /\ ~LogsLine(s)
      BY <1>2 DEF Crashes, Restarts, LogsLine
    <3>3. ASSUME NEW s \in Service PROVE ~Lists(s) /\ ~ReadsCurrent(s)
      BY <1>2 DEF Lists, ReadsCurrent
    <3>4. ~AsksProxy /\ ~AsksResolver /\ ~UNCHANGED vars
      BY <1>2 DEF AsksProxy, AsksResolver, vars
    <3> QED
      BY <2>1, <3>1, <3>2, <3>3, <3>4 DEF Next, Build, Services, Report
  <2>3. /\ stage = "reading" /\ finished = Service /\ ShouldFail
        /\ quiet /\ happened' = happened
    BY <2>2 DEF Judges
  <2>4. (\A s \in Service : answered[s]) /\ LogLooksPlausible /\ Events = happened
    BY <1>0, <2>3, UntroubledIsWhole
  <2>5. Enforcing /\ Unexpected(happened) # {}
    BY <2>3, <2>4 DEF ShouldFail
  <2>6. PICK r : ~Expected(r, happened)
    BY <2>5 DEF Unexpected
  <2> QED
    BY <2>3, <2>5, <2>6 DEF Expected
<1> QED
  BY <1>1, <1>2

\* A step fails only over a block it was not told to expect, or because
\* something really went wrong with the record on its way from the services to
\* the report.
THEOREM OrdinaryRunsPass == Spec => []NoFalseAlarm
<1>1. Init => DueInv /\ StreamInv /\ AccountInv /\ CalmInv /\ StillInv /\ NoFalseAlarm
  <2> SUFFICES ASSUME Init
               PROVE  DueInv /\ StreamInv /\ AccountInv /\ CalmInv /\ StillInv /\ NoFalseAlarm
    OBVIOUS
  <2>1. ASSUME NEW s \in Service PROVE Streamed(s) /\ InOrder(s)
    <3>1. log[s] = <<>> /\ pipe[s] = <<Marker>>
      BY DEF Init
    <3>2. Len(log[s]) = 0 /\ Len(pipe[s]) = 1 /\ pipe[s][1] = Marker
      BY <3>1
    <3>3. Marker.kind = "start"
      BY DEF Marker
    <3> QED
      BY <3>2, <3>3 DEF Streamed, InOrder, KindAt
  <2>2. Sound
    BY DEF Init, Sound, Service
  <2> QED
    BY <2>1, <2>2
    DEF Init, DueInv, ArchiveLines, StreamInv, AccountInv, CalmInv, StillInv, NoFalseAlarm
<1>2. TypeOK /\ ReadInv /\ DueInv /\ StreamInv /\ AccountInv /\ CalmInv /\ StillInv
      /\ NoFalseAlarm /\ [Next]_vars
        => (DueInv /\ StreamInv /\ AccountInv /\ CalmInv /\ StillInv /\ NoFalseAlarm)'
  BY DueStep, StreamStep, AccountStep, CalmStep, StillStep, AlarmStep
<1> QED
  BY <1>1, <1>2, TypeCorrect, PTL DEF Spec
=============================================================================
