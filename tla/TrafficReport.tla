--------------------------- MODULE TrafficReport ---------------------------
(***************************************************************************)
(* How what the proxy and the resolver decided during a build becomes the  *)
(* verdict of the report step.                                             *)
(*                                                                         *)
(*   - HAProxy writes a line when a connection ends, through a pipe it     *)
(*     never waits for: a line that does not fit is dropped and counted.   *)
(*     CoreDNS writes a line per lookup and waits.  Each writes a startup  *)
(*     marker first, whenever s6 starts it.                                *)
(*   - s6-log moves lines from the pipe to `current`, rotates `current`    *)
(*     into an archive and keeps the last KeepSegments archives.           *)
(*   - The report asks both services how they are, lists each log          *)
(*     directory, then reads the files listed one after the other, the two *)
(*     logs at the same time, while s6-log goes on.                        *)
(*   - From the lines it read it judges whether the logs are a whole       *)
(*     record, and whether the step fails.                                 *)
(*                                                                         *)
(* A line is a marker, an event or unreadable; its text and time are left  *)
(* out.  An archive is named by the number of its last line.               *)
(***************************************************************************)
EXTENDS Naturals, Sequences, FiniteSets

CONSTANTS
  Event,          \* what a build can do, as one log line each
  Host, Unknown,  \* names (or addresses) of a row; the one naming no host
  Dest, ProxyDest,\* where a connection was sent; the proxy's own address
  AllowedHost,    \* the names the resolver allows
  NoEvent,
  Audit,          \* audit mode, in which nothing is enforced
  FailOnBlocked,  \* fail-on-blocked
  PipeLines,      \* the lines a pipe holds
  SegmentLines,   \* bound: the lines of one segment
  KeepSegments,   \* the archives s6-log keeps
  MaxCrashes,     \* bound: crashes of the two services
  Faults          \* the failures considered

Service == {"proxy", "resolver"}
Act == {"pass", "block", "failed", "incomplete", "discovery"}
Proto == {"http", "https", "tcp", "dns"}
FaultKind == {"crash", "bare", "cut", "hang", "metrics"}

ASSUME EventAssumption ==
  /\ NoEvent \notin Event /\ AllowedHost \subseteq Host
  /\ Event \subseteq
       [log : Service, act : Act, proto : Proto, host : Host \cup {Unknown},
        dest : Dest \cup {ProxyDest}, byClient : BOOLEAN, known : BOOLEAN]

ASSUME LimitAssumption ==
  /\ Audit \in BOOLEAN /\ FailOnBlocked \in BOOLEAN
  /\ PipeLines \in Nat \ {0} /\ SegmentLines \in Nat \ {0} /\ KeepSegments \in Nat \ {0}
  /\ MaxCrashes \in Nat /\ Faults \subseteq FaultKind

VARIABLES
  up,         \* [Service -> BOOLEAN], is the process running?
  crashes,    \* how often one of them has stopped
  open,       \* connections decided and not yet ended: no line is written
  pipe,       \* [Service -> Seq(Line)], on the way to s6-log
  dropped,    \* the proxy's counter since it last started
  log,        \* [Service -> Seq(Line)], everything s6-log has written
  ends,       \* [Service -> SUBSET Nat], the last lines of its archives
  lost,       \* [Service -> Nat], the lines pruned with their archives
  quiet,      \* had all traffic ended, and its lines settled, when the
              \* report began?
  stage,      \* how far the report is
  answered,   \* [Service -> BOOLEAN], did it answer the report?
  count,      \* {n} where the proxy told of n dropped lines, else {}
  listing,    \* [Service -> SUBSET Nat], the archives still to be read
  finished,   \* the services whose log has been read to its end
  read,       \* [Service -> SUBSET Nat], the lines read
  happened,   \* history: everything the build did
  trouble,    \* history: has anything gone wrong on the way to the log?
  due,        \* history: the lines in archives when the directory was listed
  gone, upto  \* history: the last line pruned and the last line written then

serviceVars == <<up, crashes, open, dropped>>
logVars == <<pipe, log, ends, lost>>
reportVars == <<stage, answered, count, listing, finished, read, due, gone, upto>>
vars == <<serviceVars, logVars, reportVars, quiet, happened, trouble>>

Line == [kind : {"start", "bare", "event", "cut"}, event : Event \cup {NoEvent}]
Marker == [kind |-> "start", event |-> NoEvent]
LineOf(e) == [kind |-> "event", event |-> e]
Unreadable == [kind |-> "cut", event |-> NoEvent]

Archives(s) == {n \in ends[s] : n > lost[s]}
ArchiveLines(s, n) == {i \in 1 .. n : \A m \in ends[s] : m < n => i > m}

\* Mutation: the line still in the pipe is taken for one of the file.
CurrentLinesOneMore(s) == {i \in 1 .. Len(log[s]) + 1 : \A m \in ends[s] : i > m}

CurrentLines(s) == {i \in 1 .. Len(log[s]) : \A m \in ends[s] : i > m}
IsLeast(n, S) == n \in S /\ \A m \in S : n <= m

-----------------------------------------------------------------------------
(* What the report makes of a set of events. *)

\* blockUnpassedAddresses and blockUnallowedNames: a connection that ended
\* before its request is a block where it was sent straight to an address,
\* unless it is a client's close beside a request that address served, or
\* where its SNI names a host the rules do not allow.
Served(E) ==
  {e.dest : e \in {f \in E : f.proto \in {"http", "https"} /\ f.act # "incomplete"}}
Promoted(e, E) ==
  /\ e.act = "incomplete"
  /\ \/ e.proto = "tcp" /\ (e.byClient => e.dest \notin Served(E))
     \/ /\ e.proto = "https" /\ ~Audit
        /\ e.host \notin AllowedHost \cup {Unknown} /\ e.dest # ProxyDest

\* scanDnsLog: an allowed answer is decisive for its name.
Overruled(e, E) ==
  /\ e.log = "resolver"
  /\ \E f \in E : f.log = "resolver" /\ f.host = e.host /\ f.act = "pass"

Blocked(E) == {e \in E : Promoted(e, E) \/ (e.act = "block" /\ ~Overruled(e, E))}

\* isRedundantDns: a blocked connection covers the blocked lookup of its host.
Redundant(e, E) ==
  e.log = "resolver" /\ \E f \in Blocked(E) : f.log = "proxy" /\ f.host = e.host

Tabled(E) == {e \in Blocked(E) : ~Redundant(e, E)}
Row(e) == <<e.host, e.dest, e.proto, e.act>>

\* annotateKnownBlocked: a row is expected when every event under it matches
\* one of known-blocked-rules.
Expected(r, E) == \A e \in Tabled(E) : Row(e) = r => e.known

Unexpected(E) == {r \in {Row(e) : e \in Tabled(E)} : ~Expected(r, E)}

-----------------------------------------------------------------------------
(* The services and their logs. *)

Init ==
  /\ up = [s \in Service |-> TRUE] /\ crashes = 0 /\ open = {} /\ dropped = 0
  /\ pipe = [s \in Service |-> <<Marker>>]
  /\ log = [s \in Service |-> <<>>]
  /\ ends = [s \in Service |-> {}] /\ lost = [s \in Service |-> 0]
  /\ quiet = FALSE
  /\ stage = "running" /\ answered = [s \in Service |-> FALSE] /\ count = {}
  /\ listing = [s \in Service |-> {}] /\ finished = {}
  /\ read = [s \in Service |-> {}]
  /\ happened = {} /\ trouble = FALSE
  /\ due = [s \in Service |-> {}] /\ gone = [s \in Service |-> 0] /\ upto = gone

\* Nothing matters once the step has its verdict.
Live == stage \notin {"passed", "failed"}
Room(s) == Len(pipe[s]) < PipeLines
Put(s, line) == pipe' = [pipe EXCEPT ![s] = Append(@, line)]

\* The proxy takes a connection and decides on it.
Connects(e) ==
  /\ Live /\ ~quiet /\ up["proxy"]
  /\ e \in Event \ happened /\ e.log = "proxy"
  /\ open' = open \cup {e} /\ happened' = happened \cup {e}
  /\ UNCHANGED <<up, crashes, dropped, logVars, reportVars, quiet, trouble>>

\* The connection ends and HAProxy writes its line, or drops it where the pipe
\* is full; a line half written joins the next.
Ends(e) ==
  /\ Live /\ up["proxy"] /\ e \in open
  /\ open' = open \ {e}
  /\ \/ /\ Room("proxy") /\ Put("proxy", LineOf(e))
        /\ UNCHANGED <<dropped, trouble>>
     \/ /\ Room("proxy") /\ "cut" \in Faults /\ Put("proxy", Unreadable)
        /\ trouble' = TRUE /\ UNCHANGED dropped
     \/ /\ ~Room("proxy")
        /\ dropped' = dropped + 1 /\ trouble' = TRUE /\ UNCHANGED pipe
  /\ UNCHANGED <<up, crashes, log, ends, lost, reportVars, quiet, happened>>

\* CoreDNS answers a lookup and waits until its line is in the pipe.
LooksUp(e) ==
  /\ Live /\ ~quiet /\ up["resolver"]
  /\ e \in Event \ happened /\ e.log = "resolver"
  /\ Room("resolver") /\ Put("resolver", LineOf(e))
  /\ happened' = happened \cup {e}
  /\ UNCHANGED <<serviceVars, log, ends, lost, reportVars, quiet, trouble>>

\* A service stops; what the proxy had open never gets its line.
Crashes(s) ==
  /\ Live /\ "crash" \in Faults /\ up[s] /\ crashes < MaxCrashes
  /\ up' = [up EXCEPT ![s] = FALSE] /\ crashes' = crashes + 1
  /\ open' = IF s = "proxy" THEN {} ELSE open
  /\ trouble' = TRUE
  /\ UNCHANGED <<dropped, logVars, reportVars, quiet, happened>>

\* s6 starts it again: its run script echoes the marker, bare where qjs could
\* not print the time, and the proxy counts from zero.
Restarts(s) ==
  /\ Live /\ ~up[s] /\ Room(s)
  /\ up' = [up EXCEPT ![s] = TRUE]
  /\ \/ Put(s, Marker)
     \/ s = "proxy" /\ "bare" \in Faults /\ Put(s, [Marker EXCEPT !.kind = "bare"])
  /\ dropped' = IF s = "proxy" THEN 0 ELSE dropped
  /\ UNCHANGED <<crashes, open, log, ends, lost, reportVars, quiet, happened, trouble>>

\* s6-log writes a line, after rotating `current` where it grew too large:
\* the oldest archive goes once there are more than it keeps.
LogsLine(s) ==
  /\ Live /\ pipe[s] # <<>>
  /\ pipe' = [pipe EXCEPT ![s] = Tail(@)]
  /\ log' = [log EXCEPT ![s] = Append(@, Head(pipe[s]))]
  /\ \/ /\ Cardinality(CurrentLines(s)) < SegmentLines
        /\ UNCHANGED <<ends, lost, trouble>>
     \/ /\ CurrentLines(s) # {}
        /\ ends' = [ends EXCEPT ![s] = @ \cup {Len(log[s])}]
        /\ IF Cardinality(Archives(s)) < KeepSegments
           THEN UNCHANGED <<lost, trouble>>
           ELSE /\ \E n \in Archives(s) :
                     IsLeast(n, Archives(s)) /\ lost' = [lost EXCEPT ![s] = n]
                /\ trouble' = TRUE
  /\ UNCHANGED <<serviceVars, reportVars, quiet, happened>>

-----------------------------------------------------------------------------
(* The report. *)

Settled == open = {} /\ \A s \in Service : pipe[s] = <<>>

\* readProxyDroppedLogs: no answer, or one without the counter in it.
AsksProxy ==
  /\ stage = "running"
  /\ stage' = "proxy asked" /\ quiet' \in {FALSE, Settled}
  /\ \E a \in {up["proxy"]} \cup (IF "hang" \in Faults THEN {FALSE} ELSE {}),
        c \in {{dropped}} \cup (IF "metrics" \in Faults THEN {{}} ELSE {}) :
       /\ answered' = [answered EXCEPT !["proxy"] = a]
       /\ count' = IF a THEN c ELSE {}
       /\ trouble' = (trouble \/ a # up["proxy"] \/ c = {})
  /\ UNCHANGED <<serviceVars, logVars, listing, finished, read, due, gone, upto, happened>>

\* readResolverAnswered
AsksResolver ==
  /\ stage = "proxy asked"
  /\ stage' = "both asked"
  /\ \E a \in {up["resolver"]} \cup (IF "hang" \in Faults THEN {FALSE} ELSE {}) :
       /\ answered' = [answered EXCEPT !["resolver"] = a]
       /\ trouble' = (trouble \/ a # up["resolver"])
  /\ UNCHANGED <<serviceVars, logVars, count, listing, finished, read, due, gone, upto, quiet,
                 happened>>

\* readRotatedLog lists the directory when its scan starts: the proxy's first.
Lists(s) ==
  /\ \/ s = "proxy" /\ stage = "both asked" /\ stage' = "proxy listed"
     \/ s = "resolver" /\ stage = "proxy listed" /\ stage' = "reading"
  /\ listing' = [listing EXCEPT ![s] = Archives(s)]
  /\ due' = [due EXCEPT ![s] = UNION {ArchiveLines(s, n) : n \in Archives(s)}]
  /\ gone' = [gone EXCEPT ![s] = lost[s]] /\ upto' = [upto EXCEPT ![s] = Len(log[s])]
  /\ UNCHANGED <<serviceVars, logVars, answered, count, finished, read, quiet, happened,
                 trouble>>

Reading(s) ==
  s \notin finished /\ (stage = "reading" \/ (s = "proxy" /\ stage = "proxy listed"))

\* Mutation: an archive that is gone is passed over.
ReadsArchiveIfThere(s) ==
  /\ Reading(s)
  /\ \E n \in listing[s] :
       /\ IsLeast(n, listing[s])
       /\ listing' = [listing EXCEPT ![s] = @ \ {n}]
       /\ read' = [read EXCEPT ![s] = @ \cup IF n > lost[s] THEN ArchiveLines(s, n) ELSE {}]
  /\ UNCHANGED <<serviceVars, logVars, stage, answered, count, finished, due, gone, upto,
                 quiet, happened, trouble>>

\* `cat` of the oldest archive listed; one that is gone by then makes
\* streamDockerLines throw, and the report script exits with 1.
ReadsArchive(s) ==
  /\ Reading(s)
  /\ \E n \in listing[s] :
       /\ IsLeast(n, listing[s])
       /\ IF n > lost[s]
          THEN /\ listing' = [listing EXCEPT ![s] = @ \ {n}]
               /\ read' = [read EXCEPT ![s] = @ \cup ArchiveLines(s, n)]
               /\ UNCHANGED stage
          ELSE stage' = "failed" /\ UNCHANGED <<listing, read>>
  /\ UNCHANGED <<serviceVars, logVars, answered, count, finished, due, gone, upto, quiet,
                 happened, trouble>>

\* `cat` of `current`, which is whatever file has that name by then.
ReadsCurrent(s) ==
  /\ Reading(s) /\ listing[s] = {}
  /\ read' = [read EXCEPT ![s] = @ \cup CurrentLines(s)]
  /\ finished' = finished \cup {s}
  /\ UNCHANGED <<serviceVars, logVars, stage, answered, count, listing, due, gone, upto, quiet,
                 happened, trouble>>

\* scanInspectLog, scanHaproxyLog, scanDnsLog
HeadIntact(s) == \E i \in read[s] : IsLeast(i, read[s]) /\ log[s][i].kind = "start"

\* Mutation: the log's first marker counts as a restart.
RestartedFirst(s) == {i \in read[s] : log[s][i].kind = "start"}

\* Mutation: a second marker goes uncounted.
RestartedNever(s) == {}

\* A marker counts only with its time.
Restarted(s) == {i \in read[s] : ~IsLeast(i, read[s]) /\ log[s][i].kind = "start"}
Unparsed(s) == {i \in read[s] : log[s][i].kind = "cut"}
EventsOf(s) == {log[s][i].event : i \in {j \in read[s] : log[s][j].kind = "event"}}
Events == UNION {EventsOf(s) : s \in Service}

\* assembleReportData
LogLooksPlausible ==
  /\ \A s \in Service : HeadIntact(s) /\ Restarted(s) = {} /\ Unparsed(s) = {}
  /\ count = {0} /\ answered["resolver"]

Enforcing == ~Audit /\ FailOnBlocked

\* determineBlockedOutcome: a service that did not answer fails the step in any
\* mode, a record that is not whole wherever a block would.
ShouldFail ==
  \/ \E s \in Service : ~answered[s]
  \/ Enforcing /\ (~LogLooksPlausible \/ Unexpected(Events) # {})

Judges ==
  /\ stage = "reading" /\ finished = Service
  /\ stage' = IF ShouldFail THEN "failed" ELSE "passed"
  /\ UNCHANGED <<serviceVars, logVars, answered, count, listing, finished, read, due, gone, upto,
                 quiet, happened, trouble>>

Build == \E e \in Event : Connects(e) \/ Ends(e) \/ LooksUp(e)

Report ==
  \/ AsksProxy \/ AsksResolver \/ Judges
  \/ \E s \in Service : Lists(s) \/ ReadsArchive(s) \/ ReadsCurrent(s)

Services == \E s \in Service : Crashes(s) \/ Restarts(s) \/ LogsLine(s)

Next == Build \/ Services \/ Report

Spec == Init /\ [][Next]_vars

-----------------------------------------------------------------------------
(* What must hold. *)

TypeOK ==
  /\ up \in [Service -> BOOLEAN] /\ crashes \in 0 .. MaxCrashes
  /\ open \subseteq Event /\ dropped \in Nat
  /\ pipe \in [Service -> Seq(Line)] /\ log \in [Service -> Seq(Line)]
  /\ ends \in [Service -> SUBSET Nat] /\ lost \in [Service -> Nat]
  /\ quiet \in BOOLEAN /\ trouble \in BOOLEAN
  /\ stage \in {"running", "proxy asked", "both asked", "proxy listed", "reading",
                "passed", "failed"}
  /\ answered \in [Service -> BOOLEAN] /\ count \subseteq Nat
  /\ listing \in [Service -> SUBSET Nat] /\ finished \subseteq Service
  /\ happened \subseteq Event
  /\ due \in [Service -> SUBSET Nat] /\ gone \in [Service -> Nat]
  /\ upto \in [Service -> Nat]
  /\ read \in [Service -> SUBSET Nat]
  /\ \A s \in Service : read[s] \subseteq 1 .. Len(log[s])

\* What the report cannot see: a marker that stands first among the lines left
\* after pruning, a bare one, a segment rotated between listing and reading.
Vouched(s) == gone[s] > 0 /\ log[s][gone[s] + 1].kind = "start"
Unstamped(s) == \E i \in 2 .. Len(log[s]) : log[s][i].kind = "bare"
Overtaken(s) == \E i \in gone[s] + 1 .. upto[s] : i \notin read[s]
Hidden == \E s \in Service : Vouched(s) \/ Unstamped(s) \/ Overtaken(s)

\* A step that enforces passes only if known-blocked-rules account for every
\* block of the run (a lookup by way of the blocked connection to its host),
\* whatever was dropped, cut, pruned or lost in a crash on the way: what
\* types.ts calls failing closed.
FailsClosed ==
  stage = "passed" /\ quiet /\ Enforcing /\ ~Hidden =>
    \A e \in Tabled(happened) : e.known

\* A step fails only over a block it was not told to expect, or because
\* something really went wrong with the record: an ordinary run is not failed.
NoFalseAlarm ==
  stage = "failed" /\ quiet /\ ~trouble =>
    Enforcing /\ \E e \in Tabled(happened) : ~e.known

\* Even while traffic goes on, a report that comes to a verdict on what it read
\* has read every line that was in an archive when it listed the directory:
\* one pruned in between fails the step.
ReadsArchives == stage = "passed" => \A s \in Service : due[s] \subseteq read[s]

\* docker/common/files/s6-rc.d/haproxy-log/run: "report reads every segment,
\* oldest first".
ReadsEverySegment ==
  stage = "passed" =>
    \A s \in Service : gone[s] + 1 .. upto[s] \subseteq read[s]

\* docs/security.md, "Floods the proxy log until earlier entries rotate away":
\* "A log that no longer starts where a real run does is not accepted as a
\* complete record: the step fails".
BeheadedFails == stage = "passed" /\ quiet /\ Enforcing => \A s \in Service : gone[s] = 0

\* haproxy.ts and inspect.ts, restarts: "Startup markers after the log's first
\* line: each is the proxy starting again after it stopped mid-run".
RestartsAreSeen ==
  stage = "passed" /\ quiet /\ Enforcing =>
    \A i \in 2 .. upto["proxy"] : log["proxy"][i].kind \notin {"start", "bare"}
=============================================================================
