# A TLA+ verification of Buildcage for Docker

Buildcage runs a `docker build` behind an allowlist: a GitHub Action starts a
builder container that holds BuildKit, a proxy (HAProxy), a resolver (CoreDNS)
and, under the `inspect` engine, a wrapper around runc that makes each `RUN` step
trust the proxy's CA. A second action reads what the proxy and the resolver
logged and decides whether the job fails. Six promises of the project are hard
to test, and this development is about them:

1. **nothing Buildcage does is left in the image**: the step sees the CA, the
   committed layer does not, and is otherwise what the step made it;
2. **the report fails closed**: a step passes only over a record that is the
   whole record, however the logs were rotated, dropped, cut or lost;
3. **one connection, one policy**: whichever engine runs, no name is resolved
   ahead of a deny and nothing is dialled that neither a rule nor the resolver gave;
4. **a rule means what its text says**, to each of the three programs that
   compile it;
5. **a job's builder is its own**: it enforces that job's rules, the report reads
   it, and the post step removes it and no other;
6. **the image pulled was signed** as itself, under the ref the action is pinned to.

Contents: [parts of the system](#the-parts-of-the-system),
[modules](#the-modules), [the wrapper](#the-wrapper-cainjection),
[the report](#the-report-trafficreport),
[the proxy](#the-proxy-proxyengines), [rules](#rules-ruletext-and-its-dialects),
[jobs](#jobs-actionlifecycle), [the image](#the-image-imageverification), [runs](#the-runs),
[proofs](#the-proofs), [disagreements found](#where-the-code-and-its-documents-disagree),
[what is left out](#what-is-not-modelled), [plan](#plan).

## The parts of the system

| Part | State it keeps | Operations | Hard behaviour | What makes it correct |
|---|---|---|---|---|
| **CA injection and its undoing** (`docker/inspect/buildcage-runc`) | the step's overlay; scratch mirrors, their baselines, the list of binds; anchors and the directories made for them; the exit code | `run`: inject, launch runc, finish (reconcile mirrors, sweep the layer, read it back, take directories back) | every operation can fail halfway; the step may change, move or copy anything it sees; a kill at any point | clean image; untouched files stay out of the layer; nothing of the step is lost; scratch is reclaimed; a failed undoing fails the step |
| **Which directories are bound** (`inject.go`, `mount.go`, `spec.go`) | none: one pass over the spec's mounts and the image's stores | group by directory, merge nested groups, refuse conflicts | nesting, links, mounts already in the spec | each target in exactly one bind, no bind inside another |
| **Certificates inside a file** (`castore.go`, `layer.go`, codecs) | none | find, cut out, close gaps, follow links | fixpoints over byte ranges | what goes in comes out; foreign certificates survive |
| **Log reading** (`core/lib/docker`) | the proxy's and the resolver's logs, in rotated segments | ask both services, list, read each segment | rotation and pruning while it reads; a service hung, down or restarted | no line listed is missed silently |
| **Log scanning and outcome** (`core/lib/log`, `core/lib/report`) | none: a fold over the lines, then over the events | scan, merge, reduce to rows, judge | one line is judged by others; the record may be incomplete in ways only a marker tells | fails closed; no false alarm |
| **Setup, report and post actions** (`src/lib`, `report/src`) | the builder container, by project name; `GITHUB_STATE` | compose down, compose up, report, post-step down | jobs sharing a name; setup stopping halfway; a report without a builder | post removes what setup started and nothing else |
| **Proxy decision** (`core/lib/acl`) | per connection: the variables HAProxy's rules set | the generated rule list, in order | order of denies, resolves and destination checks | a request is passed exactly when a rule allows it, and no name is resolved ahead of a deny |
| **Rule parsing** (`core/lib/acl`) | none | a rule's text to expressions of HAProxy's (PCRE2), CoreDNS's (RE2) and setup's own (JavaScript) | three readers of one text; anchors, cuts and ports put in by string surgery | each reader takes what the rule says and no more |
| **Builder startup** (`docker/common`) | s6 services, iptables, cgroup | static dependency order | a service that never gets ready | BuildKit is up only behind the proxy |
| **Image provenance** (`core/lib/provenance`) | a token, the digests read so far | token, tag, referrers, bundle, the chain to the config, the signature, the engine's label | a registry may answer each request differently, fail or deny; tokens expire | what is pulled was signed; what is in order is not refused |
| **Action inputs** (`core/lib/actions`) | none; read anew by each step | two spellings, config file with merge keys, defaults | the file is in the workspace a build writes to | the workflow's values hold |
| **Report rendering** (`core/lib/report/render`) | none | Markdown | none | not modelled, see below |

How they interact: setup starts the builder container with the rules in its
environment. BuildKit calls the wrapper once per `RUN` step (a process call; the
only thing handed back is an exit code). The step's connections go to HAProxy and
its lookups to CoreDNS; both write to a pipe, at the other end of which an
`s6-log` writes and rotates files. The report action, on the runner, asks both
services over `docker exec`, then lists and reads those files the same way, with
the container still running. The post step takes the container down.

## The modules

| Module | What it is |
|---|---|
| `UnproxiedBuild` | abstract specification: a build without the proxy, as a Dockerfile's author sees it |
| `CaInjection` | the wrapper, one `RUN` step after another, with the step and BuildKit around it |
| `CaInjectionProofs` | its theorems: what is left in the layer once an injection is undone, and that it implements `UnproxiedBuild` |
| `TrafficReport`, `TrafficReportProofs` | services, pipes, s6-log, and the report that reads them; its theorems |
| `RuleSet` | rules compiled to matchers, what they match, and the resolver's blocks |
| `EgressPolicy` | abstract specification: what the proxy promises about one connection |
| `InspectProxy`, `UniversalProxy` | the two engines, each rule of its haproxy.cfg a step, and the report's reading of the line it leaves |
| `ProxyEngines`, `ProxyEnginesProofs` | whichever engine setup chose, as an implementation of `EgressPolicy`; its theorems |
| `RuleRegex`, `RuleWildcard` | expressions as three engines read them; wildcards |
| `RuleInput`, `RuleText` | a rule as an author writes it, piece by piece, in one of five fields; the texts among them |
| `HostRule`, `RawHostRule`, `UrlRule`, `AddressRule` | what the code makes of it in each field |
| `RuleRegexProofs`, `RuleProofs` | what a compiled pattern matches; the theorems about rules that rest on it |
| `RawRuleProofs` | what an author's expression matches, by its parts; the theorems about `~` rules |
| `ActionInputs` | what a step's inputs come to |
| `ActionLifecycle`, `ActionLifecycleProofs` | several jobs on one machine, from setup to post; its theorems |
| `ImageVerification`, `ImageVerificationProofs` | one verification against a registry that answers anything; its theorems |
| `MC...` | small instances of each for TLC |

`ActionLifecycle` extends `ActionInputs`; `ProxyEngines` instantiates both engines
over one state and the policy over it; `MCRuleText` extends the four dialects over
one `RuleInput`. `RuleText` is about which texts a matcher accepts, `RuleSet`
takes that set as given, `TrafficReport` takes the proxy's verdicts as given: the
components meet in those sets, not in one large state.

Operators whose comment begins with "Mutation:" are plausible bugs, each the
counterpart of the definition below it; no specification uses them. Every
property has one that breaks it (`PROJECT.json`, "mutants").

## The wrapper: CaInjection

### Correspondence

`pc` is where `run` (main.go) has got to. Each action is one call it makes, with
everything that call does:

| Action | Code |
|---|---|
| `BuildKitRuns` | BuildKit mounts a fresh upper directory over the image and calls `buildcage-runc run` |
| `RunWithoutCA`, `LayerUnread` | setupInjection's early returns (main.go, layer.go `upperDirOf`) |
| `PlaceAnchors` | `placeAnchors`: an anchor in each anchor directory, made if missing; then the CA-only scratch file |
| `BindTargets` | `bindTargets`, `prepareBind`, `dirBind.prepare`: a mirror per store directory, the CA in its copy, the baseline captured |
| `InjectKeystores`, `RefuseKeystores`, `HalfWritten` | the keystore loop of `inject`: into a bind that covers it, into one of its own, refused, or written halfway, which abandons the injection |
| `PlaceNSSDB`, `SaveSpec` | Chromium's database and the spec; a spec that cannot be saved leaves the mirrors unmounted |
| `Launch`, `LaunchFails` | runc |
| `StepWrites`, `StepMovesAway`, `StepInstalls`, `StepRemovesDir`, `StepExits` | what a step may do: write, copy what it read (the CA included, intact, sealed in a format that cannot be stripped, or as an edited slot), delete; rename an ancestor of a mounted directory; install the package that owns an anchor directory |
| `FinishBind`, `FinishBindFails` | `dirBind.finish`: compare with the baseline, refuse if the path has moved, restore untouched keystores, strip, write back, remove the scratch |
| `StripLayer`, `StripLayerFails` | `stripLayer`, `stripNSSSlotCopies`, `verifyLayer`, `tolerateResidue` |
| `RemoveCreatedDirs` | `adoptedAnchorDirs`, `removeCreatedDirs`, and run's return |
| `WrapperKilled` | a kill anywhere |
| `BuildKitCommits`, `BuildKitDiscards` | BuildKit on the exit code |

### Abstractions

A file is who wrote it (`body`), what it carries of the injection (`mark`) and
whether the keystore codec re-encoded it. That is all the properties tell apart:
formats, byte offsets, modes and mtimes are dropped. One mark per file: a file
with several copies is as one with the worst of them. `sealed` and `named` stand
for copies `stripCA` finds and cannot cut; a copy compressed or encrypted past
recognition is outside what the wrapper can know and outside the model. Links
inside a directory and the choice of directories are taken as given (`DirOf`);
concurrent steps have overlays and scratch directories of their own, so one step
at a time loses nothing. Any removal may fail: which directories resist is a choice
(`Scratch`, `TakesOut`), remembered in `unremoved` and `kept` as the wrapper's log has
it. A step's read-only or cache mounts are not layers.

Not promised, and not stated: an empty directory the injection made and the step
would have made itself is removed with the injection's own.

### Properties

| Property | In words |
|---|---|
| `CleanImage` | no committed layer carries the CA or a slot, whatever was copied, whatever failed, whenever killed |
| `Implements` | what is committed is what an unproxied step would have left; a failed step commits nothing |
| `UntouchedStaysOut` | only files the step wrote are in its layer, although keystores are re-encoded and neighbours written back |
| `NoDirLeftBehind` | a directory injected is taken back, unless its package is there, the log says it was not (it resisted, or its path leads elsewhere now), or the step moved it away and its path leads nowhere or to another one |
| `ScratchReclaimed` | at every exit but a kill, every scratch directory was to be removed: what is left resisted, and the log says so |
| `OnlyStuckRemains` | with `fail-on-ca-residue: false`, over several steps, only what cannot be stripped stays |
| `CommitsOnlyUndone` | no layer is committed after an error in undoing (action property) |
| `WrapperGoesOn` | the wrapper reaches the step or the exit, and from the step's end the exit (liveness) |

`CleanImage` assumes `Strict`: `fail-on-ca-residue` on, and BuildKit committing
on exit code 0 only. The other exit codes take an LLB written by hand, which
docs/security.md names as an exception.

**Fairness.** `WF(Inject)` and `WF(Finish)`: the wrapper is straight-line code
that blocks on nothing but runc. The step itself has no fairness (it may run for
ever), nor has BuildKit.

## The report: TrafficReport

### Correspondence

| Action | Code |
|---|---|
| `Connects`, `Ends` | HAProxy decides on a connection and, when it ends, writes a line without waiting: into the pipe, half of it, or not at all, in which case its counter goes up (proxy-dropped-logs.ts) |
| `LooksUp` | CoreDNS logs a lookup and waits for the pipe |
| `Crashes`, `Restarts` | a service stops, losing what it had open; s6 runs its run script again, which echoes a startup marker (for the proxy possibly without its time) |
| `LogsLine` | s6-log appends to `current`, rotates it, prunes the oldest segment |
| `AsksProxy`, `AsksResolver` | `readProxyDroppedLogs`, `readResolverAnswered`, evaluated before either scan starts (report-action.node.ts) |
| `Lists` | `parseLogSegments` of `ls`, the proxy's directory first |
| `ReadsArchive`, `ReadsCurrent` | `readRotatedLog`'s `cat` of each name, one after the other, the two logs interleaved; a missing archive throws and fails the step |
| `Judges` | scanInspectLog and scanDnsLog's totals, `assembleReportData`, `reduceTimeline`, `determineBlockedOutcome` |

A log is one sequence; `ends` are the last lines of its archives and `lost` the
last line pruned, so a file is an interval of the sequence and rotation is
adding to `ends`. The interval `current` stands for changes while the report
reads, which is the race. Rotation itself is atomic: the instant in which s6-log
has renamed `current` and not made the new one is left out.

What the report makes of the events is written as set operators: `Promoted`
(blockUnpassedAddresses, blockUnallowedNames), `Overruled` (an allowed answer for
a name decides it), `Redundant` (a blocked connection covers the blocked lookup
of its host), `Expected` (a row is expected when each event under it is). An
event says whether `known-blocked-rules` match it; matching itself is not
modelled. A bare marker at the very first start, which the report does not take for
one and fails on, is left out, as are the lines only the universal engine writes.

`happened`, `trouble`, `due`, `gone` and `upto` are history: what the build
really did, whether anything went wrong, and the state of the directory when it
was listed.

### Properties

| Property | In words |
|---|---|
| `FailsClosed` | an enforcing step passes only if every block of the run is one it was told to expect |
| `NoFalseAlarm` | a step fails only over an unexpected block or because something did go wrong with the record |
| `ReadsArchives` | a verdict is over every line that was in an archive when the directory was listed, though traffic goes on |

`FailsClosed` and `NoFalseAlarm` are about reports that begin when traffic has
ended and its lines have reached the files (`quiet`). The action runs after the
build, so traffic has ended; that the lines have got through the pipe is the
time a `docker exec` takes, and nothing in the code waits for it. `FailsClosed`
moreover excludes `Hidden`: three of the disagreements below.

There is no liveness here: the report is a script that ends unless docker hangs.

## The proxy: ProxyEngines

### Correspondence

One connection, from its first byte to its line. `pc` is the rule of the
generated haproxy.cfg that runs next. In `InspectProxy`: the detect frontend
(`JudgeAddress`, `GuardAddress`, `JudgeSni`, `AskSni`, `FoundSni`, `GuardSni`),
then a stage's head (`ReadHead`) and its `http-request` rules in the order in
which they are written, `NextRule` (`JudgeHost`, `JudgePath`, `JudgeRequest`,
`Resolve`, `ResolveAgain`, `Found`, `GuardInternal`), then what becomes of the
exchange (`Origin`). `UniversalProxy` has the same of the other template.
The resolver is asked anew each time and may answer any address, or none. Every
outcome carries the termination state, reason and TLS errors HAProxy logs for it,
and `ActionOf` is the report's reading of that line (log/inspect.ts, log/haproxy.ts,
log/termination.ts): the property about it compares the row with the history `end`.

A matcher is what it accepts: a set of hosts, ports, paths and methods. A client
may send anything in each place where the configuration looks: an SNI that is no
name, a Host that is an address, bytes that are no request. One connection is
one request: reuse of a connection for a second request is left out (each request
runs the same rules again), and so is the extension point of the inspect stage,
which no generated configuration fills.

### Properties

| Property | In words |
|---|---|
| `KeepsPolicy` | each engine implements `EgressPolicy`: names are asked only when allowed, relays go only where a rule or the resolver says, nothing internal, never the proxy itself |
| `ClientChoosesNoTarget` | a connection that named its destination goes where the resolver said, not where the client sent it |
| `RowTellsWhatHappened` | the report's row agrees with what happened, for every way HAProxy has of ending a connection |
| `ResolverAgrees` | a name relayed was not logged as denied by the resolver |
| `EveryConnectionEnds` | each is decided and on record exactly once (liveness) |

**Fairness.** `WF` of the engine's step: HAProxy's rules do not loop and each of its
waits (client, resolver, origin) has a timeout in the template.

## Rules: RuleText and its dialects

An author writes a rule fragment by fragment (`Write`; `WriteText` gives up an
expression that could not compile any more), so that TLC goes through every rule
there is over a set of fragments; an address rule is chosen whole. What is checked is a function of the
text: `RuleRegex` has an expression as a sequence of tokens, the translations the
code makes of it (partial-wildcard.ts, haproxy-matchers.ts: anchoring, splitting
off a port, unescaping, narrowing to a string or a prefix), and a matcher
(`Matches`, `Finds`, `Spans`) with the engines' differences in it: RE2 and PCRE2
read `\Q..\E`, JavaScript does not; `[]` opens a class in one and is one in the other.
`HostRule`, `UrlRule` and `AddressRule` have the wildcard dialects, each beside a
reference definition of what the text says (`Means`; comparing an address
numerically). The alphabet is a few characters, ports have at most two digits and an
address has three octets of two bits; expressions reach every class, group,
escape and port group that the code looks for.

| Property | In words |
|---|---|
| `EnginesAgree` | a host rule means the same to setup, `inspect` and `universal`, though each compiles it differently; a CIDR block in a host's field passes setup's parser and nothing else does that the proxy refuses |
| `NarrowingIsExact` | a match narrowed to a string or a prefix accepts exactly what the expression does |
| `WildcardsMean` | wildcards match what the documents say |
| `AnchorsBindTheWhole` | the proxy admits only what the whole `~` expression matches and, where its port takes the colon first, only names the resolver answers for |
| `CutNeverWidens` | a `~` URL cut in two and matched apart admits nothing its whole does not, where its anchors are at its ends; host and path each in the case they are matched in |
| `UrlMeansItself` | a URL rule takes its scheme, name, port and path and no other |
| `EnginesCoverTheSame` | a CIDR block or pattern covers the same addresses as numbers and as text |

An engine is a function too: `Match` takes an expression apart, one atom with its
quantifier at a time, and hands the rest to a matcher for shorter expressions
(`Matchers`), so that it, like the compilers (`Suffixes`, `Joined`) and the reference
(`Starts`), is a recursive function over a length and can be proved about.

## Jobs: ActionLifecycle

### Correspondence

| Action | Code |
|---|---|
| `ReadInputs` | setup-step.ts up to the saved state and the output |
| `DownFirst`, `Up`, `Wait` | `compose down` (with the checks ahead of it), `compose up --wait`: recreates the container or keeps an existing one, as compose decides |
| `FindSource`, `CopyScript`, `RunScript`, `FinishReport` | the report step: its inputs again, the container by name, the script out of its image, its status, the artifact and the directory |
| `Post` | `planPostCleanup` and `compose down` |
| `BuilderTurns` | a container becomes healthy, or stops |
| `EditFile` | a build, or another step, writes the config file |
| `CancelSetup`, `CancelReport`, `LoseRunner` | cancellation between two calls; a runner that never comes back |

`ActionInputs` is what each of those steps works out for itself: the two spellings of
an input, config-file with the events it is refused on and the places it may not
lead to, merge keys, and how file and workflow merge. Three inputs stand for the rest.

A name stands for its Compose project, and a container for the job whose setup made
it. Docker's documents say that two jobs at work under one name take each other's
builder down (docs/reference.md:49-52): `shared` remembers the jobs that did, and the
properties except them. `trouble` remembers the jobs that were lost, whose report was
cancelled between two calls, or whose removal failed.

### Properties

| Property | In words |
|---|---|
| `OwnRules` | a builder a setup ended well with is that setup's, never a leftover with other rules |
| `NobodyElsesBuilder` | no step of a job removes or replaces another's builder (action property) |
| `NothingLeftBehind` | a job that is over left no builder, scratch container or directory, wherever its setup stopped; the jobs in `trouble` are excepted |
| `WorkflowInputsHold` | whatever a build writes into the config file, the report keeps what the workflow set |
| `GreenIsEarned` | a green report was decided from the job's own builder |
| `BuilderComesDown` | in the end every builder is down (liveness) |

**Fairness.** `WF` of each job's own steps: a runner goes on to the next call, and
every call returns, compose's wait by its timeout. Nothing is assumed of cancels,
builders, or what a build writes.

## The image: ImageVerification

One action per request (`FetchToken`, `FetchDigest`, `AskReferrers`, `ReadAttachment`,
`AskFallback`, `NextReferrer`, `ReadSub`, `ReadBundle`, `ReadRoot`, `ReadManifest`,
`ReadConfig`, `FetchTrustedRoot`) and per decision (`Plan`, `VerifyBundle`,
`CheckImageEngine`). The registry answers with what it holds, with a failure (a network
error, a server's, a denial, an absence, a refusal), or with a document it makes up.
A document is named by its digest, so the hops that check a digest (`Genuine`) take
that document or nothing, and the others may take any. A bundle is genuine or not,
and says by which commit or version and for which subjects; that is sigstore's part.

| Property | In words |
|---|---|
| `VerifiedIsSigned` | whatever was answered, an image that is pulled was signed under the pinned ref, as itself, and is of the engine asked for |
| `RefusedForCause` | an image in order is refused only if something went wrong: not for other artifacts attached, the registry's scheme, or an expired token |
| `TransientForCause` | a retry is suggested only where one could help: a failure, a denial, what was listed and is not served, an answer for the tag without its digest |
| `VerificationEnds` | every verification ends (liveness) |

**Fairness.** `WF(Step)`: a request ends with an answer or an error.

## The runs

| Run | Configuration | Shows |
|---|---|---|
| `ca_store` | `CaStore.cfg`, 3.3 M states | bundle, keystore in the same directory, an anchor directory, a stray file; every fault but a failed recapture and the database's, what resists removal included; two changes by the step |
| `ca_home` | `CaHome.cfg`, 0.8 M states, fair | keystore in a directory of its own, Chromium's database, a copied `pkcs11.txt`; liveness |
| `ca_chain` | `CaChain.cfg`, 0.3 M states | two steps, residue tolerated, a failed recapture |
| `report_whole` | `Report.cfg`, 5.6 M states | an expected blocked request, a client's close and a lookup of the same host; pipe of one line, segments of two, one archive, one crash, every fault |
| `proxy` | `Proxy.cfg`, fair | twelve rule sets, one for each shape of rule that decides differently, in both engines where both take it; every connection over two names, four addresses, three ports, two paths, two methods |
| `image` | `Image.cfg`, fair | two releases for two engines, twelve registries, four refs, four made-up documents, any two kinds of failure |
| `rules` | `Rules.cfg` | every rule of up to four fragments after a few beginnings (`4.0.8.8` among a host's, which makes CIDR blocks, well and ill formed), and every address rule |
| `lifecycle` | `Lifecycle.cfg`, fair | two jobs, eight pairs of workflows; one runner lost, one edit |
| `ca_replaced`, `report_rotated`, `rule_port`, `report_leftover` | violations | see [disagreements](#where-the-code-and-its-documents-disagree) |

The `ca_`, `report_whole`, `rules` and violation runs switch deadlock checking off: a
build really ends, after its last step or with its report, and a rule is written to
its end. The others have a stuttering `Done`, so that only a real end may stop.

**Why the bounds are enough.** *Wrapper*: each hazard needs one mirrored
directory with a target and a neighbour, a stray file, and at most two changes by
the step (read a copy, then move the directory; change a neighbour, then delete
a target); `ca_replaced` takes three. Bodies need only say "as the base wrote it" or not. Two steps are
enough for residue, since a step depends on earlier ones only through the image.
*Report*: a pipe of one line makes drops and waits happen; segments of two and
one archive kept make rotation and pruning happen within the handful of lines two
connections, a lookup and a restart write; one crash per run already gives the
restart with its counter lost. The three events are those whose verdicts depend
on each other. *Proxy*: a connection is independent of every other, and a rule set
matters only by what it makes of the one connection; the addresses are one of
each kind the guards tell apart (the proxy's, a step's, a public one, one that is
never public). *Rules*: every cut and anchor the code puts in is decided within
three tokens of a `:`, `/`, `|`, `(`, `[` or `\`, and beginnings put these ahead of the
four fragments. *Jobs*: two jobs are what a race over a name takes; a third adds none.
*Image*: two failures reach every fallback behind a failed request. Where theorems
are listed below, they remove the bounds.

## The proofs

TLAPS proves the following for all values of the constants: any set of files,
directories, bodies, faults and exit codes; any number of steps and edits; any
build, pipe, segment size, number of segments and number of crashes; any rules and
connection; any jobs, workflows and number of lost runners; any registry, whatever
it makes up and however often it fails.

| Theorem | Statement |
|---|---|
| `CaInjectionProofs!TypeCorrect` | `Spec => []TypeOK` |
| `NoCAInTheImage` | `Spec => []CleanImage` |
| `OnlyUndoneIsCommitted` | `Spec => CommitsOnlyUndone` |
| `ScratchIsReclaimed` | `Spec => []ScratchReclaimed` |
| `ImplementsUnproxied` | `Spec => Implements`, under `Faithful` |
| `OnlyTheStuckRemains` | `Spec => []OnlyStuckRemains`, where only 0 is a valid exit code |
| `TheUntouchedStayOut` | `Spec => []UntouchedStaysOut`, where only 0 is a valid exit code, under `Apart`, no recapture fault |
| `NoDirStays` | `Spec => []NoDirLeftBehind`, under `Strict`, `Apart`, `OwnersApart` |
| `TrafficReportProofs!TypeCorrect` | `Spec => [](TypeOK /\ ReadInv)` |
| `EveryArchiveIsRead` | `Spec => []ReadsArchives` |
| `ReportFailsClosed` | `Spec => []FailsClosed` |
| `OrdinaryRunsPass` | `Spec => []NoFalseAlarm` |
| `ProxyEnginesProofs!TypeCorrect` | `Spec => []TypeOK` |
| `EnginesImplementPolicy` | `Spec => KeepsPolicy` |
| `TheResolverChooses` | `Spec => []ClientChoosesNoTarget` |
| `TheRowTells` | `Spec => []RowTellsWhatHappened` |
| `TheResolverAgrees` | `Spec => []ResolverAgrees` |
| `ActionLifecycleProofs!TypeCorrect` | `Spec => []TypeOK` |
| `BuildsUnderOwnRules` | `Spec => []OwnRules` |
| `BuildersAreNobodyElses` | `Spec => NobodyElsesBuilder` |
| `NothingIsLeft` | `Spec => []NothingLeftBehind` |
| `GreenReportsAreEarned` | `Spec => []GreenIsEarned` |
| `WorkflowInputsAreKept` | `Spec => []WorkflowInputsHold` |
| `ImageVerificationProofs!TypeCorrect` | `Spec => []TypeOK` |
| `WhatIsPulledWasSigned` | `Spec => []VerifiedIsSigned` |
| `NoRefusalWithoutCause` | `Spec => []RefusedForCause` |
| `RetriesHaveACause` | `Spec => []TransientForCause` |
| `RuleProofs!WildcardsMeanWhatTheySay` | `Spec => []WildcardsMean` |
| `NarrowedMatchesAreExact` | `Spec => []NarrowingIsExact` |
| `UrlsMeanThemselves` | `Spec => []UrlMeansItself` |
| `RulesReadAlike` | `Spec => []EnginesAgree` |
| `RawRuleProofs!AnchorsHold` | `Spec => []AnchorsBindTheWhole` |
| `CuttingHolds` | `Spec => []CutNeverWidens` |
| `AddressesCoverTheSame` | `Init /\ [][Write]_vars => []EnginesCoverTheSame` |

Assumptions: the named `ASSUME`s of the modules, which say what kind of thing
each constant is, and which TLC evaluates in every run.

**The wrapper.** None of the properties is inductive. What has to be carried:

- `LayerInv`: the image carries no mark; a file out of the layer is as the layers
  below have it; without an injection nothing carries a mark; and once undone
  without an error, nothing does either. It needs every write, of the step, of
  the injection and of the write-back alike, to enter `written`, which is what
  makes reading back the layer alone enough.
- `ScratchInv`: what stands on the builder is at most the open binds and the
  CA-only file, and nothing once the directories are gone.
- `FailureInv`: undoing fails only on the way out, and then the exit code is not
  zero.
- `BodyInv`: up to the write-back, what the step sees is what it made, and after
  it, what is in the root file system.

`NoCAInTheImage` follows: a layer is committed only at an exit with code 0, where
either the layer was read back with no residue, or nothing was ever injected.
`ImplementsUnproxied` maps each commit to the abstract `Succeed`, each discard to
`Fail`, each edit to `Edit`, and all that the wrapper does to a stutter. `Faithful` names what it
excludes, each with a reason: `Strict`; an attribute a manifest does not record
and a directory made anew (both disagreements below); and a failed recapture
together with an unsaved spec, two I/O errors in one step.

**The report.** `FailsClosed` compares the verdict with the history, so the
invariant has to follow every event from the connection to the line read:

- `AccountInv`: every event is told of in its service's stream (log and pipe), or
  the proxy can still say that it is not: the connection is open, the proxy is
  down, or its counter is not zero. *Told of* means its line, an unreadable line,
  or a marker after the first. It is the argument for the whole design: a
  crash is answered by the proxy being down until its restart writes the marker
  that stands for whatever the counter forgets.
- `StreamInv`: the stream is never empty, so that a restart's marker is never the
  first line; and it holds nothing that did not happen.
- `AskedInv`: once a quiet report has asked the proxy, every event is told of in
  the lines it lists, or the answer was not "zero dropped".
- `ReadInv`: archives end before the last line, nothing older than the listing is
  read. It keeps a verdict from resting on lines pruned before.

At the verdict (`WholeRecord`), a head that is a marker, no later marker and no
unreadable line leave only one way for an event to be told of: its own line, and
among those read. So the events read are those that happened
(`EventsAreThoseThatHappened`), and the rows judged are the true ones. `DueInv`,
for `ReadsArchives`, says that a due line is read or in an archive still listed.

**What is left in the layer.** `StuckInv`: only a pkcs11.txt ever holds
a slot, so what the sweep has been over holds no mark but one that no line-by-line
removal can take out. `UntouchedInv`: for a file no step has touched, `TakenBack` (what
the mirror would be written back as) is the image's file before, during and after the
step, and one that was written all the same is an anchor, which comes to nothing in the
sweep; it needs `SaneInv`, that no file is re-encoded around nothing. It holds where
BuildKit commits nothing but what exits with 0, fail-on-ca-residue or not: an image may
then hold copies that cannot be stripped, and these stay as they are. A file is not both
a bundle and a keystore (`Apart`: its format is one), and every baseline was recaptured:
coverKeystore keeps the older one otherwise, and TLC finds the property violated.
`DirInv`: in a directory the injection made and the step did not, nothing of the image or
the step stands, neither in the overlay nor in a mirror (`Bare`), so that it is empty once
swept, and then gone unless it resists, which is logged (`kept`), or is not at its path any
more. It takes a builder that fails on residue (a copy that may stay keeps its directory),
and none of the three exclusions of the refinement. `OwnersApart` says that no owner of an
anchor directory is itself one the injection makes (the table in anchor.go).

**The proxy.** A rule that has run leaves nothing behind in HAProxy but the place it
went on to, so the invariant (`InspectInv`, `UniversalInv`) is what each place tells:
past the rules the request is allowed, at the guard the target is the resolver's.
`EnginesImplementPolicy` maps an engine's ask to the policy's, its relay to the
policy's, and every other step to a stutter or the close. The policy has a path and
`universal` does not: the mapping gives it an arbitrary one, and needs that the lists
`universal` takes hold host rules only, which setup checks (`Supported`).
For the row (`InspectRow`, `UniversalRow`) each place also tells which frontend logs,
whether anything was asked and whether anything was dialled, so that the one line, written
from the last place, can say no more than happened. `TheResolverAgrees` has a hypothesis,
`HalvesAgree`: the host half of a `~` rule covers every name the whole accepts. The
rule sets of the run satisfy it; `AnchorsBindTheWhole` checks it on the text of rules whose
port part takes the colon first and must take it, or is the only part that may (in
`a.4(:4)?` the `.` may take it instead, and the host half does not cover `a`), and
`OneDerivation` (Disagreements) is where it fails.

**Jobs.** The invariant says whose each container is: a job's own name and state
(`saved`, `named`) come from inputs that do not change; a container of a job that is
past its setup stands under that job's name or nowhere; and two jobs at work with one
name are in `shared` from the moment the second begins. `OwnRules` then needs the
`compose down` ahead of the up: without it the kept container may be a leftover.

**The image.** Two invariants. The first (`PlaceInv`, `ChainInv`, `SignedInv`) carries the
chain: what stands in `next` at each hop is what the digest before it named, so
that the label read is the label of the image. The second, for `RefusedForCause`,
is about an image in order that met no trouble: what is still to be looked at
(`pending`) holds a bundle that hangs on it, and whatever is at hand is one. It uses
a least-element argument, from the library's well-foundedness of the naturals, for
the first bundle listed.

**An ordinary run** (`OrdinaryRunsPass`). As long as nothing has gone wrong, each stream is
one marker and then events (`InOrder`), both services are up and said so (`Sound`), and
once all has settled every line of a log is read or in a file still to be read
(`Covered`): a line is in `current` or in the archive of the least end behind it, which
exists because the naturals are well founded. So the record looks whole and holds what
happened, and what is left to fail over is a block nobody expected.

**Rules.** These are invariants of what a rule may be (`InCharacters`), and the work is in the
data. The library's induction takes an operator as a parameter, so `UpTo` and
`UpToOverTwo` restate it for sets, from the well-foundedness of the naturals, and
`Recursion` shows that a function given by its first value and a step exists. A pattern
of wildcards is compiled from its end; so `Followed(N, s, t, last, whole)` says that from just
the places in `last` the tokens t match the rest of s, and `WildcardsMatched` shows that
what the last n characters compile to, put before t, is followed from just the places
`Starts` gives them: piece by piece, each by what its atom takes (`StarsTaken`,
`PieceTaken`), never by what the whole matches. An anchor before and behind it gives
`WildcardsSpan` and `WildcardsFound`; `CompiledLowered`, that lowering the expression or
the rule comes to the same. The narrowed matches then need the converse, that an
expression which reads as a literal was compiled from one (`LiteralIsPlain`, `AnyIsLast`).
`RulesReadAlike` first tells what the proxy refuses: no label holds a slash (`SlashRefused`),
so a block is none of its hosts, and every other rule setup takes is. It then compares two
compilations of a domain: label by label, joined with dots
(`wildcard-rules.ts`), and in one walk (`partial-wildcard.ts`). `DomainJoined` puts the domain
together from its last character: one more begins a label or stands before the first,
and a label of the grammar setup takes stays one (`AllUniform`), so that either compiles
it to the same piece. In `name:port` only the colon after the name can be the
expression's (`OneColon`), so what comes before it begins where it would in the name
alone (`NameAlone`), and the port is read digit by digit, or as a number (`PortsAgree`).
For addresses, the digits of a number tell it apart (`DigitsTold`), so a block is the same
set by quotients and octet by octet (`BlocksAgree`). Assumed are `CharacterAssumption` (the
characters the code names are some, and an escape is none), `TextAssumption` (rules and
requests are written in them, no name holds a colon, a path begins with a slash),
`PortAssumption` (a connection's port is read back from how it is written: the model has
ports of one or two of three digits) and `AddressAssumption`: nothing bounds the alphabet, the rule or the text.

**An author's expression** (`RawRuleProofs`). One that compiles is cut at its first
top-level bar, or into its first atom, a quantifier and the rest, and the parts compile too
(`AlternativesAreWhole`, `Parting`): the depth of a token says where a group ends
(`AtomFound`, `GroupGoesOn`), and a part is read as it is in the whole (`Cutting`). A statement
that passes from the parts to the whole therefore holds of every expression (`ByParts`), however
groups and classes are nested. A match is what its parts make of it, whatever it is
matched with (`Settling`, `Unfolds`), and a repetition is the least set of positions that holds
its start and goes on (`RepeatIsLeast`). On these rest four laws: a match from several positions
leads where it leads from each (`Spreading`); one expression after another matches from
where the first left off (`Composing`); inside the beginning of a text a match leads where
it leads in that beginning alone (`Locality`); and what writes no colon leads nowhere past one
(`StayingInside`). `AnchoredMatchesAll` is the first half of `AnchorsHold`: with an anchor before
and behind, nothing short of the text matches, as setup lets no top-level bar through.
`AcceptedIsHalved`: the expression is its host half and its port one after the other, each
of which compiles, since the checks leave nothing JavaScript and PCRE2 read apart
(`CheckedReadsAlike`). So the host half ends where the port begins, which is at the first
colon of `name:port`, and `TheNameIsLeft`. `CuttingHolds` needs a fifth law, a converse of
`Locality`: what matches in a part of a text matches where that part stands in the
whole, unless an anchor is written in it (`Moving`; a `$` may be, where the part is the last).
So the host half leads through the host of the URL, the path half on from there
(`HalvesMeet`), and the scheme before them, which reads as one of three texts, leads up to
the host (`SchemeTaken`). A path match narrowed to a string or a prefix is one its expression
makes (`PathMatcherIs`, `PathTaken`). A rule with an anchor inside is left out because its
whole may match nothing while its halves do: of `~http://a/?^` the path half, `/?^`, matches
every path, and the whole no URL.
`ExpressionAssumption`: expressions are written in tokens, names, ports and paths in
characters; no name or port holds a colon.

**Only model-checked**: `WrapperGoesOn`, `EveryConnectionEnds`, `VerificationEnds` and
`BuilderComesDown`: liveness under fairness is beyond the prover. Every safety property a
passing run checks has a theorem.

## Where the code and its documents disagree

Four are runs that TLC finds violated; `PROJECT.json` has the quotations.

- `ca_replaced` (`ChangesCopiedBack`): a step that changes a file in a mounted directory,
  renames an ancestor of it, makes the directory anew and writes the file there has that
  write replaced by the mirror's, as the file was before the move (mount.go `dirBind.finish`).
- `report_rotated` (`ReadsEverySegment`): the directory is listed once; a segment
  rotated before `current` is read is in no file read, and the report cannot tell
  (rotated-log.ts `readRotatedLog`). It takes traffic during the report.
- `rule_port` (`NoPortIsTheDefault`): a port-less `~` URL whose host half has an open end,
  such as `~http://a../`, is also tried against `host:port`, matches the port's own text
  and so admits any port (haproxy-rule-block.ts:59, against docs/reference.md:460).
- `report_leftover` (`ReportsOwnBuild`): the report finds its builder by name alone. If
  setup stops before its `compose down` and a lost runner left a builder under that
  name, an `if: always()` report takes its verdict from the other run
  (find-report-source.ts:30).

Six more are stated in the modules as properties, which no run checks at present;
putting one in a configuration's INVARIANTS or PROPERTIES shows it.

- `ChangesCopiedBack`, with attributes (`CaInjection`): a step whose only change in a mounted directory is an ACL, an extended
  attribute or the directory's own mode is taken for one that changed nothing (mount.go
  `sameExceptMtime`), and the change is lost.
- `CreatedDirsGo` (`CaInjection`): whether the step installed the package is read off the
  owner directory at the end, so an image that had it already keeps an anchor
  directory its Dockerfile never made (anchor.go `adoptedAnchorDirs`).
- `BeheadedFails` (`TrafficReport`): after pruning, a restart's marker can be the first line
  left, and then vouches for the head of the log (inspect.ts `scanInspectLog`).
- `RestartsAreSeen` (`TrafficReport`): a restart whose marker came without its time is not
  counted (inspect.ts `START`).
- `ServerErrorIsTransient` (`ImageVerification`): oci-bundle.ts:130 skips a referrer's manifest on any
  status that is not ok, so a 5xx there ends in NOT_FOUND; errors.ts:3 and
  oci-bundle.ts:28 say TRANSIENT.
- `OneDerivation` (`RawHostRule`): haproxy-rules.ts:156 says of the resolver's expression and the
  proxy's that "the two can never accept different names". An expression whose
  port is part of an alternative, such as `~a(:4|a):4`, is cut so that the proxy admits a
  name (`aa:4`) that the resolver denies.

## What is not modelled

- **Which directories are bound** (planCATrust, groupTargetsByBind, mergeNestedGroups,
  mountConflicts): a sequential plan made once, ahead of the step; `CaInjection` starts
  from the plan it makes.
- **Certificates inside a file** and the keystore codecs (PKCS#12, JKS, EFI, DER): byte formats.
- **Report rendering**: Markdown, with no state and no property beyond its wording.
- **Of rules**: the checks of flags, braces, lookarounds, POSIX classes, method lists and
  comments; rules spread over lines. They refuse a text or leave it alone. Of addresses,
  patterns inside an octet, such as `10.0.0.1?`.
- **Of the proxy**: timeouts' lengths, buffers, TLS itself, a second request on a kept
  connection; a client that leaves while the resolver is being asked (the termination state
  HAProxy then logs is not in the repository).
- **Of inputs**: YAML itself, sizes, and the inputs other than a name, a switch and a list,
  which are read the same way.
- **Of setup**: diagnostics of a builder that did not start (they change nothing).
- iptables, cgroups and the s6 dependency order: static configuration.
- BuildKit, runc, HAProxy, CoreDNS and s6-log, except for how this code depends
  on them; in the map they are external.

## Plan

In order:

1. `BindPlan`: groupTargetsByBind, mergeNestedGroups and mountConflicts, giving
   `CaInjection` the `DirOf` it now assumes.
2. `CertCutting`: findCertificates, closeGaps, shiftDown, dropRemovedLinks and
   resolveInRoot as functions, each against a reference definition.
3. A second request on a connection that is kept, in `InspectProxy`.

## Running it

    tlc -workers 2 -config CaStore.cfg MCCaInjection.tla
    tlc -workers 2 -config Report.cfg MCTrafficReport.tla
    tlc -workers 2 -config Proxy.cfg MCProxyEngines.tla
    tlc -workers 2 -config Image.cfg MCImageVerification.tla
    tlc -workers 2 -config Rules.cfg MCRuleText.tla
    tlc -workers 2 -config Lifecycle.cfg MCActionLifecycle.tla
    tlapm CaInjectionProofs.tla        (and the other ...Proofs)
