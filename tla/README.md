# LogShipper: TLA+ models and proofs

LogShipper (`cmd/collector`) reads log lines from stdin, files and containers,
turns them into events, and either prints them or builds a graph of which
service calls which, with a terminal UI, alerts on latency and error rate, and
Prometheus metrics. This directory models the parts of it whose correctness
depends on what happens at the same time, in which order, or at which limit.

Contents: [1 the system](#1-the-system), [2 the modules](#2-the-modules),
[3 the runs](#3-the-runs), [4 the proofs](#4-the-proofs),
[5 where code and documentation disagree](#5-where-code-and-documentation-disagree),
[6 what is left out](#6-what-is-left-out), [7 the plan](#7-the-plan).

## 1 The system

Paths are below `src/internal` unless they begin with `cmd`.

| Component | State | Operations | Hard because |
|---|---|---|---|
| Pipeline runner, `pipeline/pipeline.go` | five channels (four in use at a time), `errCh`, a cancellable context | `Run`: a goroutine per source, one that closes `sourceChan`, parser, transformer, forwarder; the caller runs the sink | every goroutine may block in a send or a receive when another fails, ends or is cancelled |
| Sources, `sources/*.go` | position in the input | `Run` of stdin, file, docker | a read of stdin cannot be interrupted; errors of the docker stream |
| Sinks, `sinks/stdout.go`, `graphSink` in `app/app.go` | none | `Run` | the first ignores the context, the second returns nil on a cancelled one |
| Transformer, `transform/remap.go` | none | `Run` | ranges over its input whatever the context says |
| Call graph, `graph/graph.go` | nodes, edges, known edges, channel of events; gauges | `Feed`, `staleSweeper`, readers | `Feed` and the sweeper take the lock for one part of their work each |
| Cycle detector, `graph/cycle.go` | known cycles | `findNewCycles` | depends on the order of Go's maps and on earlier searches |
| Anomaly detector, `anomaly/*.go` | windows, excursions, times of alerts, channel of alerts | `Feed`, `Stats` | cooldown, excursions and a moving window interact |
| Resolvers, `resolve/*.go` | cache with expiry | `Resolve`, `Invalidate` | the inner resolver is asked without the lock |
| Parsers, `parse/*.go`; normalisation, `event/*.go` | none | pure functions of a line or an event | three ways to a normalised event, each with aliases and fallbacks of its own |
| Terminal UI, `tui/*.go` | three screens with cursors, help, counters, marked edges | `Update` for keys, ticks, events, alerts, sizes | state derived from two channels and a snapshot; cursors in lists that change under them, in a terminal that changes its height |
| Wiring, `app/app.go`, `cmd/collector/main.go` | context, result of the pipeline | `Run`, `RunWithTUI`, `RunMetrics` | order of start and stop, who waits for whom |
| Configuration, `config/*.go` | none | `Load`, `Validate` | accepts what the builders refuse, and the other way round |
| Metrics registry, demo, benchmarks | counters | - | counters that nobody reads, or not part of the collector |

How they interact. A source sends events on `sourceChan`; the parser, the
transformer if one is configured, and the forwarder pass them on, each over a
channel of 100; the sink takes them from the last. A goroutine that fails puts
its error on `errCh` (8 places, a ninth is dropped) and cancels the context that
all share. With the graph sink, every event that names two services becomes a
call of `CallGraph.Feed`, in the sink's goroutine; `Feed` in turn asks the cycle
detector when an edge is new and feeds the anomaly detector. The sweeper is a
goroutine of the graph's own. Graph and detector each have a bounded channel
that the UI empties and that nobody empties in headless mode; both drop what
finds the channel full.

What makes each correct:

* pipeline: no panic, no event lost or reordered in the middle of the stream, no
  error lost, a clean end only when all is delivered, and an end in any case;
* graph: the three maps agree, announcements balance, no call is lost, fresh
  edges stay and stale ones go;
* cycles: only cycles are reported, none twice, no tangle of services unnoticed;
* detector: the window is the recent past, one alert for each excursion, no
  excursion missed but in the cooldown;
* resolvers: a bounded cache whose answers are not older than promised;
* UI: no cursor past its list, the selection drawn, the log that of its call, no
  event or alert left lying while the UI lives;
* the program: an exit status that tells how the run went, an end after a signal
  or the key, a pipeline of what the configuration names, and one meaning of a
  line whichever way it is parsed.

## 2 The modules

| Module | What it is |
|---|---|
| `Delivery` | the promise of a run: what is accepted is delivered in order and without a gap, all of it if the run ends well |
| `Pipeline` | `Pipeline.Run` with its sources, stages and sinks, and its properties |
| `PipelineInv` | the inductive invariant |
| `PipelineProofs`, `PipelineOrderProofs` | proofs about `Pipeline` |
| `Cycles` | cycles of a graph as operators, among them `cycleKey` |
| `CycleDetector`, `CycleProofs` | the depth-first search, step by step, over a graph that changes meanwhile; proofs |
| `CallGraph`, `CallGraphProofs` | `Feed` and the sweeper; proofs |
| `AnomalyDetector`, `AnomalyProofs` | rolling windows and alerts; proofs |
| `ResolverCache`, `ResolverProofs` | the cache around the resolvers; proofs |
| `Ingest` | operators: parsers, transform, normalisation, resolution, and the call that is made of a line |
| `Collector`, `CollectorProofs` | the program: configuration, wiring, the three modes, what ends what; lines on their way through `Ingest`; proofs |
| `Screens`, `ScreensProofs` | the terminal UI with its three screens and its listeners; proofs |
| `MC...` | instances for TLC |

`CallGraph` uses `Cycles`, `Pipeline` implements `Delivery`, `Collector` extends
`Ingest`. The modules meet at interfaces: `Collector` takes the inside of a run
from `Pipeline` (that a cancelled run ends is `CancelEnds` there and fairness
here), `Screens` has the events of `CallGraph` and the alerts of
`AnomalyDetector` as its surroundings, and the search in `CallGraph` promises what
`CycleDetector` keeps (`SearchKeepsItsPromise`, section 4).

Definitions marked "A mutation" are slips that a programmer might make. No action
uses them; they stand in for the definition that follows them to see that a
property notices.

**Pipeline.** `srcPc`, `stPc` and `runPc` say where each goroutine is; a step is
what a goroutine does between two channel operations. `select` with several
ready cases is a choice of actions (`StageRecv` or `StageStop`; `StageSend` or
`StageAbort`). An event is `<<source, number>>`; what `ParseEvent`, `Normalize`,
`resolve` and the transformer make of it does not touch the control state and is
in `Ingest`. Channels are

| model | code |
|---|---|
| `"source"`, `"parsed"`, `"tc"` | `sourceChan`, `parsedChan`, `tc` |
| `"out"` | `normalChan` with a graph sink, `legacyChan` with `StdoutSink` |

With a graph sink nobody uses `legacyChan`, with `StdoutSink` nobody uses
`normalChan`, whence the one name. Errors are pushed and the context cancelled in
two steps, as in the code, for sources, transformer and sink. `RemapTransform`
itself never fails; `TransformFails` is for the interface `Transformer`, whose
error the runner handles. The variables `failed`, `accepted`, `taken` and
`delivered` record what has happened; no guard reads them.

**CallGraph.** What `Feed` and `sweepStale` do under the lock is one action
(`FeedLocked`, `SweepLocked`), each event they send afterwards another, so that
the two interleave as goroutines do. An edge keeps its number of calls and
`LastSeen`. Event times come from the logs and need not be in order, so that
`FeedLocked` takes any time. The search for cycles is one action that reports
some cycles that are not known, at least one if none of the graph's cycles is
known: what `CycleProofs` shows of it. Not modelled: latencies, errors,
per-edge Prometheus counters; `FeedSetsGauges` stands for the end of `Feed`,
whose call of the anomaly detector is `Feed` of `AnomalyDetector`.

**CycleDetector.** The recursion of `dfs` is the variable `stack`, each frame with
the out-edges it has not looked at; the order of Go's maps is a choice. Services
are numbers, which gives `cycleKey` its order; the code joins the names with `|`, the model keeps them apart,
which differs for names with a `|` in them only. `extractCycle` does what the loop
does, including its stop at a service without a parent; `Ancestors` is its loop, with
as many rounds as there are services, so that `SearchEnds` is about the recursion
and not about this loop.

**AnomalyDetector.** `Feed` holds the lock throughout and is one action. The
z-score of `v` among `n` values with sum `S` and sum of squares `Q` is
`(n*v - S) / sqrt(n*Q - S*S)`; integers and squares stand for floats and the
root. `Sums` are the sums of the first values, as `recalc` goes through the window.
The code rounds: with threshold 3, nine values of 1000 and then 1003 score
3.000000000000025 in place of 3, and alert. So a value close to the threshold may be
judged either way. `MayBeAnomaly` and `MayBeNormal` overlap where the square of the
exact score is within one part in `Precision` of the square of the threshold. All
that is assumed is that `Precision` is greater than `threshold^2`: with the 3 of
`app.go` the rounding may move the square of a score by a tenth, which float64 does
only for values of more than a dozen digits that differ in the last of them. For
values that are all equal, which is the case `ShiftIsAbsorbed` depends on, the
code's recurrence is exact.

**ResolverCache.** `Resolve` is three steps, as its locks make it: the look under
the read lock (`Hit` or `Miss`), the question to the inner resolver under no lock
(`Ask`), and eviction and store under the write lock (`Store`). The table comes
before the daemon, as in `ChainResolver`; what the daemon answers changes at any
time (`Change`), and an unreachable daemon answers "no service", which the cache
keeps like any answer. Host names are values; wildcards and the cleaning of
container names are left out.

**Ingest.** A JSON object is a function from keys to values, each with its type,
which is what the coercions look at; times, numerals and durations are sets of
texts. `ParseEvent`, `Remap`, `Normalize`, `resolve` and `Call` are the way of a
line through the running program, in that order. `ParseNormalized` and
`NewFromRaw` are two other ways that the packages offer and that only tests take.
What a message says is left out; nothing later reads it. `FirstOf` is the loop
over the names that a field may have, and `Over` what is left when a map's fields
are written over another's.

**Collector.** `main` says where `main` is between the reading of the
configuration and its exit, across `App.Run`, `RunWithTUI` and `RunMetrics`.
Pipeline, UI and metrics server are each a variable that is running or has a
result, and end by themselves, on a cancellation, or with an error; which of
them `main` waits for depends on the mode. A configuration is a record of maps
like the YAML's; `selected` is the list of sources the builders make of it, which
may name one twice. `Handle` and `Deliver` take one line at a time through
`Ingest`: order and loss are the subject of `Pipeline`.

**Screens.** `Update` is sequential and each message is one action. The three
commands beside it, the tick and the listeners on two channels, are the set
`cmds`: one gives one message and is gone unless `Update` starts it again. Rows
that nothing sorts are in the order of a Go map, any. Of the rendering there is
what decides which rows of the list are drawn (`ListWindow`) and marked (`Badge`,
`Dot`). Two places decide the former: `Screen1.View` takes `visibleRows` rows, at
least five, from half as many above the cursor on, and `Model.View` cuts what comes
out to the height less three lines, whatever it shows. Graph and detector are seen
from their channels, which drop what they have no room for; events and alerts
come without end. Three things follow from what the program does not do:

* `RunWithTUI` sends no `NormalizedEventMsg`, only the tests do. The log of
  Screen 3 stays empty, and its rows, its autoscroll and its popup are not modelled;
  which call it is opened for is.
* `NewScreen1` makes a text input and drops it (`tui/screen1.go:43`). The key `/`
  calls `Focus` of the empty one the screen has instead (`tui/screen1.go:173`), which
  panics in the library. This is a fact about the library, outside the repository;
  Bubble Tea ends with an error (`UIFails` of `Collector`), and `PressSlash` is that.
  The filter is never entered, and there is none in the model.
* The colours of Screen 2, for alerts and cycles, are layout.

## 3 The runs

| Run | Checks | Bounds |
|---|---|---|
| `PipelineSafe.cfg` | `NoPanic`, `ErrorReported`, `GapFree`, `CleanFinish`, `Inv` (which has `TypeOK`), `Delivers`, everybody failing, with interrupts | 2 docker sources, 1 line each, channels and `errCh` of 1 |
| `PipelineLive.cfg` | `LinesInOrder`, `CancelEnds`, `DrainEnds`, `AllStop`, everybody failing, with interrupts | 1 source of stdin or file, 2 lines, channels and `errCh` of 1 |
| `PipelineOverlong.cfg` | `NoLineDropped`, violated (section 5) | 1 source, 2 lines |
| `Cycles.cfg` | `TypeOK`, `ReportsAreCycles`, `NoTangleMissed`, `NeverTwice`, `SearchEnds` | 3 services, 5 edges with overlapping cycles and a self-call, 4 searches |
| `CyclesBlame.cfg` | `BlamedEdgeIsOnCycle`, violated (section 5) | 4 services, 5 searches |
| `Graph.cfg` | `TypeOK`, `Consistent`, `Announced`, `CallsConserved`, `FreshEdgesStay`, `FeedReturns`, `StaleEdgesGo` | 2 edges that form a cycle, 2 calls each, time 0..3, age limit 1, 1 place for events |
| `GraphGauge.cfg` | `GaugeIsCurrent`, violated (section 5) | as `Graph.cfg`, 2 places for events |
| `Anomaly.cfg` | `TypeOK`, `WindowIsRecent`, `NoExcursionMissed`, `ShiftIsAbsorbed`, `FewValuesNeverAlert`, `OneAlertPerExcursion` | 1 key, 3 values, window 6, threshold 2, precision 5, cooldown 2, time 0..4, 3 alerts |
| `Resolver.cfg` | `TypeOK`, `WithinSize`, `AnswersAreRecent`, `FreshStay` | 2 callers, 3 hosts, two of them in the table, room for 2, ttl 2, time 0..4, at most 1 tick from answer to store |
| `Screens.cfg` | `TypeOK`, `SelectionDrawn`, `LogOfCall`, `KeepsUp` | 2 services, 1 call, a terminal of 7 or 10 lines and a list of at least 1 row, channels of 1, alerts of a call counted to 1; as many events and alerts as come |
| `ScreensUnmarked.cfg` | `NewAlertsBlink`, violated (section 5) | as `Screens.cfg` |
| `Collector.cfg` | `ExitTells`, `WiredAsConfigured`, `PathsAgree`, `ToldToEnds` | 13 configurations, 3 modes, the lines of `MCCollector` |

Why the bounds suffice. The code uses a channel's capacity only to block, and a
channel of one place blocks as one of a hundred does, with fewer events. Two
sources are enough for one to end, fail or close while the other sends, and for
an error that finds `errCh` full; containers are the kind with the most ways to
fail, in opening, in reading, and by a cancelled read. Stdin and file, which
stop in other ways, are in the liveness run, where two lines follow each other
through the stages. What these runs check of safety is proved for all values
(section 4). For the graph two edges give every pair of orders between `Feed` and
the sweeper, and a channel of one place that nobody empties is full after the
first event. For the detector a window of six with threshold 2 is the smallest whose exact
score can exceed the threshold, and one of five values, which is where the rounding
decides, comes before it (`FewValuesNeverAlert` is about four and less); precision 5
is the coarsest that the assumption allows. Time to 4 allows three alerts a cooldown
apart. For the cache, room for two of three hosts makes a store evict another
host or renew an expired one, with two callers that overtake each other; time to
4 lets an entry expire and be renewed. A pipeline has one caller, its forwarder.
For the screens, a list of two rows scrolls in a terminal that draws one and is
drawn whole in one that draws two, and the terminal changes from one to the other
at any time; with a list of at least one row, seven lines are the fewest for which
`SelectionDrawn` promises anything, as nine are in the code. The list shrinks under its
cursor, from two rows to none, when the call is swept, and the call comes back. Two
messages of a kind are enough for the second to be left behind the first, and there
is always one more. The configurations of the collector are
each a case that the builders distinguish; the lines combine the names and aliases
whose order the parsers differ in, with values of the right and of a wrong type,
the aliases in milliseconds included.
Sources are symmetric in the safety run, hosts of the table and callers in the resolver's.

Deadlock is checked in the pipeline runs: a state in which nothing can happen,
other than the one after the end of every goroutine (`Terminated`), is an error.
The others may stop: the graph, cycle, detector and resolver runs when their
bounds on calls, searches, alerts and time are used up, as may the code when
nothing is fed, the screens after quitting, and the collector after its exit.

Fairness. In `Pipeline` each goroutine is weakly fair: Go's scheduler runs every
goroutine that can go on, and a receive or a send that stays possible happens.
Input is not fair: a line may never come (`SourceInput` has no fairness), nor may
the caller ever cancel, nor a transformer fail. `AllStop` therefore has to
exclude a source that sits in a read of stdin, which nothing in the code can
interrupt. In `CallGraph` `Feed` and the sweeper's goroutine are fair; the
consumer of events is not, since in headless mode there is none. In
`CycleDetector` the search is fair, being a loop in one goroutine. In `Screens`
the tick and the two listeners are fair, because Bubble Tea runs each command in
a goroutine and hands its message to `Update`; keys, sizes, the graph and the detector
are not, and the user may do nothing for ever. `KeepsUp` is about a UI that has not
ended: `q` ends it, and so does `/`. In `Collector` `main` is fair; a
pipeline that is cancelled ends, which `CancelEnds` shows; and Bubble Tea returns
after the key or a signal. Neither a signal, nor the end of the input, nor the
server need ever come.

## 4 The proofs

All are checked by TLAPS and hold for every value of the constants that the named
assumptions of the modules allow.

| Module | Theorem | Statement |
|---|---|---|
| `PipelineProofs` | `TypeCorrect` | `Spec => []TypeOK` |
| | `NeverPanics` | `Spec => []NoPanic` |
| | `NeverAGap` | `Spec => []GapFree` |
| | `FinishesClean` | `Spec => []CleanFinish` |
| | `ErrorsAreReported` | `Spec => []ErrorReported` |
| | `InvCorrect` | `Spec => []Inv` |
| | `RunDelivers` | `Spec => Delivers`: `Pipeline` implements `Delivery` |
| `PipelineOrderProofs` | `EverySourceInOrder` | `Spec => []LinesInOrder` |
| `CallGraphProofs` | `TypeCorrect` | `Spec => []TypeOK` |
| | `GraphIsConsistent` | `Spec => []Consistent` |
| | `NoCallIsLost` | `Spec => []CallsConserved` |
| | `FreshEdgesAreKept` | `Spec => FreshEdgesStay` |
| | `AnnouncementsBalance` | `Spec => []Announced` |
| `CycleProofs` | `TypeCorrect` | `Spec => []TypeOK` |
| | `ReportedAreCycles` | `Spec => []ReportsAreCycles` |
| | `NothingIsReportedTwice` | `Spec => NeverTwice` |
| | `NoTangleIsMissed` | `Spec => []NoTangleMissed` |
| | `SearchKeepsItsPromise` | `Spec => []OneIsKnown /\ OnlyFoundIsAdded` |
| `AnomalyProofs` | `TypeCorrect` | `Spec => []TypeOK` |
| | `WindowIsTheRecentValues` | `Spec => []WindowIsRecent` |
| | `ExcursionsAreAlerted` | `Spec => []NoExcursionMissed` |
| | `AlertsAreSeparated` | `Spec => OneAlertPerExcursion` |
| | `SmallWindowsNeverAlert` | `Spec => []FewValuesNeverAlert` |
| | `ShiftsAreAbsorbed` | `Spec => []ShiftIsAbsorbed` |
| `ResolverProofs` | `TypeCorrect` | `Spec => []TypeOK` |
| | `CacheFits` | `Spec => []WithinSize` |
| | `FreshAnswersStay` | `Spec => FreshStay` |
| | `AnswersStayRecent` | `Spec => []AnswersAreRecent` |
| `CollectorProofs` | `ExitStatusTells` | `Spec => []ExitTells` |
| | `RunsWhatIsConfigured` | `Spec => []WiredAsConfigured` |
| | `ThreeWaysAgree` | `Spec => []PathsAgree` |
| `ScreensProofs` | `CursorsStayOnRows` | `ScreensSpec => []TypeOK` |
| | `LogIsOfItsCall` | `ScreensSpec => []LogOfCall` |
| | `SelectionIsDrawn` | `ScreensSpec => []SelectionDrawn` |

Assumptions. In `Pipeline`: the kinds are the three, capacities are positive, there
is a source (without one `Run` returns at once), and no source is called like the
transformer, the sink or `"nil"`. In `CallGraph`, `CycleDetector` and `Screens`: services are
finitely many numbers and calls join services; the channel has room for one event
at least, and the list of services has at least one row. In
`AnomalyDetector`: values are integers, the window is not empty, and rounding moves
the square of a score by less than one part in `Precision`, a number greater than the
square of the threshold (`PrecisionAssumption`). In
`ResolverCache`: hosts are finitely many, the table is about some of them and
answers with services. In `Collector`: a configuration names finitely many things,
and a value in a JSON line is of one kind, its numbers whole. In `Ingest`: the
empty text is no time, number or duration and has no upper case.

**Pipeline.** None of the properties is inductive. The invariant `Inv` has six
parts, each proved with the help of those before it:

1. `TypeOK`;
2. `CloseInv`: a channel is closed exactly when its owner is done. `NoPanic`
   follows;
3. `FlowInv`: every channel holds a stretch of the accepted events, beginning
   after the `taken[c]` events that have left it; a stage has put on its output what
   it has taken from its input, but for the event in its hand; the sink has
   delivered what has left the last channel. `GapFree` is the end of that chain;
4. `ErrInv`: who has met an error has it still to push or it is on `errCh`, and a
   cancellation that is not the caller's comes after an error on `errCh`.
   `PushErr` may drop an error, but only when another is there;
5. `DrainInv`: while nobody has cancelled, a goroutine that ends has drained its
   input into its output;
6. `FinInv`: a clean run leaves nothing behind, which needs 3, 4 and 5 at the step
   `Return`.

`StepDelivers` uses all six: a step of the model is a step of `Delivery` or
leaves its variables alone. `LinesInOrder` is about the number an event has among
the events of its source, so `AcceptInv` counts them: the accepted events of a
source are numbered without a gap, and a source that goes on has had accepted
all it has made but for the event in its hands. A source that gave up a send is
done, which is why its next line can never be accepted. With `GapFree` the order
carries over to what is delivered.

**CallGraph.** `Consistent` and `CallsConserved` are inductive given `TypeOK`;
`Announced` needs `Consistent` for an edge that is met again after its sweep. For
`FreshEdgesStay` the deadline has to be bounded for as long as the sweeper waits
for its lock: `DeadlineInv`, it is at most `now - EdgeTTL`, since the clock only
goes on.

**CycleDetector.** The search is recursive, and what makes it right is the state of
the whole recursion. `StackInv` says it: the gray services are exactly those on
the stack, each once, and each frame but the first was entered over an edge from
the frame below, which is its parent. A back edge therefore goes to a frame of
the stack, and the loop of `extractCycle`, which follows the parents, walks the
stack down to it: `Extracted`, by induction on the number of steps. So what is
reported is a cycle (`ReportedAreCycles`). That none is reported twice needs that
`cycleKey` does not depend on where the walk began: turning a cycle keeps its key
(the lemmas on `Turn` and `Key`), and what is known is stored as keys
(`Canonical`).

`NoTangleMissed` is about what the search did not see: only edges of the
search's tree and back edges are looked at, and a cycle may be passed over
because part of it was already black. `ScanInv` follows the edges by what has
become of their ends. An edge is `Covered` when a known cycle of the copy goes
along it, which every back edge is once it has been looked at. From a black
service every edge leads to a black one or is covered (`Blacks`), and so do the
edges a call on the stack has taken up, but for the one along which it has called
`dfs` (`Scanning`). So when a service turns black its edges to services that are
not black are covered, and among any black services there is one, the first to
have turned black, whose edges to the others are all covered (`FirstBlack`). In a
tangle that service has an edge to another of the tangle or to itself, and the
known cycle along that edge stays within the tangle (`KnotIsKnown`). Services
that reach each other are a least fixed point (`Reach`), of which the proof needs
that it is closed (`ReachIsClosed`) and least (`ReachIsLeast`).

`SearchKeepsItsPromise` is the link to `CallGraph`, where the search is one action,
`FeedFindsCycles`: what becomes known is a cycle of the graph, and one is known if
there is one.

The inductions are over a set of numbers (its least member, from the library's
theorems on well-founded orders), as the provers cannot use induction theorems
with an operator for a parameter; recursion is written as recursive functions.

**AnomalyDetector.** `Ring` says how the slots of a window map to the recent values:
slot `pos` is the last, and before the window is full `pos` is its length. The
step that wraps around is arithmetic modulo the size, in lemmas of its own.
`AlertInv` ties the excursion of a key to its last alert: `inAnomaly` is that no value
since the alert was normal, and a key that was never alerted has no time of an
alert.

`FewValuesNeverAlert` says that a window of no more than `threshold^2` values gives
no alert. It is not said of one value more, where the exact score can equal the
threshold. It rests on a bound on the score: a value of a window of `n` values is
at most `sqrt(n - 1)` deviations from the mean, whatever the others are
(`DeviationIsBounded`), and up to `threshold^2` values that stays below the threshold
by more than the rounding. The bound is the inequality of Cauchy and Schwarz for the sums of
the window, proved along the prefix sums value by value (`OneMore`), and needs
that the value that is judged is in the window (`OwnWindow`): `Feed` adds it
first. For `ShiftIsAbsorbed` the sums of a window of equal values give a deviation
of 0, and with `Ring` the window is flat exactly when the last `windowSize` values
were equal.

**ResolverCache.** `AnswerInv` follows an answer from the daemon through the caller
that has it in hand to the cache and to the caller that finds it there: at each
place the answer was true at a time that the place bounds, by when it was asked
for or by its expiry. `WithinSize` needs that evicting removes an entry whenever
the cache is full.

**Collector.** `ExitTells` is inductive: the results of the pipeline and the exit
status are final. `WiredAsConfigured` combines three checks that are made apart:
the transform's inputs are sources, there is at most one transform
(`OnlyTransform`), and the sink listens to some transform; only with the second is
it the one that was built. `PathsAgree` needs of the steps only that a line in the
pipeline was read by a source (`LineRead`); the rest is about operators. For each
field and each of the three ways the list of names it is looked up by is compared
with the line: `Reads` says that what stands before the canonical name is not in
a canonical line, and what stands after it is there only if the name is
(`AllGone`), so that the first hit is the same (`NamedText`, `Statuses`,
`Latencies`, `InTime`); `AttrsKeep` carries it through the attributes that
`Normalize` reads. The three lemmas `LiveWay`, `DirectWay` and `RawWay` end in one
event, `EventOf`.

**Screens.** `ScreensInv` says of which calls and services the rows of Screen 2 are
made, for whatever service is shown, so that the two ends computed from a row are
those of its call. `SelectionDrawn` is proved for a terminal of nine lines or more (with
the five rows of the code) on which no line is broken, which takes 90 columns. The
window begins half of `visibleRows` above the cursor, and both `visibleRows` and the
cut of `Model.View` depend on the height: above the floor the window fits, at the floor
half of it has to. Below nine lines the selected row need not be drawn: with eight
lines, three services and the cursor on the third, it is not. `TypeInv` adds that the list shows rows that it has and that
Screen 2, which moves its cursor by the number of calls and then lists those in
and those out, has as many rows (`UpdateStaysOnRow`).

Every invariant and every property of steps that a passing run checks is proved.
Checked by TLC only: liveness under fairness (`CancelEnds`, `DrainEnds`, `AllStop`,
`SearchEnds`, `FeedReturns`, `StaleEdgesGo`, `KeepsUp`, `ToldToEnds`), which with
`ENABLED` is out of the prover's reach.

## 5 Where code and documentation disagree

* `NoLineDropped`. `sources/stdin.go:26`: a line longer than `bufio.Scanner`
  takes (64 KB) makes `Scan` return false, which the source takes for the end of
  the input. It and everything after it is dropped and `Run` returns nil.
  `docs/normalization-spec.md:259` says of dropping an event: "Never. Every input
  line produces exactly one `Event`".
* `BlamedEdgeIsOnCycle`. `graph/graph.go:133`: a cycle that a search finds is
  reported with the new edge that started the search. Since one search need not
  find every cycle, a later one may find an old cycle and report it with an edge
  that lies on no cycle; the UI shows that edge as "part of a dependency cycle"
  (`tui/model.go:302`).
* `GaugeIsCurrent`. `graph/graph.go:261`: the sweeper removes edges and leaves
  the gauges as they were, so that the "Current number of edges in the service
  graph" (`metrics/metrics.go:34`) is wrong until the next event.
* `NewAlertsBlink`. `tui/screen1.go:86`: alerts are counted by the key of an edge
  (`tui/model.go:158`) and looked up by the name of a service, so that the count of
  a row is always zero, the row has no badge and no dot, and the service's risk
  ignores its alerts. The legend at `tui/model.go:303` says "new unseen alert
  (blinks)".

What else the models show or had to take into account, without a run of its own; some of
it is at odds with a document, as said there:

* a cycle whose edges were swept and have come back is not reported again
  (`knownCycles` is never cleared);
* after a run that was cancelled a stdin source may stay in its read for ever;
* a signal that comes after the pipeline was started and before the UI has its own
  handler ends the pipeline and leaves the UI up, until the key is pressed;
* without a transform all sources run, whichever of them the sink names;
* the three ways to normalise a line agree on canonical lines only (`PathsAgree`):
  lines that have none of the names in `Misread`, and `Aliases` only beside the names
  they stand for. On others they differ. `{"latency": 1, "latency_ms": 2}` is 2 ms
  in the running program (`event/helpers.go:151`) and 1 ms for `ParseNormalized` and
  `NewFromRaw` (`parse/json.go:133`, `event/helpers.go:72`). `upstream` for the called
  service, `method` and `url` for the operation, numbers written as texts and the
  fields of ECS are understood by some and not by the others, or in another order;
* `docs/normalization-spec.md:87` lists `timestamp` and `datetime` among the names of
  the time of a line; the running program ignores both;
* the key bar (`tui/model.go:265`) and the help (`tui/model.go:287`) offer a filter
  under `/`, a key that ends the UI (section 2, Screens);
* on a terminal of eight lines or fewer the selected service may not be drawn;
* the running program ignores the service that a metric line names;
* nothing sends Screen 3 the events it would log, of which the key bar
  (`tui/model.go:269`) offers the details; a mark of a new alert lasts
  until the next tick; the sections `graph` and `anomaly` of the configuration are
  read and not used.

## 6 What is left out

* Of the UI: styles, colours, the spinner, the widths and wording of what is drawn,
  lines that a narrow terminal breaks; the filter, the rows of the log and its popup,
  which the program never reaches (section 2, Screens).
* Of the parsers: the template parser, which nothing but its test calls; the
  wording of messages and the transformer's change of their case; counters.
* Of the graph: latency windows, percentiles, error counts, and the readers
  (`Snapshot`, `Edges`, `Nodes`), which copy under the read lock.
* Of the resolvers: wildcard matching and the cleaning of container names.
* The goroutine in `DockerSource` that copies the stream into a pipe: it ends when
  the source closes the pipe.
* The digits of floating point in the detector, of which only the size of the rounding
  is kept; Prometheus counters, which only go up.
* The reading of the YAML file and the libraries behind the sources
  (`hpcloud/tail`, the docker client) and the UI (Bubble Tea): what they may do is
  a choice of the environment.
* Demo, benchmarks, dashboards.
* `Edge.ErrorRate()` in `Feed` is read after the lock is released; `Feed` has one
  caller and the sweeper writes to no edge, so that nobody writes meanwhile.

## 7 What could follow

1. An abstract graph ("the edges that were seen within their time to live") that
   `CallGraph` implements, and the composition of `CallGraph` with `Screens` in
   place of the free surroundings that `Screens` has now.
2. The readers of the graph, with latency windows, as operators.
