------------------------------ MODULE CallGraph ------------------------------
(***************************************************************************)
(* CallGraph (src/internal/graph/graph.go): the graph of who calls whom,   *)
(* fed by the sink's goroutine, swept of stale edges by a goroutine of its *)
(* own, with a bounded channel of events for the terminal UI.              *)
(*                                                                         *)
(* What Feed and sweepStale do under the lock is one step; what they do    *)
(* before and after it interleaves.  An edge is identified by source,      *)
(* destination and operation; of its fields the number of calls and        *)
(* LastSeen are kept.  Event times come from the logs, in any order.  The  *)
(* search for cycles is replaced by what CycleDetector shows it to find.   *)
(***************************************************************************)
EXTENDS Cycles

CONSTANTS Services,     (* numbers, in the order of the services' names     *)
          Keys,         (* edges that may appear: source, destination, operation *)
          EdgeTTL,      (* age at which an edge is stale                    *)
          EventBufSize, (* capacity of the channel of events                *)
          MaxTime,      (* bound: the clock                                 *)
          MaxCalls      (* bound: calls of Feed for an edge                 *)

ASSUME KeysAssumption  == /\ Services \subseteq Nat /\ IsFiniteSet(Services)
                          /\ \A k \in Keys : k[1] \in Services /\ k[2] \in Services
ASSUME SizesAssumption == /\ EdgeTTL \in Nat /\ MaxTime \in Nat /\ MaxCalls \in Nat
                          /\ EventBufSize \in Nat \ {0}

VARIABLES nodes,       (* the services of the graph                         *)
          edges,       (* the edges, by key                                 *)
          knownEdges,  (* keys of the edges reported as new                 *)
          knownCycles, (* keys of the cycles reported                       *)
          events,      (* contents of the channel of events                 *)
          gauges,      (* the gauges GraphNodes and GraphEdges              *)
          feed,        (* where Feed is, and its local variables            *)
          sweep,       (* where the sweeper is, and its local variables     *)
          now,         (* the clock                                         *)
          ctxDone,     (* whether the sweeper's context is cancelled        *)
          (* What has happened, for the properties.                         *)
          fed,         (* calls of Feed, by key                             *)
          swept,       (* calls that edges had counted when they were swept *)
          announced    (* NewEdge events less EdgeGone events, by key,      *)
                       (* sent or dropped                                   *)

graphVars == <<nodes, edges, knownEdges>>
histVars  == <<fed, swept, announced>>
vars == <<graphVars, knownCycles, events, gauges, feed, sweep, now, ctxDone,
          histVars>>

Ends(K)  == {k[1] : k \in K} \cup {k[2] : k \in K}
Pairs(K) == {<<k[1], k[2]>> : k \in K}

Idle    == [pc |-> "idle"]
Waiting == [pc |-> "waiting"]

Init == /\ nodes = {}
        /\ edges = <<>>
        /\ knownEdges = {}
        /\ knownCycles = {}
        /\ events = <<>>
        /\ gauges = [nodes |-> 0, edges |-> 0]
        /\ feed = Idle
        /\ sweep = Waiting
        /\ now = 0
        /\ ctxDone = FALSE
        /\ fed = [k \in Keys |-> 0]
        /\ swept = [k \in Keys |-> 0]
        /\ announced = [k \in Keys |-> 0]

(* Mutations: the send waits for room; the channel has no bound. *)
BlockingEmit(e) == Len(events) < EventBufSize /\ events' = Append(events, e)
UnboundedEmit(e) == events' = Append(events, e)

(* A send that drops the event when the channel is full. *)
emit(e) == events' = IF Len(events) < EventBufSize THEN Append(events, e)
                     ELSE events

-----------------------------------------------------------------------------
(* Feed *)

(* A mutation: an edge that is there is replaced by a call. *)
FreshlyCalled(k, ts) == [calls |-> 1, lastSeen |-> ts]

(* The edge k after a call with the time ts. *)
Called(k, ts) == [calls    |-> 1 + IF k \in DOMAIN edges THEN edges[k].calls ELSE 0,
                  lastSeen |-> ts]

(* What Feed does under the lock. *)
FeedLocked(k, ts) ==
  /\ feed.pc = "idle"
  /\ fed[k] < MaxCalls
  /\ edges' = [x \in DOMAIN edges \cup {k} |-> IF x = k THEN Called(k, ts) ELSE edges[x]]
  /\ nodes' = nodes \cup {k[1], k[2]}
  /\ knownEdges' = knownEdges \cup {k}
  /\ feed' = [pc |-> IF k \in knownEdges THEN "gauges" ELSE "newEdge", key |-> k,
              adj |-> Pairs(DOMAIN edges'),
              nodes |-> Cardinality(nodes'), edges |-> Cardinality(DOMAIN edges')]
  /\ fed' = [fed EXCEPT ![k] = @ + 1]
  /\ UNCHANGED <<knownCycles, events, gauges, sweep, now, ctxDone, swept, announced>>

FeedEmitsEdge ==
  /\ feed.pc = "newEdge"
  /\ emit([type |-> "NewEdge", key |-> feed.key])
  /\ announced' = [announced EXCEPT ![feed.key] = @ + 1]
  /\ feed' = [feed EXCEPT !.pc = "cycles"]
  /\ UNCHANGED <<graphVars, knownCycles, gauges, sweep, now, ctxDone, fed, swept>>

(* findNewCycles, over the copy made under the lock: some of the cycles it *)
(* does not know, and one at least if it knows none.  They are sent one    *)
(* after the other; the order of the sends is the search's.                *)
FeedFindsCycles ==
  /\ feed.pc = "cycles"
  /\ LET found == CyclesAmong(Services, feed.adj)
     IN  \E new \in SUBSET (found \ knownCycles) :
           /\ found # {} => found \cap (knownCycles \cup new) # {}
           /\ knownCycles' = knownCycles \cup new
           /\ feed' = [pc |-> "newCycles", key |-> feed.key, new |-> new,
                       nodes |-> feed.nodes, edges |-> feed.edges]
  /\ UNCHANGED <<graphVars, events, gauges, sweep, now, ctxDone, histVars>>

FeedEmitsCycle ==
  /\ feed.pc = "newCycles"
  /\ \E c \in feed.new :
       /\ emit([type |-> "NewCycle", key |-> feed.key, cycle |-> c])
       /\ feed' = [feed EXCEPT !.new = @ \ {c}]
  /\ UNCHANGED <<graphVars, knownCycles, gauges, sweep, now, ctxDone, histVars>>

(* The gauges get the counts taken under the lock; Feed returns. *)
FeedSetsGauges ==
  /\ feed.pc = "gauges" \/ (feed.pc = "newCycles" /\ feed.new = {})
  /\ gauges' = [nodes |-> feed.nodes, edges |-> feed.edges]
  /\ feed' = Idle
  /\ UNCHANGED <<graphVars, knownCycles, events, sweep, now, ctxDone, histVars>>

-----------------------------------------------------------------------------
(* The sweeper *)

(* The ticker fires; the deadline is computed before the lock is taken. *)
SweepStarts == /\ sweep.pc = "waiting"
               /\ sweep' = [pc |-> "lock", deadline |-> now - EdgeTTL]
               /\ UNCHANGED <<graphVars, knownCycles, events, gauges, feed, now,
                              ctxDone, histVars>>

(* A mutation: an edge is stale at the deadline already. *)
StaleAtDeadline(k) == edges[k].lastSeen <= sweep.deadline

Stale(k) == edges[k].lastSeen < sweep.deadline

(* A mutation: the swept edges stay known. *)
SweepKeepsKnown ==
  /\ sweep.pc = "lock"
  /\ LET gone == {k \in DOMAIN edges : Stale(k)}
     IN  /\ edges' = [k \in DOMAIN edges \ gone |-> edges[k]]
         /\ nodes' = Ends(DOMAIN edges')
         /\ sweep' = [pc |-> "gone", gone |-> gone]
         /\ swept' = [k \in Keys |-> swept[k] + IF k \in gone THEN edges[k].calls ELSE 0]
  /\ UNCHANGED <<knownEdges, knownCycles, events, gauges, feed, now, ctxDone,
                 fed, announced>>

(* What sweepStale does under the lock. *)
SweepLocked ==
  /\ sweep.pc = "lock"
  /\ LET gone == {k \in DOMAIN edges : Stale(k)}
     IN  /\ edges' = [k \in DOMAIN edges \ gone |-> edges[k]]
         /\ knownEdges' = knownEdges \ gone
         /\ nodes' = Ends(DOMAIN edges')
         /\ sweep' = [pc |-> "gone", gone |-> gone]
         /\ swept' = [k \in Keys |-> swept[k] + IF k \in gone THEN edges[k].calls ELSE 0]
  /\ UNCHANGED <<knownCycles, events, gauges, feed, now, ctxDone, fed, announced>>

SweepEmits ==
  /\ sweep.pc = "gone"
  /\ \E k \in sweep.gone :
       /\ emit([type |-> "EdgeGone", key |-> k])
       /\ announced' = [announced EXCEPT ![k] = @ - 1]
       /\ sweep' = [sweep EXCEPT !.gone = @ \ {k}]
  /\ UNCHANGED <<graphVars, knownCycles, gauges, feed, now, ctxDone, fed, swept>>

SweepEnds == /\ sweep.pc = "gone" /\ sweep.gone = {}
             /\ sweep' = Waiting
             /\ UNCHANGED <<graphVars, knownCycles, events, gauges, feed, now,
                            ctxDone, histVars>>

SweeperStops == /\ sweep.pc = "waiting"
                /\ ctxDone
                /\ sweep' = [pc |-> "stopped"]
                /\ UNCHANGED <<graphVars, knownCycles, events, gauges, feed, now,
                               ctxDone, histVars>>

-----------------------------------------------------------------------------
(* The UI takes an event, time passes, the context is cancelled. *)
Consume == /\ events # <<>>
           /\ events' = Tail(events)
           /\ UNCHANGED <<graphVars, knownCycles, gauges, feed, sweep, now,
                          ctxDone, histVars>>

Tick == /\ now < MaxTime
        /\ now' = now + 1
        /\ UNCHANGED <<graphVars, knownCycles, events, gauges, feed, sweep,
                       ctxDone, histVars>>

Cancel == /\ ~ctxDone
          /\ ctxDone' = TRUE
          /\ UNCHANGED <<graphVars, knownCycles, events, gauges, feed, sweep,
                         now, histVars>>

FeedStep  == FeedEmitsEdge \/ FeedFindsCycles \/ FeedEmitsCycle \/ FeedSetsGauges
SweepStep == SweepStarts \/ SweepLocked \/ SweepEmits \/ SweepEnds \/ SweeperStops

Next == \/ \E k \in Keys, ts \in 0 .. MaxTime : FeedLocked(k, ts)
        \/ FeedStep
        \/ SweepStep
        \/ Consume \/ Tick \/ Cancel

Spec == Init /\ [][Next]_vars

(* Feed and the sweeper go on; nobody makes the UI take events.            *)
FairSpec == Spec /\ WF_vars(FeedStep) /\ WF_vars(SweepStep)

-----------------------------------------------------------------------------
(* Properties *)

GraphEvents == [type : {"NewEdge", "EdgeGone"}, key : Keys]
               \cup [type : {"NewCycle"}, key : Keys, cycle : Seq(Services)]

FeedStates ==
  {Idle}
  \cup [pc : {"newEdge", "cycles", "gauges"}, key : Keys, adj : SUBSET (Services \X Services),
        nodes : Nat, edges : Nat]
  \cup [pc : {"newCycles"}, key : Keys, new : SUBSET Seq(Services), nodes : Nat, edges : Nat]

SweepStates == [pc : {"waiting", "stopped"}]
               \cup [pc : {"lock"}, deadline : Int]
               \cup [pc : {"gone"}, gone : SUBSET Keys]

(* The types, and the capacity of the channel of events.                   *)
TypeOK == /\ nodes \subseteq Services
          /\ DOMAIN edges \subseteq Keys /\ IsFiniteSet(DOMAIN edges)
          /\ edges \in [DOMAIN edges -> [calls : Nat, lastSeen : 0 .. MaxTime]]
          /\ knownEdges \subseteq Keys
          /\ knownCycles \subseteq Seq(Services)
          /\ events \in Seq(GraphEvents) /\ Len(events) <= EventBufSize
          /\ gauges \in [nodes : Nat, edges : Nat]
          /\ feed \in FeedStates
          /\ sweep \in SweepStates
          /\ now \in 0 .. MaxTime
          /\ ctxDone \in BOOLEAN
          /\ fed \in [Keys -> Nat] /\ swept \in [Keys -> Nat] /\ announced \in [Keys -> Int]

(* Feed and the sweeper, whatever their order, leave no service without an *)
(* edge, no edge without its services, and an edge that was swept is new   *)
(* when it is met again.                                                   *)
Consistent == nodes = Ends(DOMAIN edges) /\ knownEdges = DOMAIN edges

(* For each edge the NewEdge and EdgeGone events alternate in number: who  *)
(* gets them all knows which edges there are, but for the events that Feed *)
(* and the sweeper still hold.                                             *)
Holds(b) == IF b THEN 1 ELSE 0
Announced ==
  \A k \in Keys :
    announced[k] + Holds(feed.pc = "newEdge" /\ feed.key = k)
                 - Holds(sweep.pc = "gone" /\ k \in sweep.gone)
      = Holds(k \in DOMAIN edges)

(* No call is lost or counted twice: what Feed was called for is counted   *)
(* by the edge or by the edges of the same key swept before it.            *)
CallsConserved ==
  \A k \in Keys :
    fed[k] = swept[k] + IF k \in DOMAIN edges THEN edges[k].calls ELSE 0

(* An edge goes only when it has not been seen for EdgeTTL, also if it was *)
(* seen between the sweeper's look at the clock and its lock.              *)
FreshEdgesStay ==
  [][\A k \in DOMAIN edges \ DOMAIN edges' : edges[k].lastSeen < now - EdgeTTL]_vars

(* Feed returns although nobody takes events from the full channel.        *)
FeedReturns == feed.pc # "idle" ~> feed.pc = "idle"

(* A stale edge goes or is seen again, unless the sweeper was stopped,     *)
(* although nobody takes events.                                           *)
StaleEdgesGo ==
  \A k \in Keys :
    (k \in DOMAIN edges /\ edges[k].lastSeen < now - EdgeTTL) ~>
      \/ k \notin DOMAIN edges
      \/ edges[k].lastSeen >= now - EdgeTTL
      \/ ctxDone

(* metrics.go:34, "Current number of edges in the service graph": when     *)
(* neither Feed nor the sweeper is at work, the gauge has that number.     *)
GaugeIsCurrent ==
  feed.pc = "idle" /\ sweep.pc = "waiting" => gauges.edges = Cardinality(DOMAIN edges)
=============================================================================
