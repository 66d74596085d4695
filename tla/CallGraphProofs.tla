-------------------------- MODULE CallGraphProofs --------------------------
(***************************************************************************)
(* Proofs about CallGraph, for every set of services and of edges, every   *)
(* age limit, every capacity of the channel and every bound.               *)
(***************************************************************************)
EXTENDS CallGraph, FiniteSetTheorems, TLAPS

USE DEF graphVars, histVars

(* What emit does to the channel: it keeps its type and its bound. *)
LEMMA EmitFacts ==
  ASSUME TypeOK, NEW e \in GraphEvents, emit(e)
  PROVE  events' \in Seq(GraphEvents) /\ Len(events') <= EventBufSize
<1> USE SizesAssumption DEF TypeOK
<1>1. CASE Len(events) < EventBufSize
  <2>1. events' = Append(events, e)
    BY <1>1 DEF emit
  <2>2. /\ Append(events, e) \in Seq(GraphEvents)
        /\ Len(Append(events, e)) = Len(events) + 1
    OBVIOUS
  <2>3. Len(events) \in Nat
    OBVIOUS
  <2> QED
    BY <1>1, <2>1, <2>2, <2>3
<1>2. CASE ~(Len(events) < EventBufSize)
  BY <1>2 DEF emit
<1> QED
  BY <1>1, <1>2

(* A cycle that is found is a sequence of services. *)
LEMMA CyclesAreSequences ==
  ASSUME NEW E
  PROVE  CyclesAmong(Services, E) \subseteq Seq(Services)
<1>1. Cardinality(Services) \in Nat
  BY KeysAssumption, FS_CardinalityType
<1>2. ASSUME NEW n \in 1 .. Cardinality(Services), NEW c \in [1 .. n -> Services]
      PROVE  c \in Seq(Services)
  BY <1>1
<1> QED
  BY <1>2 DEF CyclesAmong

(* What Feed does to the edges: one is added or changed. *)
LEMMA FeedFacts ==
  ASSUME TypeOK, NEW k \in Keys, NEW ts \in 0 .. MaxTime, FeedLocked(k, ts)
  PROVE  /\ DOMAIN edges' = DOMAIN edges \cup {k}
         /\ edges' \in [DOMAIN edges \cup {k} -> [calls : Nat, lastSeen : 0 .. MaxTime]]
         /\ edges'[k] = Called(k, ts)
         /\ \A x \in DOMAIN edges \ {k} : edges'[x] = edges[x]
         /\ IsFiniteSet(DOMAIN edges')
<1>1. edges' = [x \in DOMAIN edges \cup {k} |-> IF x = k THEN Called(k, ts) ELSE edges[x]]
  BY DEF FeedLocked
<1>2. Called(k, ts) \in [calls : Nat, lastSeen : 0 .. MaxTime]
  BY DEF Called, TypeOK
<1>3. \A x \in DOMAIN edges : edges[x] \in [calls : Nat, lastSeen : 0 .. MaxTime]
  BY DEF TypeOK
<1>4. IsFiniteSet(DOMAIN edges \cup {k})
  BY FS_AddElement DEF TypeOK
<1> QED
  BY <1>1, <1>2, <1>3, <1>4

(* What a sweep does to the edges: those that are stale go. *)
LEMMA SweepFacts ==
  ASSUME TypeOK, SweepLocked
  PROVE  \E gone \in SUBSET DOMAIN edges :
           /\ gone = {k \in DOMAIN edges : Stale(k)}
           /\ DOMAIN edges' = DOMAIN edges \ gone
           /\ edges' \in [DOMAIN edges \ gone -> [calls : Nat, lastSeen : 0 .. MaxTime]]
           /\ \A k \in DOMAIN edges \ gone : edges'[k] = edges[k]
           /\ IsFiniteSet(DOMAIN edges')
           /\ knownEdges' = knownEdges \ gone
           /\ nodes' = Ends(DOMAIN edges')
           /\ sweep' = [pc |-> "gone", gone |-> gone]
           /\ swept' = [k \in Keys |-> swept[k] + IF k \in gone THEN edges[k].calls ELSE 0]
<1> DEFINE gone == {k \in DOMAIN edges : Stale(k)}
<1>1. /\ edges' = [k \in DOMAIN edges \ gone |-> edges[k]]
      /\ knownEdges' = knownEdges \ gone
      /\ nodes' = Ends(DOMAIN edges')
      /\ sweep' = [pc |-> "gone", gone |-> gone]
      /\ swept' = [k \in Keys |-> swept[k] + IF k \in gone THEN edges[k].calls ELSE 0]
  BY DEF SweepLocked
<1>2. gone \in SUBSET DOMAIN edges
  OBVIOUS
<1> HIDE DEF gone
<1>3. \A k \in DOMAIN edges : edges[k] \in [calls : Nat, lastSeen : 0 .. MaxTime]
  BY DEF TypeOK
<1>4. IsFiniteSet(DOMAIN edges \ gone)
  BY FS_Difference DEF TypeOK
<1>5. /\ DOMAIN edges' = DOMAIN edges \ gone
      /\ edges' \in [DOMAIN edges \ gone -> [calls : Nat, lastSeen : 0 .. MaxTime]]
      /\ \A k \in DOMAIN edges \ gone : edges'[k] = edges[k]
  BY <1>1, <1>3
<1>6. gone = {k \in DOMAIN edges : Stale(k)}
  BY DEF gone
<1> QED
  BY <1>1, <1>2, <1>4, <1>5, <1>6

-----------------------------------------------------------------------------
(* Types *)

(* Ends and Pairs of a set of edges are services, and pairs of services. *)
LEMMA EndsAreServices ==
  ASSUME NEW K \in SUBSET Keys
  PROVE  Ends(K) \subseteq Services /\ Pairs(K) \subseteq Services \X Services
BY KeysAssumption DEF Ends, Pairs

(* The types hold at first. *)
LEMMA InitTypes == Init => TypeOK
<1> SUFFICES ASSUME Init PROVE TypeOK
  OBVIOUS
<1> USE SizesAssumption DEF Init
<1>1. DOMAIN edges = {} /\ IsFiniteSet(DOMAIN edges)
  BY FS_EmptySet
<1>2. edges \in [DOMAIN edges -> [calls : Nat, lastSeen : 0 .. MaxTime]]
  BY <1>1
<1>3. events \in Seq(GraphEvents) /\ Len(events) <= EventBufSize
  OBVIOUS
<1>4. feed \in FeedStates
  BY DEF FeedStates
<1>5. sweep \in SweepStates
  BY DEF SweepStates, Waiting
<1>6. gauges \in [nodes : Nat, edges : Nat] /\ now \in 0 .. MaxTime
  OBVIOUS
<1>7. fed \in [Keys -> Nat] /\ swept \in [Keys -> Nat] /\ announced \in [Keys -> Int]
  OBVIOUS
<1>8. ctxDone \in BOOLEAN
  BY Zenon DEF Init
<1> QED
  BY <1>1, <1>2, <1>3, <1>4, <1>5, <1>6, <1>7, <1>8 DEF TypeOK

(* Every step keeps the types. *)
LEMMA StepTypes == TypeOK /\ [Next]_vars => TypeOK'
<1> SUFFICES ASSUME TypeOK, [Next]_vars PROVE TypeOK'
  OBVIOUS
<1>1. ASSUME NEW k \in Keys, NEW ts \in 0 .. MaxTime, FeedLocked(k, ts) PROVE TypeOK'
  <2>1. /\ DOMAIN edges' = DOMAIN edges \cup {k}
        /\ edges' \in [DOMAIN edges' -> [calls : Nat, lastSeen : 0 .. MaxTime]]
        /\ IsFiniteSet(DOMAIN edges')
    BY <1>1, FeedFacts
  <2>2. DOMAIN edges' \in SUBSET Keys
    BY <2>1 DEF TypeOK
  <2>3. nodes' \subseteq Services /\ knownEdges' \subseteq Keys
    BY <1>1, KeysAssumption DEF FeedLocked, TypeOK
  <2>4. Cardinality(nodes') \in Nat /\ Cardinality(DOMAIN edges') \in Nat
    BY <2>1, <2>3, KeysAssumption, FS_Subset, FS_CardinalityType
  <2>5. feed' \in FeedStates
    <3>1. Pairs(DOMAIN edges') \in SUBSET (Services \X Services)
      BY <2>2, EndsAreServices
    <3>2. feed' = [pc |-> IF k \in knownEdges THEN "gauges" ELSE "newEdge", key |-> k,
                   adj |-> Pairs(DOMAIN edges'),
                   nodes |-> Cardinality(nodes'), edges |-> Cardinality(DOMAIN edges')]
      BY <1>1 DEF FeedLocked
    <3> HIDE DEF Pairs
    <3> QED
      BY <2>4, <3>1, <3>2 DEF FeedStates
  <2>6. fed' \in [Keys -> Nat]
    BY <1>1 DEF FeedLocked, TypeOK
  <2> QED
    BY <1>1, <2>1, <2>2, <2>3, <2>5, <2>6 DEF FeedLocked, TypeOK
<1>2. ASSUME FeedEmitsEdge PROVE TypeOK'
  <2>1. feed.key \in Keys /\ feed' \in FeedStates
    <3>1. feed \in [pc : {"newEdge", "cycles", "gauges"}, key : Keys,
                    adj : SUBSET (Services \X Services), nodes : Nat, edges : Nat]
      BY <1>2 DEF FeedEmitsEdge, TypeOK, FeedStates, Idle
    <3>2. feed' = [feed EXCEPT !.pc = "cycles"]
      BY <1>2 DEF FeedEmitsEdge
    <3> QED
      BY <3>1, <3>2 DEF FeedStates
  <2>2. events' \in Seq(GraphEvents) /\ Len(events') <= EventBufSize
    <3>1. [type |-> "NewEdge", key |-> feed.key] \in GraphEvents
      BY <2>1 DEF GraphEvents
    <3> QED
      BY <1>2, <3>1, EmitFacts DEF FeedEmitsEdge
  <2>3. announced' \in [Keys -> Int]
    BY <1>2, <2>1 DEF FeedEmitsEdge, TypeOK
  <2> QED
    BY <1>2, <2>1, <2>2, <2>3 DEF FeedEmitsEdge, TypeOK
<1>3. ASSUME FeedFindsCycles PROVE TypeOK'
  <2>1. PICK new \in SUBSET CyclesAmong(Services, feed.adj) :
          /\ knownCycles' = knownCycles \cup new
          /\ feed' = [pc |-> "newCycles", key |-> feed.key, new |-> new,
                      nodes |-> feed.nodes, edges |-> feed.edges]
    BY <1>3 DEF FeedFindsCycles
  <2>2. new \in SUBSET Seq(Services)
    BY CyclesAreSequences
  <2>3. feed.key \in Keys /\ feed.nodes \in Nat /\ feed.edges \in Nat
    BY <1>3 DEF FeedFindsCycles, TypeOK, FeedStates, Idle
  <2>4. feed' \in FeedStates
    BY <2>1, <2>2, <2>3 DEF FeedStates
  <2>5. knownCycles' \subseteq Seq(Services)
    BY <2>1, <2>2 DEF TypeOK
  <2> QED
    BY <1>3, <2>4, <2>5 DEF FeedFindsCycles, TypeOK
<1>4. ASSUME FeedEmitsCycle PROVE TypeOK'
  <2>1. PICK c \in feed.new : /\ emit([type |-> "NewCycle", key |-> feed.key, cycle |-> c])
                              /\ feed' = [feed EXCEPT !.new = @ \ {c}]
    BY <1>4 DEF FeedEmitsCycle
  <2>2. feed \in [pc : {"newCycles"}, key : Keys, new : SUBSET Seq(Services), nodes : Nat, edges : Nat]
    BY <1>4 DEF FeedEmitsCycle, TypeOK, FeedStates, Idle
  <2>3. feed' \in FeedStates
    BY <2>1, <2>2 DEF FeedStates
  <2>4. [type |-> "NewCycle", key |-> feed.key, cycle |-> c] \in GraphEvents
    BY <2>2 DEF GraphEvents
  <2>5. events' \in Seq(GraphEvents) /\ Len(events') <= EventBufSize
    BY <2>1, <2>4, EmitFacts
  <2> QED
    BY <1>4, <2>3, <2>5 DEF FeedEmitsCycle, TypeOK
<1>5. ASSUME FeedSetsGauges PROVE TypeOK'
  <2>1. gauges' \in [nodes : Nat, edges : Nat]
    BY <1>5 DEF FeedSetsGauges, TypeOK, FeedStates, Idle
  <2>2. feed' \in FeedStates
    BY <1>5 DEF FeedSetsGauges, FeedStates
  <2> QED
    BY <1>5, <2>1, <2>2 DEF FeedSetsGauges, TypeOK
<1>6. ASSUME SweepStarts PROVE TypeOK'
  <2>1. sweep' \in SweepStates
    BY <1>6, SizesAssumption DEF SweepStarts, TypeOK, SweepStates
  <2> QED
    BY <1>6, <2>1 DEF SweepStarts, TypeOK
<1>7. ASSUME SweepLocked PROVE TypeOK'
  <2>1. PICK gone \in SUBSET DOMAIN edges :
           /\ DOMAIN edges' = DOMAIN edges \ gone
           /\ edges' \in [DOMAIN edges \ gone -> [calls : Nat, lastSeen : 0 .. MaxTime]]
           /\ IsFiniteSet(DOMAIN edges')
           /\ knownEdges' = knownEdges \ gone
           /\ nodes' = Ends(DOMAIN edges')
           /\ sweep' = [pc |-> "gone", gone |-> gone]
           /\ swept' = [k \in Keys |-> swept[k] + IF k \in gone THEN edges[k].calls ELSE 0]
    BY <1>7, SweepFacts
  <2>2. DOMAIN edges' \in SUBSET Keys /\ gone \in SUBSET Keys /\ knownEdges' \subseteq Keys
    BY <2>1 DEF TypeOK
  <2>3. nodes' \subseteq Services
    BY <2>1, <2>2, EndsAreServices
  <2>4. sweep' \in SweepStates
    BY <2>1, <2>2 DEF SweepStates
  <2>5. swept' \in [Keys -> Nat]
    <3>1. \A k \in gone : edges[k].calls \in Nat
      BY <2>1 DEF TypeOK
    <3> QED
      BY <2>1, <3>1 DEF TypeOK
  <2> QED
    BY <1>7, <2>1, <2>2, <2>3, <2>4, <2>5 DEF SweepLocked, TypeOK
<1>8. ASSUME SweepEmits PROVE TypeOK'
  <2>1. PICK k \in sweep.gone : /\ emit([type |-> "EdgeGone", key |-> k])
                                /\ announced' = [announced EXCEPT ![k] = @ - 1]
                                /\ sweep' = [sweep EXCEPT !.gone = @ \ {k}]
    BY <1>8 DEF SweepEmits
  <2>2. sweep \in [pc : {"gone"}, gone : SUBSET Keys]
    BY <1>8 DEF SweepEmits, TypeOK, SweepStates
  <2>3. sweep' \in SweepStates /\ announced' \in [Keys -> Int]
    BY <2>1, <2>2 DEF SweepStates, TypeOK
  <2>4. [type |-> "EdgeGone", key |-> k] \in GraphEvents
    BY <2>2 DEF GraphEvents
  <2>5. events' \in Seq(GraphEvents) /\ Len(events') <= EventBufSize
    BY <2>1, <2>4, EmitFacts
  <2> QED
    BY <1>8, <2>3, <2>5 DEF SweepEmits, TypeOK
<1>9. ASSUME SweepEnds \/ SweeperStops PROVE TypeOK'
  <2>1. sweep' \in SweepStates
    BY <1>9 DEF SweepEnds, SweeperStops, SweepStates, Waiting
  <2> QED
    BY <1>9, <2>1 DEF SweepEnds, SweeperStops, TypeOK
<1>10. ASSUME Consume PROVE TypeOK'
  <2>1. events' \in Seq(GraphEvents) /\ Len(events') <= EventBufSize
    BY <1>10, SizesAssumption DEF Consume, TypeOK
  <2> QED
    BY <1>10, <2>1 DEF Consume, TypeOK
<1>11. ASSUME Tick \/ Cancel PROVE TypeOK'
  <2>1. now' \in 0 .. MaxTime
    BY <1>11, SizesAssumption DEF Tick, Cancel, TypeOK
  <2>2. ctxDone' \in BOOLEAN
    BY <1>11, Zenon DEF Tick, Cancel, TypeOK
  <2> QED
    BY <1>11, <2>1, <2>2 DEF Tick, Cancel, TypeOK
<1>12. ASSUME UNCHANGED vars PROVE TypeOK'
  BY <1>12 DEF vars, TypeOK
<1> QED
  BY <1>1, <1>2, <1>3, <1>4, <1>5, <1>6, <1>7, <1>8, <1>9, <1>10, <1>11, <1>12
     DEF Next, FeedStep, SweepStep

(* Every variable of the graph keeps its type, and the channel of events    *)
(* its capacity, however Feed, the sweeper and the UI interleave.           *)
THEOREM TypeCorrect == Spec => []TypeOK
<1>1. TypeOK /\ [Next]_vars => TypeOK'
  BY StepTypes
<1> QED
  BY InitTypes, <1>1, PTL DEF Spec

-----------------------------------------------------------------------------
(* Nodes, edges and known edges *)

(* Only what Feed and the sweeper do under the lock changes the graph.      *)
LEMMA WhoChangesTheGraph ==
  ASSUME [Next]_vars
  PROVE  \/ \E k \in Keys, ts \in 0 .. MaxTime : FeedLocked(k, ts)
         \/ SweepLocked
         \/ UNCHANGED <<graphVars, fed, swept>>
<1>1. CASE \E k \in Keys, ts \in 0 .. MaxTime : FeedLocked(k, ts)
  BY <1>1
<1>2. CASE FeedStep
  BY <1>2 DEF FeedStep, FeedEmitsEdge, FeedFindsCycles, FeedEmitsCycle, FeedSetsGauges
<1>3. CASE SweepStep
  BY <1>3 DEF SweepStep, SweepStarts, SweepEmits, SweepEnds, SweeperStops
<1>4. CASE Consume \/ Tick \/ Cancel
  BY <1>4 DEF Consume, Tick, Cancel
<1>5. CASE UNCHANGED vars
  BY <1>5 DEF vars
<1> QED
  BY <1>1, <1>2, <1>3, <1>4, <1>5 DEF Next

(* Every step keeps the three maps in agreement. *)
LEMMA StepConsistent == TypeOK /\ Consistent /\ [Next]_vars => Consistent'
<1> SUFFICES ASSUME TypeOK, Consistent, [Next]_vars PROVE Consistent'
  OBVIOUS
<1>1. ASSUME NEW k \in Keys, NEW ts \in 0 .. MaxTime, FeedLocked(k, ts) PROVE Consistent'
  <2>1. DOMAIN edges' = DOMAIN edges \cup {k}
    BY <1>1, FeedFacts
  <2>2. nodes' = nodes \cup {k[1], k[2]} /\ knownEdges' = knownEdges \cup {k}
    BY <1>1 DEF FeedLocked
  <2>3. Ends(DOMAIN edges \cup {k}) = Ends(DOMAIN edges) \cup {k[1], k[2]}
    BY DEF Ends
  <2> QED
    BY <2>1, <2>2, <2>3 DEF Consistent
<1>2. ASSUME SweepLocked PROVE Consistent'
  <2>1. PICK gone \in SUBSET DOMAIN edges :
           /\ DOMAIN edges' = DOMAIN edges \ gone
           /\ knownEdges' = knownEdges \ gone
           /\ nodes' = Ends(DOMAIN edges')
    BY <1>2, SweepFacts
  <2> QED
    BY <2>1 DEF Consistent
<1>3. ASSUME UNCHANGED graphVars PROVE Consistent'
  BY <1>3 DEF Consistent
<1> QED
  BY <1>1, <1>2, <1>3, WhoChangesTheGraph

(* No service is left without an edge and no edge without its services, and *)
(* an edge that was swept is new again: Feed and the sweeper take the lock  *)
(* at any time, with event times in any order.                              *)
THEOREM GraphIsConsistent == Spec => []Consistent
<1>1. Init => Consistent
  BY DEF Init, Consistent, Ends
<1>2. TypeOK /\ Consistent /\ [Next]_vars => Consistent'
  BY StepConsistent
<1> QED
  BY TypeCorrect, <1>1, <1>2, PTL DEF Spec

-----------------------------------------------------------------------------
(* Calls *)

(* Every step keeps the count of the calls. *)
LEMMA StepCalls == TypeOK /\ CallsConserved /\ [Next]_vars => CallsConserved'
<1> SUFFICES ASSUME TypeOK, CallsConserved, [Next]_vars PROVE CallsConserved'
  OBVIOUS
<1>1. ASSUME NEW k \in Keys, NEW ts \in 0 .. MaxTime, FeedLocked(k, ts)
      PROVE  CallsConserved'
  <2>1. /\ DOMAIN edges' = DOMAIN edges \cup {k}
        /\ edges'[k] = Called(k, ts)
        /\ \A x \in DOMAIN edges \ {k} : edges'[x] = edges[x]
    BY <1>1, FeedFacts
  <2>2. /\ fed' = [fed EXCEPT ![k] = @ + 1] /\ swept' = swept
        /\ fed \in [Keys -> Nat] /\ swept \in [Keys -> Nat]
    BY <1>1 DEF FeedLocked, TypeOK
  <2>3. edges'[k].calls = 1 + IF k \in DOMAIN edges THEN edges[k].calls ELSE 0
    BY <2>1 DEF Called
  <2>4. k \in DOMAIN edges => edges[k].calls \in Nat
    BY DEF TypeOK
  <2>5. fed'[k] = swept'[k] + edges'[k].calls
    BY <2>2, <2>3, <2>4 DEF CallsConserved
  <2>6. ASSUME NEW x \in Keys \ {k}
        PROVE  fed'[x] = swept'[x] + IF x \in DOMAIN edges' THEN edges'[x].calls ELSE 0
    BY <2>1, <2>2 DEF CallsConserved
  <2> QED
    BY <2>1, <2>5, <2>6 DEF CallsConserved
<1>2. ASSUME SweepLocked PROVE CallsConserved'
  <2>1. PICK gone \in SUBSET DOMAIN edges :
           /\ DOMAIN edges' = DOMAIN edges \ gone
           /\ \A k \in DOMAIN edges \ gone : edges'[k] = edges[k]
           /\ swept' = [k \in Keys |-> swept[k] + IF k \in gone THEN edges[k].calls ELSE 0]
    BY <1>2, SweepFacts
  <2>2. fed' = fed /\ fed \in [Keys -> Nat] /\ swept \in [Keys -> Nat]
    BY <1>2 DEF SweepLocked, TypeOK
  <2>3. ASSUME NEW k \in Keys
        PROVE  fed'[k] = swept'[k] + IF k \in DOMAIN edges' THEN edges'[k].calls ELSE 0
    <3>1. k \in DOMAIN edges => edges[k].calls \in Nat
      BY DEF TypeOK
    <3>2. fed[k] = swept[k] + IF k \in DOMAIN edges THEN edges[k].calls ELSE 0
      BY DEF CallsConserved
    <3>3. CASE k \in gone
      BY <2>1, <2>2, <3>1, <3>2, <3>3
    <3>4. CASE k \notin gone
      BY <2>1, <2>2, <3>1, <3>2, <3>4
    <3> QED
      BY <3>3, <3>4
  <2> QED
    BY <2>3 DEF CallsConserved
<1>3. ASSUME UNCHANGED <<graphVars, fed, swept>> PROVE CallsConserved'
  BY <1>3 DEF CallsConserved
<1> QED
  BY <1>1, <1>2, <1>3, WhoChangesTheGraph

(* No call of Feed is lost or counted twice, however often its edge is      *)
(* swept and comes back.                                                    *)
THEOREM NoCallIsLost == Spec => []CallsConserved
<1>1. Init => CallsConserved
  BY DEF Init, CallsConserved
<1>2. TypeOK /\ CallsConserved /\ [Next]_vars => CallsConserved'
  BY StepCalls
<1> QED
  BY TypeCorrect, <1>1, <1>2, PTL DEF Spec

-----------------------------------------------------------------------------
(* The age of the edges that go *)

(* The sweeper's deadline is EdgeTTL ago or more: it was computed before the *)
(* lock was taken, and the clock has only gone on.                          *)
DeadlineInv == sweep.pc = "lock" => sweep.deadline <= now - EdgeTTL

LEMMA StepDeadline == TypeOK /\ DeadlineInv /\ [Next]_vars => DeadlineInv'
<1> SUFFICES ASSUME TypeOK, DeadlineInv, [Next]_vars PROVE DeadlineInv'
  OBVIOUS
<1>1. ASSUME UNCHANGED <<sweep, now>> PROVE DeadlineInv'
  BY <1>1 DEF DeadlineInv
<1>2. ASSUME NEW k \in Keys, NEW ts \in 0 .. MaxTime, FeedLocked(k, ts)
      PROVE  UNCHANGED <<sweep, now>>
  BY <1>2 DEF FeedLocked
<1>3. ASSUME FeedStep PROVE UNCHANGED <<sweep, now>>
  BY <1>3 DEF FeedStep, FeedEmitsEdge, FeedFindsCycles, FeedEmitsCycle, FeedSetsGauges
<1>4. ASSUME SweepStarts PROVE DeadlineInv'
  <2>1. sweep'.deadline = now - EdgeTTL /\ now' = now
    BY <1>4 DEF SweepStarts
  <2> QED
    BY <2>1, SizesAssumption DEF DeadlineInv, TypeOK
<1>5. ASSUME SweepLocked \/ SweepEmits \/ SweepEnds \/ SweeperStops PROVE sweep'.pc # "lock"
  <2>1. CASE SweepLocked
    BY <2>1 DEF SweepLocked
  <2>2. CASE SweepEmits
    <3>1. sweep \in [pc : {"gone"}, gone : SUBSET Keys]
      BY <2>2 DEF SweepEmits, TypeOK, SweepStates
    <3> QED
      BY <2>2, <3>1 DEF SweepEmits
  <2>3. CASE SweepEnds \/ SweeperStops
    BY <2>3 DEF SweepEnds, SweeperStops, Waiting
  <2> QED
    BY <1>5, <2>1, <2>2, <2>3
<1>6. ASSUME Tick PROVE DeadlineInv'
  <2>1. now' = now + 1 /\ sweep' = sweep /\ now \in Int
    BY <1>6 DEF Tick, TypeOK
  <2>2. sweep.pc = "lock" => sweep.deadline \in Int
    BY DEF TypeOK, SweepStates
  <2> QED
    BY <2>1, <2>2, SizesAssumption DEF DeadlineInv
<1>7. ASSUME Consume \/ Cancel PROVE UNCHANGED <<sweep, now>>
  BY <1>7 DEF Consume, Cancel
<1>8. ASSUME UNCHANGED vars PROVE UNCHANGED <<sweep, now>>
  BY <1>8 DEF vars
<1> QED
  BY <1>1, <1>2, <1>3, <1>4, <1>5, <1>6, <1>7, <1>8 DEF Next, SweepStep, DeadlineInv

(* An edge goes only when it has not been seen for EdgeTTL, also if Feed    *)
(* has seen it between the sweeper's look at the clock and its lock.        *)
THEOREM FreshEdgesAreKept == Spec => FreshEdgesStay
<1> DEFINE Fresh == \A k \in DOMAIN edges \ DOMAIN edges' : edges[k].lastSeen < now - EdgeTTL
<1>1. TypeOK /\ DeadlineInv /\ [Next]_vars => [Fresh]_vars
  <2> SUFFICES ASSUME TypeOK, DeadlineInv, [Next]_vars PROVE Fresh
    OBVIOUS
  <2>1. ASSUME NEW k \in Keys, NEW ts \in 0 .. MaxTime, FeedLocked(k, ts) PROVE Fresh
    BY <2>1, FeedFacts
  <2>2. ASSUME SweepLocked PROVE Fresh
    <3>1. /\ DOMAIN edges \ DOMAIN edges' = {k \in DOMAIN edges : Stale(k)}
      BY <2>2, SweepFacts
    <3>2. sweep.pc = "lock" /\ sweep.deadline \in Int /\ sweep.deadline <= now - EdgeTTL
      BY <2>2 DEF SweepLocked, TypeOK, SweepStates, DeadlineInv
    <3>3. ASSUME NEW k \in DOMAIN edges, edges[k].lastSeen < sweep.deadline
          PROVE  edges[k].lastSeen < now - EdgeTTL
      <4>1. edges[k].lastSeen \in Int /\ now \in Int /\ EdgeTTL \in Int
        BY SizesAssumption DEF TypeOK
      <4> QED
        BY <3>2, <3>3, <4>1
    <3> QED
      BY <3>1, <3>3 DEF Stale
  <2>3. ASSUME UNCHANGED graphVars PROVE Fresh
    BY <2>3
  <2> QED
    BY <2>1, <2>2, <2>3, WhoChangesTheGraph
<1>2. Init => DeadlineInv
  BY DEF Init, Waiting, DeadlineInv
<1>3. TypeOK /\ DeadlineInv /\ [Next]_vars => DeadlineInv'
  BY StepDeadline
<1> QED
  BY TypeCorrect, <1>1, <1>2, <1>3, PTL DEF Spec, FreshEdgesStay

-----------------------------------------------------------------------------
(* Announcements *)

(* The announcement of k that Feed holds, and the one the sweeper holds.    *)
FeedHolds(k)  == Holds(feed.pc = "newEdge" /\ feed.key = k)
SweepHolds(k) == Holds(sweep.pc = "gone" /\ k \in sweep.gone)

(* Each of them is zero or one. *)
LEMMA HoldsFacts ==
  ASSUME NEW k
  PROVE  FeedHolds(k) \in 0 .. 1 /\ SweepHolds(k) \in 0 .. 1 /\ Holds(k \in DOMAIN edges) \in 0 .. 1
BY DEF FeedHolds, SweepHolds, Holds

(* Every step keeps the balance of the announcements. *)
LEMMA StepAnnounced == TypeOK /\ Consistent /\ Announced /\ [Next]_vars => Announced'
<1> SUFFICES ASSUME TypeOK, Consistent, Announced, [Next]_vars, NEW k \in Keys
             PROVE  announced'[k] + FeedHolds(k)' - SweepHolds(k)' = Holds(k \in DOMAIN edges)'
  BY DEF Announced, FeedHolds, SweepHolds
<1>1. announced[k] + FeedHolds(k) - SweepHolds(k) = Holds(k \in DOMAIN edges)
  BY DEF Announced, FeedHolds, SweepHolds
<1>2. announced \in [Keys -> Int] /\ announced[k] \in Int
  BY DEF TypeOK
<1>3. ASSUME NEW x \in Keys, NEW ts \in 0 .. MaxTime, FeedLocked(x, ts)
      PROVE  announced'[k] + FeedHolds(k)' - SweepHolds(k)' = Holds(k \in DOMAIN edges)'
  <2>1. DOMAIN edges' = DOMAIN edges \cup {x} /\ knownEdges = DOMAIN edges
    BY <1>3, FeedFacts DEF Consistent
  <2>2. announced' = announced /\ SweepHolds(k)' = SweepHolds(k) /\ FeedHolds(k) = 0
    BY <1>3 DEF FeedLocked, SweepHolds, FeedHolds, Holds
  <2>3. feed'.key = x /\ (feed'.pc = "newEdge" <=> x \notin DOMAIN edges)
    BY <1>3, <2>1 DEF FeedLocked
  <2>4. CASE k = x /\ x \notin DOMAIN edges
    <3>1. FeedHolds(k)' = 1 /\ Holds(k \in DOMAIN edges)' = 1 /\ Holds(k \in DOMAIN edges) = 0
      BY <2>1, <2>3, <2>4 DEF FeedHolds, Holds
    <3> QED
      BY <1>1, <1>2, <2>2, <3>1, HoldsFacts
  <2>5. CASE ~(k = x /\ x \notin DOMAIN edges)
    <3>1. FeedHolds(k)' = 0 /\ Holds(k \in DOMAIN edges)' = Holds(k \in DOMAIN edges)
      BY <2>1, <2>3, <2>5 DEF FeedHolds, Holds
    <3> QED
      BY <1>1, <1>2, <2>2, <3>1, HoldsFacts
  <2> QED
    BY <2>4, <2>5
<1>4. ASSUME FeedEmitsEdge
      PROVE  announced'[k] + FeedHolds(k)' - SweepHolds(k)' = Holds(k \in DOMAIN edges)'
  <2>1. /\ feed.pc = "newEdge" /\ feed' = [feed EXCEPT !.pc = "cycles"]
        /\ announced' = [announced EXCEPT ![feed.key] = @ + 1]
        /\ UNCHANGED <<sweep, edges>>
    BY <1>4 DEF FeedEmitsEdge
  <2>2. feed'.pc = "cycles"
    BY <2>1 DEF TypeOK, FeedStates, Idle
  <2>3. SweepHolds(k)' = SweepHolds(k) /\ Holds(k \in DOMAIN edges)' = Holds(k \in DOMAIN edges)
    BY <2>1 DEF SweepHolds, Holds
  <2>4. FeedHolds(k)' = 0 /\ announced'[k] = announced[k] + FeedHolds(k)
    BY <1>2, <2>1, <2>2 DEF FeedHolds, Holds
  <2> QED
    BY <1>1, <1>2, <2>3, <2>4, HoldsFacts
<1>5. ASSUME FeedFindsCycles \/ FeedEmitsCycle \/ FeedSetsGauges
      PROVE  announced'[k] + FeedHolds(k)' - SweepHolds(k)' = Holds(k \in DOMAIN edges)'
  <2>1. UNCHANGED <<sweep, edges, announced>> /\ feed.pc # "newEdge"
    BY <1>5 DEF FeedFindsCycles, FeedEmitsCycle, FeedSetsGauges
  <2>2. feed'.pc # "newEdge"
    <3>1. CASE FeedFindsCycles
      BY <3>1 DEF FeedFindsCycles
    <3>2. CASE FeedEmitsCycle
      <4>1. feed \in [pc : {"newCycles"}, key : Keys, new : SUBSET Seq(Services), nodes : Nat, edges : Nat]
        BY <3>2 DEF FeedEmitsCycle, TypeOK, FeedStates, Idle
      <4> QED
        BY <3>2, <4>1 DEF FeedEmitsCycle
    <3>3. CASE FeedSetsGauges
      BY <3>3 DEF FeedSetsGauges, Idle
    <3> QED
      BY <1>5, <3>1, <3>2, <3>3
  <2>3. /\ FeedHolds(k) = 0 /\ FeedHolds(k)' = 0 /\ SweepHolds(k)' = SweepHolds(k)
        /\ Holds(k \in DOMAIN edges)' = Holds(k \in DOMAIN edges)
    BY <2>1, <2>2 DEF FeedHolds, SweepHolds, Holds
  <2> QED
    BY <1>1, <2>1, <2>3
<1>6. ASSUME SweepLocked
      PROVE  announced'[k] + FeedHolds(k)' - SweepHolds(k)' = Holds(k \in DOMAIN edges)'
  <2>1. PICK gone \in SUBSET DOMAIN edges : /\ DOMAIN edges' = DOMAIN edges \ gone
                                            /\ sweep' = [pc |-> "gone", gone |-> gone]
    BY <1>6, SweepFacts
  <2>2. UNCHANGED <<feed, announced>> /\ sweep.pc = "lock"
    BY <1>6 DEF SweepLocked
  <2>3. /\ FeedHolds(k)' = FeedHolds(k) /\ SweepHolds(k) = 0
        /\ SweepHolds(k)' = Holds(k \in gone)
        /\ Holds(k \in DOMAIN edges)' = Holds(k \in DOMAIN edges) - Holds(k \in gone)
    BY <2>1, <2>2 DEF FeedHolds, SweepHolds, Holds
  <2>4. Holds(k \in gone) \in 0 .. 1
    BY DEF Holds
  <2> QED
    BY <1>1, <1>2, <2>2, <2>3, <2>4, HoldsFacts
<1>7. ASSUME SweepEmits
      PROVE  announced'[k] + FeedHolds(k)' - SweepHolds(k)' = Holds(k \in DOMAIN edges)'
  <2>1. PICK x \in sweep.gone : /\ announced' = [announced EXCEPT ![x] = @ - 1]
                                /\ sweep' = [sweep EXCEPT !.gone = @ \ {x}]
    BY <1>7 DEF SweepEmits
  <2>2. sweep \in [pc : {"gone"}, gone : SUBSET Keys]
    BY <1>7 DEF SweepEmits, TypeOK, SweepStates
  <2>3. UNCHANGED <<feed, edges>>
    BY <1>7 DEF SweepEmits
  <2>4. FeedHolds(k)' = FeedHolds(k) /\ Holds(k \in DOMAIN edges)' = Holds(k \in DOMAIN edges)
    BY <2>3 DEF FeedHolds, Holds
  <2>5. sweep'.pc = "gone" /\ sweep'.gone = sweep.gone \ {x}
    BY <2>1, <2>2
  <2>6. CASE k = x
    <3>1. announced'[k] = announced[k] - 1 /\ SweepHolds(k) = 1 /\ SweepHolds(k)' = 0
      BY <1>2, <2>1, <2>2, <2>5, <2>6 DEF SweepHolds, Holds
    <3> QED
      BY <1>1, <1>2, <2>4, <3>1, HoldsFacts
  <2>7. CASE k # x
    <3>1. announced'[k] = announced[k] /\ SweepHolds(k)' = SweepHolds(k)
      BY <1>2, <2>1, <2>2, <2>5, <2>7 DEF SweepHolds, Holds
    <3> QED
      BY <1>1, <2>4, <3>1
  <2> QED
    BY <2>6, <2>7
<1>8. ASSUME SweepStarts \/ SweepEnds \/ SweeperStops
      PROVE  announced'[k] + FeedHolds(k)' - SweepHolds(k)' = Holds(k \in DOMAIN edges)'
  <2>1. /\ UNCHANGED <<feed, edges, announced>> /\ sweep'.pc # "gone"
        /\ sweep.pc = "gone" => sweep.gone = {}
    BY <1>8 DEF SweepStarts, SweepEnds, SweeperStops, Waiting
  <2>2. /\ SweepHolds(k) = 0 /\ SweepHolds(k)' = 0 /\ FeedHolds(k)' = FeedHolds(k)
        /\ Holds(k \in DOMAIN edges)' = Holds(k \in DOMAIN edges)
    BY <2>1 DEF SweepHolds, FeedHolds, Holds
  <2> QED
    BY <1>1, <2>1, <2>2
<1>9. ASSUME Consume \/ Tick \/ Cancel \/ UNCHANGED vars
      PROVE  announced'[k] + FeedHolds(k)' - SweepHolds(k)' = Holds(k \in DOMAIN edges)'
  <2>1. UNCHANGED <<feed, edges, announced, sweep>>
    BY <1>9 DEF Consume, Tick, Cancel, vars
  <2>2. /\ SweepHolds(k)' = SweepHolds(k) /\ FeedHolds(k)' = FeedHolds(k)
        /\ Holds(k \in DOMAIN edges)' = Holds(k \in DOMAIN edges)
    BY <2>1 DEF SweepHolds, FeedHolds, Holds
  <2> QED
    BY <1>1, <2>1, <2>2
<1> QED
  BY <1>3, <1>4, <1>5, <1>6, <1>7, <1>8, <1>9 DEF Next, FeedStep, SweepStep

(* NewEdge and EdgeGone alternate in number for every edge: who gets them   *)
(* all knows the edges, but for what Feed and the sweeper still hold after  *)
(* they have released the lock.                                             *)
THEOREM AnnouncementsBalance == Spec => []Announced
<1>1. Init => Announced
  BY DEF Init, Idle, Waiting, Announced, Holds
<1>2. TypeOK /\ Consistent /\ Announced /\ [Next]_vars => Announced'
  BY StepAnnounced
<1> QED
  BY TypeCorrect, GraphIsConsistent, <1>1, <1>2, PTL DEF Spec
=============================================================================
