---------------------------- MODULE CycleDetector ----------------------------
(***************************************************************************)
(* cycleDetector (src/internal/graph/cycle.go): a depth-first search over  *)
(* a copy of the graph, started by CallGraph.Feed for each new edge, that  *)
(* reports the cycles its back edges close and that it does not know yet.  *)
(*                                                                         *)
(* The recursion of dfs is a stack of frames; Go visits the services and   *)
(* the out-edges of a service in any order.  While a search runs the       *)
(* sweeper may drop edges from the graph, not from the copy.               *)
(***************************************************************************)
EXTENDS Cycles

CONSTANTS Services,   (* numbers, in the order of the services' names *)
          Calls,      (* the edges that may appear                    *)
          MaxSearches (* bound: searches                              *)

ASSUME ServicesAssumption == /\ IsFiniteSet(Services) /\ Services \subseteq Nat
                             /\ Calls \subseteq Services \X Services
ASSUME SearchesAssumption == MaxSearches \in Nat

VARIABLES edges,       (* the edges of the graph now                        *)
          adjacency,   (* the edges of the copy                             *)
          trigger,     (* the new edge that started the last search         *)
          colors,      (* white, gray or black                              *)
          parent,      (* from where the search came to a service           *)
          stack,       (* the running calls of dfs, the innermost last      *)
          running,     (* whether a search is running                       *)
          result,      (* the cycles the last search has reported           *)
          knownCycles, (* the keys of all cycles ever reported              *)
          searches     (* how many searches there were                      *)

searchVars == <<colors, parent, stack, result, knownCycles>>
vars == <<edges, adjacency, trigger, running, searches, searchVars>>

(* The services of the copy: the ends of its edges. *)
Nodes == {e[1] : e \in adjacency} \cup {e[2] : e \in adjacency}
Top   == stack[Len(stack)]

Init == /\ edges = {}
        /\ adjacency = {}
        /\ trigger = <<>>
        /\ colors = [n \in Services |-> "white"]
        /\ parent = <<>>
        /\ stack = <<>>
        /\ running = FALSE
        /\ result = <<>>
        /\ knownCycles = {}
        /\ searches = 0

(* A mutation: the copy holds every edge in both directions. *)
StartUndirected(e) ==
  /\ ~running
  /\ searches < MaxSearches
  /\ e \notin edges
  /\ edges' = edges \cup {e}
  /\ adjacency' = edges' \cup {<<d[2], d[1]>> : d \in edges'}
  /\ trigger' = e
  /\ colors' = [n \in Services |-> "white"]
  /\ parent' = <<>>
  /\ result' = <<>>
  /\ running' = TRUE
  /\ searches' = searches + 1
  /\ UNCHANGED <<stack, knownCycles>>

(* Feed has met a new edge, has copied the graph and calls findNewCycles. *)
Start(e) == /\ ~running
            /\ searches < MaxSearches
            /\ e \notin edges
            /\ edges' = edges \cup {e}
            /\ adjacency' = edges'
            /\ trigger' = e
            /\ colors' = [n \in Services |-> "white"]
            /\ parent' = <<>>
            /\ result' = <<>>
            /\ running' = TRUE
            /\ searches' = searches + 1
            /\ UNCHANGED <<stack, knownCycles>>

(* The sweeper removes an edge; it removes several one after the other.   *)
Sweep(e) == /\ e \in edges
            /\ edges' = edges \ {e}
            /\ UNCHANGED <<adjacency, trigger, running, searches, searchVars>>

(* dfs begins for v, called below the calls in s. *)
Enter(v, s) ==
  /\ colors' = [colors EXCEPT ![v] = "gray"]
  /\ stack' = Append(s, [node |-> v,
                         todo |-> {u \in Services : <<v, u>> \in adjacency}])

(* findNewCycles comes to a service that is still white. *)
Root(n) == /\ running
           /\ stack = <<>>
           /\ n \in Nodes
           /\ colors[n] = "white"
           /\ Enter(n, stack)
           /\ UNCHANGED <<edges, adjacency, trigger, running, searches, parent,
                          result, knownCycles>>

(* The stack after the loop of dfs has taken up the edge to u. *)
Scanned(u) == [stack EXCEPT ![Len(stack)].todo = @ \ {u}]

(* A white service: the search goes down to it. *)
TreeEdge(u) == /\ colors[u] = "white"
               /\ parent' = [n \in DOMAIN parent \cup {u} |->
                               IF n = u THEN Top.node ELSE parent[n]]
               /\ Enter(u, Scanned(u))
               /\ UNCHANGED <<result, knownCycles>>

(* v, its parent, the parent of that, and so on; a service without a parent *)
(* is followed by itself, which is where the loop of extractCycle breaks.   *)
Ancestors(v) ==
  LET back[i \in 0 .. Cardinality(Services)] ==
        IF i = 0 THEN v
        ELSE IF back[i - 1] \in DOMAIN parent THEN parent[back[i - 1]]
        ELSE back[i - 1]
  IN  back

(* extractCycle: from backSrc along the parents to backDst, turned round.  *)
extractCycle(backSrc, backDst) ==
  LET back == Ancestors(backSrc)
      last == CHOOSE i \in 0 .. Cardinality(Services) :
                /\ back[i] = backDst \/ i = Cardinality(Services)
                /\ \A j \in 0 .. i - 1 : back[j] # backDst
  IN  [i \in 1 .. last + 1 |-> back[last + 1 - i]]

(* A mutation: an edge to any service seen before closes a cycle. *)
SeenClosesCycle(u) ==
  /\ colors[u] # "white"
  /\ LET cycle == extractCycle(Top.node, u)
     IN  /\ knownCycles' = knownCycles \cup {cycleKey(cycle)}
         /\ result' = Append(result, cycle)
  /\ stack' = Scanned(u)
  /\ UNCHANGED <<colors, parent>>

(* A gray service: a cycle, which is reported when it is not known. *)
BackEdge(u) ==
  /\ colors[u] = "gray"
  /\ LET cycle == extractCycle(Top.node, u)
     IN  IF cycleKey(cycle) \in knownCycles
           THEN UNCHANGED <<result, knownCycles>>
           ELSE /\ knownCycles' = knownCycles \cup {cycleKey(cycle)}
                /\ result' = Append(result, cycle)
  /\ stack' = Scanned(u)
  /\ UNCHANGED <<colors, parent>>

(* A black service: nothing. *)
CrossEdge(u) == /\ colors[u] = "black"
                /\ stack' = Scanned(u)
                /\ UNCHANGED <<colors, parent, result, knownCycles>>

Scan == /\ stack # <<>>
        /\ \E u \in Top.todo : TreeEdge(u) \/ BackEdge(u) \/ CrossEdge(u)
        /\ UNCHANGED <<edges, adjacency, trigger, running, searches>>

(* A mutation: a service is forgotten when its call of dfs returns. *)
LeaveWhite == /\ stack # <<>>
              /\ Top.todo = {}
              /\ colors' = [colors EXCEPT ![Top.node] = "white"]
              /\ stack' = SubSeq(stack, 1, Len(stack) - 1)
              /\ UNCHANGED <<edges, adjacency, trigger, running, searches, parent,
                             result, knownCycles>>

(* dfs returns. *)
Leave == /\ stack # <<>>
         /\ Top.todo = {}
         /\ colors' = [colors EXCEPT ![Top.node] = "black"]
         /\ stack' = SubSeq(stack, 1, Len(stack) - 1)
         /\ UNCHANGED <<edges, adjacency, trigger, running, searches, parent,
                        result, knownCycles>>

(* A mutation: the search is over when its first tree is. *)
FinishFirstTree == /\ running
                   /\ stack = <<>>
                   /\ \E n \in Nodes : colors[n] # "white"
                   /\ running' = FALSE
                   /\ UNCHANGED <<edges, adjacency, trigger, searches, searchVars>>

(* findNewCycles returns. *)
Finish == /\ running
          /\ stack = <<>>
          /\ \A n \in Nodes : colors[n] # "white"
          /\ running' = FALSE
          /\ UNCHANGED <<edges, adjacency, trigger, searches, searchVars>>

Search == (\E n \in Services : Root(n)) \/ Scan \/ Leave \/ Finish

Next == (\E e \in Calls : Start(e) \/ Sweep(e)) \/ Search

Spec     == Init /\ [][Next]_vars
FairSpec == Spec /\ WF_vars(Search)

-----------------------------------------------------------------------------
(* Properties *)

(* The types: the search stays on the edges and services it was given.     *)
TypeOK == /\ edges \subseteq Calls
          /\ adjacency \subseteq Calls
          /\ trigger \in Calls \cup {<<>>}
          /\ colors \in [Services -> {"white", "gray", "black"}]
          /\ DOMAIN parent \subseteq Services
          /\ \A n \in DOMAIN parent : parent[n] \in Services
          /\ \A i \in 1 .. Len(stack) : /\ stack[i].node \in Services
                                        /\ stack[i].todo \subseteq Services
          /\ running \in BOOLEAN
          /\ \A i \in 1 .. Len(result) : result[i] \in Seq(Services)
          /\ knownCycles \subseteq Seq(Services)
          /\ searches \in 0 .. MaxSearches

(* What a search reports is a cycle of the graph it was given: the parents *)
(* lead from the end of the back edge to its beginning, along edges and    *)
(* without meeting a service twice, although parent is never cleaned up.   *)
ReportsAreCycles ==
  \A i \in 1 .. Len(result) : IsCycle(result[i], adjacency)

(* The same cycle is not reported twice, wherever on it a search begins.   *)
NeverTwice ==
  [][Len(result') > Len(result) =>
       ~\E d \in knownCycles : SameCycle(result'[Len(result')], d)]_vars

(* After a search every service that lies on a cycle shares one that is    *)
(* known: no tangle of services goes unnoticed, in whatever order the      *)
(* search went, although a search does not find every cycle.               *)
NoTangleMissed ==
  ~running => \A n \in Nodes :
     LET knot == Knot(n, Nodes, adjacency)
     IN  n \in knot =>
           \E c \in knownCycles : /\ IsCycle(c, adjacency)
                                  /\ \A i \in 1 .. Len(c) : c[i] \in knot

(* Every search ends. *)
SearchEnds == running ~> ~running

(* The TUI marks the edge of a NewCycle event, which is the edge that      *)
(* started the search, as "part of a dependency cycle" (tui/model.go:302). *)
BlamedEdgeIsOnCycle ==
  result # <<>> => trigger[1] \in {trigger[2]} \cup Reach(trigger[2], Nodes, adjacency)
=============================================================================
