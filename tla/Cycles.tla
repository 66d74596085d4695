------------------------------- MODULE Cycles -------------------------------
(***************************************************************************)
(* Cycles of a service graph.  Services are numbers, in the order of their *)
(* names; a cycle is the sequence of its services, each once, without the  *)
(* return to the first that cycle.go appends.                              *)
(***************************************************************************)
EXTENDS Integers, Sequences, FiniteSets

(* The service after position i of a cycle. *)
Following(c, i) == c[IF i = Len(c) THEN 1 ELSE i + 1]

Follows(c, E) == \A i \in 1 .. Len(c) : <<c[i], Following(c, i)>> \in E
Distinct(c)   == \A i, j \in 1 .. Len(c) : c[i] = c[j] => i = j

(* c is a cycle of the graph with the edges E. *)
IsCycle(c, E) == Len(c) > 0 /\ Distinct(c) /\ Follows(c, E)

(* c turned so that it begins at position k. *)
Turn(c, k) == [i \in 1 .. Len(c) |-> c[((k + i - 2) % Len(c)) + 1]]

SameCycle(c, d) == \E k \in 1 .. Len(c) : d = Turn(c, k)

(* A mutation: a cycle is known by the order in which it was found. *)
UnturnedKey(cycle) == cycle

(* cycleKey: the cycle, turned to begin at the smallest of its services.   *)
cycleKey(cycle) ==
  LET minIdx == CHOOSE k \in 1 .. Len(cycle) :
                  \A i \in 1 .. Len(cycle) : cycle[k] <= cycle[i]
  IN  Turn(cycle, minIdx)

(* All cycles among the services N, by their keys. *)
CyclesAmong(N, E) ==
  {c \in UNION {[1 .. n -> N] : n \in 1 .. Cardinality(N)} :
     IsCycle(c, E) /\ \A i \in 1 .. Len(c) : c[1] <= c[i]}

Successors(S, E) == {e[2] : e \in {d \in E : d[1] \in S}}

(* The services that m reaches by at least one and at most n + 1 edges.    *)
Within(m, N, E) ==
  LET within[n \in 0 .. Cardinality(N)] ==
        IF n = 0 THEN Successors({m}, E)
        ELSE within[n - 1] \cup Successors(within[n - 1], E)
  IN  within

(* The services that m reaches by one or more edges of E. *)
Reach(m, N, E) == Within(m, N, E)[Cardinality(N)]

(* The services that lie on a common closed walk with m. *)
Knot(m, N, E) == {n \in Reach(m, N, E) : m \in Reach(n, N, E)}
=============================================================================
