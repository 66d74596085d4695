---------------------------- MODULE CycleProofs ----------------------------
(***************************************************************************)
(* Proofs about Cycles and CycleDetector, for every set of services and    *)
(* every graph, in whatever order the search goes.                         *)
(***************************************************************************)
EXTENDS CycleDetector, FiniteSetTheorems, SequenceTheorems, WellFoundedInduction, TLAPS

USE DEF searchVars

-----------------------------------------------------------------------------
(* Induction, with a set in place of a predicate *)

(* A set of numbers has a least one. *)
LEMMA Least ==
  ASSUME NEW T \in SUBSET Nat, T # {}
  PROVE  \E m \in T : \A n \in T : ~(n < m)
<1>1. \E m \in T : \A n \in T : <<n, m>> \notin OpToRel(<, Nat)
  BY WFMin, NatLessThanWellFounded, Zenon
<1> QED
  BY <1>1, Zenon DEF OpToRel

(* A set with a number a and, up to b, with the next of each has all of a .. b. *)
LEMMA UpTo ==
  ASSUME NEW a \in Nat, NEW b \in Nat, NEW S, a \in S,
         \A n \in a .. b - 1 : n \in S => n + 1 \in S
  PROVE  \A n \in a .. b : n \in S
<1> DEFINE T == (a .. b) \ S
<1>1. SUFFICES ASSUME T # {} PROVE FALSE
  OBVIOUS
<1>2. T \in SUBSET Nat
  OBVIOUS
<1>3. PICK m \in T : \A n \in T : ~(n < m)
  BY <1>1, <1>2, Least
<1>4. m # a /\ m - 1 \in a .. b - 1 /\ m - 1 < m /\ (m - 1) + 1 = m
  BY <1>3
<1>5. m - 1 \in S
  BY <1>3, <1>4
<1> QED
  BY <1>3, <1>4, <1>5

(* g is what becomes of v when s is applied to it, up to N times. *)
Iterated(g, T, s, v, N) == /\ g \in [0 .. N -> T]
                           /\ g[0] = v /\ \A i \in 1 .. N : g[i] = s[g[i - 1]]

(* A function can be applied again and again. *)
LEMMA Iterates ==
  ASSUME NEW T, NEW s \in [T -> T], NEW v \in T, NEW N \in Nat
  PROVE  \E g : Iterated(g, T, s, v, N)
<1> DEFINE Good(g, n) == g[0] = v /\ \A i \in 1 .. n : g[i] = s[g[i - 1]]
           S == {n \in Nat : \E g \in [0 .. n -> T] : Good(g, n)}
<1>1. 0 \in S
  <2>1. [i \in 0 .. 0 |-> v] \in [0 .. 0 -> T] /\ Good([i \in 0 .. 0 |-> v], 0)
    OBVIOUS
  <2> QED
    BY <2>1
<1>2. ASSUME NEW n \in 0 .. N - 1, n \in S PROVE n + 1 \in S
  <2>1. PICK g \in [0 .. n -> T] : Good(g, n)
    BY <1>2
  <2> DEFINE h == [i \in 0 .. n + 1 |-> IF i = n + 1 THEN s[g[n]] ELSE g[i]]
  <2>2. h \in [0 .. n + 1 -> T] /\ h[0] = v
    BY <2>1
  <2>3. ASSUME NEW i \in 1 .. n + 1 PROVE h[i] = s[h[i - 1]]
    <3>1. i - 1 \in 0 .. n /\ h[i - 1] = g[i - 1]
      OBVIOUS
    <3>2. CASE i = n + 1
      BY <3>1, <3>2
    <3>3. CASE i # n + 1
      BY <2>1, <3>1, <3>3
    <3> QED
      BY <3>2, <3>3
  <2>4. Good(h, n + 1)
    BY <2>2, <2>3
  <2> QED
    BY <2>2, <2>4
<1> HIDE DEF S
<1>3. N \in S
  BY <1>1, <1>2, UpTo
<1>4. PICK g \in [0 .. N -> T] : Good(g, N)
  BY <1>3 DEF S
<1> QED
  BY <1>4 DEF Iterated

-----------------------------------------------------------------------------
(* Cycles *)

(* The position of a cycle of length n that is at position i when it is     *)
(* turned to begin at k.                                                    *)
Place(k, i, n) == IF k + i - 1 <= n THEN k + i - 1 ELSE k + i - 1 - n

(* Turn moves the services round, and every service has its place.          *)
LEMMA TurnFacts ==
  ASSUME NEW T, NEW c \in Seq(T), NEW k \in 1 .. Len(c)
  PROVE  /\ Turn(c, k) \in Seq(T) /\ Len(Turn(c, k)) = Len(c)
         /\ \A i \in 1 .. Len(c) : /\ Place(k, i, Len(c)) \in 1 .. Len(c)
                                   /\ Turn(c, k)[i] = c[Place(k, i, Len(c))]
         /\ \A j \in 1 .. Len(c) : \E i \in 1 .. Len(c) : Place(k, i, Len(c)) = j
<1> DEFINE n == Len(c)
<1>1. n \in Nat /\ n > 0 /\ k \in 1 .. n
  OBVIOUS
<1> HIDE DEF n
<1>2. ASSUME NEW i \in 1 .. n
      PROVE  /\ Place(k, i, n) \in 1 .. n
             /\ ((k + i - 2) % n) + 1 = Place(k, i, n)
  <2>1. k + i - 2 \in Nat /\ k + i - 2 < 2 * n
    BY <1>1
  <2>2. CASE k + i - 2 < n
    <3>1. (k + i - 2) % n = k + i - 2
      BY <1>1, <2>1, <2>2
    <3> QED
      BY <1>1, <2>2, <3>1 DEF Place
  <2>3. CASE k + i - 2 >= n
    <3>1. (k + i - 2) % n = k + i - 2 - n
      BY <1>1, <2>1, <2>3
    <3> QED
      BY <1>1, <2>3, <3>1 DEF Place
  <2> QED
    BY <2>1, <1>1, <2>2, <2>3
<1>3. Turn(c, k) = [i \in 1 .. n |-> c[((k + i - 2) % n) + 1]]
  BY DEF Turn, n
<1>4. \A i \in 1 .. n : Turn(c, k)[i] = c[Place(k, i, n)]
  BY <1>2, <1>3
<1>5. \A i \in 1 .. n : c[i] \in T
  BY DEF n
<1>6. Turn(c, k) \in [1 .. n -> T]
  BY <1>2, <1>3, <1>5
<1>7. Turn(c, k) \in Seq(T) /\ Len(Turn(c, k)) = n
  BY <1>1, <1>6
<1>8. ASSUME NEW j \in 1 .. n PROVE \E i \in 1 .. n : Place(k, i, n) = j
  <2>1. CASE j >= k
    <3>1. j - k + 1 \in 1 .. n /\ Place(k, j - k + 1, n) = j
      BY <1>1, <2>1 DEF Place
    <3> QED
      BY <3>1
  <2>2. CASE j < k
    <3>1. j - k + 1 + n \in 1 .. n /\ Place(k, j - k + 1 + n, n) = j
      BY <1>1, <2>2 DEF Place
    <3> QED
      BY <3>1
  <2> QED
    BY <1>1, <2>1, <2>2
<1> QED
  BY <1>2, <1>4, <1>7, <1>8 DEF n

(* What follows a service follows it when the cycle is turned.              *)
LEMMA TurnFollows ==
  ASSUME NEW T, NEW c \in Seq(T), NEW k \in 1 .. Len(c), NEW i \in 1 .. Len(c)
  PROVE  Following(Turn(c, k), i) = Following(c, Place(k, i, Len(c)))
<1> DEFINE n == Len(c)
           next(j) == IF j = n THEN 1 ELSE j + 1
<1>1. n \in Nat /\ n > 0 /\ k \in 1 .. n /\ i \in 1 .. n
  OBVIOUS
<1>2. Len(Turn(c, k)) = n /\ \A j \in 1 .. n : Turn(c, k)[j] = c[Place(k, j, n)]
  BY TurnFacts
<1>3. Following(Turn(c, k), i) = Turn(c, k)[next(i)]
  BY <1>2 DEF Following
<1>4. Following(c, Place(k, i, n)) = c[next(Place(k, i, n))]
  BY DEF Following
<1> HIDE DEF n
<1>5. next(i) \in 1 .. n /\ Place(k, next(i), n) = next(Place(k, i, n))
  BY <1>1 DEF Place
<1> QED
  BY <1>2, <1>3, <1>4, <1>5 DEF n

(* A cycle is one however it is turned. *)
LEMMA TurnIsCycle ==
  ASSUME NEW T, NEW c \in Seq(T), NEW k \in 1 .. Len(c), NEW E, IsCycle(c, E)
  PROVE  IsCycle(Turn(c, k), E)
<1> DEFINE n == Len(c)
           d == Turn(c, k)
<1>1. /\ Len(d) = n /\ n \in Nat /\ n > 0
      /\ \A i \in 1 .. n : Place(k, i, n) \in 1 .. n /\ d[i] = c[Place(k, i, n)]
  BY TurnFacts
<1>2. \A i \in 1 .. n : Following(d, i) = Following(c, Place(k, i, n))
  BY TurnFollows
<1>3. Distinct(d)
  <2> SUFFICES ASSUME NEW i \in 1 .. n, NEW j \in 1 .. n, d[i] = d[j] PROVE i = j
    BY <1>1 DEF Distinct
  <2>1. Place(k, i, n) = Place(k, j, n)
    BY <1>1 DEF IsCycle, Distinct
  <2>2. k \in 1 .. n
    OBVIOUS
  <2> HIDE DEF n, d
  <2> QED
    BY <1>1, <2>1, <2>2 DEF Place
<1>4. Follows(d, E)
  BY <1>1, <1>2 DEF Follows, IsCycle
<1> QED
  BY <1>1, <1>3, <1>4 DEF IsCycle

(* Among the places of a sequence of services one holds a smallest. *)
LEMMA Smallest ==
  ASSUME NEW c \in Seq(Services), Len(c) > 0
  PROVE  \E k \in 1 .. Len(c) : \A i \in 1 .. Len(c) : c[k] <= c[i]
<1> DEFINE T == {c[i] : i \in 1 .. Len(c)}
<1>1. Len(c) \in Nat /\ \A i \in 1 .. Len(c) : c[i] \in Services
  OBVIOUS
<1>2. \A i \in 1 .. Len(c) : c[i] \in Nat
  BY <1>1, ServicesAssumption
<1>3. c[1] \in T
  BY <1>1
<1>4. T \in SUBSET Nat /\ T # {}
  BY <1>2, <1>3
<1>5. PICK x \in T : \A y \in T : ~(y < x)
  BY <1>4, Least
<1>6. PICK k \in 1 .. Len(c) : x = c[k]
  BY <1>5
<1>7. ASSUME NEW i \in 1 .. Len(c) PROVE c[k] <= c[i]
  <2>1. c[i] \in T
    OBVIOUS
  <2>2. ~(c[i] < c[k])
    BY <1>5, <1>6, <2>1
  <2> HIDE DEF T
  <2> QED
    BY <1>2, <2>2
<1> QED
  BY <1>6, <1>7

(* The key of a cycle is the cycle, turned to begin at a smallest service.  *)
LEMMA KeyFacts ==
  ASSUME NEW c \in Seq(Services), Len(c) > 0
  PROVE  \E k \in 1 .. Len(c) : /\ \A i \in 1 .. Len(c) : c[k] <= c[i]
                                /\ cycleKey(c) = Turn(c, k)
<1> DEFINE IsMin(k) == \A i \in 1 .. Len(c) : c[k] <= c[i]
           m == CHOOSE k \in 1 .. Len(c) : IsMin(k)
<1>1. \E k \in 1 .. Len(c) : IsMin(k)
  BY Smallest
<1>2. m \in 1 .. Len(c) /\ IsMin(m)
  BY <1>1, Zenon
<1>3. cycleKey(c) = Turn(c, m)
  BY Zenon DEF cycleKey
<1> HIDE DEF m
<1> QED
  BY <1>2, <1>3

-----------------------------------------------------------------------------
(* The stack of a search *)

Frame == [node : Services, todo : SUBSET Services]

StackType == /\ stack \in Seq(Frame) /\ result \in Seq(Seq(Services))
             /\ ~running => stack = <<>>

(* The services on the stack are gray, and their edges are of the graph. *)
Grays == \A i \in 1 .. Len(stack) :
           /\ colors[stack[i].node] = "gray"
           /\ \A u \in stack[i].todo : <<stack[i].node, u>> \in adjacency

NoneTwice == \A i, j \in 1 .. Len(stack) : stack[i].node = stack[j].node => i = j

GraysOnStack == \A n \in Services :
                  colors[n] = "gray" => \E i \in 1 .. Len(stack) : stack[i].node = n

(* Every call was made along an edge from the one below it, which is the   *)
(* parent of its service.                                                  *)
Calling == \A i \in 1 .. Len(stack) - 1 :
             /\ stack[i + 1].node \in DOMAIN parent
             /\ parent[stack[i + 1].node] = stack[i].node
             /\ <<stack[i].node, stack[i + 1].node>> \in adjacency

(* The stack holds the gray services, each once, in the order of the calls. *)
StackInv == StackType /\ Grays /\ NoneTwice /\ GraysOnStack /\ Calling

(* The stack is no longer than there are services. *)
LEMMA StackIsShort ==
  ASSUME TypeOK, StackInv
  PROVE  /\ Cardinality(Services) \in Nat
         /\ Len(stack) \in Nat /\ Len(stack) <= Cardinality(Services)
<1> DEFINE f == [i \in 1 .. Len(stack) |-> stack[i].node]
<1>1. Len(stack) \in Nat
  BY DEF StackInv, StackType
<1>2. \A i \in 1 .. Len(stack) : stack[i].node \in Services
  <2>1. stack \in Seq(Frame)
    BY DEF StackInv, StackType
  <2>2. \A i \in 1 .. Len(stack) : stack[i] \in Frame
    BY <2>1
  <2> QED
    BY <2>2 DEF Frame
<1>3. /\ f \in [1 .. Len(stack) -> Services]
      /\ \A i, j \in 1 .. Len(stack) : f[i] = f[j] => i = j
  BY <1>2 DEF StackInv, NoneTwice
<1> HIDE DEF f
<1>4. Cardinality(Services) \in Nat
  BY ServicesAssumption, FS_CardinalityType
<1>5. IsFiniteSet(1 .. Len(stack)) /\ Cardinality(1 .. Len(stack)) = Len(stack)
  <2>1. /\ IsFiniteSet(1 .. Len(stack))
        /\ Cardinality(1 .. Len(stack)) = IF 1 > Len(stack) THEN 0 ELSE Len(stack) - 1 + 1
    BY <1>1, FS_Interval, 1 \in Int, Len(stack) \in Int
  <2> QED
    BY <1>1, <2>1
<1>6. ~(Cardinality(Services) < Cardinality(1 .. Len(stack)))
  <2> SUFFICES ASSUME Cardinality(Services) < Cardinality(1 .. Len(stack)) PROVE FALSE
    OBVIOUS
  <2>1. \E x, y \in 1 .. Len(stack) : x # y /\ f[x] = f[y]
    BY <1>3, <1>5, ServicesAssumption, FS_PigeonHole
  <2> QED
    BY <1>3, <2>1
<1> QED
  BY <1>1, <1>4, <1>5, <1>6

(* The ancestors of a service are what their definition says.              *)
LEMMA AncestorsFacts ==
  ASSUME TypeOK, NEW v \in Services
  PROVE  /\ Ancestors(v)[0] = v
         /\ \A i \in 1 .. Cardinality(Services) :
              Ancestors(v)[i] = IF Ancestors(v)[i - 1] \in DOMAIN parent
                                  THEN parent[Ancestors(v)[i - 1]]
                                  ELSE Ancestors(v)[i - 1]
<1> DEFINE N == Cardinality(Services)
           s == [n \in Services |-> IF n \in DOMAIN parent THEN parent[n] ELSE n]
           Is(g) == g = [i \in 0 .. N |->
                           IF i = 0 THEN v
                           ELSE IF g[i - 1] \in DOMAIN parent THEN parent[g[i - 1]]
                           ELSE g[i - 1]]
<1>1. N \in Nat
  BY ServicesAssumption, FS_CardinalityType
<1>2. s \in [Services -> Services]
  BY DEF TypeOK
<1> HIDE DEF N, s
<1>3. PICK g : Iterated(g, Services, s, v, N)
  BY <1>1, <1>2, Iterates
<1>4. Is(g)
  <2>1. ASSUME NEW i \in 1 .. N PROVE i - 1 \in 0 .. N
    BY <1>1
  <2>2. ASSUME NEW i \in 1 .. N
        PROVE  g[i] = IF g[i - 1] \in DOMAIN parent THEN parent[g[i - 1]]
                      ELSE g[i - 1]
    BY <1>3, <2>1 DEF s, Iterated
  <2>3. g[0] = v /\ g \in [0 .. N -> Services]
    BY <1>3 DEF Iterated
  <2>4. \A i \in 0 .. N : i = 0 \/ i \in 1 .. N
    BY <1>1
  <2> QED
    BY <2>2, <2>3, <2>4
<1>5. Ancestors(v) = CHOOSE h : Is(h)
  BY DEF Ancestors, N
<1>6. Is(Ancestors(v))
  BY <1>4, <1>5, Zenon
<1>7. \A i \in 1 .. N : i # 0 /\ i \in 0 .. N
  BY <1>1
<1>8. 0 \in 0 .. N
  BY <1>1
<1> QED
  BY <1>6, <1>7, <1>8 DEF N

(* The services of the stack from position p on. *)
Loop(p) == [i \in 1 .. Len(stack) - p + 1 |-> stack[p + i - 1].node]

(* They are a cycle when the innermost of them calls the one at p.         *)
LEMMA LoopIsCycle ==
  ASSUME TypeOK, StackInv, NEW p \in 1 .. Len(stack), stack[p].node \in Top.todo
  PROVE  /\ Loop(p) \in Seq(Services) /\ Len(Loop(p)) = Len(stack) - p + 1
         /\ IsCycle(Loop(p), adjacency)
         /\ Loop(p)[Len(stack) - p + 1] = Top.node
         /\ Following(Loop(p), Len(stack) - p + 1) = stack[p].node
<1> DEFINE L == Len(stack)
           n == L - p + 1
           c == Loop(p)
<1>1. L \in Nat /\ n \in Nat /\ n > 0
  BY DEF StackInv, StackType
<1>2. \A i \in 1 .. n : p + i - 1 \in 1 .. L
  BY <1>1
<1>3. \A i \in 1 .. L : stack[i].node \in Services
  <2>1. stack \in Seq(Frame)
    BY DEF StackInv, StackType
  <2>2. \A i \in 1 .. L : stack[i] \in Frame
    BY <2>1
  <2> QED
    BY <2>2 DEF Frame
<1>4. c = [i \in 1 .. n |-> stack[p + i - 1].node]
  BY DEF Loop
<1>5. c \in [1 .. n -> Services]
  BY <1>2, <1>3, <1>4
<1>6. c \in Seq(Services) /\ Len(c) = n
  BY <1>1, <1>5
<1>7. c[n] = Top.node /\ c[1] = stack[p].node
  BY <1>1, <1>4 DEF Top
<1>8. Following(c, n) = stack[p].node
  BY <1>6, <1>7 DEF Following
<1>9. Distinct(c)
  <2> SUFFICES ASSUME NEW i \in 1 .. n, NEW j \in 1 .. n, c[i] = c[j] PROVE i = j
    BY <1>6 DEF Distinct
  <2>1. stack[p + i - 1].node = stack[p + j - 1].node
    BY <1>4
  <2>2. p + i - 1 = p + j - 1
    BY <1>2, <2>1 DEF StackInv, NoneTwice
  <2> QED
    BY <2>2
<1>10. ASSUME NEW i \in 1 .. n PROVE <<c[i], Following(c, i)>> \in adjacency
  <2>1. CASE i = n
    <3>1. <<Top.node, stack[p].node>> \in adjacency
      BY <1>1 DEF StackInv, Grays, Top
    <3> QED
      BY <2>1, <3>1, <1>7, <1>8
  <2>2. CASE i # n
    <3>1. i + 1 \in 1 .. n /\ p + i - 1 \in 1 .. L - 1 /\ (p + i - 1) + 1 = p + (i + 1) - 1
      BY <1>1, <2>2
    <3>2. Following(c, i) = c[i + 1]
      BY <1>6, <2>2 DEF Following
    <3>3. c[i] = stack[p + i - 1].node /\ c[i + 1] = stack[(p + i - 1) + 1].node
      BY <1>4, <3>1
    <3>4. <<stack[p + i - 1].node, stack[(p + i - 1) + 1].node>> \in adjacency
      BY <3>1 DEF StackInv, Calling
    <3> QED
      BY <3>2, <3>3, <3>4
  <2> QED
    BY <2>1, <2>2
<1> QED
  BY <1>1, <1>6, <1>7, <1>8, <1>9, <1>10 DEF IsCycle, Follows

(* The parents lead down the stack.                                        *)
LEMMA ParentsLeadDown ==
  ASSUME TypeOK, StackInv, stack # <<>>
  PROVE  /\ Top.node \in Services
         /\ \A i \in 0 .. Len(stack) - 1 : Ancestors(Top.node)[i] = stack[Len(stack) - i].node
<1> DEFINE L == Len(stack)
           back == Ancestors(Top.node)
           S == {i \in 0 .. L - 1 : back[i] = stack[L - i].node}
<1>1. L \in Nat /\ L > 0 /\ Cardinality(Services) \in Nat /\ L <= Cardinality(Services)
  BY StackIsShort DEF StackInv, StackType
<1>2. Top.node \in Services
  <2>1. stack[L] \in Frame
    BY <1>1 DEF StackInv, StackType
  <2> QED
    BY <2>1 DEF Frame, Top
<1>3. /\ back[0] = Top.node
      /\ \A i \in 1 .. Cardinality(Services) :
           back[i - 1] \in DOMAIN parent => back[i] = parent[back[i - 1]]
  BY <1>2, AncestorsFacts
<1>4. 0 \in S
  BY <1>1, <1>3 DEF Top
<1>5. ASSUME NEW n \in 0 .. (L - 1) - 1, n \in S PROVE n + 1 \in S
  <2>1. /\ n + 1 \in 1 .. Cardinality(Services) /\ n + 1 \in 0 .. L - 1 /\ (n + 1) - 1 = n
        /\ L - (n + 1) \in 1 .. L - 1 /\ (L - (n + 1)) + 1 = L - n
    BY <1>1
  <2>2. /\ stack[L - n].node \in DOMAIN parent
        /\ parent[stack[L - n].node] = stack[L - (n + 1)].node
    BY <2>1 DEF StackInv, Calling
  <2>3. back[n + 1] = parent[back[n]]
    BY <1>3, <1>5, <2>1, <2>2
  <2> QED
    BY <1>5, <2>1, <2>2, <2>3
<1>6. L - 1 \in Nat
  BY <1>1
<1> HIDE DEF S, L
<1>7. \A n \in 0 .. L - 1 : n \in S
  BY <1>4, <1>5, <1>6, UpTo
<1> QED
  BY <1>2, <1>7 DEF S, L

(* extractCycle returns the services of the stack from the end of the back *)
(* edge on.                                                                *)
LEMMA Extracted ==
  ASSUME TypeOK, StackInv, NEW p \in 1 .. Len(stack)
  PROVE  extractCycle(Top.node, stack[p].node) = Loop(p)
<1> DEFINE L == Len(stack)
           C == Cardinality(Services)
           u == stack[p].node
           back == Ancestors(Top.node)
           Is(i) == /\ back[i] = u \/ i = C
                    /\ \A j \in 0 .. i - 1 : back[j] # u
           last == CHOOSE i \in 0 .. C : Is(i)
<1>1. stack # <<>> /\ L \in Nat /\ C \in Nat /\ L <= C
  BY StackIsShort DEF StackInv, StackType
<1>2. \A i \in 0 .. L - 1 : back[i] = stack[L - i].node
  BY <1>1, ParentsLeadDown
<1>3. \A i \in 1 .. L : stack[i].node = u => i = p
  BY DEF StackInv, NoneTwice
<1> HIDE DEF back, u, L, C
<1>4. p \in 1 .. L /\ stack[p].node = u
  BY DEF L, u
<1>5. \A i \in 0 .. L - 1 : back[i] = u <=> i = L - p
  BY <1>1, <1>2, <1>3, <1>4
<1>6. L - p \in 0 .. C /\ Is(L - p)
  BY <1>1, <1>4, <1>5
<1>7. ASSUME NEW i \in 0 .. C, Is(i) PROVE i = L - p
  <2>1. ~(i < L - p)
    <3> SUFFICES ASSUME i < L - p PROVE FALSE
      OBVIOUS
    <3>1. i \in 0 .. L - 1 /\ i # L - p /\ i # C
      BY <1>1, <1>4
    <3> QED
      BY <1>5, <1>7, <3>1
  <2>2. ~(L - p < i)
    <3> SUFFICES ASSUME L - p < i PROVE FALSE
      OBVIOUS
    <3>1. L - p \in 0 .. i - 1 /\ L - p \in 0 .. L - 1
      BY <1>1, <1>4
    <3> QED
      BY <1>5, <1>7, <3>1
  <2> QED
    BY <1>1, <1>4, <2>1, <2>2
<1> HIDE DEF Is
<1>8. last \in 0 .. C /\ Is(last)
  BY <1>6, Zenon
<1>9. last = L - p
  BY <1>7, <1>8
<1>10. extractCycle(Top.node, u) = [i \in 1 .. last + 1 |-> back[last + 1 - i]]
  BY DEF extractCycle, back, Is, C
<1> HIDE DEF last
<1>11. ASSUME NEW i \in 1 .. L - p + 1
       PROVE  back[L - p + 1 - i] = stack[p + i - 1].node
  <2>1. L - p + 1 - i \in 0 .. L - 1 /\ L - (L - p + 1 - i) = p + i - 1
    BY <1>1, <1>4
  <2> QED
    BY <1>2, <2>1
<1>12. extractCycle(Top.node, u) = [i \in 1 .. L - p + 1 |-> stack[p + i - 1].node]
  BY <1>9, <1>10, <1>11
<1> QED
  BY <1>12 DEF Loop, L, u

(* The innermost call, with the edge to u taken up. *)
LEMMA ScannedFacts ==
  ASSUME TypeOK, StackInv, stack # <<>>, NEW u
  PROVE  /\ Len(stack) \in Nat /\ Len(stack) > 0
         /\ Scanned(u) \in Seq(Frame) /\ Len(Scanned(u)) = Len(stack)
         /\ \A i \in 1 .. Len(stack) :
              /\ Scanned(u)[i].node = stack[i].node /\ stack[i].node \in Services
              /\ Scanned(u)[i].todo = IF i = Len(stack) THEN stack[i].todo \ {u}
                                      ELSE stack[i].todo
              /\ stack[i].todo \subseteq Services
<1> DEFINE L == Len(stack)
<1>1. stack \in Seq(Frame) /\ L \in Nat /\ L > 0
  BY DEF StackInv, StackType
<1>2. \A i \in 1 .. L : stack[i] \in Frame
  BY <1>1
<1>0. stack = [i \in 1 .. L |-> stack[i]]
  BY <1>1
<1>3. Scanned(u) = [i \in 1 .. L |-> IF i = L THEN [stack[i] EXCEPT !.todo = @ \ {u}] ELSE stack[i]]
  BY <1>0, <1>1 DEF Scanned
<1>4. \A i \in 1 .. L : [stack[i] EXCEPT !.todo = @ \ {u}] \in Frame
  BY <1>2 DEF Frame
<1>5. Scanned(u) \in [1 .. L -> Frame]
  BY <1>2, <1>3, <1>4
<1>6. Scanned(u) \in Seq(Frame) /\ Len(Scanned(u)) = L
  BY <1>1, <1>5
<1>7. \A i \in 1 .. L : /\ stack[i].node \in Services /\ stack[i].todo \subseteq Services
                        /\ [stack[i] EXCEPT !.todo = @ \ {u}].node = stack[i].node
                        /\ [stack[i] EXCEPT !.todo = @ \ {u}].todo = stack[i].todo \ {u}
  BY <1>2 DEF Frame
<1> QED
  BY <1>1, <1>3, <1>6, <1>7

(* The innermost call goes on with the edge to u; nothing else changes.    *)
LEMMA ScannedKeeps ==
  ASSUME TypeOK, StackInv, stack # <<>>, NEW u, stack' = Scanned(u),
         result' \in Seq(Seq(Services)),
         UNCHANGED <<colors, parent, adjacency, running>>
  PROVE  StackInv'
<1>1. /\ Len(stack) \in Nat /\ Len(stack') = Len(stack) /\ stack' \in Seq(Frame)
      /\ \A i \in 1 .. Len(stack) : /\ stack'[i].node = stack[i].node
                                    /\ stack'[i].todo \subseteq stack[i].todo
  BY ScannedFacts
<1>2. running
  BY DEF StackInv, StackType
<1> QED
  <2>1. StackType'
    BY <1>1, <1>2 DEF StackType
  <2>2. Grays'
    BY <1>1 DEF StackInv, Grays
  <2>3. NoneTwice'
    BY <1>1 DEF StackInv, NoneTwice
  <2>4. GraysOnStack'
    BY <1>1 DEF StackInv, GraysOnStack
  <2>5. Calling'
    <3>1. \A i \in 1 .. Len(stack) - 1 : i \in 1 .. Len(stack) /\ i + 1 \in 1 .. Len(stack)
      BY <1>1
    <3> QED
      BY <1>1, <3>1 DEF StackInv, Calling
  <2> QED
    BY <2>1, <2>2, <2>3, <2>4, <2>5 DEF StackInv

(* A new call of dfs for a white service, along an edge from the innermost. *)
LEMMA PushKeeps ==
  ASSUME TypeOK, StackInv, running, NEW s, NEW v \in Services, colors[v] = "white",
         s \in Seq(Frame), Len(s) = Len(stack),
         \A i \in 1 .. Len(stack) : /\ s[i].node = stack[i].node
                                   /\ s[i].todo \subseteq stack[i].todo,
         Len(stack) > 0 => /\ v \in DOMAIN parent' /\ parent'[v] = Top.node
                           /\ <<Top.node, v>> \in adjacency,
         \A n \in DOMAIN parent \ {v} : n \in DOMAIN parent' /\ parent'[n] = parent[n],
         Enter(v, s), UNCHANGED <<adjacency, running, result>>
  PROVE  StackInv'
<1> DEFINE L == Len(stack)
           f == [node |-> v, todo |-> {u \in Services : <<v, u>> \in adjacency}]
<1>1. /\ L \in Nat /\ f \in Frame /\ f.node = v
      /\ \A u \in f.todo : <<v, u>> \in adjacency
  BY DEF StackInv, StackType, Frame
<1>2. stack' = Append(s, f) /\ colors' = [colors EXCEPT ![v] = "gray"]
  BY DEF Enter
<1> HIDE DEF f
<1>3. /\ stack' \in Seq(Frame) /\ Len(stack') = L + 1
      /\ stack'[L + 1] = f /\ \A i \in 1 .. L : stack'[i] = s[i]
  BY <1>1, <1>2
<1>4. /\ \A i \in 1 .. L : /\ i # L + 1 /\ stack'[i].node = stack[i].node
                           /\ stack'[i].todo \subseteq stack[i].todo
      /\ stack'[L + 1].node = v
  BY <1>1, <1>3
<1>5. \A i \in 1 .. L : /\ stack[i].node # v /\ stack[i].node \in Services
                        /\ colors[stack[i].node] = "gray"
  <2>1. \A i \in 1 .. L : stack[i] \in Frame
    BY DEF StackInv, StackType
  <2> QED
    BY <2>1 DEF StackInv, Grays, Frame
<1>6. \A i \in 1 .. L + 1 : i \in 1 .. L \/ i = L + 1
  BY <1>1
<1>7. /\ colors'[v] = "gray"
      /\ \A n \in Services \ {v} : colors'[n] = colors[n]
  BY <1>2 DEF TypeOK
<1>8. result' \in Seq(Seq(Services)) /\ running'
  BY DEF StackInv, StackType
<1>9. \A i \in 1 .. Len(stack') :
        /\ colors'[stack'[i].node] = "gray"
        /\ \A u \in stack'[i].todo : <<stack'[i].node, u>> \in adjacency'
  BY <1>1, <1>3, <1>4, <1>5, <1>6, <1>7 DEF StackInv, Grays
<1>10. \A i, j \in 1 .. Len(stack') : stack'[i].node = stack'[j].node => i = j
  BY <1>3, <1>4, <1>5, <1>6 DEF StackInv, NoneTwice
<1>11. ASSUME NEW n \in Services, colors'[n] = "gray"
       PROVE  \E i \in 1 .. Len(stack') : stack'[i].node = n
  <2>1. CASE n = v
    BY <1>1, <1>3, <1>4, <2>1
  <2>2. CASE n # v
    <3>1. PICK i \in 1 .. L : stack[i].node = n
      BY <1>7, <1>11, <2>2 DEF StackInv, GraysOnStack
    <3> QED
      BY <1>1, <1>3, <1>4, <3>1
  <2> QED
    BY <2>1, <2>2
<1>12. ASSUME NEW i \in 1 .. Len(stack') - 1
       PROVE  /\ stack'[i + 1].node \in DOMAIN parent'
              /\ parent'[stack'[i + 1].node] = stack'[i].node
              /\ <<stack'[i].node, stack'[i + 1].node>> \in adjacency'
  <2>1. CASE i = L
    BY <1>1, <1>3, <1>4, <2>1 DEF Top
  <2>2. CASE i # L
    <3>1. i \in 1 .. L - 1 /\ i \in 1 .. L /\ i + 1 \in 1 .. L
      BY <1>1, <1>3, <2>2
    <3>2. /\ stack[i + 1].node \in DOMAIN parent \ {v}
          /\ parent[stack[i + 1].node] = stack[i].node
          /\ <<stack[i].node, stack[i + 1].node>> \in adjacency
      BY <1>5, <3>1 DEF StackInv, Calling
    <3> QED
      BY <1>4, <3>1, <3>2
  <2> QED
    BY <2>1, <2>2
<1> QED
  BY <1>3, <1>8, <1>9, <1>10, <1>11, <1>12 DEF StackInv, StackType, Grays, NoneTwice, GraysOnStack, Calling

(* The innermost call returns. *)
LEMMA PopKeeps ==
  ASSUME TypeOK, StackInv, Leave
  PROVE  StackInv'
<1> DEFINE L == Len(stack)
<1>1. /\ L \in Nat /\ L > 0 /\ stack' = SubSeq(stack, 1, L - 1)
      /\ colors' = [colors EXCEPT ![Top.node] = "black"]
      /\ Top = stack[L] /\ stack # <<>>
  BY DEF Leave, StackInv, StackType, Top
<1>2. /\ stack' \in Seq(Frame) /\ Len(stack') = L - 1
      /\ \A i \in 1 .. L - 1 : stack'[i] = stack[i]
  <2>1. \A i \in 1 .. L - 1 : stack[i] \in Frame
    BY <1>1 DEF StackInv, StackType
  <2>2. /\ stack' \in Seq(Frame)
        /\ Len(stack') = IF 1 <= L - 1 THEN L - 1 - 1 + 1 ELSE 0
        /\ \A i \in 1 .. L - 1 - 1 + 1 : stack'[i] = stack[1 + i - 1]
    BY <1>1, <2>1, SubSeqProperties, 1 \in Int, L - 1 \in Int
  <2>3. Len(stack') = L - 1
    <3>1. L \in Nat /\ L > 0
      BY <1>1
    <3> HIDE DEF L
    <3> QED
      BY <2>2, <3>1
  <2>4. \A i \in 1 .. L - 1 : i \in 1 .. L - 1 - 1 + 1 /\ 1 + i - 1 = i
    BY <1>1
  <2> QED
    BY <2>2, <2>3, <2>4
<1>3. \A i \in 1 .. L : stack[i].node \in Services
  BY <1>1, ScannedFacts
<1>4. /\ \A n \in Services \ {Top.node} : colors'[n] = colors[n]
      /\ colors'[Top.node] = "black"
  BY <1>1, <1>3 DEF TypeOK
<1>5. \A i \in 1 .. L - 1 : i \in 1 .. L /\ stack[i].node # Top.node
  BY <1>1 DEF StackInv, NoneTwice
<1>6. ASSUME NEW n \in Services, colors'[n] = "gray"
      PROVE  \E i \in 1 .. Len(stack') : stack'[i].node = n
  <2>1. n # Top.node /\ colors[n] = "gray"
    BY <1>4, <1>6
  <2>2. PICK i \in 1 .. L : stack[i].node = n
    BY <2>1 DEF StackInv, GraysOnStack
  <2>3. i \in 1 .. L - 1
    BY <1>1, <2>1, <2>2
  <2> QED
    BY <1>2, <2>2, <2>3
<1>7. running /\ UNCHANGED <<adjacency, running, result, parent>>
  BY <1>1 DEF StackInv, StackType, Leave
<1> HIDE DEF L
<1>8. \A i \in 1 .. Len(stack') :
        /\ colors'[stack'[i].node] = "gray"
        /\ \A u \in stack'[i].todo : <<stack'[i].node, u>> \in adjacency'
  BY <1>2, <1>3, <1>4, <1>5, <1>7 DEF StackInv, Grays, L
<1>9. \A i, j \in 1 .. Len(stack') : stack'[i].node = stack'[j].node => i = j
  BY <1>2, <1>5 DEF StackInv, NoneTwice, L
<1>10. ASSUME NEW i \in 1 .. Len(stack') - 1
       PROVE  /\ stack'[i + 1].node \in DOMAIN parent'
              /\ parent'[stack'[i + 1].node] = stack'[i].node
              /\ <<stack'[i].node, stack'[i + 1].node>> \in adjacency'
  <2>1. i \in 1 .. Len(stack) - 1 /\ i \in 1 .. L - 1 /\ i + 1 \in 1 .. L - 1
    BY <1>1, <1>2 DEF L
  <2> QED
    BY <1>2, <1>7, <2>1 DEF StackInv, Calling
<1> QED
  BY <1>2, <1>6, <1>7, <1>8, <1>9, <1>10 DEF StackInv, StackType, Grays, NoneTwice, GraysOnStack, Calling

-----------------------------------------------------------------------------
(* Types, and what is reported *)

(* The key of a cycle begins at the smallest service. *)
Canonical(c) == Len(c) > 0 /\ Distinct(c) /\ \A i \in 1 .. Len(c) : c[1] <= c[i]

KnownInv == \A c \in knownCycles : Canonical(c)

DetectorInv == TypeOK /\ StackInv /\ ReportsAreCycles /\ KnownInv

(* A cycle goes from v to u. *)
Passes(c, v, u) == \E i \in 1 .. Len(c) : c[i] = v /\ Following(c, i) = u

(* The key of a cycle is a cycle with the same edges. *)
LEMMA KeyIsCycle ==
  ASSUME NEW E, NEW c \in Seq(Services), IsCycle(c, E)
  PROVE  /\ cycleKey(c) \in Seq(Services) /\ IsCycle(cycleKey(c), E)
         /\ Canonical(cycleKey(c))
         /\ \A v, u : Passes(c, v, u) => Passes(cycleKey(c), v, u)
<1> DEFINE d == cycleKey(c)
<1>1. Len(c) \in Nat /\ Len(c) > 0
  BY DEF IsCycle
<1>2. PICK k \in 1 .. Len(c) : /\ \A i \in 1 .. Len(c) : c[k] <= c[i]
                              /\ d = Turn(c, k)
  BY <1>1, KeyFacts
<1>3. /\ d \in Seq(Services) /\ Len(d) = Len(c)
      /\ \A i \in 1 .. Len(c) : /\ Place(k, i, Len(c)) \in 1 .. Len(c)
                                /\ d[i] = c[Place(k, i, Len(c))]
      /\ \A j \in 1 .. Len(c) : \E i \in 1 .. Len(c) : Place(k, i, Len(c)) = j
  BY <1>2, TurnFacts
<1>4. IsCycle(d, E)
  BY <1>2, TurnIsCycle
<1>5. \A i \in 1 .. Len(c) : Following(d, i) = Following(c, Place(k, i, Len(c)))
  BY <1>2, TurnFollows
<1> HIDE DEF d
<1>6. d[1] = c[k]
  <2>1. 1 \in 1 .. Len(c) /\ Place(k, 1, Len(c)) = k
    BY <1>1 DEF Place
  <2> QED
    BY <1>3, <2>1
<1>7. Canonical(d)
  BY <1>1, <1>2, <1>3, <1>4, <1>6 DEF Canonical, IsCycle
<1>8. ASSUME NEW v, NEW u, Passes(c, v, u) PROVE Passes(d, v, u)
  <2>1. PICK j \in 1 .. Len(c) : c[j] = v /\ Following(c, j) = u
    BY <1>8 DEF Passes
  <2>2. PICK i \in 1 .. Len(c) : Place(k, i, Len(c)) = j
    BY <1>3
  <2> QED
    BY <1>3, <1>5, <2>1, <2>2 DEF Passes
<1> QED
  BY <1>3, <1>4, <1>7, <1>8 DEF d

(* A cycle turned to begin at its smallest service is its key. *)
LEMMA OnlyKey ==
  ASSUME NEW E, NEW c \in Seq(Services), IsCycle(c, E), NEW d, SameCycle(c, d), Canonical(d)
  PROVE  d = cycleKey(c)
<1> DEFINE n == Len(c)
<1>1. n \in Nat /\ n > 0 /\ \A i \in 1 .. n : c[i] \in Nat
  <2>1. n \in Nat /\ n > 0
    BY DEF IsCycle
  <2>2. \A i \in 1 .. n : c[i] \in Services
    OBVIOUS
  <2> QED
    BY <2>1, <2>2, ServicesAssumption
<1>2. PICK k \in 1 .. n : (\A i \in 1 .. n : c[k] <= c[i]) /\ cycleKey(c) = Turn(c, k)
  BY <1>1, KeyFacts
<1>3. PICK m \in 1 .. n : d = Turn(c, m)
  BY DEF SameCycle
<1>4. /\ Len(d) = n
      /\ \A i \in 1 .. n : d[i] = c[Place(m, i, n)]
      /\ \A j \in 1 .. n : \E i \in 1 .. n : Place(m, i, n) = j
  BY <1>3, TurnFacts
<1>5. d[1] = c[m]
  <2> HIDE DEF n
  <2>1. 1 \in 1 .. n /\ Place(m, 1, n) = m
    BY <1>1 DEF Place
  <2> QED
    BY <1>4, <2>1
<1> HIDE DEF n
<1>6. c[m] <= c[k]
  <2>1. PICK i \in 1 .. n : Place(m, i, n) = k
    BY <1>4
  <2>2. d[i] = c[k] /\ d[1] <= d[i]
    BY <1>4, <2>1 DEF Canonical
  <2> QED
    BY <1>5, <2>2
<1>7. c[k] <= c[m]
  BY <1>2
<1>8. c[k] = c[m]
  BY <1>1, <1>6, <1>7
<1>9. k = m
  BY <1>8 DEF IsCycle, Distinct, n
<1> QED
  BY <1>2, <1>3, <1>9

(* What a back edge does: the cycle it closes goes along it, and is added  *)
(* to the report and to what is known unless its key is known.             *)
LEMMA BackEdgeFacts ==
  ASSUME TypeOK, StackInv, stack # <<>>, NEW u \in Top.todo, BackEdge(u)
  PROVE  \E c \in Seq(Services) :
           /\ IsCycle(c, adjacency) /\ Passes(c, Top.node, u)
           /\ \/ cycleKey(c) \in knownCycles /\ UNCHANGED <<result, knownCycles>>
              \/ /\ cycleKey(c) \notin knownCycles
                 /\ knownCycles' = knownCycles \cup {cycleKey(c)}
                 /\ result' = Append(result, c)
<1>1. u \in Services /\ colors[u] = "gray"
  <2>1. Len(stack) \in Nat /\ Len(stack) > 0
    BY ScannedFacts
  <2>2. Len(stack) \in 1 .. Len(stack)
    BY <2>1
  <2>3. stack[Len(stack)].todo \subseteq Services
    BY <2>2, ScannedFacts
  <2> QED
    BY <2>3 DEF BackEdge, Top
<1>2. PICK p \in 1 .. Len(stack) : stack[p].node = u
  BY <1>1 DEF StackInv, GraysOnStack
<1>3. extractCycle(Top.node, u) = Loop(p)
  BY <1>2, Extracted
<1>4. /\ Loop(p) \in Seq(Services) /\ IsCycle(Loop(p), adjacency)
      /\ Len(Loop(p)) = Len(stack) - p + 1
      /\ Loop(p)[Len(stack) - p + 1] = Top.node
      /\ Following(Loop(p), Len(stack) - p + 1) = u
  BY <1>2, LoopIsCycle
<1>5. Passes(Loop(p), Top.node, u)
  <2>1. Len(stack) - p + 1 \in 1 .. Len(Loop(p))
    BY <1>4 DEF StackInv, StackType
  <2> QED
    BY <1>4, <2>1 DEF Passes
<1> QED
  BY <1>3, <1>4, <1>5 DEF BackEdge

(* The invariant holds at first. *)
LEMMA InitDetector == Init => DetectorInv
<1> SUFFICES ASSUME Init PROVE DetectorInv
  OBVIOUS
<1> USE DEF Init
<1>1. TypeOK
  <2>1. searches \in 0 .. MaxSearches
    BY SearchesAssumption
  <2>2. DOMAIN parent = {} /\ Len(stack) = 0 /\ Len(result) = 0
    OBVIOUS
  <2>3. colors \in [Services -> {"white", "gray", "black"}]
    OBVIOUS
  <2>4. /\ DOMAIN parent \subseteq Services
        /\ \A n \in DOMAIN parent : parent[n] \in Services
    BY <2>2
  <2>5. /\ \A i \in 1 .. Len(stack) : /\ stack[i].node \in Services
                                     /\ stack[i].todo \subseteq Services
        /\ \A i \in 1 .. Len(result) : result[i] \in Seq(Services)
    BY <2>2
  <2>6. /\ edges \subseteq Calls /\ adjacency \subseteq Calls /\ trigger \in Calls \cup {<<>>}
        /\ running \in BOOLEAN /\ knownCycles \subseteq Seq(Services)
    OBVIOUS
  <2> QED
    BY <2>1, <2>3, <2>4, <2>5, <2>6 DEF TypeOK
<1>2. StackInv
  BY DEF StackInv, StackType, Grays, NoneTwice, GraysOnStack, Calling
<1> QED
  BY <1>1, <1>2 DEF DetectorInv, ReportsAreCycles, KnownInv

(* A new search begins with nothing seen and nothing reported. *)
LEMMA StartKeeps ==
  ASSUME DetectorInv, NEW e \in Calls, Start(e)
  PROVE  DetectorInv'
<1> USE DEF DetectorInv, Start
<1>1. TypeOK'
  <2>1. searches' \in 0 .. MaxSearches
    BY SearchesAssumption DEF TypeOK
  <2>2. colors' \in [Services -> {"white", "gray", "black"}]
    OBVIOUS
  <2> QED
    BY <2>1, <2>2 DEF TypeOK
<1>2. stack' = <<>> /\ stack' \in Seq(Frame) /\ result' \in Seq(Seq(Services)) /\ running'
  BY DEF StackInv, StackType
<1>3. \A n \in Services : colors'[n] = "white"
  OBVIOUS
<1>4. StackInv'
  BY <1>2, <1>3 DEF StackInv, StackType, Grays, NoneTwice, GraysOnStack, Calling
<1>5. ReportsAreCycles' /\ KnownInv'
  BY DEF ReportsAreCycles, KnownInv
<1> QED
  BY <1>1, <1>4, <1>5

(* Steps that leave the search alone, the reports included. *)
LEMMA IdleKeeps ==
  ASSUME DetectorInv, edges' \subseteq Calls, running' \in BOOLEAN, ~running' => stack = <<>>,
         UNCHANGED <<adjacency, trigger, searches, searchVars>>
  PROVE  DetectorInv'
<1> USE DEF DetectorInv
<1>1. TypeOK'
  BY DEF TypeOK
<1>2. StackInv'
  BY DEF StackInv, StackType, Grays, NoneTwice, GraysOnStack, Calling
<1>3. ReportsAreCycles' /\ KnownInv'
  BY DEF ReportsAreCycles, KnownInv
<1> QED
  BY <1>1, <1>2, <1>3

(* What the types ask of the stack and of the reports. *)
LEMMA Shapes ==
  ASSUME NEW s \in Seq(Frame), NEW r \in Seq(Seq(Services))
  PROVE  /\ \A i \in 1 .. Len(s) : s[i].node \in Services /\ s[i].todo \subseteq Services
         /\ \A i \in 1 .. Len(r) : r[i] \in Seq(Services)
<1>1. \A i \in 1 .. Len(s) : s[i] \in Frame
  OBVIOUS
<1> QED
  BY <1>1 DEF Frame

(* A call of dfs that is new to the stack: from findNewCycles, or from the *)
(* call below it.                                                          *)
LEMMA EnterKeeps ==
  ASSUME DetectorInv, running, NEW s, NEW v \in Services, colors[v] = "white",
         s \in Seq(Frame), Len(s) = Len(stack),
         \A i \in 1 .. Len(stack) : /\ s[i].node = stack[i].node
                                   /\ s[i].todo \subseteq stack[i].todo,
         Len(stack) > 0 => /\ v \in DOMAIN parent' /\ parent'[v] = Top.node
                           /\ <<Top.node, v>> \in adjacency,
         \A n \in DOMAIN parent \ {v} : n \in DOMAIN parent' /\ parent'[n] = parent[n],
         DOMAIN parent' \subseteq Services, \A n \in DOMAIN parent' : parent'[n] \in Services,
         Enter(v, s), UNCHANGED <<edges, adjacency, trigger, running, result, knownCycles, searches>>
  PROVE  DetectorInv'
<1> USE DEF DetectorInv
<1>1. StackInv'
  BY PushKeeps
<1>2. TypeOK'
  <2>1. stack' \in Seq(Frame) /\ result' \in Seq(Seq(Services))
    BY <1>1 DEF StackInv, StackType
  <2>2. /\ \A i \in 1 .. Len(stack') : /\ stack'[i].node \in Services
                                      /\ stack'[i].todo \subseteq Services
        /\ \A i \in 1 .. Len(result') : result'[i] \in Seq(Services)
    BY <2>1, Shapes
  <2>3. colors' \in [Services -> {"white", "gray", "black"}]
    BY DEF Enter, TypeOK
  <2> QED
    BY <2>2, <2>3 DEF TypeOK
<1>3. ReportsAreCycles' /\ KnownInv'
  BY DEF ReportsAreCycles, KnownInv
<1> QED
  BY <1>1, <1>2, <1>3

(* findNewCycles calls dfs. *)
LEMMA RootKeeps ==
  ASSUME DetectorInv, NEW n \in Services, Root(n)
  PROVE  DetectorInv'
<1>1. stack = <<>> /\ stack \in Seq(Frame) /\ Len(stack) = 0
  BY DEF Root, DetectorInv, StackInv, StackType
<1>2. /\ DOMAIN parent' \subseteq Services /\ \A v \in DOMAIN parent' : parent'[v] \in Services
      /\ \A v \in DOMAIN parent \ {n} : v \in DOMAIN parent' /\ parent'[v] = parent[v]
  BY DEF Root, DetectorInv, TypeOK
<1>3. /\ running /\ colors[n] = "white" /\ Enter(n, stack)
      /\ UNCHANGED <<edges, adjacency, trigger, running, result, knownCycles, searches>>
  BY DEF Root
<1>4. Len(stack) > 0 => /\ n \in DOMAIN parent' /\ parent'[n] = Top.node
                       /\ <<Top.node, n>> \in adjacency
  BY <1>1
<1> DEFINE s == stack
<1>5. s \in Seq(Frame) /\ Len(s) = Len(stack)
  BY <1>1
<1>6. /\ \A i \in 1 .. Len(stack) : /\ s[i].node = stack[i].node
                                    /\ s[i].todo \subseteq stack[i].todo
      /\ Enter(n, s)
  BY <1>3
<1> HIDE DEF s
<1> QED
  BY <1>2, <1>3, <1>4, <1>5, <1>6, EnterKeeps

(* dfs calls itself. *)
LEMMA TreeEdgeKeeps ==
  ASSUME DetectorInv, stack # <<>>, NEW u \in Top.todo, TreeEdge(u),
         UNCHANGED <<edges, adjacency, trigger, running, searches>>
  PROVE  DetectorInv'
<1> USE DEF DetectorInv
<1> DEFINE s == Scanned(u)
<1>1. /\ Len(stack) \in Nat /\ Len(stack) > 0 /\ s \in Seq(Frame) /\ Len(s) = Len(stack)
      /\ \A i \in 1 .. Len(stack) : /\ s[i].node = stack[i].node
                                    /\ s[i].todo \subseteq stack[i].todo
  BY ScannedFacts
<1>2. Len(stack) \in 1 .. Len(stack)
  BY <1>1
<1>3. Top.node \in Services /\ Top.todo \subseteq Services
  BY <1>2, ScannedFacts DEF Top
<1>4. <<Top.node, u>> \in adjacency
  BY <1>2 DEF StackInv, Grays, Top
<1>5. parent' = [n \in DOMAIN parent \cup {u} |-> IF n = u THEN Top.node ELSE parent[n]]
  BY DEF TreeEdge
<1>6. /\ u \in DOMAIN parent' /\ parent'[u] = Top.node
      /\ \A n \in DOMAIN parent \ {u} : n \in DOMAIN parent' /\ parent'[n] = parent[n]
      /\ DOMAIN parent' \subseteq Services
      /\ \A n \in DOMAIN parent' : parent'[n] \in Services
  BY <1>3, <1>5 DEF TypeOK
<1>7. /\ running /\ colors[u] = "white" /\ Enter(u, s)
      /\ UNCHANGED <<edges, adjacency, trigger, running, result, knownCycles, searches>>
  BY DEF TreeEdge, StackInv, StackType
<1>8. u \in Services
  BY <1>3
<1> HIDE DEF s, DetectorInv
<1> QED
  BY <1>1, <1>4, <1>6, <1>7, <1>8, EnterKeeps

(* dfs takes up an edge to a service it has seen. *)
LEMMA SeenEdgeKeeps ==
  ASSUME DetectorInv, stack # <<>>, NEW u \in Top.todo, BackEdge(u) \/ CrossEdge(u),
         UNCHANGED <<edges, adjacency, trigger, running, searches>>
  PROVE  DetectorInv'
<1> USE DEF DetectorInv
<1>1. stack' = Scanned(u) /\ UNCHANGED <<colors, parent>>
  BY DEF BackEdge, CrossEdge
<1>2. /\ \/ UNCHANGED result
         \/ \E c \in Seq(Services) : /\ IsCycle(c, adjacency)
                                     /\ result' = Append(result, c)
      /\ \/ UNCHANGED knownCycles
         \/ \E d \in Seq(Services) : /\ Canonical(d)
                                     /\ knownCycles' = knownCycles \cup {d}
  <2>1. CASE BackEdge(u)
    BY <2>1, BackEdgeFacts, KeyIsCycle
  <2>2. CASE CrossEdge(u)
    BY <2>2 DEF CrossEdge
  <2> QED
    BY <2>1, <2>2
<1>3. result \in Seq(Seq(Services))
  BY DEF StackInv, StackType
<1>4. result' \in Seq(Seq(Services)) /\ ReportsAreCycles'
  <2>1. CASE UNCHANGED result
    BY <1>3, <2>1 DEF ReportsAreCycles
  <2>2. ASSUME NEW c \in Seq(Services), IsCycle(c, adjacency), result' = Append(result, c)
        PROVE  result' \in Seq(Seq(Services)) /\ ReportsAreCycles'
    <3>1. /\ result' \in Seq(Seq(Services)) /\ Len(result') = Len(result) + 1
          /\ \A i \in 1 .. Len(result) : result'[i] = result[i]
          /\ result'[Len(result) + 1] = c /\ Len(result) \in Nat
      BY <1>3, <2>2
    <3>2. \A i \in 1 .. Len(result') : i \in 1 .. Len(result) \/ i = Len(result) + 1
      BY <3>1
    <3>3. \A i \in 1 .. Len(result') : IsCycle(result'[i], adjacency)
      BY <2>2, <3>1, <3>2 DEF ReportsAreCycles
    <3> QED
      BY <3>1, <3>3 DEF ReportsAreCycles
  <2> QED
    BY <1>2, <2>1, <2>2
<1>5. knownCycles' \subseteq Seq(Services) /\ KnownInv'
  BY <1>2 DEF TypeOK, KnownInv
<1>6. StackInv'
  BY <1>1, <1>4, ScannedKeeps
<1>7. TypeOK'
  <2>1. stack' \in Seq(Frame)
    BY <1>6 DEF StackInv, StackType
  <2>2. /\ \A i \in 1 .. Len(stack') : /\ stack'[i].node \in Services
                                      /\ stack'[i].todo \subseteq Services
        /\ \A i \in 1 .. Len(result') : result'[i] \in Seq(Services)
    BY <1>4, <2>1, Shapes
  <2> QED
    BY <1>1, <1>5, <2>2 DEF TypeOK
<1> QED
  BY <1>4, <1>5, <1>6, <1>7

(* dfs returns. *)
LEMMA LeaveKeeps ==
  ASSUME DetectorInv, Leave
  PROVE  DetectorInv'
<1> USE DEF DetectorInv
<1>1. StackInv'
  BY PopKeeps
<1>2. TypeOK'
  <2>1. stack' \in Seq(Frame) /\ result' \in Seq(Seq(Services))
    BY <1>1 DEF StackInv, StackType
  <2>2. /\ \A i \in 1 .. Len(stack') : /\ stack'[i].node \in Services
                                      /\ stack'[i].todo \subseteq Services
        /\ \A i \in 1 .. Len(result') : result'[i] \in Seq(Services)
    BY <2>1, Shapes
  <2>3. colors' \in [Services -> {"white", "gray", "black"}]
    BY DEF Leave, TypeOK
  <2> QED
    BY <2>2, <2>3 DEF TypeOK, Leave
<1>3. ReportsAreCycles' /\ KnownInv'
  BY DEF ReportsAreCycles, KnownInv, Leave
<1> QED
  BY <1>1, <1>2, <1>3

(* Every step keeps the invariant. *)
LEMMA NextKeeps == DetectorInv /\ [Next]_vars => DetectorInv'
<1> SUFFICES ASSUME DetectorInv, [Next]_vars PROVE DetectorInv'
  OBVIOUS
<1>1. ASSUME NEW e \in Calls, Start(e) PROVE DetectorInv'
  BY <1>1, StartKeeps
<1>2. ASSUME NEW e \in Calls, Sweep(e) PROVE DetectorInv'
  <2>1. edges' \subseteq Calls /\ running' \in BOOLEAN /\ (~running' => stack = <<>>)
    BY <1>2 DEF Sweep, DetectorInv, TypeOK, StackInv, StackType
  <2> QED
    BY <1>2, <2>1, IdleKeeps DEF Sweep
<1>3. ASSUME NEW n \in Services, Root(n) PROVE DetectorInv'
  BY <1>3, RootKeeps
<1>4. CASE Scan
  BY <1>4, TreeEdgeKeeps, SeenEdgeKeeps DEF Scan
<1>5. CASE Leave
  BY <1>5, LeaveKeeps
<1>6. CASE Finish
  <2>1. edges' \subseteq Calls /\ running' \in BOOLEAN /\ (~running' => stack = <<>>)
    BY <1>6 DEF Finish, DetectorInv, TypeOK
  <2> QED
    BY <1>6, <2>1, IdleKeeps DEF Finish
<1>7. CASE UNCHANGED vars
  <2>1. edges' \subseteq Calls /\ running' \in BOOLEAN /\ (~running' => stack = <<>>)
    BY <1>7 DEF vars, DetectorInv, TypeOK, StackInv, StackType
  <2> QED
    BY <1>7, <2>1, IdleKeeps DEF vars
<1> QED
  BY <1>1, <1>2, <1>3, <1>4, <1>5, <1>6, <1>7 DEF Next, Search

(* TypeOK holds for any services, calls and number of searches, in any     *)
(* order of the search.                                                    *)
THEOREM TypeCorrect == Spec => []TypeOK
<1>1. DetectorInv => TypeOK
  BY DEF DetectorInv
<1> QED
  BY <1>1, InitDetector, NextKeeps, PTL DEF Spec

(* ReportsAreCycles: what dfs reports on a back edge (cycle.go:47-53) is a *)
(* cycle of the copy of the graph it searches.                             *)
THEOREM ReportedAreCycles == Spec => []ReportsAreCycles
<1>1. DetectorInv => ReportsAreCycles
  BY DEF DetectorInv
<1> QED
  BY <1>1, InitDetector, NextKeeps, PTL DEF Spec

(* NeverTwice: no cycle is added to a report (cycle.go:50-53) that was     *)
(* reported before in any turn, however many searches there were.          *)
THEOREM NothingIsReportedTwice == Spec => NeverTwice
<1> DEFINE Once == Len(result') > Len(result) =>
                     ~\E d \in knownCycles : SameCycle(result'[Len(result')], d)
<1>1. ASSUME DetectorInv, [Next]_vars PROVE Once
  <2> SUFFICES ASSUME Len(result') > Len(result),
                      NEW d \in knownCycles, SameCycle(result'[Len(result')], d)
               PROVE  FALSE
    OBVIOUS
  <2>1. result \in Seq(Seq(Services)) /\ Len(result) \in Nat
    BY <1>1 DEF DetectorInv, StackInv, StackType
  <2>2. result' # <<>> /\ result' # result
    BY <2>1
  <2>3. stack # <<>> /\ \E u \in Top.todo : BackEdge(u)
    BY <1>1, <2>2 DEF Next, Search, Start, Sweep, Root, Scan, TreeEdge, CrossEdge, Leave,
                      Finish, vars
  <2>4. PICK c \in Seq(Services) : /\ IsCycle(c, adjacency)
                                  /\ cycleKey(c) \notin knownCycles
                                  /\ result' = Append(result, c)
    BY <1>1, <2>2, <2>3, BackEdgeFacts DEF DetectorInv
  <2>5. result'[Len(result')] = c
    BY <2>1, <2>4
  <2>6. Canonical(d)
    BY <1>1 DEF DetectorInv, KnownInv
  <2>7. d = cycleKey(c)
    BY <2>4, <2>5, <2>6, OnlyKey
  <2> QED
    BY <2>4, <2>7
<1> QED
  BY <1>1, InitDetector, NextKeeps, PTL DEF Spec, NeverTwice

-----------------------------------------------------------------------------
(* Reachability *)

(* A finite graph: the edges are between services. *)
GraphOn(N, E) == IsFiniteSet(N) /\ E \subseteq N \X N

(* No edge leaves the set. *)
Closed(S, E) == \A x \in S : \A y : <<x, y>> \in E => y \in S

(* Successors are the ends of the edges that leave a set. *)
LEMMA SuccessorsFacts ==
  ASSUME NEW N, NEW E, GraphOn(N, E), NEW S
  PROVE  /\ Successors(S, E) \subseteq N
         /\ \A y : y \in Successors(S, E) <=> \E x \in S : <<x, y>> \in E
<1>1. \A e \in E : e = <<e[1], e[2]>> /\ e[1] \in N /\ e[2] \in N
  BY DEF GraphOn
<1>2. \A y : y \in Successors(S, E) <=> \E e \in E : e[1] \in S /\ y = e[2]
  BY DEF Successors
<1>3. ASSUME NEW y, y \in Successors(S, E) PROVE y \in N /\ \E x \in S : <<x, y>> \in E
  <2>1. PICK e \in E : e[1] \in S /\ y = e[2]
    BY <1>2, <1>3
  <2> QED
    BY <1>1, <2>1
<1>4. ASSUME NEW y, NEW x \in S, <<x, y>> \in E PROVE y \in Successors(S, E)
  BY <1>2, <1>4
<1> QED
  BY <1>3, <1>4

(* The sets of services within one edge, two edges and so on. *)
LEMMA WithinFacts ==
  ASSUME NEW N, NEW E, GraphOn(N, E), NEW m
  PROVE  /\ Cardinality(N) \in Nat
         /\ \A i \in 0 .. Cardinality(N) : Within(m, N, E)[i] \in SUBSET N
         /\ Within(m, N, E)[0] = Successors({m}, E)
         /\ \A i \in 1 .. Cardinality(N) :
              Within(m, N, E)[i] = Within(m, N, E)[i - 1]
                                     \cup Successors(Within(m, N, E)[i - 1], E)
<1> DEFINE C == Cardinality(N)
           v == Successors({m}, E)
           s == [X \in SUBSET N |-> X \cup Successors(X, E)]
           Is(g) == g = [i \in 0 .. C |-> IF i = 0 THEN Successors({m}, E)
                                          ELSE g[i - 1] \cup Successors(g[i - 1], E)]
<1>1. C \in Nat
  BY FS_CardinalityType DEF GraphOn
<1>2. v \in SUBSET N /\ s \in [SUBSET N -> SUBSET N]
  <2>1. \A X \in SUBSET N : X \cup Successors(X, E) \in SUBSET N
    BY SuccessorsFacts
  <2>2. v \in SUBSET N
    BY SuccessorsFacts
  <2> QED
    BY <2>1, <2>2
<1> HIDE DEF C, s, v
<1>3. PICK g : Iterated(g, SUBSET N, s, v, C)
  BY <1>1, <1>2, Iterates
<1>4. /\ g \in [0 .. C -> SUBSET N] /\ g[0] = Successors({m}, E)
      /\ \A i \in 1 .. C : g[i] = g[i - 1] \cup Successors(g[i - 1], E)
  <2>1. \A i \in 1 .. C : i - 1 \in 0 .. C
    BY <1>1
  <2> QED
    BY <1>3, <2>1 DEF Iterated, s, v
<1>5. Is(g)
  <2>1. \A i \in 0 .. C : i = 0 \/ i \in 1 .. C
    BY <1>1
  <2> QED
    BY <1>4, <2>1
<1>6. Within(m, N, E) = CHOOSE h : Is(h)
  BY DEF Within, C
<1>7. Is(Within(m, N, E))
  BY <1>5, <1>6, Zenon
<1> DEFINE W == Within(m, N, E)
           S == {i \in 0 .. C : W[i] \in SUBSET N}
<1>8. /\ W[0] = Successors({m}, E)
      /\ \A i \in 1 .. C : W[i] = W[i - 1] \cup Successors(W[i - 1], E)
  <2>1. 0 \in 0 .. C /\ \A i \in 1 .. C : i \in 0 .. C /\ i # 0
    BY <1>1
  <2> HIDE DEF W
  <2> QED
    BY <1>7, <2>1 DEF W
<1> HIDE DEF W
<1>9. 0 \in S
  BY <1>1, <1>2, <1>8 DEF v
<1>10. ASSUME NEW n \in 0 .. C - 1, n \in S PROVE n + 1 \in S
  <2>1. n + 1 \in 1 .. C /\ n + 1 \in 0 .. C /\ (n + 1) - 1 = n
    BY <1>1
  <2>2. W[n + 1] = W[n] \cup Successors(W[n], E)
    BY <1>8, <2>1
  <2>3. Successors(W[n], E) \subseteq N
    BY SuccessorsFacts
  <2> QED
    BY <1>10, <2>1, <2>2, <2>3
<1> HIDE DEF S
<1>11. \A i \in 0 .. C : i \in S
  BY <1>1, <1>9, <1>10, UpTo
<1> QED
  BY <1>1, <1>8, <1>11 DEF S, W, C

(* Reach is closed: it takes no more rounds than there are services.       *)
LEMMA ReachIsClosed ==
  ASSUME NEW N, NEW E, GraphOn(N, E), NEW m
  PROVE  /\ Reach(m, N, E) \subseteq N
         /\ \A y : <<m, y>> \in E => y \in Reach(m, N, E)
         /\ Closed(Reach(m, N, E), E)
<1> DEFINE C == Cardinality(N)
           W == Within(m, N, E)
<1>1. /\ C \in Nat
      /\ \A i \in 0 .. C : W[i] \in SUBSET N
      /\ W[0] = Successors({m}, E)
      /\ \A i \in 1 .. C : W[i] = W[i - 1] \cup Successors(W[i - 1], E)
  <2>1. \A i \in 0 .. C : W[i] \in SUBSET N
    BY WithinFacts, Zenon
  <2>2. /\ C \in Nat
        /\ W[0] = Successors({m}, E)
        /\ \A i \in 1 .. C : W[i] = W[i - 1] \cup Successors(W[i - 1], E)
    BY WithinFacts
  <2> QED
    BY <2>1, <2>2
<1>2. Reach(m, N, E) = W[C]
  BY DEF Reach
<1> HIDE DEF W, C
<1>3. \A i \in 0 .. C - 1 : /\ i + 1 \in 1 .. C /\ i + 1 \in 0 .. C /\ i \in 0 .. C
                            /\ W[i + 1] = W[i] \cup Successors(W[i], E)
  <2>1. \A i \in 0 .. C - 1 : /\ i + 1 \in 1 .. C /\ i + 1 \in 0 .. C /\ i \in 0 .. C
                              /\ (i + 1) - 1 = i
    BY <1>1
  <2> QED
    BY <1>1, <2>1
<1>4. \A y : <<m, y>> \in E => y \in W[C]
  <2> SUFFICES ASSUME NEW y, <<m, y>> \in E PROVE y \in W[C]
    OBVIOUS
  <2> DEFINE S == {i \in 0 .. C : y \in W[i]}
  <2>1. 0 \in S
    BY <1>1, SuccessorsFacts
  <2>2. \A i \in 0 .. C - 1 : i \in S => i + 1 \in S
    BY <1>3
  <2> HIDE DEF S
  <2>3. \A i \in 0 .. C : i \in S
    BY <1>1, <2>1, <2>2, UpTo
  <2> QED
    BY <1>1, <2>3 DEF S
<1>5. Closed(W[C], E)
  <2> SUFFICES ASSUME ~Closed(W[C], E) PROVE FALSE
    OBVIOUS
  <2> DEFINE R == {i \in 0 .. C : Closed(W[i], E)}
  <2>1. \A i \in 0 .. C - 1 : i \in R => i + 1 \in R
    <3> SUFFICES ASSUME NEW i \in 0 .. C - 1, i \in R PROVE i + 1 \in R
      OBVIOUS
    <3>1. Successors(W[i], E) \subseteq W[i]
      <4> SUFFICES ASSUME NEW y, y \in Successors(W[i], E) PROVE y \in W[i]
        OBVIOUS
      <4>1. PICK x \in W[i] : <<x, y>> \in E
        BY SuccessorsFacts
      <4> QED
        BY <4>1 DEF Closed
    <3>2. W[i + 1] = W[i] /\ i + 1 \in 0 .. C
      BY <1>3, <3>1
    <3> QED
      BY <3>2
  <2>2. \A i \in 0 .. C : ~Closed(W[i], E)
    <3> SUFFICES ASSUME NEW i \in 0 .. C, i \in R PROVE FALSE
      OBVIOUS
    <3>1. i \in Nat /\ \A k \in i .. C - 1 : k \in 0 .. C - 1
      BY <1>1
    <3>2. C \in i .. C
      BY <1>1
    <3>3. C \notin R
      OBVIOUS
    <3> HIDE DEF R
    <3>4. \A k \in i .. C : k \in R
      BY <1>1, <2>1, <3>1, UpTo
    <3> QED
      BY <3>2, <3>3, <3>4
  <2> DEFINE S == {i \in 0 .. C : Cardinality(W[i]) >= i}
  <2>3. \A i \in 0 .. C : IsFiniteSet(W[i]) /\ Cardinality(W[i]) \in Nat
    BY <1>1, FS_Subset, FS_CardinalityType DEF GraphOn
  <2>4. 0 \in S
    BY <1>1, <2>3
  <2>5. ASSUME NEW i \in 0 .. C - 1, i \in S PROVE i + 1 \in S
    <3>1. PICK y : y \notin W[i] /\ \E x \in W[i] : <<x, y>> \in E
      BY <1>3, <2>2 DEF Closed
    <3>2. y \in Successors(W[i], E)
      BY <3>1, SuccessorsFacts
    <3>3. W[i] \cup {y} \in SUBSET W[i + 1]
      BY <1>3, <3>2
    <3>4. Cardinality(W[i] \cup {y}) = Cardinality(W[i]) + 1
      BY <1>3, <2>3, <3>1, FS_AddElement
    <3>5. Cardinality(W[i] \cup {y}) <= Cardinality(W[i + 1])
      BY <1>3, <2>3, <3>3, FS_Subset
    <3> QED
      BY <1>3, <2>3, <2>5, <3>4, <3>5
  <2> HIDE DEF S
  <2>6. C \in S
    BY <1>1, <2>4, <2>5, UpTo
  <2>7. C \in 0 .. C /\ Cardinality(W[C]) >= C
    BY <2>6 DEF S
  <2>8. /\ W[C] \in SUBSET N /\ Cardinality(W[C]) <= C
        /\ (C = Cardinality(W[C]) => N = W[C])
    BY <1>1, <2>7, FS_Subset DEF C, GraphOn
  <2>9. W[C] = N
    BY <1>1, <2>3, <2>7, <2>8
  <2> QED
    BY <2>9 DEF Closed, GraphOn
<1>6. W[C] \subseteq N
  BY <1>1
<1> QED
  BY <1>2, <1>4, <1>5, <1>6

(* ... and it is the least closed set with the successors of m. *)
LEMMA ReachIsLeast ==
  ASSUME NEW N, NEW E, GraphOn(N, E), NEW m, NEW T,
         \A y : <<m, y>> \in E => y \in T, Closed(T, E)
  PROVE  Reach(m, N, E) \subseteq T
<1> DEFINE C == Cardinality(N)
           W == Within(m, N, E)
           S == {i \in 0 .. C : W[i] \subseteq T}
<1>1. /\ C \in Nat
      /\ W[0] = Successors({m}, E)
      /\ \A i \in 1 .. C : W[i] = W[i - 1] \cup Successors(W[i - 1], E)
  BY WithinFacts
<1>2. Reach(m, N, E) = W[C]
  BY DEF Reach
<1> HIDE DEF W, C
<1>3. 0 \in S
  <2>1. Successors({m}, E) \subseteq T
    <3> SUFFICES ASSUME NEW y, y \in Successors({m}, E) PROVE y \in T
      OBVIOUS
    <3> DEFINE M == {m}
    <3>1. y \in Successors(M, E)
      OBVIOUS
    <3> HIDE DEF M
    <3>2. PICK x \in M : <<x, y>> \in E
      BY <3>1, SuccessorsFacts
    <3> QED
      BY <3>2 DEF M
  <2> QED
    BY <1>1, <2>1
<1>4. ASSUME NEW i \in 0 .. C - 1, i \in S PROVE i + 1 \in S
  <2>1. i + 1 \in 1 .. C /\ i + 1 \in 0 .. C /\ (i + 1) - 1 = i
    BY <1>1
  <2>2. Successors(W[i], E) \subseteq T
    <3> SUFFICES ASSUME NEW y, y \in Successors(W[i], E) PROVE y \in T
      OBVIOUS
    <3>1. PICK x \in W[i] : <<x, y>> \in E
      BY SuccessorsFacts
    <3> QED
      BY <1>4, <3>1 DEF Closed
  <2>3. W[i + 1] = W[i] \cup Successors(W[i], E)
    BY <1>1, <2>1
  <2> QED
    BY <1>4, <2>1, <2>2, <2>3
<1> HIDE DEF S
<1>5. C \in S
  BY <1>1, <1>3, <1>4, UpTo
<1> QED
  BY <1>2, <1>5 DEF S

(* What is reached from a service that is reached is reached. *)
LEMMA ReachIsTransitive ==
  ASSUME NEW N, NEW E, GraphOn(N, E), NEW m, NEW x \in Reach(m, N, E)
  PROVE  Reach(x, N, E) \subseteq Reach(m, N, E)
<1>1. Closed(Reach(m, N, E), E)
  BY ReachIsClosed
<1>2. \A y : <<x, y>> \in E => y \in Reach(m, N, E)
  BY <1>1 DEF Closed
<1> QED
  BY <1>1, <1>2, ReachIsLeast

(* A way begins with an edge. *)
LEMMA FirstEdge ==
  ASSUME NEW N, NEW E, GraphOn(N, E), NEW m, NEW x \in Reach(m, N, E)
  PROVE  \E u \in N : <<m, u>> \in E /\ (u = x \/ x \in Reach(u, N, E))
<1> DEFINE T == {z \in N : \E u \in N : <<m, u>> \in E /\ (u = z \/ z \in Reach(u, N, E))}
<1>1. ASSUME NEW y, <<m, y>> \in E PROVE y \in T
  <2>1. y \in N
    BY <1>1 DEF GraphOn
  <2> QED
    BY <1>1, <2>1
<1>2. ASSUME NEW z \in T, NEW y, <<z, y>> \in E PROVE y \in T
  <2>1. PICK u \in N : <<m, u>> \in E /\ (u = z \/ z \in Reach(u, N, E))
    OBVIOUS
  <2>2. y \in Reach(u, N, E) /\ Reach(u, N, E) \subseteq N
    BY <1>2, <2>1, ReachIsClosed DEF Closed
  <2> QED
    BY <2>1, <2>2
<1>3. Closed(T, E)
  BY <1>2 DEF Closed
<1> HIDE DEF T
<1>4. x \in T
  BY <1>1, <1>3, ReachIsLeast
<1> QED
  BY <1>4 DEF T

(* The services of a cycle reach each other. *)
LEMMA CycleReaches ==
  ASSUME NEW N, NEW E, GraphOn(N, E), NEW c, Len(c) \in Nat, IsCycle(c, E),
         NEW a \in 1 .. Len(c), NEW b \in 1 .. Len(c)
  PROVE  c[b] \in Reach(c[a], N, E)
<1> DEFINE n == Len(c)
           next(i) == IF i = n THEN 1 ELSE i + 1
           T == {i \in 1 .. n : c[i] \in Reach(c[a], N, E)}
<1>1. n \in Nat /\ n > 0 /\ a \in 1 .. n /\ b \in 1 .. n
  BY DEF IsCycle
<1>2. \A i \in 1 .. n : <<c[i], c[next(i)]>> \in E
  BY DEF IsCycle, Follows, Following
<1> HIDE DEF n
<1>3. \A i \in 1 .. n : next(i) \in 1 .. n
  BY <1>1
<1>4. next(a) \in T
  BY <1>1, <1>2, <1>3, ReachIsClosed
<1>5. \A i \in T : next(i) \in T
  BY <1>2, <1>3, ReachIsClosed DEF Closed
<1>6. T \subseteq 1 .. n
  OBVIOUS
<1> HIDE DEF T
<1>7. \A i \in 1 .. n - 1 : i \in T => i + 1 \in T
  BY <1>1, <1>5
<1>8. n \in T
  <2>1. next(a) \in Nat /\ n \in next(a) .. n /\ \A i \in next(a) .. n - 1 : i \in 1 .. n - 1
    BY <1>1, <1>3
  <2> HIDE DEF next
  <2>2. \A i \in next(a) .. n : i \in T
    BY <1>1, <1>4, <1>7, <2>1, UpTo
  <2> QED
    BY <2>1, <2>2
<1>9. 1 \in T
  BY <1>5, <1>8
<1>10. \A i \in 1 .. n : i \in T
  BY <1>1, <1>7, <1>9, UpTo, 1 \in Nat
<1> QED
  BY <1>1, <1>10 DEF T

-----------------------------------------------------------------------------
(* No tangle is missed *)

(* A known cycle of the copy goes along the edge from v to u. *)
Covered(v, u) == \E c \in knownCycles : IsCycle(c, adjacency) /\ Passes(c, v, u)

Settled(v, u) == colors[u] = "black" \/ Covered(v, u)

(* From a black service an edge leads to a black one or is covered. *)
Blacks == \A v \in Services : colors[v] = "black" =>
            \A u \in Services : <<v, u>> \in adjacency => Settled(v, u)

(* So it is with the edges a call has taken up, but for the one along which *)
(* it has called dfs.                                                       *)
Scanning == \A i \in 1 .. Len(stack) : \A w, u \in Services :
              w = stack[i].node /\ u \notin stack[i].todo /\ <<w, u>> \in adjacency =>
                Settled(w, u) \/ (i < Len(stack) /\ u = stack[i + 1].node)

Finished == ~running => \A n \in Nodes : colors[n] = "black"

(* Among any black services there is one, the first to have turned black,   *)
(* whose edges to the others are all covered.                               *)
FirstBlack == \A S \in SUBSET Services :
                S # {} /\ (\A v \in S : colors[v] = "black") =>
                  \E w \in S : \A u \in S : <<w, u>> \in adjacency => Covered(w, u)

ScanInv == Blacks /\ Scanning /\ Finished /\ FirstBlack

(* What is covered or settled stays so while the search goes on. *)
LEMMA SettledStays ==
  ASSUME UNCHANGED adjacency, knownCycles \subseteq knownCycles', NEW u,
         colors[u] = "black" => colors'[u] = "black", NEW v
  PROVE  /\ Covered(v, u) => Covered(v, u)'
         /\ Settled(v, u) => Settled(v, u)'
BY DEF Covered, Settled

(* A step that turns no service black keeps what is said of the black ones. *)
LEMMA BlacksStay ==
  ASSUME ScanInv, UNCHANGED adjacency, knownCycles \subseteq knownCycles',
         \A n \in Services : colors'[n] = "black" <=> colors[n] = "black"
  PROVE  Blacks' /\ FirstBlack'
<1>1. \A v, u : Covered(v, u) => Covered(v, u)'
  BY DEF Covered
<1>2. \A v, u \in Services : Settled(v, u) => Settled(v, u)'
  BY <1>1 DEF Settled
<1>3. Blacks'
  <2> SUFFICES ASSUME NEW v \in Services, colors'[v] = "black",
                      NEW u \in Services, <<v, u>> \in adjacency'
               PROVE  Settled(v, u)'
    BY DEF Blacks
  <2>1. colors[v] = "black" /\ <<v, u>> \in adjacency
    OBVIOUS
  <2> QED
    BY <1>2, <2>1 DEF ScanInv, Blacks
<1>4. FirstBlack'
  <2> SUFFICES ASSUME NEW S \in SUBSET Services, S # {}, \A v \in S : colors'[v] = "black"
               PROVE  \E w \in S : \A u \in S : <<w, u>> \in adjacency' => Covered(w, u)'
    BY DEF FirstBlack
  <2>1. \A v \in S : colors[v] = "black"
    OBVIOUS
  <2>2. PICK w \in S : \A u \in S : <<w, u>> \in adjacency => Covered(w, u)
    BY <2>1 DEF ScanInv, FirstBlack
  <2>3. \A u \in S : <<w, u>> \in adjacency' => Covered(w, u)'
    BY <1>1, <2>2
  <2> QED
    BY <2>3
<1> QED
  BY <1>3, <1>4

(* A new call of dfs has taken up no edge; the call below it one. *)
LEMMA EnterScans ==
  ASSUME DetectorInv, ScanInv, running, NEW s, NEW v \in Services, colors[v] = "white",
         s \in Seq(Frame), Len(s) = Len(stack),
         \A i \in 1 .. Len(stack) :
           /\ s[i].node = stack[i].node
           /\ \A u \in Services \ s[i].todo :
                u \in stack[i].todo => i = Len(stack) /\ u = v,
         Enter(v, s), UNCHANGED <<adjacency, running, knownCycles>>
  PROVE  ScanInv'
<1> DEFINE L == Len(stack)
           f == [node |-> v, todo |-> {u \in Services : <<v, u>> \in adjacency}]
<1>1. /\ L \in Nat /\ f \in Frame /\ f.node = v
      /\ \A u \in Services \ f.todo : <<v, u>> \notin adjacency
  BY DEF DetectorInv, StackInv, StackType, Frame
<1>2. stack' = Append(s, f) /\ colors' = [colors EXCEPT ![v] = "gray"]
  BY DEF Enter
<1> HIDE DEF f
<1>3. /\ Len(stack') = L + 1
      /\ stack'[L + 1] = f /\ \A i \in 1 .. L : stack'[i] = s[i]
  BY <1>1, <1>2
<1>4. \A n \in Services : colors'[n] = "black" <=> colors[n] = "black"
  BY <1>2 DEF DetectorInv, TypeOK
<1>5. Blacks' /\ FirstBlack'
  BY <1>4, BlacksStay
<1>6. Finished'
  BY DEF Finished
<1>7. \A w : \A u \in Services : Settled(w, u) => Settled(w, u)'
  BY <1>4 DEF Settled, Covered
<1>8. Scanning'
  <2> SUFFICES ASSUME NEW i \in 1 .. Len(stack'), NEW w \in Services, NEW u \in Services,
                      w = stack'[i].node, u \notin stack'[i].todo, <<w, u>> \in adjacency
               PROVE  Settled(w, u)' \/ (i < Len(stack') /\ u = stack'[i + 1].node)
    BY DEF Scanning
  <2>1. CASE i = L + 1
    BY <1>1, <1>3, <2>1
  <2>2. CASE i # L + 1
    <3>1. /\ i \in 1 .. L /\ i < Len(stack') /\ stack'[i] = s[i]
          /\ w = stack[i].node
      BY <1>1, <1>3, <2>2
    <3>2. CASE u \in stack[i].todo
      <4>1. i = L /\ u = v
        BY <3>1, <3>2
      <4> QED
        BY <1>1, <1>3, <3>1, <4>1
    <3>3. CASE u \notin stack[i].todo
      <4>1. Settled(w, u) \/ (i < L /\ u = stack[i + 1].node)
        BY <3>1, <3>3 DEF ScanInv, Scanning
      <4>2. CASE i < L /\ u = stack[i + 1].node
        <5>1. i + 1 \in 1 .. L
          BY <1>1, <3>1, <4>2
        <5>2. stack'[i + 1].node = stack[i + 1].node
          BY <1>3, <5>1
        <5> QED
          BY <3>1, <4>2, <5>2
      <4>3. CASE Settled(w, u)
        BY <1>7, <4>3
      <4> QED
        BY <4>1, <4>2, <4>3
    <3> QED
      BY <3>2, <3>3
  <2> QED
    BY <2>1, <2>2
<1> QED
  BY <1>5, <1>6, <1>8 DEF ScanInv

(* An edge to a service that was seen is settled when it is taken up. *)
LEMMA SeenEdgeScans ==
  ASSUME DetectorInv, ScanInv, stack # <<>>, NEW u \in Top.todo, BackEdge(u) \/ CrossEdge(u),
         UNCHANGED <<adjacency, running>>
  PROVE  ScanInv'
<1> DEFINE L == Len(stack)
<1>1. /\ L \in Nat /\ L > 0 /\ Len(stack') = L
      /\ \A i \in 1 .. L : /\ stack'[i].node = stack[i].node
                           /\ stack'[i].todo = IF i = L THEN stack[i].todo \ {u}
                                                ELSE stack[i].todo
  <2>1. TypeOK /\ StackInv /\ stack' = Scanned(u)
    BY DEF DetectorInv, BackEdge, CrossEdge
  <2> QED
    BY <2>1, ScannedFacts
<1>2. UNCHANGED colors
  BY DEF BackEdge, CrossEdge
<1>3. /\ knownCycles \subseteq knownCycles'
      /\ \A w : w = Top.node => Settled(w, u)'
  <2>1. CASE BackEdge(u)
    <3>1. PICK c \in Seq(Services) :
            /\ IsCycle(c, adjacency) /\ Passes(c, Top.node, u)
            /\ \/ cycleKey(c) \in knownCycles /\ UNCHANGED <<result, knownCycles>>
               \/ knownCycles' = knownCycles \cup {cycleKey(c)}
      BY <2>1, BackEdgeFacts DEF DetectorInv
    <3>2. IsCycle(cycleKey(c), adjacency) /\ Passes(cycleKey(c), Top.node, u)
      BY <3>1, KeyIsCycle
    <3>3. knownCycles \subseteq knownCycles' /\ cycleKey(c) \in knownCycles'
      BY <3>1
    <3> SUFFICES ASSUME NEW w, w = Top.node PROVE Covered(w, u)'
      BY <3>3 DEF Settled
    <3> QED
      BY <3>2, <3>3 DEF Covered
  <2>2. CASE CrossEdge(u)
    BY <2>2 DEF CrossEdge, Settled
  <2> QED
    BY <2>1, <2>2
<1>4. Blacks' /\ FirstBlack'
  BY <1>2, <1>3, BlacksStay
<1>5. Finished'
  BY <1>2 DEF ScanInv, Finished, Nodes
<1>6. \A w, n : Settled(w, n) => Settled(w, n)'
  BY <1>2, <1>3 DEF Settled, Covered
<1>7. Scanning'
  <2> SUFFICES ASSUME NEW i \in 1 .. L, NEW w \in Services, NEW n \in Services,
                      w = stack[i].node, n \notin stack'[i].todo, <<w, n>> \in adjacency
               PROVE  Settled(w, n)' \/ (i < L /\ n = stack[i + 1].node)
    <3>1. \A i \in 1 .. L : i < L => i + 1 \in 1 .. L
      BY <1>1
    <3> QED
      BY <1>1, <3>1 DEF Scanning
  <2>1. CASE n \in stack[i].todo
    <3>1. i = L /\ n = u
      BY <1>1, <2>1
    <3> QED
      BY <1>3, <3>1 DEF Top
  <2>2. CASE n \notin stack[i].todo
    <3>1. Settled(w, n) \/ (i < L /\ n = stack[i + 1].node)
      BY <2>2 DEF ScanInv, Scanning
    <3> QED
      BY <1>6, <3>1
  <2> QED
    BY <2>1, <2>2
<1> QED
  BY <1>4, <1>5, <1>7 DEF ScanInv

(* A service turns black when its edges are settled. *)
LEMMA LeaveScans ==
  ASSUME DetectorInv, ScanInv, Leave
  PROVE  ScanInv'
<1> DEFINE L == Len(stack)
<1>1. /\ L \in Nat /\ L > 0 /\ stack # <<>>
      /\ \A i \in 1 .. L : stack[i].node \in Services
  BY ScannedFacts DEF DetectorInv, Leave
<1> DEFINE v == Top.node
<1>2. L \in 1 .. L /\ v = stack[L].node /\ stack[L].todo = {}
  BY <1>1 DEF Leave, Top
<1>3. v \in Services /\ colors[v] = "gray"
  BY <1>1, <1>2 DEF DetectorInv, StackInv, Grays
<1>4. colors' = [colors EXCEPT ![v] = "black"] /\ UNCHANGED <<adjacency, knownCycles, running>>
  BY DEF Leave
<1>5. /\ Len(stack') = L - 1 /\ \A i \in 1 .. L - 1 : stack'[i] = stack[i]
  <2>1. /\ stack' = SubSeq(stack, 1, L - 1)
        /\ \A i \in 1 .. L - 1 : stack[i] \in Frame
    BY <1>1 DEF Leave, DetectorInv, StackInv, StackType
  <2>2. /\ Len(stack') = IF 1 <= L - 1 THEN L - 1 - 1 + 1 ELSE 0
        /\ \A i \in 1 .. L - 1 - 1 + 1 : stack'[i] = stack[1 + i - 1]
    BY <1>1, <2>1, SubSeqProperties, 1 \in Int, L - 1 \in Int
  <2>3. L \in Nat /\ L > 0
    BY <1>1
  <2> HIDE DEF L
  <2>4. \A i \in 1 .. L - 1 : i \in 1 .. L - 1 - 1 + 1 /\ 1 + i - 1 = i
    BY <2>3
  <2> QED
    BY <2>2, <2>3, <2>4
<1>6. ASSUME NEW u \in Services, <<v, u>> \in adjacency PROVE Settled(v, u)
  BY <1>2, <1>3, <1>6 DEF ScanInv, Scanning
<1> HIDE DEF v
<1>7. \A n \in Services : colors'[n] = "black" <=> colors[n] = "black" \/ n = v
  BY <1>3, <1>4 DEF DetectorInv, TypeOK
<1>8. \A w, u : Covered(w, u) => Covered(w, u)'
  BY <1>4 DEF Covered
<1>9. \A w : \A u \in Services : Settled(w, u) => Settled(w, u)'
  BY <1>7, <1>8 DEF Settled
<1>10. Blacks'
  <2> SUFFICES ASSUME NEW w \in Services, colors'[w] = "black",
                      NEW u \in Services, <<w, u>> \in adjacency
               PROVE  Settled(w, u)'
    BY <1>4 DEF Blacks
  <2>1. CASE w = v
    BY <1>6, <1>9, <2>1
  <2>2. CASE w # v
    BY <1>7, <1>9, <2>2 DEF ScanInv, Blacks
  <2> QED
    BY <2>1, <2>2
<1>11. Scanning'
  <2> SUFFICES ASSUME NEW i \in 1 .. Len(stack'), NEW w \in Services, NEW u \in Services,
                      w = stack'[i].node, u \notin stack'[i].todo, <<w, u>> \in adjacency
               PROVE  Settled(w, u)' \/ (i < Len(stack') /\ u = stack'[i + 1].node)
    BY <1>4 DEF Scanning
  <2>1. i \in 1 .. L - 1 /\ i \in 1 .. L /\ stack'[i] = stack[i]
    BY <1>1, <1>5
  <2>2. Settled(w, u) \/ (i < L /\ u = stack[i + 1].node)
    BY <2>1 DEF ScanInv, Scanning
  <2>3. CASE i = L - 1 /\ u = stack[i + 1].node
    <3>1. u = v
      BY <1>1, <1>2, <2>3
    <3> QED
      BY <1>7, <3>1 DEF Settled
  <2>4. CASE i # L - 1 /\ u = stack[i + 1].node
    <3>1. i + 1 \in 1 .. L - 1 /\ i < Len(stack')
      BY <1>1, <1>5, <2>1, <2>4
    <3> QED
      BY <1>5, <2>4, <3>1
  <2>5. CASE Settled(w, u)
    BY <1>9, <2>5
  <2> QED
    BY <2>2, <2>3, <2>4, <2>5
<1>12. Finished'
  BY <1>1, <1>4 DEF Finished, DetectorInv, StackInv, StackType
<1>13. FirstBlack'
  <2> SUFFICES ASSUME NEW S \in SUBSET Services, S # {}, \A n \in S : colors'[n] = "black"
               PROVE  \E w \in S : \A u \in S : <<w, u>> \in adjacency => Covered(w, u)'
    BY <1>4 DEF FirstBlack
  <2> DEFINE R == S \ {v}
  <2>1. R \in SUBSET Services /\ \A n \in R : colors[n] = "black"
    BY <1>7
  <2>2. CASE R = {}
    <3>1. S = {v}
      BY <2>2
    <3>2. <<v, v>> \in adjacency => Covered(v, v)
      BY <1>3, <1>6 DEF Settled
    <3> QED
      BY <1>8, <3>1, <3>2
  <2>3. CASE R # {}
    <3>1. PICK w \in R : \A u \in R : <<w, u>> \in adjacency => Covered(w, u)
      BY <2>1, <2>3 DEF ScanInv, FirstBlack
    <3>2. w \in Services /\ colors[w] = "black"
      BY <2>1
    <3>3. <<w, v>> \in adjacency => Covered(w, v)
      BY <1>3, <3>2 DEF ScanInv, Blacks, Settled
    <3>4. \A u \in S : <<w, u>> \in adjacency => Covered(w, u)
      BY <3>1, <3>3
    <3> QED
      BY <1>8, <3>1, <3>4
  <2> QED
    BY <2>2, <2>3
<1> QED
  BY <1>10, <1>11, <1>12, <1>13 DEF ScanInv

(* The services of the copy. *)
LEMMA CopyFacts ==
  ASSUME TypeOK
  PROVE  Nodes \subseteq Services /\ GraphOn(Nodes, adjacency)
<1>1. \A e \in adjacency : e \in Services \X Services
  BY ServicesAssumption DEF TypeOK
<1>2. \A e \in adjacency : /\ e = <<e[1], e[2]>> /\ e[1] \in Services /\ e[2] \in Services
                           /\ e[1] \in Nodes /\ e[2] \in Nodes
  BY <1>1 DEF Nodes
<1>3. Nodes \subseteq Services
  BY <1>2 DEF Nodes
<1>4. IsFiniteSet(Nodes)
  BY <1>3, ServicesAssumption, FS_Subset
<1>5. adjacency \subseteq Nodes \X Nodes
  BY <1>2
<1> QED
  BY <1>3, <1>4, <1>5 DEF GraphOn

(* What is said of the scanned edges holds at first. *)
LEMMA InitScans == Init => ScanInv
<1> SUFFICES ASSUME Init PROVE ScanInv
  OBVIOUS
<1>1. stack = <<>> /\ Nodes = {} /\ \A n \in Services : colors[n] = "white"
  BY DEF Init, Nodes
<1>2. Blacks /\ Scanning /\ Finished
  BY <1>1 DEF Blacks, Scanning, Finished
<1>3. FirstBlack
  BY <1>1 DEF FirstBlack
<1> QED
  BY <1>2, <1>3 DEF ScanInv

(* Every step keeps it. *)
LEMMA NextScans == DetectorInv /\ ScanInv /\ [Next]_vars => ScanInv'
<1> SUFFICES ASSUME DetectorInv, ScanInv, [Next]_vars PROVE ScanInv'
  OBVIOUS
<1>1. ASSUME NEW e \in Calls, Start(e) PROVE ScanInv'
  <2>1. stack' = <<>> /\ running' /\ \A n \in Services : colors'[n] = "white"
    BY <1>1 DEF Start, DetectorInv, StackInv, StackType
  <2>2. Blacks' /\ Scanning' /\ Finished'
    BY <2>1 DEF Blacks, Scanning, Finished
  <2>3. FirstBlack'
    BY <2>1 DEF FirstBlack
  <2> QED
    BY <2>2, <2>3 DEF ScanInv
<1>2. ASSUME UNCHANGED <<adjacency, searchVars>>, Finished' PROVE ScanInv'
  <2>1. Blacks' /\ FirstBlack'
    BY <1>2, BlacksStay
  <2>2. \A w, u : Settled(w, u) => Settled(w, u)'
    BY <1>2 DEF Settled, Covered
  <2>3. Scanning'
    BY <1>2, <2>2 DEF ScanInv, Scanning
  <2> QED
    BY <1>2, <2>1, <2>3 DEF ScanInv
<1>3. ASSUME UNCHANGED <<adjacency, running, colors>> PROVE Finished'
  BY <1>3 DEF ScanInv, Finished, Nodes
<1>4. ASSUME NEW e \in Calls, Sweep(e) PROVE ScanInv'
  BY <1>2, <1>3, <1>4 DEF Sweep
<1>5. CASE UNCHANGED vars
  BY <1>2, <1>3, <1>5 DEF vars
<1>6. CASE Finish
  <2>1. stack = <<>> /\ \A n \in Nodes : n \in Services /\ colors[n] # "white"
    BY <1>6, CopyFacts DEF Finish, DetectorInv
  <2>2. \A n \in Nodes : colors[n] # "gray"
    BY <2>1 DEF DetectorInv, StackInv, GraysOnStack
  <2>3. \A n \in Nodes : colors[n] = "black"
    BY <2>1, <2>2 DEF DetectorInv, TypeOK
  <2>4. UNCHANGED <<adjacency, searchVars>>
    BY <1>6 DEF Finish
  <2>5. Finished'
    BY <2>3, <2>4 DEF Finished, Nodes
  <2> QED
    BY <1>2, <2>4, <2>5
<1>7. ASSUME NEW n \in Services, Root(n) PROVE ScanInv'
  <2> DEFINE s == stack
  <2>1. stack = <<>> /\ s \in Seq(Frame) /\ Len(s) = Len(stack) /\ Len(stack) = 0
    BY <1>7 DEF Root, DetectorInv, StackInv, StackType
  <2>2. /\ running /\ colors[n] = "white" /\ Enter(n, s)
        /\ UNCHANGED <<adjacency, running, knownCycles>>
    BY <1>7 DEF Root
  <2>3. \A i \in 1 .. Len(stack) :
          /\ s[i].node = stack[i].node
          /\ \A u \in Services \ s[i].todo : u \in stack[i].todo => i = Len(stack) /\ u = n
    OBVIOUS
  <2> HIDE DEF s
  <2> QED
    BY <2>1, <2>2, <2>3, EnterScans
<1>8. CASE Scan
  <2>1. PICK u \in Top.todo : TreeEdge(u) \/ BackEdge(u) \/ CrossEdge(u)
    BY <1>8 DEF Scan
  <2>2. stack # <<>> /\ UNCHANGED <<adjacency, running>>
    BY <1>8 DEF Scan
  <2>3. CASE TreeEdge(u)
    <3> DEFINE s == Scanned(u)
    <3>1. /\ Len(stack) \in Nat /\ Len(stack) > 0 /\ s \in Seq(Frame) /\ Len(s) = Len(stack)
          /\ \A i \in 1 .. Len(stack) :
               /\ s[i].node = stack[i].node /\ stack[i].todo \subseteq Services
               /\ s[i].todo = IF i = Len(stack) THEN stack[i].todo \ {u} ELSE stack[i].todo
      BY <2>2, ScannedFacts DEF DetectorInv
    <3>2. Len(stack) \in 1 .. Len(stack)
      BY <3>1
    <3>3. u \in Services
      BY <3>1, <3>2 DEF Top
    <3>4. /\ running /\ colors[u] = "white" /\ Enter(u, s)
          /\ UNCHANGED <<adjacency, running, knownCycles>>
      BY <2>2, <2>3 DEF TreeEdge, DetectorInv, StackInv, StackType
    <3> HIDE DEF s
    <3>5. \A i \in 1 .. Len(stack) :
            /\ s[i].node = stack[i].node
            /\ \A n \in Services \ s[i].todo : n \in stack[i].todo => i = Len(stack) /\ n = u
      BY <3>1
    <3> QED
      BY <3>1, <3>3, <3>4, <3>5, EnterScans
  <2>4. CASE BackEdge(u) \/ CrossEdge(u)
    BY <2>1, <2>2, <2>4, SeenEdgeScans
  <2> QED
    BY <2>1, <2>3, <2>4
<1>9. CASE Leave
  BY <1>9, LeaveScans
<1> QED
  BY <1>1, <1>4, <1>5, <1>6, <1>7, <1>8, <1>9 DEF Next, Search

(* A service on a cycle shares one that is known, when no search runs. *)
LEMMA KnotIsKnown ==
  ASSUME DetectorInv, ScanInv, ~running, NEW n \in Nodes, n \in Knot(n, Nodes, adjacency)
  PROVE  \E c \in knownCycles : /\ IsCycle(c, adjacency)
                                /\ \A i \in 1 .. Len(c) : c[i] \in Knot(n, Nodes, adjacency)
<1> DEFINE Re(m) == Reach(m, Nodes, adjacency)
           S == Knot(n, Nodes, adjacency)
<1>1. Nodes \subseteq Services /\ GraphOn(Nodes, adjacency)
  BY CopyFacts DEF DetectorInv
<1>2. \A m : m \in S <=> m \in Re(n) /\ n \in Re(m)
  BY DEF Knot
<1>3. \A m : \A x \in Re(m) : Re(x) \subseteq Re(m)
  BY <1>1, ReachIsTransitive
<1>4. Re(n) \subseteq Nodes
  BY <1>1, ReachIsClosed
<1>5. S \in SUBSET Services /\ S # {} /\ \A m \in S : colors[m] = "black"
  BY <1>1, <1>2, <1>4 DEF ScanInv, Finished
<1>6. PICK w \in S : \A u \in S : <<w, u>> \in adjacency => Covered(w, u)
  <2> HIDE DEF S
  <2> QED
    BY <1>5 DEF ScanInv, FirstBlack
<1>7. PICK u \in Nodes : <<w, u>> \in adjacency /\ (u = n \/ n \in Re(u))
  BY <1>1, <1>2, <1>6, FirstEdge
<1>8. u \in S
  <2>1. u \in Re(n)
    BY <1>1, <1>2, <1>6, <1>7, ReachIsClosed DEF Closed
  <2> QED
    BY <1>2, <1>7, <2>1
<1>9. PICK c \in knownCycles : IsCycle(c, adjacency) /\ Passes(c, w, u)
  BY <1>6, <1>7, <1>8 DEF Covered
<1>10. PICK a \in 1 .. Len(c) : c[a] = w
  BY <1>9 DEF Passes
<1>11. ASSUME NEW i \in 1 .. Len(c) PROVE c[i] \in S
  <2>1. Len(c) \in Nat
    BY DEF DetectorInv, TypeOK
  <2>2. c[i] \in Re(w) /\ w \in Re(c[i])
    BY <1>1, <1>9, <1>10, <2>1, CycleReaches
  <2>3. c[i] \in Re(n) /\ n \in Re(c[i])
    BY <1>2, <1>3, <2>2
  <2> QED
    BY <1>2, <2>3
<1> QED
  BY <1>9, <1>11

(* NoTangleMissed: once findNewCycles has returned (cycle.go:21-34), every  *)
(* service on a cycle of the copy shares a cycle that is known.             *)
THEOREM NoTangleIsMissed == Spec => []NoTangleMissed
<1>1. DetectorInv /\ ScanInv => NoTangleMissed
  BY KnotIsKnown DEF NoTangleMissed
<1> QED
  BY <1>1, InitDetector, NextKeeps, InitScans, NextScans, PTL DEF Spec

-----------------------------------------------------------------------------
(* What CallGraph supposes of a search (FeedFindsCycles)                   *)

Found == CyclesAmong(Services, adjacency)

(* A search leaves one cycle known, at least, if there is one. *)
OneIsKnown == ~running => (Found # {} => Found \cap knownCycles # {})

(* What becomes known is a cycle of the copy, turned to its key, and what is *)
(* known stays known.                                                        *)
OnlyFoundIsAdded ==
  [][knownCycles \subseteq knownCycles' /\ knownCycles' \ knownCycles \subseteq Found]_vars

(* A cycle has no more services than there are. *)
LEMMA CycleIsShort ==
  ASSUME NEW E, NEW c \in Seq(Services), IsCycle(c, E)
  PROVE  c \in [1 .. Len(c) -> Services] /\ Len(c) \in 1 .. Cardinality(Services)
<1>1. Len(c) \in Nat /\ Len(c) > 0 /\ c \in [1 .. Len(c) -> Services]
  BY DEF IsCycle
<1>2. Cardinality(Services) \in Nat
  BY ServicesAssumption, FS_CardinalityType
<1>3. IsFiniteSet(1 .. Len(c)) /\ Cardinality(1 .. Len(c)) = Len(c)
  <2>1. /\ IsFiniteSet(1 .. Len(c))
        /\ Cardinality(1 .. Len(c)) = IF 1 > Len(c) THEN 0 ELSE Len(c) - 1 + 1
    BY <1>1, FS_Interval, 1 \in Int, Len(c) \in Int
  <2> QED
    BY <1>1, <2>1
<1>4. ~(Cardinality(Services) < Cardinality(1 .. Len(c)))
  <2> SUFFICES ASSUME Cardinality(Services) < Cardinality(1 .. Len(c)) PROVE FALSE
    OBVIOUS
  <2>1. \E x, y \in 1 .. Len(c) : x # y /\ c[x] = c[y]
    BY <1>1, <1>3, ServicesAssumption, FS_PigeonHole
  <2> QED
    BY <2>1 DEF IsCycle, Distinct
<1> QED
  BY <1>1, <1>2, <1>3, <1>4

(* The keys of the cycles of the copy are what CyclesAmong collects. *)
LEMMA KeysAreFound ==
  ASSUME NEW c \in Seq(Services), IsCycle(c, adjacency), Canonical(c)
  PROVE  c \in Found
<1>1. c \in [1 .. Len(c) -> Services] /\ Len(c) \in 1 .. Cardinality(Services)
  BY CycleIsShort
<1>2. c \in UNION {[1 .. n -> Services] : n \in 1 .. Cardinality(Services)}
  BY <1>1
<1> QED
  BY <1>2 DEF Found, CyclesAmong, Canonical

(* A search leaves a cycle known if there is one. *)
LEMMA OneIsLeftKnown ==
  ASSUME DetectorInv, ScanInv, ~running, NEW c \in Found
  PROVE  \E d \in knownCycles : d \in Found
<1>1. c \in Seq(Services) /\ Len(c) \in Nat /\ Len(c) > 0 /\ IsCycle(c, adjacency)
  <2>1. PICK n \in 1 .. Cardinality(Services) : c \in [1 .. n -> Services]
    BY DEF Found, CyclesAmong
  <2>2. n \in Nat
    BY <2>1, ServicesAssumption, FS_CardinalityType
  <2>3. IsCycle(c, adjacency)
    BY DEF Found, CyclesAmong
  <2>4. c \in Seq(Services) /\ Len(c) = n
    BY <2>1, <2>2
  <2> QED
    BY <2>2, <2>3, <2>4 DEF IsCycle
<1>2. GraphOn(Nodes, adjacency)
  BY CopyFacts DEF DetectorInv
<1>3. 1 \in 1 .. Len(c)
  BY <1>1
<1>4. c[1] \in Reach(c[1], Nodes, adjacency)
  BY <1>1, <1>2, <1>3, CycleReaches
<1>5. c[1] \in Nodes /\ c[1] \in Knot(c[1], Nodes, adjacency)
  BY <1>2, <1>4, ReachIsClosed DEF Knot
<1>6. PICK d \in knownCycles : IsCycle(d, adjacency)
  BY <1>5, KnotIsKnown
<1>7. d \in Seq(Services) /\ Canonical(d)
  BY DEF DetectorInv, TypeOK, KnownInv
<1> QED
  BY <1>6, <1>7, KeysAreFound

(* CallGraph's FeedFindsCycles takes of a search only that it adds cycles of *)
(* the copy to what is known and leaves one known if there is one; both hold *)
(* of the search itself (cycle.go:21-61).                                    *)
THEOREM SearchKeepsItsPromise == Spec => []OneIsKnown /\ OnlyFoundIsAdded
<1>1. DetectorInv /\ ScanInv => OneIsKnown
  BY OneIsLeftKnown DEF OneIsKnown
<1>2. ASSUME DetectorInv, [Next]_vars
      PROVE  knownCycles \subseteq knownCycles' /\ knownCycles' \ knownCycles \subseteq Found
  <2>1. \/ UNCHANGED knownCycles
        \/ stack # <<>> /\ \E u \in Top.todo : BackEdge(u)
    BY <1>2 DEF Next, Search, Start, Sweep, Root, Scan, TreeEdge, CrossEdge, Leave, Finish, vars
  <2>2. ASSUME stack # <<>>, NEW u \in Top.todo, BackEdge(u)
        PROVE  knownCycles \subseteq knownCycles' /\ knownCycles' \ knownCycles \subseteq Found
    <3>1. PICK c \in Seq(Services) :
            /\ IsCycle(c, adjacency)
            /\ UNCHANGED knownCycles \/ knownCycles' = knownCycles \cup {cycleKey(c)}
      BY <1>2, <2>2, BackEdgeFacts DEF DetectorInv
    <3>2. cycleKey(c) \in Found
      BY <3>1, KeyIsCycle, KeysAreFound
    <3> QED
      BY <3>1, <3>2
  <2> QED
    BY <2>1, <2>2
<1> QED
  BY <1>1, <1>2, InitDetector, NextKeeps, InitScans, NextScans, PTL DEF Spec, OnlyFoundIsAdded
=============================================================================
