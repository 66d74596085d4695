---------------------------- MODULE ScreensProofs ----------------------------
(***************************************************************************)
(* Proofs about Screens, for every set of services and of calls and every  *)
(* height of the terminal and size of the channels.                        *)
(***************************************************************************)
EXTENDS Screens, SequenceTheorems, FiniteSetTheorems, TLAPS

USE DEF marks, outside, inside

(* The rows that the calls of a service may have. *)
Row == [key : Calls, direction : {"upstream", "downstream"}, peer : Services]
RowsOf(service) ==
  {r \in Row : /\ service \in {r.key[1], r.key[2]}
               /\ r.direction = Direction(service, r.key)
               /\ r.peer = IF r.direction = "upstream" THEN r.key[1] ELSE r.key[2]}

DetailShape(d) == DOMAIN d = {"service", "rows", "cursor"} /\ d.cursor \in Nat \ {0}

(* The rows of Screen 2 are of calls of the service it shows. *)
DetailOK(d) == DetailShape(d) /\ d.rows \in Seq(RowsOf(d.service))

(* The title of Screen 3 names the two ends of its call. *)
LogOK(g) == g.key # <<>> => g.src = g.key[1] /\ g.dst = g.key[2]

ScreensInv == /\ graph \subseteq Calls /\ lastSnapshot \subseteq Calls
              /\ DetailOK(detail) /\ LogOK(log)

-----------------------------------------------------------------------------
(* Cursors *)

(* The larger of one and a number. *)
LEMMA MaxOne ==
  ASSUME NEW n \in Nat PROVE Max({1, n}) \in Nat \ {0}
BY DEF Max

(* No movement of a cursor leaves the positive numbers. *)
LEMMA Moves ==
  ASSUME NEW c \in Nat \ {0}, NEW n \in Nat
  PROVE  /\ Clamp(c, n) \in Nat \ {0}
         /\ Up(c) \in Nat \ {0} /\ Down(c, n) \in Nat \ {0}
BY MaxOne DEF Clamp, Up, Down

-----------------------------------------------------------------------------
(* Screen 2 *)

(* A row of a call of the service. *)
LEMMA RowIsOf ==
  ASSUME NEW service, NEW k \in Calls, service \in {k[1], k[2]}
  PROVE  EdgeRow(service, k) \in RowsOf(service)
<1> DEFINE r == EdgeRow(service, k)
<1>1. k[1] \in Services /\ k[2] \in Services
  BY ScreensAssumption
<1>2. /\ r.key = k /\ r.direction = Direction(service, k)
      /\ r.peer = IF r.direction = "upstream" THEN k[1] ELSE k[2]
  BY DEF EdgeRow
<1>3. Direction(service, k) \in {"upstream", "downstream"}
  BY DEF Direction
<1>4. r \in Row
  BY <1>1, <1>3 DEF EdgeRow, Row
<1> HIDE DEF r
<1>5. r \in RowsOf(service)
  BY <1>2, <1>4 DEF RowsOf
<1> QED
  BY <1>5 DEF r

(* A listing of a finite set is a sequence of its elements. *)
LEMMA Listing ==
  ASSUME NEW S, IsFiniteSet(S), NEW q \in SetToSeqs(S)
  PROVE  q \in Seq(S)
<1>1. Cardinality(S) \in Nat
  BY FS_CardinalityType
<1>2. q \in [1 .. Cardinality(S) -> S]
  BY DEF SetToSeqs
<1> QED
  BY <1>1, <1>2

(* Update makes new rows of a snapshot, whatever rows there were. *)
LEMMA UpdateMakesRows ==
  ASSUME NEW d, DetailShape(d), NEW snapshot, snapshot \subseteq Calls,
         NEW e \in DetailUpdate(d, snapshot)
  PROVE  DetailOK(e) /\ e.service = d.service
<1> DEFINE own == {EdgeRow(d.service, k) : k \in {c \in snapshot : d.service \in {c[1], c[2]}}}
           part(dir) == {r \in own : r.direction = dir}
<1>1. own \subseteq RowsOf(d.service)
  BY RowIsOf
<1>2. IsFiniteSet(own)
  <2> DEFINE C == {c \in snapshot : d.service \in {c[1], c[2]}}
             f == [k \in C |-> EdgeRow(d.service, k)]
  <2>1. IsFiniteSet(C)
    <3>1. C \subseteq Calls
      OBVIOUS
    <3> QED
      BY <3>1, ScreensAssumption, FS_Subset
  <2>2. f \in Surjection(C, own)
    BY DEF Surjection
  <2> QED
    BY <2>1, <2>2, FS_Surjection
<1>3. \A dir : IsFiniteSet(part(dir))
  BY <1>2, FS_Subset
<1>4. PICK p \in SetToSeqs(part("upstream")) \X SetToSeqs(part("downstream")) :
        e = [d EXCEPT !.rows = p[1] \o p[2], !.cursor = Clamp(@, Cardinality(own))]
  <2>1. DetailUpdate(d, snapshot) =
          {[d EXCEPT !.rows = p[1] \o p[2], !.cursor = Clamp(@, Cardinality(own))] :
             p \in SetToSeqs(part("upstream")) \X SetToSeqs(part("downstream"))}
    BY DEF DetailUpdate
  <2> HIDE DEF own, part
  <2> QED
    BY <2>1
<1>5. Clamp(d.cursor, Cardinality(own)) \in Nat \ {0}
  BY <1>2, FS_CardinalityType, Moves DEF DetailShape
<1> HIDE DEF own
<1> DEFINE u == p[1]
           v == p[2]
<1>6. u \in Seq(part("upstream")) /\ v \in Seq(part("downstream"))
  BY <1>3, <1>4, Listing
<1>7. part("upstream") \subseteq RowsOf(d.service) /\ part("downstream") \subseteq RowsOf(d.service)
  BY <1>1
<1> HIDE DEF part
<1>8. u \o v \in Seq(RowsOf(d.service))
  <2>1. u \in Seq(RowsOf(d.service)) /\ v \in Seq(RowsOf(d.service))
    BY <1>6, <1>7
  <2> QED
    BY <2>1
<1>9. /\ DOMAIN e = {"service", "rows", "cursor"} /\ e.service = d.service
      /\ e.rows = u \o v /\ e.cursor = Clamp(d.cursor, Cardinality(own))
  BY <1>4 DEF DetailShape
<1> QED
  BY <1>5, <1>8, <1>9 DEF DetailOK, DetailShape

(* What "r" or a tick makes of Screen 2. *)
LEMMA DetailsOK ==
  ASSUME ScreensInv, NEW key, NEW d \in Details(key)
  PROVE  DetailOK(d)
BY UpdateMakesRows DEF ScreensInv, Details, DetailOK

(* The keys that move its cursor. *)
LEMMA DetailKeyOK ==
  ASSUME NEW d, DetailOK(d), NEW key
  PROVE  DetailOK(DetailKey(d, key))
<1>1. DetailShape(d) /\ d.cursor \in Nat \ {0} /\ Len(d.rows) \in Nat
  BY DEF DetailOK, DetailShape
<1>2. ASSUME NEW c \in Nat \ {0} PROVE DetailOK([d EXCEPT !.cursor = c])
  BY <1>1 DEF DetailOK, DetailShape
<1>3. Up(d.cursor) \in Nat \ {0} /\ Down(d.cursor, Len(d.rows)) \in Nat \ {0}
  BY <1>1, Moves
<1>4. DetailOK([d EXCEPT !.cursor = Up(@)]) /\ DetailOK([d EXCEPT !.cursor = Down(@, Len(d.rows))])
  BY <1>2, <1>3
<1> QED
  BY <1>4 DEF DetailKey

-----------------------------------------------------------------------------
(* Screen 3 *)

(* The ends of the call are those that Screen 2 computes from the row. *)
LEMMA EndsOfRow ==
  ASSUME NEW r \in RowsOf(detail.service)
  PROVE  edgeSrc(r) = r.key[1] /\ edgeDst(r) = r.key[2]
BY DEF RowsOf, Row, Direction, edgeSrc, edgeDst

(* Enter opens the log of the call under the cursor. *)
LEMMA OpenOK ==
  ASSUME ScreensInv, OpenCall
  PROVE  LogOK(log')
<1> DEFINE r == detail.rows[detail.cursor]
<1>1. r \in RowsOf(detail.service)
  <2>1. detail.rows \in Seq(RowsOf(detail.service)) /\ detail.cursor \in Nat \ {0}
    BY DEF ScreensInv, DetailOK, DetailShape
  <2>2. detail.cursor <= Len(detail.rows)
    BY DEF OpenCall
  <2> QED
    BY <2>1, <2>2
<1>2. log' = SetEdge(r)
  BY DEF OpenCall
<1> HIDE DEF r
<1>3. log'.key = r.key /\ log'.src = edgeSrc(r) /\ log'.dst = edgeDst(r)
  BY <1>2 DEF SetEdge
<1> QED
  BY <1>1, <1>3, EndsOfRow DEF LogOK

-----------------------------------------------------------------------------
(* The screens *)

(* At first there are no rows and no call. *)
LEMMA ScreensStart == ScreensInit => ScreensInv
<1> SUFFICES ASSUME ScreensInit PROVE ScreensInv
  OBVIOUS
<1>1. detail = NewScreen2 /\ log = NewScreen3 /\ graph = {} /\ lastSnapshot = {}
  BY DEF ScreensInit
<1>2. DetailOK(NewScreen2)
  BY DEF DetailOK, DetailShape, NewScreen2
<1>3. LogOK(NewScreen3)
  BY DEF LogOK, NewScreen3
<1> QED
  BY <1>1, <1>2, <1>3 DEF ScreensInv

(* ScreensInv is inductive. *)
LEMMA ScreensStep == ScreensInv /\ [ScreensNext]_screenVars => ScreensInv'
<1> SUFFICES ASSUME ScreensInv, [ScreensNext]_screenVars PROVE ScreensInv'
  OBVIOUS
<1>i. /\ graph \subseteq Calls /\ lastSnapshot \subseteq Calls
      /\ DetailOK(detail) /\ LogOK(log)
  BY DEF ScreensInv
<1>s. \A key : applySnapshot(key) => lastSnapshot' \in {graph, lastSnapshot}
  BY DEF applySnapshot
<1>1. CASE UNCHANGED screenVars
  BY <1>1, <1>i DEF screenVars, ScreensInv
<1>2. CASE PressQuit \/ PressSlash
  <2>1. detail' = NewScreen2 /\ log' = NewScreen3 /\ UNCHANGED <<graph, lastSnapshot>>
    BY <1>2 DEF PressQuit, PressSlash, ProgramEnds
  <2>2. DetailOK(NewScreen2) /\ LogOK(NewScreen3)
    BY DEF DetailOK, DetailShape, NewScreen2, LogOK, NewScreen3
  <2> QED
    BY <2>1, <2>2, <1>i DEF ScreensInv
<1>3. CASE PressHelp \/ Back
  BY <1>3, <1>i DEF PressHelp, Back, ScreensInv
<1>4. ASSUME NEW key, CloseHelp(key) PROVE ScreensInv'
  <2>1. DetailOK(detail') /\ UNCHANGED <<log, graph>> /\ applySnapshot(key)
    BY <1>4, DetailsOK DEF CloseHelp
  <2> QED
    BY <2>1, <1>i, <1>s DEF ScreensInv
<1>5. CASE OpenService
  <2>1. PICK service : detail' \in Opens(service)
    BY <1>5 DEF OpenService
  <2> DEFINE d == [detail EXCEPT !.service = service, !.cursor = 1]
  <2>2. DetailShape(d)
    BY <1>i DEF DetailOK, DetailShape
  <2>3. detail' \in DetailUpdate(d, lastSnapshot)
    BY <2>1 DEF Opens
  <2> HIDE DEF d
  <2>4. DetailOK(detail')
    BY <2>2, <2>3, <1>i, UpdateMakesRows
  <2> QED
    BY <1>5, <2>4, <1>i DEF OpenService, ScreensInv
<1>6. CASE OpenCall
  BY <1>6, <1>i, OpenOK DEF OpenCall, ScreensInv
<1>7. ASSUME NEW key, ScreenKey(key) PROVE ScreensInv'
  <2>1. /\ detail' \in IF screen = "edges" THEN {DetailKey(d, key) : d \in Details(key)}
                        ELSE {detail}
        /\ applySnapshot(key) /\ UNCHANGED <<log, graph>>
    BY <1>7 DEF ScreenKey
  <2>2. DetailOK(detail')
    BY <2>1, <1>i, DetailsOK, DetailKeyOK
  <2> QED
    BY <2>1, <2>2, <1>i, <1>s DEF ScreensInv
<1>8. CASE TickMsg
  <2>1. DetailOK(detail') /\ UNCHANGED <<log, graph>> /\ applySnapshot("r")
    BY <1>8, DetailsOK DEF TickMsg
  <2> QED
    BY <2>1, <1>i, <1>s DEF ScreensInv
<1>9. CASE AnomalyMsg \/ GraphEventMsg \/ WindowSizeMsg
  BY <1>9, <1>i DEF AnomalyMsg, GraphEventMsg, WindowSizeMsg, ScreensInv
<1>10. CASE Outside
  BY <1>10, <1>i DEF Outside, CallAppears, CallIsSwept, CycleAppears, CallIsAnomalous, ScreensInv
<1> QED
  BY <1>1, <1>2, <1>3, <1>4, <1>5, <1>6, <1>7, <1>8, <1>9, <1>10
     DEF ScreensNext, Update, KeyMsg

(* Screen 3 shows the log of the call that its title names, and Screen 2   *)
(* only calls of its service, although the rows are made by one snapshot,  *)
(* the service is chosen at another time, and the cursor moves in between. *)
THEOREM LogIsOfItsCall == ScreensSpec => []LogOfCall
<1>1. ScreensInv => LogOfCall
  <2> SUFFICES ASSUME ScreensInv PROVE LogOfCall
    OBVIOUS
  <2>1. log.key # <<>> => log.src = log.key[1] /\ log.dst = log.key[2]
    BY DEF ScreensInv, LogOK
  <2>2. ASSUME NEW i \in DOMAIN detail.rows
        PROVE  LET r == detail.rows[i]
               IN  detail.service \in {edgeSrc(r), edgeDst(r)} /\ r.peer \in {r.key[1], r.key[2]}
    <3> DEFINE r == detail.rows[i]
    <3>1. r \in RowsOf(detail.service)
      BY DEF ScreensInv, DetailOK
    <3> HIDE DEF r
    <3>2. edgeSrc(r) = r.key[1] /\ edgeDst(r) = r.key[2]
      BY <3>1, EndsOfRow
    <3>3. detail.service \in {r.key[1], r.key[2]} /\ r.peer \in {r.key[1], r.key[2]}
      BY <3>1 DEF RowsOf
    <3> QED
      BY <3>2, <3>3 DEF r
  <2> QED
    BY <2>1, <2>2 DEF LogOfCall
<1> QED
  BY <1>1, ScreensStart, ScreensStep, PTL DEF ScreensSpec

-----------------------------------------------------------------------------
(* The window of the list *)

(* A cursor is on one of n rows, or on the first of none. *)
OnRow(c, n) == c \in Nat \ {0} /\ n \in Nat /\ (c <= n \/ c = 1)

ListOK(l) == /\ DOMAIN l = {"rows", "shown", "cursor", "sortCol", "blink"}
             /\ IsFiniteSet(DOMAIN l.rows)
             /\ OnRow(l.cursor, Len(l.shown))

CursorInv == ListOK(list) /\ height \in Nat

(* The larger and the smaller of two numbers. *)
LEMMA MaxMin ==
  ASSUME NEW a \in Int, NEW b \in Int
  PROVE  /\ Max({a, b}) = IF a >= b THEN a ELSE b
         /\ Min({a, b}) = IF a <= b THEN a ELSE b
<1>1. Max({a, b}) = IF a >= b THEN a ELSE b
  BY DEF Max
<1>2. Min({a, b}) = IF a <= b THEN a ELSE b
  BY DEF Min
<1> QED
  BY <1>1, <1>2

(* Where a cursor that was on a row goes. *)
LEMMA StaysOnRow ==
  ASSUME NEW c \in Nat \ {0}, NEW n \in Nat
  PROVE  /\ OnRow(Clamp(c, n), n)
         /\ OnRow(c, n) => OnRow(Up(c), n) /\ OnRow(Down(c, n), n)
<1>1. Max({1, n}) = IF 1 >= n THEN 1 ELSE n
  BY MaxMin
<1>2. OnRow(Clamp(c, n), n)
  BY <1>1 DEF Clamp, OnRow
<1> QED
  BY <1>2 DEF Up, Down, OnRow

(* The list is put together anew, by another order or snapshot. *)
LEMMA ListAgain ==
  ASSUME NEW l, ListOK(l), NEW m \in applyFilterAndSort(l)
  PROVE  ListOK(m)
<1> DEFINE S == DOMAIN l.rows
<1>1. IsFiniteSet(S) /\ Cardinality(S) \in Nat
  BY FS_CardinalityType DEF ListOK
<1>2. PICK q \in {p \in SetToSeqs(S) : InOrder(p, l.rows, l.sortCol)} :
        m = [l EXCEPT !.shown = q, !.cursor = Clamp(@, Len(q))]
  BY DEF applyFilterAndSort
<1> HIDE DEF S
<1>3. Len(q) \in Nat
  BY <1>1, <1>2, Listing
<1>4. OnRow(Clamp(l.cursor, Len(q)), Len(q))
  BY <1>3, StaysOnRow DEF ListOK, OnRow
<1>5. /\ DOMAIN m = DOMAIN l /\ m.shown = q /\ m.rows = l.rows
      /\ m.cursor = Clamp(l.cursor, Len(q))
  BY <1>2 DEF ListOK
<1> QED
  BY <1>4, <1>5 DEF ListOK

(* What is changed before the list is put together does not matter. *)
LEMMA ListEdits ==
  ASSUME NEW l, ListOK(l)
  PROVE  /\ \A r : IsFiniteSet(DOMAIN r) => ListOK([l EXCEPT !.rows = r])
         /\ \A b : ListOK([l EXCEPT !.blink = b])
         /\ \A c : ListOK([l EXCEPT !.sortCol = c])
         /\ ListOK([l EXCEPT !.cursor = Up(@)])
         /\ ListOK([l EXCEPT !.cursor = Down(@, Len(l.shown))])
<1>1. OnRow(Up(l.cursor), Len(l.shown)) /\ OnRow(Down(l.cursor, Len(l.shown)), Len(l.shown))
  BY StaysOnRow DEF ListOK, OnRow
<1>2. /\ ListOK([l EXCEPT !.cursor = Up(@)])
      /\ ListOK([l EXCEPT !.cursor = Down(@, Len(l.shown))])
  BY <1>1 DEF ListOK
<1>3. /\ \A r : IsFiniteSet(DOMAIN r) => ListOK([l EXCEPT !.rows = r])
      /\ \A b : ListOK([l EXCEPT !.blink = b])
      /\ \A c : ListOK([l EXCEPT !.sortCol = c])
  BY DEF ListOK
<1> QED
  BY <1>2, <1>3

(* There are finitely many services in a graph. *)
LEMMA NodesFinite ==
  ASSUME graph \subseteq Calls PROVE IsFiniteSet(NodesOf(graph))
<1>1. NodesOf(graph) \subseteq Services
  BY ScreensAssumption DEF NodesOf
<1> QED
  BY <1>1, ScreensAssumption, FS_Subset

(* The rows of a snapshot, as Update puts them into the list. *)
LEMMA SnapshotRows ==
  ASSUME graph \subseteq Calls, NEW l, ListOK(l), NEW m \in ListUpdate(l)
  PROVE  \E r : /\ m \in applyFilterAndSort([l EXCEPT !.rows = r])
                /\ ListOK([l EXCEPT !.rows = r])
<1> DEFINE r == [s \in NodesOf(graph) |-> [anomalies |-> Count(anomalyCounts, <<s>>),
                                          newAlert  |-> s \in newAlerts]]
<1>1. m \in applyFilterAndSort([l EXCEPT !.rows = r])
  BY DEF ListUpdate
<1>2. DOMAIN r = NodesOf(graph)
  OBVIOUS
<1> HIDE DEF r
<1>3. ListOK([l EXCEPT !.rows = r])
  BY <1>2, NodesFinite, ListEdits
<1> QED
  BY <1>1, <1>3

(* A snapshot or a key leaves the cursor on a row. *)
LEMMA ListsOK ==
  ASSUME graph \subseteq Calls, NEW l, ListOK(l), NEW key
  PROVE  /\ \A m \in ListUpdate(l) : ListOK(m)
         /\ \A m \in ListKey(l, key) : ListOK(m)
<1>1. \A m \in ListUpdate(l) : ListOK(m)
  BY SnapshotRows, ListAgain
<1>2. ASSUME NEW m \in ListKey(l, key) PROVE ListOK(m)
  <2>1. CASE key = "s"
    <3>1. PICK col \in NextColumns(l.sortCol) :
            m \in applyFilterAndSort([l EXCEPT !.sortCol = col])
      BY <1>2, <2>1 DEF ListKey
    <3> QED
      BY <3>1, ListEdits, ListAgain
  <2>2. CASE key # "s"
    <3>1. m \in {[l EXCEPT !.cursor = Up(@)], [l EXCEPT !.cursor = Down(@, Len(l.shown))], l}
      BY <1>2, <2>2 DEF ListKey
    <3>2. /\ ListOK([l EXCEPT !.cursor = Up(@)])
          /\ ListOK([l EXCEPT !.cursor = Down(@, Len(l.shown))])
      BY ListEdits
    <3> QED
      BY <3>1, <3>2
  <2> QED
    BY <2>1, <2>2
<1> QED
  BY <1>1, <1>2

(* There are no rows at first. *)
LEMMA NewListOK == ListOK(NewScreen1)
<1>1. DOMAIN NewScreen1.rows = {} /\ Len(NewScreen1.shown) = 0
  BY DEF NewScreen1
<1> QED
  BY <1>1, FS_EmptySet DEF ListOK, OnRow, NewScreen1

(* The least of three numbers is one of them. *)
LEMMA LeastOfThree ==
  ASSUME NEW a \in Int, NEW b \in Int, NEW c \in Int
  PROVE  Min({a, b, c}) \in {a, b, c}
<1>1. \E x \in {a, b, c} : \A y \in {a, b, c} : x <= y
  OBVIOUS
<1> QED
  BY <1>1 DEF Min

(* CursorInv is inductive. *)
LEMMA CursorStep == ScreensInv /\ CursorInv /\ [ScreensNext]_screenVars => CursorInv'
<1> SUFFICES ASSUME ScreensInv, CursorInv, [ScreensNext]_screenVars PROVE CursorInv'
  OBVIOUS
<1>i. ListOK(list) /\ height \in Nat /\ graph \subseteq Calls
  BY DEF CursorInv, ScreensInv
<1>l. \A key : \A m \in Lists(key) : ListOK(m)
  BY <1>i, ListsOK DEF Lists
<1>1. CASE UNCHANGED <<height, list>>
  BY <1>1 DEF CursorInv
<1>2. CASE PressQuit \/ PressSlash
  <2>1. list' = NewScreen1 /\ height' = height
    BY <1>2 DEF PressQuit, PressSlash, ProgramEnds
  <2> QED
    BY <2>1, <1>i, NewListOK DEF CursorInv
<1>3. CASE PressHelp \/ Back \/ OpenService \/ OpenCall
  BY <1>1, <1>3 DEF PressHelp, Back, OpenService, OpenCall
<1>4. ASSUME NEW key, CloseHelp(key) PROVE CursorInv'
  BY <1>4, <1>i, <1>l DEF CloseHelp, CursorInv
<1>5. ASSUME NEW key, ScreenKey(key) PROVE CursorInv'
  <2>1. /\ list' \in IF screen = "services" THEN UNION {ListKey(l, key) : l \in Lists(key)}
                      ELSE Lists(key)
        /\ height' = height
    BY <1>5 DEF ScreenKey
  <2>2. ListOK(list')
    BY <2>1, <1>i, <1>l, ListsOK
  <2> QED
    BY <2>1, <2>2, <1>i DEF CursorInv
<1>6. CASE TickMsg
  <2>1. height' = height
    BY <1>6 DEF TickMsg
  <2>2. PICK l \in Lists("r") : list' = [l EXCEPT !.blink = ~@]
    BY <1>6 DEF TickMsg
  <2> DEFINE b == ~l.blink
  <2>3. list' = [l EXCEPT !.blink = b]
    BY <2>2
  <2> HIDE DEF b
  <2>4. ListOK(list')
    BY <2>3, <1>l, ListEdits
  <2> QED
    BY <2>1, <2>4, <1>i DEF CursorInv
<1>7. CASE WindowSizeMsg
  BY <1>7, <1>i, ScreensAssumption DEF WindowSizeMsg, CursorInv
<1>8. CASE AnomalyMsg \/ GraphEventMsg \/ Outside \/ UNCHANGED screenVars
  BY <1>1, <1>8 DEF AnomalyMsg, GraphEventMsg, Outside, CallAppears, CallIsSwept,
     CycleAppears, CallIsAnomalous, screenVars
<1> QED
  BY <1>2, <1>3, <1>4, <1>5, <1>6, <1>7, <1>8 DEF ScreensNext, Update, KeyMsg

(* The rows above the cursor are at most half of a window: so many are     *)
(* drawn, and the cursor's below them, before Model.View cuts a window off *)
(* on a terminal that is high enough.                                      *)
LEMMA Window == CursorInv => SelectionDrawn
<1> SUFFICES ASSUME CursorInv, HighEnough, list.shown # <<>>
             PROVE  list.cursor \in ListWindow
  BY DEF SelectionDrawn
<1> DEFINE c == list.cursor
           n == Len(list.shown)
           v == visibleRows
           half == v \div 2
           first == Max({1, c - half})
           kept == first + (height - 3) - 3 - 1
           last == first + v - 1
<1>1. c \in Nat /\ n \in Nat /\ c >= 1 /\ (c <= n \/ c = 1)
  BY DEF CursorInv, ListOK, OnRow
<1>2. n # 0
  BY <1>1
<1>3. height \in Nat /\ MinRows \in Nat \ {0} /\ height >= 7 + MinRows \div 2
  BY ScreensAssumption DEF CursorInv, HighEnough
<1>4. v = IF MinRows >= height - 8 THEN MinRows ELSE height - 8
  BY <1>3, MaxMin DEF visibleRows
<1>5. ListWindow = first .. Min({n, last, kept})
  BY DEF ListWindow, visibleStart
<1> HIDE DEF v, c, n
<1>6. v \in Nat \ {0} /\ half \in Nat /\ half <= v - 1 /\ half + 1 <= height - 6
  BY <1>3, <1>4
<1> HIDE DEF half
<1>7. first = IF 1 >= c - half THEN 1 ELSE c - half
  BY <1>1, <1>6, MaxMin
<1> HIDE DEF first
<1>8. first \in Nat /\ first <= c /\ c <= n /\ c <= last /\ c <= kept
  BY <1>1, <1>2, <1>3, <1>6, <1>7
<1>9. last \in Int /\ kept \in Int
  BY <1>3, <1>6, <1>8
<1> HIDE DEF last, kept
<1>10. Min({n, last, kept}) \in {n, last, kept}
  BY <1>1, <1>9, LeastOfThree
<1>11. c \in first .. Min({n, last, kept})
  BY <1>1, <1>8, <1>9, <1>10
<1> QED
  BY <1>5, <1>11 DEF c

(* The row that Enter would open is drawn, on a terminal of nine lines or   *)
(* more on which no line is broken, however rows come, go and are sorted    *)
(* under the cursor, and however the height changes: the cursor is on a     *)
(* row, no more than half of a window is above it, and that and one more    *)
(* row is what Model.View keeps of the lowest such terminal.                *)
THEOREM SelectionIsDrawn == ScreensSpec => []SelectionDrawn
<1>1. ScreensInit => CursorInv
  BY NewListOK DEF ScreensInit, CursorInv
<1> QED
  BY <1>1, ScreensStart, ScreensStep, CursorStep, Window, PTL DEF ScreensSpec

-----------------------------------------------------------------------------
(* Types *)

(* The list shows rows that there are. *)
Shown(l) == l.shown \in Seq(DOMAIN l.rows) /\ l.sortCol \in SortColumns

DetailAt(d) == OnRow(d.cursor, Len(d.rows))

Told == [type : {"Other", "NewCycle"}, key : Calls]

(* What comes from outside is of calls, and fits into the channels. *)
Around == /\ events \in Seq(Told) /\ Len(events) <= ChanSize
          /\ alerts \in Seq(Calls) /\ Len(alerts) <= ChanSize
          /\ cycleEdges \subseteq Calls /\ DOMAIN anomalyCounts \subseteq Calls
          /\ newAlerts \subseteq Services

Plain == /\ screen \in {"services", "edges", "events"} /\ help \in BOOLEAN /\ quit \in BOOLEAN
         /\ cmds \subseteq {"tick", "graph", "alerts"} /\ height \in Heights \cup {0}

TypeInv == ScreensInv /\ CursorInv /\ Shown(list) /\ DetailAt(detail) /\ Around /\ Plain

(* A list that is put together shows rows of its own. *)
LEMMA ShownAgain ==
  ASSUME NEW l, ListOK(l), l.sortCol \in SortColumns, NEW m \in applyFilterAndSort(l)
  PROVE  Shown(m)
<1> DEFINE S == DOMAIN l.rows
<1>1. IsFiniteSet(S)
  BY DEF ListOK
<1>2. PICK q \in {p \in SetToSeqs(S) : InOrder(p, l.rows, l.sortCol)} :
        m = [l EXCEPT !.shown = q, !.cursor = Clamp(@, Len(q))]
  BY DEF applyFilterAndSort
<1> HIDE DEF S
<1>3. q \in Seq(S)
  BY <1>1, <1>2, Listing
<1>4. m.shown = q /\ m.rows = l.rows /\ m.sortCol = l.sortCol
  BY <1>2 DEF ListOK
<1> QED
  BY <1>3, <1>4 DEF Shown, S

(* New rows come with a new list, and no key changes the rows. *)
LEMMA ListsShown ==
  ASSUME graph \subseteq Calls, NEW l, ListOK(l), Shown(l), NEW key
  PROVE  /\ \A m \in ListUpdate(l) : Shown(m)
         /\ \A m \in ListKey(l, key) : Shown(m)
<1>1. ASSUME NEW m \in ListUpdate(l) PROVE Shown(m)
  <2>1. PICK r : /\ m \in applyFilterAndSort([l EXCEPT !.rows = r])
                 /\ ListOK([l EXCEPT !.rows = r])
    BY SnapshotRows
  <2>2. [l EXCEPT !.rows = r].sortCol \in SortColumns
    BY DEF ListOK, Shown
  <2> QED
    BY <2>1, <2>2, ShownAgain
<1>2. ASSUME NEW m \in ListKey(l, key) PROVE Shown(m)
  <2>1. CASE key = "s"
    <3>1. PICK col \in NextColumns(l.sortCol) :
            m \in applyFilterAndSort([l EXCEPT !.sortCol = col])
      BY <1>2, <2>1 DEF ListKey
    <3>2. col \in SortColumns
      BY <3>1 DEF Shown, SortColumns, NextColumns
    <3>3. [l EXCEPT !.sortCol = col].sortCol \in SortColumns
      BY <3>2 DEF ListOK
    <3> QED
      BY <3>1, <3>3, ListEdits, ShownAgain
  <2>2. CASE key # "s"
    <3>1. m \in {[l EXCEPT !.cursor = Up(@)], [l EXCEPT !.cursor = Down(@, Len(l.shown))], l}
      BY <1>2, <2>2 DEF ListKey
    <3>2. m.shown = l.shown /\ m.rows = l.rows /\ m.sortCol = l.sortCol
      BY <3>1 DEF ListOK
    <3> QED
      BY <3>2 DEF Shown
  <2> QED
    BY <2>1, <2>2
<1> QED
  BY <1>1, <1>2

(* The list stays one that shows rows of its own. *)
LEMMA ShownStep ==
  ScreensInv /\ CursorInv /\ Shown(list) /\ [ScreensNext]_screenVars => Shown(list')
<1> SUFFICES ASSUME ScreensInv, CursorInv, Shown(list), [ScreensNext]_screenVars PROVE Shown(list')
  OBVIOUS
<1>i. ListOK(list) /\ graph \subseteq Calls
  BY DEF CursorInv, ScreensInv
<1>l. \A key : \A m \in Lists(key) : ListOK(m) /\ Shown(m)
  BY <1>i, ListsOK, ListsShown DEF Lists
<1>1. CASE PressQuit \/ PressSlash
  <2>1. list' = NewScreen1
    BY <1>1 DEF PressQuit, PressSlash, ProgramEnds
  <2> QED
    BY <2>1 DEF NewScreen1, Shown, SortColumns
<1>2. ASSUME NEW key, CloseHelp(key) PROVE Shown(list')
  BY <1>2, <1>l DEF CloseHelp
<1>3. ASSUME NEW key, ScreenKey(key) PROVE Shown(list')
  <2>1. list' \in IF screen = "services" THEN UNION {ListKey(l, key) : l \in Lists(key)}
                  ELSE Lists(key)
    BY <1>3 DEF ScreenKey
  <2> QED
    BY <2>1, <1>i, <1>l, ListsShown
<1>4. CASE TickMsg
  <2>1. PICK l \in Lists("r") : list' = [l EXCEPT !.blink = ~@]
    BY <1>4 DEF TickMsg
  <2>2. list'.shown = l.shown /\ list'.rows = l.rows /\ list'.sortCol = l.sortCol
    BY <2>1, <1>l DEF ListOK
  <2> QED
    BY <2>2, <1>l DEF Shown
<1>5. CASE UNCHANGED list
  BY <1>5
<1>6. CASE PressHelp \/ Back \/ OpenService \/ OpenCall \/ AnomalyMsg \/ GraphEventMsg
           \/ WindowSizeMsg \/ Outside \/ UNCHANGED screenVars
  BY <1>5, <1>6 DEF PressHelp, Back, OpenService, OpenCall, AnomalyMsg, GraphEventMsg, WindowSizeMsg,
     Outside, CallAppears, CallIsSwept, CycleAppears, CallIsAnomalous, screenVars
<1> QED
  BY <1>1, <1>2, <1>3, <1>4, <1>6 DEF ScreensNext, Update, KeyMsg

(* A listing is as long as its set is large. *)
LEMMA ListingLength ==
  ASSUME NEW S, IsFiniteSet(S), NEW q \in SetToSeqs(S)
  PROVE  Len(q) = Cardinality(S)
<1>1. Cardinality(S) \in Nat
  BY FS_CardinalityType
<1>2. q \in [1 .. Cardinality(S) -> S]
  BY DEF SetToSeqs
<1> QED
  BY <1>1, <1>2

(* Screen 2 counts its calls before it lists those in and those out: there  *)
(* are as many rows, and the cursor that it moves for the one is on a row   *)
(* of the other. *)
LEMMA UpdateStaysOnRow ==
  ASSUME NEW d, DetailShape(d), NEW snapshot, snapshot \subseteq Calls,
         NEW e \in DetailUpdate(d, snapshot)
  PROVE  DetailAt(e)
<1> DEFINE C == {c \in snapshot : d.service \in {c[1], c[2]}}
           own == {EdgeRow(d.service, k) : k \in C}
           part(dir) == {r \in own : r.direction = dir}
           up == part("upstream")
           down == part("downstream")
<1>1. IsFiniteSet(own)
  <2> DEFINE f == [k \in C |-> EdgeRow(d.service, k)]
  <2>1. IsFiniteSet(C)
    <3>1. C \subseteq Calls
      OBVIOUS
    <3> QED
      BY <3>1, ScreensAssumption, FS_Subset
  <2>2. f \in Surjection(C, own)
    BY DEF Surjection
  <2> QED
    BY <2>1, <2>2, FS_Surjection
<1>2. /\ own = up \cup down /\ up \cap down = {}
  <2>1. \A r \in own : r.direction \in {"upstream", "downstream"}
    BY DEF EdgeRow, Direction
  <2> HIDE DEF own
  <2> QED
    BY <2>1
<1>3. PICK p \in SetToSeqs(up) \X SetToSeqs(down) :
        e = [d EXCEPT !.rows = p[1] \o p[2], !.cursor = Clamp(@, Cardinality(own))]
  <2>1. DetailUpdate(d, snapshot) =
          {[d EXCEPT !.rows = p[1] \o p[2], !.cursor = Clamp(@, Cardinality(own))] :
             p \in SetToSeqs(up) \X SetToSeqs(down)}
    BY DEF DetailUpdate
  <2> HIDE DEF own, part, up, down
  <2> QED
    BY <2>1
<1>4. IsFiniteSet(up) /\ IsFiniteSet(down)
  BY <1>1, FS_Subset
<1> HIDE DEF C, own, part, up, down
<1> DEFINE u == p[1]
           v == p[2]
<1>5. /\ u \in Seq(up) /\ v \in Seq(down)
      /\ Len(u) = Cardinality(up) /\ Len(v) = Cardinality(down)
  BY <1>3, <1>4, Listing, ListingLength
<1>6. Cardinality(own) = Cardinality(up) + Cardinality(down)
  <2>1. Cardinality({}) = 0
    BY FS_EmptySet
  <2>2. Cardinality(own) = Cardinality(up) + Cardinality(down) - 0
    BY <1>2, <1>4, <2>1, FS_Union
  <2>3. Cardinality(up) \in Nat /\ Cardinality(down) \in Nat
    BY <1>4, FS_CardinalityType
  <2> QED
    BY <2>2, <2>3
<1>7. Len(u \o v) = Cardinality(own) /\ Cardinality(own) \in Nat
  <2>1. u \in Seq(up \cup down) /\ v \in Seq(up \cup down)
    BY <1>5
  <2>2. Len(u \o v) = Len(u) + Len(v)
    BY <2>1
  <2> QED
    BY <2>2, <1>1, <1>5, <1>6, FS_CardinalityType
<1>8. e.rows = u \o v /\ e.cursor = Clamp(d.cursor, Cardinality(own))
  BY <1>3 DEF DetailShape
<1>9. OnRow(Clamp(d.cursor, Cardinality(own)), Cardinality(own))
  BY <1>7, StaysOnRow DEF DetailShape
<1> QED
  BY <1>7, <1>8, <1>9 DEF DetailAt

(* The cursor of Screen 2 stays on one of its rows. *)
LEMMA DetailStep ==
  ScreensInv /\ DetailAt(detail) /\ [ScreensNext]_screenVars => DetailAt(detail')
<1> SUFFICES ASSUME ScreensInv, DetailAt(detail), [ScreensNext]_screenVars
             PROVE  DetailAt(detail')
  OBVIOUS
<1>i. DetailOK(detail) /\ DetailShape(detail) /\ graph \subseteq Calls /\ lastSnapshot \subseteq Calls
  BY DEF ScreensInv, DetailOK
<1>d. \A key : \A d \in Details(key) : DetailOK(d) /\ DetailAt(d)
  BY <1>i, DetailsOK, UpdateStaysOnRow DEF Details
<1>1. CASE PressQuit \/ PressSlash
  <2>1. detail' = NewScreen2
    BY <1>1 DEF PressQuit, PressSlash, ProgramEnds
  <2> QED
    BY <2>1 DEF NewScreen2, DetailAt, OnRow
<1>2. ASSUME NEW key, CloseHelp(key) PROVE DetailAt(detail')
  BY <1>2, <1>d DEF CloseHelp
<1>3. CASE OpenService
  <2>1. PICK service : detail' \in Opens(service)
    BY <1>3 DEF OpenService
  <2> DEFINE d == [detail EXCEPT !.service = service, !.cursor = 1]
  <2>2. DetailShape(d)
    BY <1>i DEF DetailShape
  <2>3. detail' \in DetailUpdate(d, lastSnapshot)
    BY <2>1 DEF Opens
  <2> HIDE DEF d
  <2> QED
    BY <2>2, <2>3, <1>i, UpdateStaysOnRow
<1>4. ASSUME NEW key, ScreenKey(key) PROVE DetailAt(detail')
  <2>1. detail' \in IF screen = "edges" THEN {DetailKey(d, key) : d \in Details(key)}
                    ELSE {detail}
    BY <1>4 DEF ScreenKey
  <2>2. ASSUME NEW d \in Details(key) PROVE DetailAt(DetailKey(d, key))
    <3>1. /\ DetailShape(d) /\ d.cursor \in Nat \ {0} /\ Len(d.rows) \in Nat
          /\ OnRow(d.cursor, Len(d.rows))
      BY <1>d, <2>2 DEF DetailOK, DetailShape, DetailAt, OnRow
    <3>2. OnRow(Up(d.cursor), Len(d.rows)) /\ OnRow(Down(d.cursor, Len(d.rows)), Len(d.rows))
      BY <3>1, StaysOnRow
    <3>3. /\ DetailAt([d EXCEPT !.cursor = Up(@)])
          /\ DetailAt([d EXCEPT !.cursor = Down(@, Len(d.rows))])
      BY <3>1, <3>2 DEF DetailAt, DetailShape
    <3> QED
      BY <3>1, <3>3 DEF DetailKey, DetailAt
  <2> QED
    BY <2>1, <2>2
<1>5. CASE TickMsg
  BY <1>5, <1>d DEF TickMsg
<1>6. CASE PressHelp \/ Back \/ OpenCall \/ AnomalyMsg \/ GraphEventMsg
           \/ WindowSizeMsg \/ Outside \/ UNCHANGED screenVars
  BY <1>6 DEF PressHelp, Back, OpenCall, AnomalyMsg, GraphEventMsg, WindowSizeMsg,
     Outside, CallAppears, CallIsSwept, CycleAppears, CallIsAnomalous, screenVars
<1> QED
  BY <1>1, <1>2, <1>3, <1>4, <1>5, <1>6 DEF ScreensNext, Update, KeyMsg

(* A full channel drops what comes, and what is in one is of a call. *)
LEMMA AroundStep == Around /\ [ScreensNext]_screenVars => Around'
<1> SUFFICES ASSUME Around, [ScreensNext]_screenVars PROVE Around'
  OBVIOUS
<1>c. ChanSize \in Nat /\ \A k \in Calls : k[1] \in Services
  BY ScreensAssumption
<1>i. /\ events \in Seq(Told) /\ Len(events) <= ChanSize
      /\ alerts \in Seq(Calls) /\ Len(alerts) <= ChanSize
  BY DEF Around
<1>1. CASE UNCHANGED <<events, alerts, cycleEdges, anomalyCounts>> /\ newAlerts' \in {newAlerts, {}}
  BY <1>1 DEF Around
<1>n. \A key : applySnapshot(key) => newAlerts' \in {newAlerts, {}}
  BY DEF applySnapshot
<1>2. CASE PressQuit \/ PressSlash \/ PressHelp \/ OpenService \/ OpenCall \/ Back
           \/ WindowSizeMsg \/ UNCHANGED screenVars
  BY <1>1, <1>2 DEF PressQuit, PressSlash, ProgramEnds, PressHelp, OpenService, OpenCall,
     Back, WindowSizeMsg, screenVars
<1>3. ASSUME NEW key, CloseHelp(key) \/ ScreenKey(key) PROVE Around'
  BY <1>1, <1>3, <1>n DEF CloseHelp, ScreenKey
<1>4. CASE TickMsg
  BY <1>1, <1>4, <1>n DEF TickMsg
<1>5. CASE AnomalyMsg
  <2> DEFINE k == Head(alerts)
  <2>1. k \in Calls /\ alerts' \in Seq(Calls) /\ Len(alerts') <= ChanSize
    <3>1. alerts # <<>> /\ alerts' = Tail(alerts)
      BY <1>5 DEF AnomalyMsg
    <3>2. Len(Tail(alerts)) = Len(alerts) - 1 /\ Tail(alerts) \in Seq(Calls) /\ Head(alerts) \in Calls
      BY <3>1, <1>i
    <3> QED
      BY <3>1, <3>2, <1>i, <1>c
  <2>2. /\ DOMAIN anomalyCounts' = DOMAIN anomalyCounts \cup {k}
        /\ newAlerts' = newAlerts \cup {k[1]} /\ UNCHANGED <<events, cycleEdges>>
    BY <1>5 DEF AnomalyMsg
  <2> HIDE DEF k
  <2> QED
    BY <2>1, <2>2, <1>c DEF Around
<1>6. CASE GraphEventMsg
  <2>1. events # <<>> /\ events' = Tail(events) /\ UNCHANGED <<alerts, anomalyCounts, newAlerts>>
    BY <1>6 DEF GraphEventMsg
  <2>2. Len(Tail(events)) = Len(events) - 1 /\ Tail(events) \in Seq(Told) /\ Head(events) \in Told
    BY <2>1, <1>i
  <2>3. Head(events).key \in Calls
    BY <2>2 DEF Told
  <2>4. cycleEdges' \subseteq Calls
    BY <1>6, <2>3 DEF GraphEventMsg, Around
  <2> QED
    BY <2>1, <2>2, <2>4, <1>i, <1>c DEF Around
<1>7. ASSUME NEW k \in Calls,
             CallAppears(k) \/ CallIsSwept(k) \/ CycleAppears(k) \/ CallIsAnomalous(k)
      PROVE  Around'
  <2>1. ASSUME NEW type \in {"Other", "NewCycle"}, emit(type, k)
        PROVE  events' \in Seq(Told) /\ Len(events') <= ChanSize
    <3> DEFINE e == [type |-> type, key |-> k]
    <3>1. e \in Told
      BY DEF Told
    <3>2. (events' = Append(events, e) /\ Len(events) < ChanSize) \/ events' = events
      BY <2>1 DEF emit
    <3> HIDE DEF e
    <3>3. Append(events, e) \in Seq(Told) /\ Len(Append(events, e)) = Len(events) + 1
      BY <3>1, <1>i
    <3> QED
      BY <3>2, <3>3, <1>i, <1>c
  <2>2. CASE CallIsAnomalous(k)
    <3>1. UNCHANGED <<events, cycleEdges, anomalyCounts, newAlerts>>
      BY <2>2 DEF CallIsAnomalous
    <3>2. (alerts' = Append(alerts, k) /\ Len(alerts) < ChanSize) \/ alerts' = alerts
      BY <2>2 DEF CallIsAnomalous
    <3>3. Append(alerts, k) \in Seq(Calls) /\ Len(Append(alerts, k)) = Len(alerts) + 1
      BY <1>i
    <3> QED
      BY <3>1, <3>2, <3>3, <1>i, <1>c DEF Around
  <2>3. CASE CallAppears(k) \/ CallIsSwept(k) \/ CycleAppears(k)
    <3>1. UNCHANGED <<alerts, cycleEdges, anomalyCounts, newAlerts>>
      BY <2>3 DEF CallAppears, CallIsSwept, CycleAppears
    <3>2. events' \in Seq(Told) /\ Len(events') <= ChanSize
      BY <2>1, <2>3 DEF CallAppears, CallIsSwept, CycleAppears
    <3> QED
      BY <3>1, <3>2 DEF Around
  <2> QED
    BY <1>7, <2>2, <2>3
<1> QED
  BY <1>2, <1>3, <1>4, <1>5, <1>6, <1>7 DEF ScreensNext, Update, KeyMsg, Outside

(* The screens that there are, and the commands. *)
LEMMA PlainStep == Plain /\ [ScreensNext]_screenVars => Plain'
<1> SUFFICES ASSUME Plain, [ScreensNext]_screenVars PROVE Plain'
  OBVIOUS
<1>1. CASE UNCHANGED <<screen, help, quit, cmds, height>>
  BY <1>1 DEF Plain
<1>2. CASE PressQuit \/ PressSlash \/ PressHelp \/ OpenService \/ OpenCall \/ Back
  BY <1>2 DEF Plain, PressQuit, PressSlash, ProgramEnds, PressHelp, OpenService, OpenCall, Back
<1>3. ASSUME NEW key, CloseHelp(key) \/ ScreenKey(key) PROVE Plain'
  BY <1>3 DEF Plain, CloseHelp, ScreenKey
<1>4. CASE TickMsg \/ AnomalyMsg \/ GraphEventMsg
  BY <1>4 DEF Plain, TickMsg, AnomalyMsg, GraphEventMsg, Again
<1>5. CASE WindowSizeMsg
  BY <1>5 DEF Plain, WindowSizeMsg
<1>6. CASE Outside \/ UNCHANGED screenVars
  BY <1>1, <1>6 DEF Outside, CallAppears, CallIsSwept, CycleAppears, CallIsAnomalous,
     screenVars
<1> QED
  BY <1>2, <1>3, <1>4, <1>5, <1>6 DEF ScreensNext, Update, KeyMsg

(* The UI never reads past the rows of a screen: every cursor is on a row,  *)
(* or on the first of none, whatever a sweep or a new snapshot takes away   *)
(* under it, and whichever screen was open when it did. *)
THEOREM CursorsStayOnRows == ScreensSpec => []TypeOK
<1>1. ScreensInit => TypeInv
  <2> SUFFICES ASSUME ScreensInit PROVE TypeInv
    OBVIOUS
  <2>1. list = NewScreen1 /\ detail = NewScreen2
    BY DEF ScreensInit
  <2>2. CursorInv
    BY NewListOK DEF ScreensInit, CursorInv
  <2>3. Shown(list) /\ DetailAt(detail)
    BY <2>1 DEF NewScreen1, NewScreen2, Shown, SortColumns, DetailAt, OnRow
  <2>4. Around
    <3>1. /\ events = <<>> /\ alerts = <<>> /\ cycleEdges = {} /\ anomalyCounts = <<>>
          /\ newAlerts = {}
      BY DEF ScreensInit
    <3>2. <<>> \in Seq(Told) /\ <<>> \in Seq(Calls) /\ Len(<<>>) = 0 /\ DOMAIN <<>> = {}
      OBVIOUS
    <3> QED
      BY <3>1, <3>2, ScreensAssumption DEF Around
  <2>5. Plain
    BY DEF ScreensInit, Plain
  <2> QED
    BY <2>2, <2>3, <2>4, <2>5, ScreensStart DEF TypeInv
<1>2. TypeInv /\ [ScreensNext]_screenVars => TypeInv'
  BY ScreensStep, CursorStep, ShownStep, DetailStep, AroundStep, PlainStep DEF TypeInv
<1>3. TypeInv => TypeOK
  <2> SUFFICES ASSUME TypeInv PROVE TypeOK
    OBVIOUS
  <2>1. ASSUME NEW c, NEW n, OnRow(c, n) PROVE c \in 1 .. Max({1, n})
    <3>1. n \in Nat /\ c \in Nat \ {0} /\ (c <= n \/ c = 1)
      BY <2>1 DEF OnRow
    <3>2. Max({1, n}) = IF 1 >= n THEN 1 ELSE n
      BY <3>1, MaxMin
    <3> QED
      BY <3>1, <3>2
  <2>2. /\ list.cursor \in 1 .. Max({1, Len(list.shown)})
        /\ detail.cursor \in 1 .. Max({1, Len(detail.rows)})
    <3>1. OnRow(list.cursor, Len(list.shown)) /\ OnRow(detail.cursor, Len(detail.rows))
      BY DEF TypeInv, CursorInv, ListOK, DetailAt
    <3> QED
      BY <2>1, <3>1
  <2>3. ToSet(list.shown) \subseteq DOMAIN list.rows /\ list.sortCol \in SortColumns
    BY DEF TypeInv, Shown, ToSet
  <2>4. /\ lastSnapshot \cup graph \cup cycleEdges \cup DOMAIN anomalyCounts \subseteq Calls
        /\ newAlerts \subseteq Services
    BY DEF TypeInv, ScreensInv, Around
  <2>5. {Len(events), Len(alerts)} \subseteq 0 .. ChanSize
    <3>1. /\ events \in Seq(Told) /\ Len(events) <= ChanSize
          /\ alerts \in Seq(Calls) /\ Len(alerts) <= ChanSize
      BY DEF TypeInv, Around
    <3> QED
      BY <3>1, ScreensAssumption
  <2> QED
    BY <2>2, <2>3, <2>4, <2>5 DEF TypeInv, Plain, TypeOK
<1> QED
  BY <1>1, <1>2, <1>3, PTL DEF ScreensSpec
=============================================================================
