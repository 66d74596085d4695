------------------------------- MODULE Screens -------------------------------
(***************************************************************************)
(* The terminal UI (src/internal/tui): a list of services, the calls of    *)
(* one service, the log of one call.  Update handles one message at a      *)
(* time: a key, a tick, an event of the graph, an alert, a new size of the *)
(* terminal.  Three commands run beside it, each until it has one message  *)
(* to give: the tick and the listeners on the two channels.                *)
(*                                                                         *)
(* A service is a number, in the order of the names.  The order of rows    *)
(* that nothing sorts is that of a Go map: any.  The call graph and the    *)
(* detector are what fills the channels and may change between snapshots.  *)
(* The terminal is so wide (90 columns) that no line is broken.  The log   *)
(* stays empty: Update has a case for events of the log, but RunWithTUI    *)
(* sends none.                                                             *)
(***************************************************************************)
EXTENDS Integers, Sequences, FiniteSets, SequencesExt

CONSTANTS Services,  (* numbers, in the order of their names                *)
          Calls,     (* edges that may appear: source, destination, operation *)
          Heights,   (* lines that the terminal may have                    *)
          MinRows,   (* rows of the list on a low terminal (5 in the code)  *)
          ChanSize,  (* capacity of the channels of events and alerts       *)
          MaxCount   (* bound: alerts of a call are counted no further      *)

ASSUME ScreensAssumption ==
  /\ Services \subseteq Nat /\ IsFiniteSet(Services)
  /\ IsFiniteSet(Calls) /\ \A k \in Calls : k[1] \in Services /\ k[2] \in Services
  /\ Heights \subseteq Nat
  /\ {MinRows, ChanSize, MaxCount} \subseteq Nat \ {0}

VARIABLES height,        (* lines of the terminal, 0 before they are known  *)
          screen,        (* the screen that is shown                        *)
          help,          (* whether the help covers it                      *)
          list,          (* Screen 1                                        *)
          detail,        (* Screen 2                                        *)
          log,           (* Screen 3                                        *)
          lastSnapshot,  (* the calls of the last snapshot                  *)
          anomalyCounts, (* alerts handled, by key of the call              *)
          newAlerts,     (* services with an alert since the last snapshot  *)
          cycleEdges,    (* calls reported as part of a cycle               *)
          cmds,          (* the commands that are out                       *)
          quit,          (* whether the program of the UI has ended         *)
          (* Outside the UI.                                                *)
          graph,         (* the calls in the call graph                     *)
          events,        (* contents of the graph's channel                 *)
          alerts         (* contents of the detector's channel              *)

marks   == <<anomalyCounts, newAlerts, cycleEdges>>
outside == <<graph, events, alerts>>
screenVars == <<height, screen, help, list, detail, log, lastSnapshot, marks,
                cmds, quit, outside>>

(* The columns the list may be sorted by.  Latency, error rate and risk, one *)
(* after the other, are "figures" that change with every call.              *)
SortColumns == {"figures", "service", "anomalies"}

NextColumns(col) == CASE col = "figures"   -> {"figures", "service"}
                      [] col = "service"   -> {"anomalies"}
                      [] col = "anomalies" -> {"figures"}

NewScreen1 == [rows |-> <<>>, shown |-> <<>>, cursor |-> 1, sortCol |-> "figures",
               blink |-> FALSE]
NewScreen2 == [service |-> 0, rows |-> <<>>, cursor |-> 1]
NewScreen3 == [key |-> <<>>, src |-> 0, dst |-> 0]

ScreensInit ==
  /\ height = 0 /\ screen = "services" /\ help = FALSE /\ quit = FALSE
  /\ list = NewScreen1 /\ detail = NewScreen2 /\ log = NewScreen3
  /\ lastSnapshot = {}
  /\ anomalyCounts = <<>> /\ newAlerts = {} /\ cycleEdges = {}
  /\ cmds = {"tick", "graph", "alerts"}
  /\ graph = {} /\ events = <<>> /\ alerts = <<>>

NodesOf(K) == {k[1] : k \in K} \cup {k[2] : k \in K}

(* Lookups in Go's maps: what is not there is zero.  A service looked up   *)
(* where keys of calls are the keys is a key with one part.                *)
Count(counts, key) == IF key \in DOMAIN counts THEN counts[key] ELSE 0

(* A mutation: an empty list leaves the cursor before the first row. *)
ClampToLength(cursor, n) == IF cursor > n THEN n ELSE cursor

(* A cursor that is past the end moves to the last row.                    *)
Clamp(cursor, n) == IF cursor > n THEN Max({1, n}) ELSE cursor

Up(cursor)      == IF cursor > 1 THEN cursor - 1 ELSE cursor
Down(cursor, n) == IF cursor < n THEN cursor + 1 ELSE cursor

-----------------------------------------------------------------------------
(* Screen 1, the list.  Figures put the rows into any order.  The filter is *)
(* always empty, see PressSlash.                                           *)
InOrder(q, rows, col) ==
  \A i \in 1 .. Len(q) - 1 :
    CASE col = "service"   -> q[i] < q[i + 1]
      [] col = "anomalies" -> rows[q[i]].anomalies >= rows[q[i + 1]].anomalies
      [] OTHER             -> TRUE

applyFilterAndSort(l) ==
  {[l EXCEPT !.shown = q, !.cursor = Clamp(@, Len(q))] :
     q \in {p \in SetToSeqs(DOMAIN l.rows) : InOrder(p, l.rows, l.sortCol)}}

ListUpdate(l) ==
  applyFilterAndSort(
    [l EXCEPT !.rows = [s \in NodesOf(graph) |->
                          [anomalies |-> Count(anomalyCounts, <<s>>),
                           newAlert  |-> s \in newAlerts]]])

ListKey(l, key) ==
  CASE key = "up"   -> {[l EXCEPT !.cursor = Up(@)]}
    [] key = "down" -> {[l EXCEPT !.cursor = Down(@, Len(l.shown))]}
    [] key = "s"    -> UNION {applyFilterAndSort([l EXCEPT !.sortCol = col]) :
                                col \in NextColumns(l.sortCol)}
    [] OTHER        -> {l}

(* What a row's badge shows: the count, and a dot for an alert that is new. *)
Badge(l, s) == l.rows[s].anomalies > 0
Dot(l, s)   == Badge(l, s) /\ l.rows[s].newAlert /\ l.blink

visibleRows == Max({MinRows, height - 8})

(* A mutation: the window ends before the cursor. *)
FullRowsAbove == Max({1, list.cursor - visibleRows})

visibleStart == Max({1, list.cursor - visibleRows \div 2})

(* The rows that are drawn.  Screen1.View puts three lines above the first  *)
(* of them, and Model.View keeps as many lines as the terminal has but for  *)
(* three, so that on a low terminal the last of the rows are cut off.       *)
ListWindow == visibleStart .. Min({Len(list.shown), visibleStart + visibleRows - 1,
                                   visibleStart + (height - 3) - 3 - 1})

-----------------------------------------------------------------------------
(* Screen 2, the calls to a service and from it.  What it colours, for an   *)
(* alert or a cycle, is layout.                                            *)

Direction(service, k) == IF k[2] = service THEN "upstream" ELSE "downstream"

EdgeRow(service, k) ==
  LET dir == Direction(service, k)
  IN  [key |-> k, direction |-> dir, peer |-> IF dir = "upstream" THEN k[1] ELSE k[2]]

DetailUpdate(d, snapshot) ==
  LET own == {EdgeRow(d.service, k) : k \in {c \in snapshot : d.service \in {c[1], c[2]}}}
      Listed(dir) == SetToSeqs({r \in own : r.direction = dir})
  IN  {[d EXCEPT !.rows = p[1] \o p[2], !.cursor = Clamp(@, Cardinality(own))] :
         p \in Listed("upstream") \X Listed("downstream")}

DetailKey(d, key) ==
  CASE key = "up"   -> [d EXCEPT !.cursor = Up(@)]
    [] key = "down" -> [d EXCEPT !.cursor = Down(@, Len(d.rows))]
    [] OTHER        -> d

edgeSrc(row) == IF row.direction = "upstream" THEN row.peer ELSE detail.service
edgeDst(row) == IF row.direction = "downstream" THEN row.peer ELSE detail.service

-----------------------------------------------------------------------------
(* Screen 3, the log of a call. *)
SetEdge(row) == [key |-> row.key, src |-> edgeSrc(row), dst |-> edgeDst(row)]

-----------------------------------------------------------------------------
(* Update: keys.  "r" takes a snapshot and is then a key like any other.   *)
Lists(key)   == IF key = "r" THEN ListUpdate(list) ELSE {list}
Details(key) == IF key = "r" /\ screen = "edges" THEN DetailUpdate(detail, graph)
                ELSE {detail}
applySnapshot(key) ==
  /\ lastSnapshot' = IF key = "r" THEN graph ELSE lastSnapshot
  /\ newAlerts' = IF key = "r" THEN {} ELSE newAlerts

(* The program of the UI ends, and with it what the screens were showing.  *)
ProgramEnds == /\ quit' = TRUE /\ screen' = "services" /\ help' = FALSE
               /\ list' = NewScreen1 /\ detail' = NewScreen2 /\ log' = NewScreen3
               /\ UNCHANGED <<height, lastSnapshot, marks, cmds, outside>>

PressQuit == ProgramEnds

(* NewScreen1 makes a text input and drops it.  Focus of the empty one that *)
(* the screen has instead panics, in the library, and Bubble Tea ends: the  *)
(* filter is never entered.                                                 *)
PressSlash == ~help /\ screen = "services" /\ ProgramEnds

PressHelp == /\ help' = ~help
             /\ UNCHANGED <<height, screen, list, detail, log, lastSnapshot, marks,
                            cmds, quit, outside>>

(* Any key closes the help. *)
CloseHelp(key) ==
  /\ help
  /\ help' = FALSE
  /\ list' \in Lists(key) /\ detail' \in Details(key) /\ applySnapshot(key)
  /\ UNCHANGED <<height, screen, log, anomalyCounts, cycleEdges, cmds, quit, outside>>

(* A mutation: the screen opens with the rows it had, until the next tick. *)
OpensAsLeft(service) == {[detail EXCEPT !.service = service, !.cursor = 1]}

Opens(service) == DetailUpdate([detail EXCEPT !.service = service, !.cursor = 1],
                               lastSnapshot)

OpenService ==
  /\ ~help /\ screen = "services" /\ list.shown # <<>>
  /\ detail' \in Opens(list.shown[list.cursor])
  /\ screen' = "edges"
  /\ UNCHANGED <<height, help, list, log, lastSnapshot, marks, cmds, quit, outside>>

OpenCall ==
  /\ ~help /\ screen = "edges" /\ detail.rows # <<>> /\ detail.cursor <= Len(detail.rows)
  /\ log' = SetEdge(detail.rows[detail.cursor])
  /\ screen' = "events"
  /\ UNCHANGED <<height, help, list, detail, lastSnapshot, marks, cmds, quit, outside>>

Back == /\ ~help /\ screen # "services"
        /\ screen' = IF screen = "events" THEN "edges" ELSE "services"
        /\ UNCHANGED <<height, help, list, detail, log, lastSnapshot, marks, cmds,
                       quit, outside>>

(* A key that is left to the screen. *)
ScreenKey(key) ==
  /\ ~help
  /\ list' \in IF screen = "services" THEN UNION {ListKey(l, key) : l \in Lists(key)}
                ELSE Lists(key)
  /\ detail' \in IF screen = "edges" THEN {DetailKey(d, key) : d \in Details(key)}
                  ELSE {detail}
  /\ applySnapshot(key)
  /\ UNCHANGED <<height, screen, help, log, anomalyCounts, cycleEdges, cmds, quit, outside>>

(* All other keys change nothing but the help. *)
Keys == {"r", "up", "down", "s"}

KeyMsg == \/ PressQuit \/ PressSlash \/ PressHelp \/ OpenService \/ OpenCall \/ Back
          \/ \E key \in {"r", "other"} : CloseHelp(key)
          \/ \E key \in Keys : ScreenKey(key)

-----------------------------------------------------------------------------
(* Update: messages of the commands.  Each is followed by the command that *)
(* waits for the next one.                                                 *)

(* A mutation: after an alert nobody listens for the next. *)
AgainButForAlerts(cmd) == IF cmd = "alerts" THEN cmds \ {cmd} ELSE cmds

Again(cmd) == (cmds \ {cmd}) \cup {cmd}

TickMsg ==
  /\ "tick" \in cmds
  /\ UNCHANGED <<height, screen, help, log, anomalyCounts, cycleEdges, quit, outside>>
  /\ applySnapshot("r")
  /\ \E l \in Lists("r") : list' = [l EXCEPT !.blink = ~@]
  /\ detail' \in Details("r")
  /\ cmds' = Again("tick")

AnomalyMsg ==
  /\ "alerts" \in cmds /\ alerts # <<>>
  /\ LET k == Head(alerts)
     IN  /\ anomalyCounts' = [c \in DOMAIN anomalyCounts \cup {k} |->
                                IF c = k THEN Min({MaxCount, Count(anomalyCounts, c) + 1})
                                         ELSE anomalyCounts[c]]
         /\ newAlerts' = newAlerts \cup {k[1]}
  /\ alerts' = Tail(alerts)
  /\ cmds' = Again("alerts")
  /\ UNCHANGED <<height, screen, help, list, detail, log, lastSnapshot, cycleEdges,
                 quit, graph, events>>

GraphEventMsg ==
  /\ "graph" \in cmds /\ events # <<>>
  /\ cycleEdges' = cycleEdges \cup (IF Head(events).type = "NewCycle" THEN {Head(events).key}
                                    ELSE {})
  /\ events' = Tail(events)
  /\ cmds' = Again("graph")
  /\ UNCHANGED <<height, screen, help, list, detail, log, lastSnapshot, anomalyCounts, newAlerts,
                 quit, graph, alerts>>

(* Bubble Tea tells the size at the start, and again when it changes.       *)
WindowSizeMsg == /\ height' \in Heights \ {height}
                 /\ UNCHANGED <<screen, help, list, detail, log, lastSnapshot,
                                marks, cmds, quit, outside>>

Update == ~quit /\ (KeyMsg \/ TickMsg \/ AnomalyMsg \/ GraphEventMsg \/ WindowSizeMsg)

-----------------------------------------------------------------------------
(* Outside the UI: the graph changes and tells, with a channel that drops  *)
(* what it has no room for; the detector does the same.                    *)
(* To the UI only the events of new cycles are not like the others.         *)
emit(type, k) ==
  events' = IF Len(events) < ChanSize
            THEN Append(events, [type |-> type, key |-> k])
            ELSE events

inside == <<height, screen, help, list, detail, log, lastSnapshot, marks, cmds, quit>>

CallAppears(k) == /\ k \notin graph /\ graph' = graph \cup {k} /\ emit("Other", k)
                  /\ UNCHANGED <<inside, alerts>>

CallIsSwept(k) == /\ k \in graph /\ graph' = graph \ {k} /\ emit("Other", k)
                  /\ UNCHANGED <<inside, alerts>>

CycleAppears(k) == /\ k \in graph /\ emit("NewCycle", k)
                   /\ UNCHANGED <<inside, graph, alerts>>

CallIsAnomalous(k) ==
  /\ k \in graph
  /\ alerts' = IF Len(alerts) < ChanSize THEN Append(alerts, k) ELSE alerts
  /\ UNCHANGED <<inside, graph, events>>

Outside == \E k \in Calls : CallAppears(k) \/ CallIsSwept(k) \/ CycleAppears(k)
                              \/ CallIsAnomalous(k)

ScreensNext == Update \/ (~quit /\ Outside)

(* Bubble Tea runs each command in a goroutine of its own and hands its     *)
(* message to Update; the user may do nothing for ever.                     *)
ScreensFairness == /\ WF_screenVars(~quit /\ TickMsg)
                   /\ WF_screenVars(~quit /\ AnomalyMsg)
                   /\ WF_screenVars(~quit /\ GraphEventMsg)

ScreensSpec == ScreensInit /\ [][ScreensNext]_screenVars

FairScreensSpec == ScreensSpec /\ ScreensFairness

-----------------------------------------------------------------------------
(* Every variable has its type and every cursor is on a row of its screen,  *)
(* or on the first of none: Go would panic at s.filtered[s.cursor] of a     *)
(* list that has shrunk under the cursor (a sweep).                         *)
TypeOK ==
  /\ height \in Heights \cup {0}
  /\ screen \in {"services", "edges", "events"} /\ {help, quit} \subseteq BOOLEAN
  /\ list.cursor \in 1 .. Max({1, Len(list.shown)})
  /\ ToSet(list.shown) \subseteq DOMAIN list.rows /\ list.sortCol \in SortColumns
  /\ detail.cursor \in 1 .. Max({1, Len(detail.rows)})
  /\ lastSnapshot \cup graph \cup cycleEdges \cup DOMAIN anomalyCounts \subseteq Calls
  /\ newAlerts \subseteq Services /\ cmds \subseteq {"tick", "graph", "alerts"}
  /\ {Len(events), Len(alerts)} \subseteq 0 .. ChanSize

(* The row that Enter would open is drawn, on a terminal that has two lines *)
(* for the bars, one more, three above the list and half of the least       *)
(* number of rows and one (nine lines in the code): the window follows the  *)
(* cursor, which keys and every new list move, and both the number of its   *)
(* rows and where Model.View cuts them off follow the height, which may     *)
(* change at any time.  On a lower terminal it need not be.                 *)
HighEnough == height >= 3 + 3 + MinRows \div 2 + 1

SelectionDrawn == HighEnough /\ list.shown # <<>> => list.cursor \in ListWindow

(* The log is that of the call whose two ends its title names, and the      *)
(* screen behind it lists calls of its own service only: edgeSrc and        *)
(* edgeDst compute the ends from a row made by one snapshot and a service   *)
(* chosen at another time.                                                  *)
LogOfCall ==
  /\ log.key # <<>> => log.src = log.key[1] /\ log.dst = log.key[2]
  /\ \A i \in DOMAIN detail.rows : detail.service \in {edgeSrc(detail.rows[i]),
                                                      edgeDst(detail.rows[i])}
                                  /\ detail.rows[i].peer \in {detail.rows[i].key[1],
                                                              detail.rows[i].key[2]}

(* The list comes back, again and again, to the services of the graph, and  *)
(* neither events nor alerts are left lying: every command that has given   *)
(* its message is started again, whatever screen is shown and whatever      *)
(* covers it, so that a second event or alert is not left behind the first, *)
(* and no key stops the tick but one that ends the program (Model.Update).  *)
KeepsUp == /\ []<>(quit \/ DOMAIN list.rows = NodesOf(graph))
           /\ []<>(quit \/ events = <<>>)
           /\ []<>(quit \/ alerts = <<>>)

(* A row whose service has a new alert shows the dot when dots are lit, as  *)
(* the legend of the help says.  The count that lets a row have a badge is  *)
(* looked up by the name of the service among counts of keys of calls, is   *)
(* always zero, and no row has a badge (Screen1.Update).                    *)
NewAlertsBlink == \A s \in DOMAIN list.rows : list.rows[s].newAlert /\ list.blink => Dot(list, s)
=============================================================================
