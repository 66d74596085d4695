--------------------------- MODULE AnomalyDetector ---------------------------
(***************************************************************************)
(* ZScoreDetector (src/internal/anomaly): for each edge and metric a       *)
(* window of the last values, and an alert when a value lies too far from  *)
(* the mean of the window it has just entered.                             *)
(*                                                                         *)
(* Feed holds the detector's lock from beginning to end and is one step.   *)
(* Values are whole numbers of some unit, and mean and deviation are kept  *)
(* as sums: for the sum S and the sum of squares Q of n values the z-score *)
(* of v is (n*v - S) / sqrt(n*Q - S*S), which is compared squared.  The    *)
(* code rounds, with float64: near the threshold either verdict may come   *)
(* out (nine times 1000 and then 1003 score 3.000000000000025).  All that  *)
(* is known of the rounding is how far it goes, Precision.                 *)
(***************************************************************************)
EXTENDS Integers, Sequences

CONSTANTS Keys,       (* pairs of an edge and a metric                      *)
          Values,     (* measured values                                    *)
          windowSize, (* 100 in app.go                                      *)
          threshold,  (* 3 in app.go                                        *)
          minSamples, (* 20 in app.go                                       *)
          Precision,  (* rounding moves the square of a score by less than  *)
                      (* one part in Precision                              *)
          cooldown,   (* 30 s in app.go                                     *)
          BufSize,    (* capacity of the channel of alerts                  *)
          MaxTime,    (* bound: the clock                                   *)
          MaxAlerts   (* bound: alerts for a key                            *)

ASSUME ValuesAssumption == Values \subseteq Int
ASSUME SizesAssumption  == /\ windowSize \in Nat \ {0}
                           /\ threshold \in Nat /\ minSamples \in Nat
                           /\ cooldown \in Nat /\ BufSize \in Nat
                           /\ MaxTime \in Nat /\ MaxAlerts \in Nat

(* With the threshold 3 of app.go that is less than a tenth.  float64 is so *)
(* far off only for values of more than a dozen digits that differ in the   *)
(* last of them.                                                            *)
ASSUME PrecisionAssumption == /\ Precision \in Nat
                              /\ Precision > threshold * threshold

VARIABLES window,      (* the slots of each window                          *)
          pos,         (* the slot written last, from 1; 0 before the first *)
          inAnomaly,   (* whether the excursion of the key was alerted      *)
          lastAlerted, (* time of the last alert of the key, or Never       *)
          out,         (* contents of the channel of alerts                 *)
          total,       (* the counter AnomaliesTotal, by key                *)
          now,         (* the clock                                         *)
          (* What has happened, for the properties.                         *)
          recent,      (* the last windowSize values of the key, in order   *)
          hotAt,       (* time of the last value if it was anomalous, Never if not *)
          calm         (* whether a value since the last alert was normal   *)

histVars == <<recent, hotAt, calm>>
vars == <<window, pos, inAnomaly, lastAlerted, out, total, now, histVars>>

Never == -1

Init == /\ window = [k \in Keys |-> <<>>]
        /\ pos = [k \in Keys |-> 0]
        /\ inAnomaly = [k \in Keys |-> FALSE]
        /\ lastAlerted = [k \in Keys |-> Never]
        /\ out = <<>>
        /\ total = [k \in Keys |-> 0]
        /\ now = 0
        /\ recent = [k \in Keys |-> <<>>]
        /\ hotAt = [k \in Keys |-> Never]
        /\ calm = [k \in Keys |-> TRUE]

-----------------------------------------------------------------------------
(* RollingStats *)

(* A mutation: a full window is written from the second slot on. *)
SecondSlot(k) == IF Len(window[k]) < windowSize THEN Len(window[k]) + 1
                 ELSE (pos[k] % (windowSize - 1)) + 2

(* The slot that the next value takes. *)
NextSlot(k) == IF Len(window[k]) < windowSize THEN Len(window[k]) + 1
               ELSE (pos[k] % windowSize) + 1

(* A mutation: the window never stops growing. *)
Grows(k, v) == Append(window[k], v)

(* Add: a window that is not full grows, a full one loses its oldest. *)
Add(k, v) == [i \in 1 .. Len(window[k]) \cup {NextSlot(k)} |->
                IF i = NextSlot(k) THEN v ELSE window[k][i]]

(* The sums of the first values of w, in the order recalc goes over them. *)
Sums(w) == LET sum[i \in 0 .. Len(w)] == IF i = 0 THEN 0 ELSE sum[i - 1] + w[i]
           IN  sum

Sum(w)     == Sums(w)[Len(w)]
Squares(w) == Sum([i \in 1 .. Len(w) |-> w[i] * w[i]])

(* n*n times the variance of the n values of w. *)
Spread(w) == Len(w) * Squares(w) - Sum(w) * Sum(w)

(* A mutation: StdDev returns the variance. *)
NoRoot(w, v) ==
  LET d == Len(w) * v - Sum(w)
  IN  /\ Spread(w) # 0
      /\ Precision * Len(w) * Len(w) * d * d
           >= (Precision - 1) * threshold * threshold * Spread(w) * Spread(w)

(* Whether abs(ZScore(v)) > threshold may come out true, and whether it may *)
(* come out false.  The score is 0 when there is no deviation, and then no  *)
(* rounding either: the mean of equal values is found exactly.              *)
MayBeAnomaly(w, v) ==
  LET d == Len(w) * v - Sum(w)
  IN  /\ Spread(w) # 0
      /\ Precision * (d * d) >= (Precision - 1) * (threshold * threshold * Spread(w))

MayBeNormal(w, v) ==
  LET d == Len(w) * v - Sum(w)
  IN  Spread(w) # 0 =>
        Precision * (d * d) <= (Precision + 1) * (threshold * threshold * Spread(w))

-----------------------------------------------------------------------------
(* ZScoreDetector *)

(* Feed returns before the score is looked at. *)
TooFew(k) == UNCHANGED <<inAnomaly, lastAlerted, out, total, hotAt, calm>>

(* A mutation: a normal value does not end the excursion. *)
StaysInAnomaly(k) ==
  /\ hotAt' = [hotAt EXCEPT ![k] = Never]
  /\ calm' = [calm EXCEPT ![k] = TRUE]
  /\ UNCHANGED <<inAnomaly, lastAlerted, out, total>>

(* A normal value ends the excursion. *)
Normal(k) == /\ inAnomaly' = [inAnomaly EXCEPT ![k] = FALSE]
             /\ hotAt' = [hotAt EXCEPT ![k] = Never]
             /\ calm' = [calm EXCEPT ![k] = TRUE]
             /\ UNCHANGED <<lastAlerted, out, total>>

CoolingDown(k) == lastAlerted[k] # Never /\ now - lastAlerted[k] < cooldown

(* Mutations: the excursion is marked although its alert is held back; an  *)
(* excursion that was alerted is alerted again. *)
MarkedSilently(k) == /\ inAnomaly[k] \/ CoolingDown(k)
                     /\ inAnomaly' = [inAnomaly EXCEPT ![k] = TRUE]
                     /\ hotAt' = [hotAt EXCEPT ![k] = now]
                     /\ UNCHANGED <<lastAlerted, out, total, calm>>
AlertAgain(k, v) ==
  /\ ~CoolingDown(k)
  /\ total[k] < MaxAlerts
  /\ inAnomaly' = [inAnomaly EXCEPT ![k] = TRUE]
  /\ lastAlerted' = [lastAlerted EXCEPT ![k] = now]
  /\ total' = [total EXCEPT ![k] = @ + 1]
  /\ out' = IF Len(out) < BufSize THEN Append(out, k) ELSE out
  /\ hotAt' = [hotAt EXCEPT ![k] = now]
  /\ calm' = [calm EXCEPT ![k] = FALSE]

(* An anomalous value of an excursion that was alerted, or too soon after  *)
(* the last alert. *)
Silent(k) == /\ inAnomaly[k] \/ CoolingDown(k)
             /\ hotAt' = [hotAt EXCEPT ![k] = now]
             /\ UNCHANGED <<inAnomaly, lastAlerted, out, total, calm>>

(* An alert, which is dropped when the channel is full. *)
Alert(k, v) == /\ ~inAnomaly[k]
               /\ ~CoolingDown(k)
               /\ total[k] < MaxAlerts
               /\ inAnomaly' = [inAnomaly EXCEPT ![k] = TRUE]
               /\ lastAlerted' = [lastAlerted EXCEPT ![k] = now]
               /\ total' = [total EXCEPT ![k] = @ + 1]
               /\ out' = IF Len(out) < BufSize THEN Append(out, k) ELSE out
               /\ hotAt' = [hotAt EXCEPT ![k] = now]
               /\ calm' = [calm EXCEPT ![k] = FALSE]

Feed(k, v) ==
  /\ window' = [window EXCEPT ![k] = Add(k, v)]
  /\ pos' = [pos EXCEPT ![k] = NextSlot(k)]
  /\ recent' = [recent EXCEPT ![k] =
                  Append(IF Len(@) < windowSize THEN @ ELSE Tail(@), v)]
  /\ UNCHANGED now
  /\ IF Len(window'[k]) < minSamples THEN TooFew(k)
     ELSE \/ MayBeNormal(window'[k], v) /\ Normal(k)
          \/ MayBeAnomaly(window'[k], v) /\ (Silent(k) \/ Alert(k, v))

(* Who listens takes an alert; time passes. *)
Consume == /\ out # <<>>
           /\ out' = Tail(out)
           /\ UNCHANGED <<window, pos, inAnomaly, lastAlerted, total, now, histVars>>
Tick == /\ now < MaxTime
        /\ now' = now + 1
        /\ UNCHANGED <<window, pos, inAnomaly, lastAlerted, out, total, histVars>>

Next == (\E k \in Keys, v \in Values : Feed(k, v)) \/ Consume \/ Tick

Spec == Init /\ [][Next]_vars

-----------------------------------------------------------------------------
(* Properties *)

(* The types, the size of the windows and the capacity of the channel.     *)
TypeOK == /\ window \in [Keys -> Seq(Values)]
          /\ recent \in [Keys -> Seq(Values)]
          /\ \A k \in Keys : Len(window[k]) <= windowSize
          /\ pos \in [Keys -> 0 .. windowSize]
          /\ inAnomaly \in [Keys -> BOOLEAN]
          /\ calm \in [Keys -> BOOLEAN]
          /\ lastAlerted \in [Keys -> 0 .. MaxTime \cup {Never}]
          /\ hotAt \in [Keys -> 0 .. MaxTime \cup {Never}]
          /\ out \in Seq(Keys)
          /\ Len(out) <= BufSize
          /\ total \in [Keys -> 0 .. MaxAlerts]
          /\ now \in 0 .. MaxTime

(* The window holds the last values, and no others: read from the slot     *)
(* after the last one written, round the ring, it is the recent values in  *)
(* their order.                                                            *)
WindowIsRecent ==
  \A k \in Keys :
    LET n == Len(window[k])
    IN  /\ n = Len(recent[k])
        /\ \A i \in 1 .. n : recent[k][i] = window[k][((pos[k] + i - 1) % n) + 1]

(* An edge is alerted again only after a normal value and the cooldown:    *)
(* an excursion has one alert, however long it lasts.                      *)
OneAlertPerExcursion ==
  [][\A k \in Keys : total'[k] > total[k] =>
       \/ total[k] = 0
       \/ calm[k] /\ now - lastAlerted[k] >= cooldown]_vars

(* An anomalous value after a normal one is silent only in the cooldown:   *)
(* an excursion that begins in the cooldown and outlasts it is alerted.    *)
NoExcursionMissed ==
  \A k \in Keys :
    hotAt[k] # Never /\ calm[k] =>
      lastAlerted[k] # Never /\ hotAt[k] - lastAlerted[k] < cooldown

(* A shift to a new level ends as an anomaly at the latest when the level  *)
(* has filled the window: nothing keeps a key in an anomaly for ever.      *)
ShiftIsAbsorbed ==
  \A k \in Keys :
    /\ Len(recent[k]) = windowSize
    /\ windowSize >= minSamples
    /\ \A i \in 1 .. windowSize : recent[k][i] = recent[k][1]
    => ~inAnomaly[k]

(* A value is part of the window it is compared with, so that its score is *)
(* at most the root of one less than the number of values: with            *)
(* threshold*threshold values or fewer there is no alert, whatever the     *)
(* values and however they are rounded.  One more value, and rounding      *)
(* decides.                                                                *)
FewValuesNeverAlert ==
  \A k \in Keys :
    hotAt[k] # Never => Len(window[k]) > threshold * threshold
=============================================================================
