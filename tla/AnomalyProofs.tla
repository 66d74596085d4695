--------------------------- MODULE AnomalyProofs ---------------------------
(***************************************************************************)
(* Proofs about AnomalyDetector, for every set of keys and of values,      *)
(* every size of the window, every threshold and every cooldown.           *)
(***************************************************************************)
EXTENDS AnomalyDetector, SequenceTheorems, WellFoundedInduction, TLAPS

USE DEF histVars

(* The remainder of numbers below twice the divisor. *)
LEMMA Wrap ==
  ASSUME NEW n \in Nat, n > 0, NEW x \in Nat
  PROVE  /\ x < n => x % n = x
         /\ x >= n /\ x < 2 * n => x % n = x - n
OBVIOUS

(* What Add makes of a window that is not full: the value is at its end.    *)
LEMMA AddGrows ==
  ASSUME TypeOK, NEW k \in Keys, NEW v \in Values, Len(window[k]) < windowSize
  PROVE  /\ NextSlot(k) = Len(window[k]) + 1
         /\ Add(k, v) \in Seq(Values) /\ Len(Add(k, v)) = Len(window[k]) + 1
         /\ Add(k, v)[Len(window[k]) + 1] = v
         /\ \A i \in 1 .. Len(window[k]) : Add(k, v)[i] = window[k][i]
<1> DEFINE n == Len(window[k])
<1>1. window[k] \in Seq(Values) /\ n \in Nat
  BY DEF TypeOK
<1>2. NextSlot(k) = n + 1
  BY DEF NextSlot
<1>3. Add(k, v) = [i \in 1 .. n + 1 |-> IF i = n + 1 THEN v ELSE window[k][i]]
  <2>1. 1 .. n \cup {n + 1} = 1 .. n + 1
    BY <1>1
  <2> QED
    BY <1>2, <2>1 DEF Add
<1>4. \A i \in 1 .. n : window[k][i] \in Values
  BY <1>1
<1>5. Add(k, v) \in [1 .. n + 1 -> Values]
  BY <1>1, <1>3, <1>4
<1>6. Add(k, v) \in Seq(Values) /\ Len(Add(k, v)) = n + 1
  BY <1>1, <1>5
<1> QED
  BY <1>1, <1>2, <1>3, <1>6

(* What Add makes of a full window: the value is in the slot after the last. *)
LEMMA AddReplaces ==
  ASSUME TypeOK, NEW k \in Keys, NEW v \in Values, Len(window[k]) = windowSize
  PROVE  /\ NextSlot(k) = (pos[k] % windowSize) + 1 /\ NextSlot(k) \in 1 .. windowSize
         /\ Add(k, v) \in Seq(Values) /\ Len(Add(k, v)) = windowSize
         /\ Add(k, v)[NextSlot(k)] = v
         /\ \A i \in 1 .. windowSize : i # NextSlot(k) => Add(k, v)[i] = window[k][i]
<1> DEFINE s == NextSlot(k)
<1>1. window[k] \in Seq(Values) /\ windowSize \in Nat /\ pos[k] \in Nat
  BY SizesAssumption DEF TypeOK
<1>2. s = (pos[k] % windowSize) + 1
  BY <1>1 DEF NextSlot
<1>3. s \in 1 .. windowSize
  BY <1>1, <1>2, SizesAssumption
<1>4. Add(k, v) = [i \in 1 .. windowSize |-> IF i = s THEN v ELSE window[k][i]]
  <2>1. 1 .. windowSize \cup {s} = 1 .. windowSize
    BY <1>3
  <2> QED
    BY <2>1 DEF Add
<1>5. \A i \in 1 .. windowSize : window[k][i] \in Values
  BY <1>1
<1>6. Add(k, v) \in [1 .. windowSize -> Values]
  BY <1>4, <1>5
<1>7. Add(k, v) \in Seq(Values) /\ Len(Add(k, v)) = windowSize
  BY <1>1, <1>6
<1> HIDE DEF s
<1> QED
  BY <1>2, <1>3, <1>4, <1>7 DEF s

-----------------------------------------------------------------------------
(* Type correctness *)

(* The values' history of a key, after a value. *)
LEMMA RecentGrows ==
  ASSUME TypeOK, NEW k \in Keys, NEW v \in Values,
         Len(recent[k]) = Len(window[k])
  PROVE  LET r == Append(IF Len(recent[k]) < windowSize THEN recent[k] ELSE Tail(recent[k]), v)
         IN  /\ Len(window[k]) < windowSize =>
                  /\ Len(r) = Len(window[k]) + 1
                  /\ r[Len(window[k]) + 1] = v
                  /\ \A i \in 1 .. Len(window[k]) : r[i] = recent[k][i]
             /\ Len(window[k]) = windowSize =>
                  /\ Len(r) = windowSize
                  /\ r[windowSize] = v
                  /\ \A i \in 1 .. windowSize - 1 : r[i] = recent[k][i + 1]
<1>1. recent[k] \in Seq(Values) /\ windowSize \in Nat \ {0} /\ Len(window[k]) \in Nat
  BY SizesAssumption DEF TypeOK
<1>2. CASE Len(window[k]) < windowSize
  BY <1>1, <1>2
<1>3. CASE Len(window[k]) = windowSize
  <2>1. Tail(recent[k]) \in Seq(Values) /\ Len(Tail(recent[k])) = windowSize - 1
    BY <1>1, <1>3
  <2>2. \A i \in 1 .. windowSize - 1 : Tail(recent[k])[i] = recent[k][i + 1]
    BY <1>1, <1>3
  <2> QED
    BY <1>1, <1>3, <2>1, <2>2
<1> QED
  BY <1>1, <1>2, <1>3

(* The step of a value keeps the types. *)
LEMMA FeedType ==
  ASSUME TypeOK, NEW k \in Keys, NEW v \in Values, Feed(k, v)
  PROVE  TypeOK'
<1> USE SizesAssumption
<1>1. Len(window[k]) <= windowSize /\ Len(window[k]) \in Nat
  BY DEF TypeOK
<1>2. Add(k, v) \in Seq(Values) /\ Len(Add(k, v)) <= windowSize /\ NextSlot(k) \in 1 .. windowSize
  <2>1. CASE Len(window[k]) < windowSize
    BY <1>1, <2>1, AddGrows
  <2>2. CASE Len(window[k]) = windowSize
    BY <1>1, <2>2, AddReplaces
  <2> QED
    BY <1>1, <2>1, <2>2
<1>3. /\ window' \in [Keys -> Seq(Values)]
      /\ \A l \in Keys : Len(window'[l]) <= windowSize
      /\ pos' \in [Keys -> 0 .. windowSize]
      /\ now' = now
  <2>1. /\ window' = [window EXCEPT ![k] = Add(k, v)]
        /\ pos' = [pos EXCEPT ![k] = NextSlot(k)]
        /\ now' = now
    BY DEF Feed
  <2>2. NextSlot(k) \in 0 .. windowSize
    BY <1>2
  <2> QED
    BY <1>2, <2>1, <2>2 DEF TypeOK
<1>4. recent' \in [Keys -> Seq(Values)]
  <2>1. recent[k] \in Seq(Values)
    BY DEF TypeOK
  <2>2. Append(IF Len(recent[k]) < windowSize THEN recent[k] ELSE Tail(recent[k]), v) \in Seq(Values)
    <3>1. CASE Len(recent[k]) < windowSize
      BY <2>1, <3>1
    <3>2. CASE ~(Len(recent[k]) < windowSize)
      <4>1. Len(recent[k]) \in Nat
        BY <2>1
      <4>2. recent[k] # <<>>
        BY <4>1, <3>2
      <4> QED
        BY <2>1, <3>2, <4>2
    <3> QED
      BY <3>1, <3>2
  <2> QED
    BY <2>2 DEF TypeOK, Feed
<1>5. \/ TooFew(k) \/ Normal(k) \/ Silent(k) \/ Alert(k, v)
  BY DEF Feed
<1>6. /\ inAnomaly' \in [Keys -> BOOLEAN]
      /\ calm' \in [Keys -> BOOLEAN]
  BY <1>5, Zenon DEF TypeOK, TooFew, Normal, Silent, Alert
<1>7. /\ lastAlerted' \in [Keys -> 0 .. MaxTime \cup {Never}]
      /\ hotAt' \in [Keys -> 0 .. MaxTime \cup {Never}]
      /\ out' \in Seq(Keys)
      /\ Len(out') <= BufSize
      /\ total' \in [Keys -> 0 .. MaxAlerts]
  <2>1. CASE UNCHANGED <<lastAlerted, out, total>> /\ hotAt' \in [Keys -> 0 .. MaxTime \cup {Never}]
    BY <2>1 DEF TypeOK
  <2>2. CASE TooFew(k) \/ Normal(k) \/ Silent(k)
    BY <2>1, <2>2 DEF TypeOK, TooFew, Normal, Silent, Never
  <2>3. CASE Alert(k, v)
    <3>1. /\ lastAlerted' = [lastAlerted EXCEPT ![k] = now]
          /\ hotAt' = [hotAt EXCEPT ![k] = now]
          /\ total' = [total EXCEPT ![k] = @ + 1] /\ total[k] < MaxAlerts
          /\ out' = IF Len(out) < BufSize THEN Append(out, k) ELSE out
      BY <2>3 DEF Alert
    <3>2. out' \in Seq(Keys) /\ Len(out') <= BufSize
      BY <3>1 DEF TypeOK
    <3> QED
      BY <3>1, <3>2 DEF TypeOK
  <2> QED
    BY <1>5, <2>2, <2>3
<1> QED
  BY <1>3, <1>4, <1>6, <1>7 DEF TypeOK

(* TypeOK is inductive. *)
LEMMA TypeStep == TypeOK /\ [Next]_vars => TypeOK'
<1> SUFFICES ASSUME TypeOK, [Next]_vars PROVE TypeOK'
  OBVIOUS
<1> USE SizesAssumption
<1>1. CASE UNCHANGED vars
  BY <1>1 DEF vars, TypeOK
<1>2. ASSUME NEW k \in Keys, NEW v \in Values, Feed(k, v) PROVE TypeOK'
  BY <1>2, FeedType
<1>3. CASE Consume
  BY <1>3 DEF Consume, TypeOK
<1>4. CASE Tick
  BY <1>4 DEF Tick, TypeOK
<1> QED
  BY <1>1, <1>2, <1>3, <1>4 DEF Next

(* The initial state has the types. *)
LEMMA TypeInit == Init => TypeOK
BY SizesAssumption DEF Init, TypeOK, Never

(* In every state the variables have their types, no window is larger than *)
(* its size and the channel of alerts keeps its capacity.                  *)
THEOREM TypeCorrect == Spec => []TypeOK
<1> QED
  BY TypeInit, TypeStep, PTL DEF Spec

-----------------------------------------------------------------------------
(* The window *)

(* What the window w of a key, its last values r and the slot p written    *)
(* last have in common: a window that is not full was written at its end.  *)
RingOf(w, r, p) ==
  /\ Len(w) = Len(r)
  /\ Len(w) < windowSize => p = Len(w)
  /\ \A i \in 1 .. Len(w) : r[i] = w[((p + i - 1) % Len(w)) + 1]

Ring == \A k \in Keys : RingOf(window[k], recent[k], pos[k])

(* A window that is not full: the values lie in the slots in their order.   *)
LEMMA RingGrows ==
  ASSUME TypeOK, NEW k \in Keys, NEW v \in Values, Feed(k, v),
         RingOf(window[k], recent[k], pos[k]), Len(window[k]) < windowSize
  PROVE  RingOf(window'[k], recent'[k], pos'[k])
<1> DEFINE n == Len(window[k])
<1>1. n \in Nat /\ pos[k] = n /\ Len(recent[k]) = n
  BY DEF RingOf, TypeOK
<1>2. /\ window'[k] = Add(k, v) /\ pos'[k] = NextSlot(k)
      /\ recent'[k] = Append(IF Len(recent[k]) < windowSize THEN recent[k] ELSE Tail(recent[k]), v)
  BY DEF Feed, TypeOK
<1>3. /\ pos'[k] = n + 1 /\ Len(window'[k]) = n + 1
      /\ window'[k][n + 1] = v
      /\ \A i \in 1 .. n : window'[k][i] = window[k][i]
  BY <1>2, AddGrows
<1>4. /\ Len(recent'[k]) = n + 1 /\ recent'[k][n + 1] = v
      /\ \A i \in 1 .. n : recent'[k][i] = recent[k][i]
  BY <1>1, <1>2, RecentGrows
<1>5a. \A i \in 1 .. n : recent[k][i] = window[k][((pos[k] + i - 1) % n) + 1]
  BY DEF RingOf
<1> HIDE DEF n
<1>5. ASSUME NEW i \in 1 .. n PROVE recent[k][i] = window[k][i]
  <2>1. n > 0 /\ n + i - 1 >= n /\ n + i - 1 < 2 * n /\ n + i - 1 \in Nat
    BY <1>1
  <2>2. (n + i - 1) % n = i - 1
    BY <1>1, <2>1, Wrap
  <2> QED
    BY <1>1, <1>5a, <2>2
<1>6. ASSUME NEW i \in 1 .. n + 1
      PROVE  recent'[k][i] = window'[k][((n + 1 + i - 1) % (n + 1)) + 1]
  <2>1. n + 1 + i - 1 >= n + 1 /\ n + 1 + i - 1 < 2 * (n + 1) /\ n + 1 + i - 1 \in Nat
    BY <1>1
  <2>2. (n + 1 + i - 1) % (n + 1) = i - 1
    BY <1>1, <2>1, Wrap
  <2>3. recent'[k][i] = window'[k][i]
    BY <1>1, <1>3, <1>4, <1>5
  <2> QED
    BY <1>1, <2>2, <2>3
<1> QED
  BY <1>1, <1>3, <1>4, <1>6 DEF RingOf

(* A full window: the slot that is overwritten held the oldest value.       *)
LEMMA RingTurns ==
  ASSUME TypeOK, NEW k \in Keys, NEW v \in Values, Feed(k, v),
         RingOf(window[k], recent[k], pos[k]), Len(window[k]) = windowSize
  PROVE  RingOf(window'[k], recent'[k], pos'[k])
<1> DEFINE W == windowSize
           p == pos[k] % W
<1>1. W \in Nat /\ W > 0 /\ pos[k] \in 0 .. W /\ Len(recent[k]) = W
  BY SizesAssumption DEF RingOf, TypeOK
<1>2. /\ window'[k] = Add(k, v) /\ pos'[k] = NextSlot(k)
      /\ recent'[k] = Append(IF Len(recent[k]) < windowSize THEN recent[k] ELSE Tail(recent[k]), v)
  BY DEF Feed, TypeOK
<1>3. /\ pos'[k] = p + 1 /\ p + 1 \in 1 .. W /\ Len(window'[k]) = W
      /\ window'[k][p + 1] = v
      /\ \A i \in 1 .. W : i # p + 1 => window'[k][i] = window[k][i]
  BY <1>2, AddReplaces
<1>4. /\ Len(recent'[k]) = W /\ recent'[k][W] = v
      /\ \A i \in 1 .. W - 1 : recent'[k][i] = recent[k][i + 1]
  BY <1>1, <1>2, RecentGrows
<1>5. p = IF pos[k] = W THEN 0 ELSE pos[k]
  BY <1>1
<1> HIDE DEF p
<1>6. p \in 0 .. W - 1
  BY <1>1, <1>5
<1>7. ASSUME NEW i \in 1 .. W - 1
      PROVE  recent'[k][i] = window'[k][((p + 1 + i - 1) % W) + 1]
  <2> DEFINE q == (p + i) % W
  <2>1. q = IF p + i < W THEN p + i ELSE p + i - W
    <3>1. p + i \in Nat /\ p + i < 2 * W
      BY <1>1, <1>6
    <3>2. CASE p + i < W
      BY <1>1, <1>6, <3>1, <3>2, Wrap
    <3>3. CASE p + i >= W
      BY <1>1, <1>6, <3>1, <3>3, Wrap
    <3> QED
      BY <1>1, <1>6, <3>2, <3>3
  <2>2. (pos[k] + (i + 1) - 1) % W = q
    <3>1. CASE pos[k] = W
      <4>1. pos[k] + (i + 1) - 1 = W + i /\ W + i \in Nat /\ W + i >= W /\ W + i < 2 * W
        BY <1>1, <3>1
      <4>2. (pos[k] + (i + 1) - 1) % W = i
        BY <1>1, <4>1, Wrap
      <4> QED
        BY <1>1, <1>5, <2>1, <3>1, <4>2
    <3>2. CASE pos[k] # W
      <4>1. pos[k] + (i + 1) - 1 = p + i
        BY <1>1, <1>5, <3>2
      <4> QED
        BY <4>1
    <3> QED
      BY <3>1, <3>2
  <2> HIDE DEF q
  <2>3. q \in 0 .. W - 1 /\ q # p
    BY <1>1, <1>6, <2>1
  <2>4. recent[k][i + 1] = window[k][q + 1]
    <3>1. i + 1 \in 1 .. Len(window[k])
      BY <1>1
    <3> QED
      BY <2>2, <3>1 DEF RingOf
  <2>5. window'[k][q + 1] = window[k][q + 1]
    <3>1. q + 1 \in 1 .. W /\ q + 1 # p + 1
      BY <1>1, <1>6, <2>3
    <3> QED
      BY <1>3, <3>1
  <2>6. (p + 1 + i - 1) % W = q
    <3>1. p + 1 + i - 1 = p + i
      BY <1>6
    <3> QED
      BY <3>1 DEF q
  <2> QED
    BY <1>4, <2>4, <2>5, <2>6
<1>8. recent'[k][W] = window'[k][((p + 1 + W - 1) % W) + 1]
  <2>1. p + 1 + W - 1 = p + W /\ p + W \in Nat /\ p + W >= W /\ p + W < 2 * W
    BY <1>1, <1>6
  <2>2. (p + 1 + W - 1) % W = p
    BY <1>1, <1>6, <2>1, Wrap
  <2> QED
    BY <1>3, <1>4, <2>2
<1>9. \A i \in 1 .. W : recent'[k][i] = window'[k][((p + 1 + i - 1) % W) + 1]
  BY <1>1, <1>7, <1>8
<1> QED
  BY <1>1, <1>3, <1>4, <1>9 DEF RingOf

(* No step lets the window and the history differ. *)
LEMMA RingStep == TypeOK /\ Ring /\ [Next]_vars => Ring'
<1> SUFFICES ASSUME TypeOK, Ring, [Next]_vars PROVE Ring'
  OBVIOUS
<1>1. CASE UNCHANGED <<window, recent, pos>>
  BY <1>1 DEF Ring
<1>2. ASSUME NEW k \in Keys, NEW v \in Values, Feed(k, v) PROVE Ring'
  <2>1. RingOf(window'[k], recent'[k], pos'[k])
    <3>1. Len(window[k]) < windowSize \/ Len(window[k]) = windowSize
      BY SizesAssumption DEF TypeOK
    <3> QED
      BY <1>2, <3>1, RingGrows, RingTurns DEF Ring
  <2>2. ASSUME NEW l \in Keys, l # k
        PROVE  window'[l] = window[l] /\ recent'[l] = recent[l] /\ pos'[l] = pos[l]
    BY <1>2, <2>2 DEF Feed, TypeOK
  <2>3. ASSUME NEW l \in Keys PROVE RingOf(window'[l], recent'[l], pos'[l])
    BY <2>1, <2>2 DEF Ring
  <2> QED
    BY <2>3 DEF Ring
<1>3. CASE Consume
  BY <1>1, <1>3 DEF Consume
<1>4. CASE Tick
  BY <1>1, <1>4 DEF Tick
<1>5. CASE UNCHANGED vars
  BY <1>1, <1>5 DEF vars
<1> QED
  BY <1>2, <1>3, <1>4, <1>5 DEF Next

(* The window of every key, read round the ring from the slot after the    *)
(* last one written, is the sequence of its last windowSize values: Add    *)
(* overwrites the oldest and nothing else.                                 *)
THEOREM WindowIsTheRecentValues == Spec => []WindowIsRecent
<1>1. Init => Ring
  <2> SUFFICES ASSUME Init, NEW k \in Keys PROVE RingOf(window[k], recent[k], pos[k])
    BY DEF Ring
  <2>1. window[k] = <<>> /\ recent[k] = <<>> /\ pos[k] = 0
    BY DEF Init
  <2> QED
    BY <2>1 DEF RingOf
<1>2. Ring => WindowIsRecent
  BY DEF Ring, RingOf, WindowIsRecent
<1> QED
  BY <1>1, <1>2, RingStep, TypeInit, TypeStep, PTL DEF Spec

-----------------------------------------------------------------------------
(* The alerts *)

(* What the excursion of a key has in common with its last alert. *)
Excursions ==
  \A k \in Keys : /\ inAnomaly[k] <=> ~calm[k]
                  /\ total[k] = 0 <=> lastAlerted[k] = Never

AlertInv == Excursions /\ NoExcursionMissed

(* An alert comes after a normal value and the cooldown. *)
LEMMA AlertAllowed ==
  ASSUME TypeOK, Excursions, NEW k \in Keys, NEW v \in Values, Alert(k, v)
  PROVE  \/ total[k] = 0
         \/ calm[k] /\ now - lastAlerted[k] >= cooldown
<1>1. calm[k]
  BY Zenon DEF Alert, Excursions, TypeOK
<1>2. lastAlerted[k] = Never \/ ~(now - lastAlerted[k] < cooldown)
  BY DEF Alert, CoolingDown
<1>3. now \in Int /\ cooldown \in Int /\ lastAlerted[k] \in Int
  BY SizesAssumption DEF TypeOK, Never
<1>4. CASE lastAlerted[k] = Never
  <2>1. total[k] = 0
    BY <1>4 DEF Excursions
  <2> QED
    BY <2>1, Zenon
<1>5. CASE ~(now - lastAlerted[k] < cooldown)
  BY <1>1, <1>3, <1>5
<1> QED
  BY <1>2, <1>4, <1>5

(* The step of a value keeps what is known of the excursions. *)
LEMMA FeedAlerts ==
  ASSUME TypeOK, AlertInv, NEW k \in Keys, NEW v \in Values, Feed(k, v)
  PROVE  AlertInv'
<1> USE DEF AlertInv
<1>1. CASE TooFew(k)
  BY <1>1 DEF TooFew, Excursions, NoExcursionMissed
<1>2. CASE Normal(k)
  <2>1. Excursions'
    BY <1>2, Zenon DEF Normal, Excursions, TypeOK
  <2>2. NoExcursionMissed'
    <3> SUFFICES ASSUME NEW l \in Keys, hotAt'[l] # Never, calm'[l]
                 PROVE  lastAlerted'[l] # Never /\ hotAt'[l] - lastAlerted'[l] < cooldown
      BY DEF NoExcursionMissed
    <3>1. l # k /\ hotAt'[l] = hotAt[l] /\ calm[l] /\ lastAlerted' = lastAlerted
      BY <1>2, Zenon DEF Normal, TypeOK
    <3> QED
      BY <3>1 DEF NoExcursionMissed
  <2> QED
    BY <2>1, <2>2
<1>3. CASE Silent(k)
  <2>1. Excursions'
    BY <1>3, Zenon DEF Silent, Excursions
  <2>2. NoExcursionMissed'
    <3> SUFFICES ASSUME NEW l \in Keys, hotAt'[l] # Never, calm'[l]
                 PROVE  lastAlerted'[l] # Never /\ hotAt'[l] - lastAlerted'[l] < cooldown
      BY DEF NoExcursionMissed
    <3>1. calm[l] /\ lastAlerted' = lastAlerted
      BY <1>3, Zenon DEF Silent
    <3>2. CASE l = k
      <4>1. CoolingDown(k)
        BY <1>3, <3>1, <3>2, Zenon DEF Silent, Excursions
      <4>2. hotAt'[k] = now
        BY <1>3, Zenon DEF Silent, TypeOK
      <4> QED
        BY <3>1, <3>2, <4>1, <4>2 DEF CoolingDown
    <3>3. CASE l # k
      <4>1. hotAt'[l] = hotAt[l]
        BY <1>3, <3>3, Zenon DEF Silent, TypeOK
      <4> QED
        BY <3>1, <4>1 DEF NoExcursionMissed
    <3> QED
      BY <3>2, <3>3
  <2> QED
    BY <2>1, <2>2
<1>4. CASE Alert(k, v)
  <2>1. /\ inAnomaly'[k] /\ ~calm'[k] /\ lastAlerted'[k] = now
        /\ \A l \in Keys \ {k} : /\ inAnomaly'[l] = inAnomaly[l] /\ calm'[l] = calm[l]
                                 /\ lastAlerted'[l] = lastAlerted[l]
                                 /\ hotAt'[l] = hotAt[l] /\ total'[l] = total[l]
    BY <1>4, Zenon DEF Alert, TypeOK
  <2>2. total'[k] = total[k] + 1
    BY <1>4, Zenon DEF Alert, TypeOK
  <2>3. total[k] \in Nat /\ now \in Nat
    BY SizesAssumption DEF TypeOK
  <2>4. total'[k] # 0 /\ lastAlerted'[k] # Never
    BY <2>1, <2>2, <2>3 DEF Never
  <2>5. Excursions'
    BY <2>1, <2>4, Zenon DEF Excursions
  <2>6. NoExcursionMissed'
    <3> SUFFICES ASSUME NEW l \in Keys, hotAt'[l] # Never, calm'[l]
                 PROVE  lastAlerted'[l] # Never /\ hotAt'[l] - lastAlerted'[l] < cooldown
      BY DEF NoExcursionMissed
    <3>1. l \in Keys \ {k}
      BY <2>1, Zenon
    <3>2. calm[l] /\ hotAt'[l] = hotAt[l] /\ lastAlerted'[l] = lastAlerted[l]
      BY <2>1, <3>1, Zenon
    <3> QED
      BY <3>2 DEF NoExcursionMissed
  <2> QED
    BY <2>5, <2>6
<1> QED
  BY <1>1, <1>2, <1>3, <1>4 DEF Feed

(* The excursions' invariant is inductive. *)
LEMMA AlertStep == TypeOK /\ AlertInv /\ [Next]_vars => AlertInv'
<1> SUFFICES ASSUME TypeOK, AlertInv, [Next]_vars PROVE AlertInv'
  OBVIOUS
<1>1. CASE UNCHANGED <<inAnomaly, calm, total, lastAlerted, hotAt>>
  BY <1>1 DEF AlertInv, Excursions, NoExcursionMissed
<1>2. ASSUME NEW k \in Keys, NEW v \in Values, Feed(k, v) PROVE AlertInv'
  BY <1>2, FeedAlerts
<1>3. CASE Consume
  BY <1>1, <1>3 DEF Consume
<1>4. CASE Tick
  BY <1>1, <1>4 DEF Tick
<1>5. CASE UNCHANGED vars
  BY <1>1, <1>5 DEF vars
<1> QED
  BY <1>2, <1>3, <1>4, <1>5 DEF Next

(* At first no key is in an excursion. *)
LEMMA AlertInit == Init => AlertInv
<1> SUFFICES ASSUME Init, NEW k \in Keys
             PROVE  /\ inAnomaly[k] <=> ~calm[k]
                    /\ total[k] = 0 <=> lastAlerted[k] = Never
                    /\ hotAt[k] = Never
  BY DEF AlertInv, Excursions, NoExcursionMissed
<1> QED
  BY DEF Init

(* An anomalous value that follows a normal one is silent only while the   *)
(* key cools down from its last alert.                                     *)
THEOREM ExcursionsAreAlerted == Spec => []NoExcursionMissed
<1>1. AlertInv => NoExcursionMissed
  BY DEF AlertInv
<1> QED
  BY <1>1, AlertInit, AlertStep, TypeInit, TypeStep, PTL DEF Spec

(* The alerts of a key are separated by a normal value and by the cooldown. *)
THEOREM AlertsAreSeparated == Spec => OneAlertPerExcursion
<1> DEFINE Allowed == \A k \in Keys : total'[k] > total[k] =>
                        \/ total[k] = 0
                        \/ calm[k] /\ now - lastAlerted[k] >= cooldown
<1>1. TypeOK /\ AlertInv /\ [Next]_vars => [Allowed]_vars
  <2> SUFFICES ASSUME TypeOK, AlertInv, Next PROVE Allowed
    OBVIOUS
  <2> SUFFICES ASSUME NEW k \in Keys, total'[k] > total[k]
               PROVE  \/ total[k] = 0
                      \/ calm[k] /\ now - lastAlerted[k] >= cooldown
    OBVIOUS
  <2>1. total' # total
    BY SizesAssumption DEF TypeOK
  <2>2. PICK l \in Keys, v \in Values : Alert(l, v)
    BY <2>1 DEF Next, Feed, TooFew, Normal, Silent, Consume, Tick
  <2>3. l = k
    BY <2>1, <2>2, SizesAssumption DEF Alert, TypeOK
  <2> QED
    BY <2>2, <2>3, AlertAllowed DEF AlertInv
<1> QED
  BY <1>1, AlertInit, AlertStep, TypeInit, TypeStep, PTL DEF Spec, OneAlertPerExcursion

-----------------------------------------------------------------------------
(* Sums *)

(* A set of numbers has a least one. *)
LEMMA Least ==
  ASSUME NEW T \in SUBSET Nat, T # {}
  PROVE  \E m \in T : \A n \in T : ~(n < m)
<1>1. \E m \in T : \A n \in T : <<n, m>> \notin OpToRel(<, Nat)
  BY WFMin, NatLessThanWellFounded, Zenon
<1> QED
  BY <1>1, Zenon DEF OpToRel

(* A set with 0 and, up to n, with the next of each of its numbers has all of *)
(* 0 .. n.                                                                    *)
LEMMA UpTo ==
  ASSUME NEW n \in Nat, NEW S, 0 \in S, \A i \in 0 .. n - 1 : i \in S => i + 1 \in S
  PROVE  \A i \in 0 .. n : i \in S
<1> DEFINE T == (0 .. n) \ S
<1>1. SUFFICES ASSUME T # {} PROVE FALSE
  OBVIOUS
<1>2. T \in SUBSET Nat
  OBVIOUS
<1>3. PICK m \in T : \A i \in T : ~(i < m)
  BY <1>1, <1>2, Least
<1>4. m # 0 /\ m - 1 \in 0 .. n - 1 /\ m - 1 < m /\ (m - 1) + 1 = m
  BY <1>3
<1>5. m - 1 \in S
  BY <1>3, <1>4
<1> QED
  BY <1>3, <1>4, <1>5

(* The sums of a sequence of integers are what their definition says.      *)
LEMMA SumsFacts ==
  ASSUME NEW w \in Seq(Int)
  PROVE  /\ \A i \in 0 .. Len(w) : Sums(w)[i] \in Int
         /\ Sums(w)[0] = 0
         /\ \A i \in 1 .. Len(w) : Sums(w)[i] = Sums(w)[i - 1] + w[i]
<1> DEFINE N == Len(w)
           Good(g, n) == g[0] = 0 /\ \A i \in 1 .. n : g[i] = g[i - 1] + w[i]
           S == {n \in 0 .. N : \E g \in [0 .. n -> Int] : Good(g, n)}
           Is(g) == g = [i \in 0 .. N |-> IF i = 0 THEN 0 ELSE g[i - 1] + w[i]]
<1>1. N \in Nat /\ \A i \in 1 .. N : w[i] \in Int
  OBVIOUS
<1> HIDE DEF N
<1>2. 0 \in S
  <2> DEFINE z == [i \in 0 .. 0 |-> 0]
  <2>1. z \in [0 .. 0 -> Int] /\ Good(z, 0)
    OBVIOUS
  <2>2. 0 \in 0 .. N
    BY <1>1
  <2> HIDE DEF z, Good
  <2> QED
    BY <2>1, <2>2
<1>3. ASSUME NEW n \in 0 .. N - 1, n \in S PROVE n + 1 \in S
  <2>1. PICK g \in [0 .. n -> Int] : Good(g, n)
    BY <1>3
  <2> DEFINE h == [i \in 0 .. n + 1 |-> IF i = n + 1 THEN g[n] + w[n + 1] ELSE g[i]]
  <2>2. n \in Nat /\ n + 1 \in 1 .. N /\ n + 1 \in 0 .. N
    BY <1>1
  <2>3. h \in [0 .. n + 1 -> Int] /\ h[0] = 0
    BY <1>1, <2>1, <2>2
  <2>4. ASSUME NEW i \in 1 .. n + 1 PROVE h[i] = h[i - 1] + w[i]
    <3>1. i - 1 \in 0 .. n /\ h[i - 1] = g[i - 1]
      BY <2>2
    <3>2. CASE i = n + 1
      BY <2>2, <3>1, <3>2
    <3>3. CASE i # n + 1
      BY <2>1, <2>2, <3>1, <3>3
    <3> QED
      BY <3>2, <3>3
  <2>5. Good(h, n + 1)
    BY <2>3, <2>4
  <2> QED
    BY <2>2, <2>3, <2>5
<1> HIDE DEF S
<1>4. N \in S
  <2>1. \A i \in 0 .. N : i \in S
    BY <1>1, <1>2, <1>3, UpTo
  <2> QED
    BY <1>1, <2>1
<1>5. PICK g \in [0 .. N -> Int] : Good(g, N)
  BY <1>4 DEF S
<1>6. Is(g)
  <2>1. \A i \in 0 .. N : i = 0 \/ i \in 1 .. N
    BY <1>1
  <2> QED
    BY <1>5, <2>1
<1>7. Sums(w) = CHOOSE h : Is(h)
  BY DEF Sums, N
<1>8. Is(Sums(w))
  BY <1>6, <1>7, Zenon
<1> DEFINE f == Sums(w)
           R == {i \in 0 .. N : f[i] \in Int}
<1>9. f[0] = 0 /\ \A i \in 1 .. N : f[i] = f[i - 1] + w[i]
  <2>1. 0 \in 0 .. N /\ \A i \in 1 .. N : i \in 0 .. N /\ i # 0
    BY <1>1
  <2> HIDE DEF f
  <2> QED
    BY <1>8, <2>1 DEF f
<1> HIDE DEF f
<1>10. 0 \in R
  BY <1>1, <1>9
<1>11. ASSUME NEW i \in 0 .. N - 1, i \in R PROVE i + 1 \in R
  <2>1. i + 1 \in 1 .. N /\ i + 1 \in 0 .. N /\ (i + 1) - 1 = i
    BY <1>1
  <2>2. f[i + 1] = f[i] + w[i + 1]
    BY <1>9, <2>1
  <2>3. f[i] \in Int /\ w[i + 1] \in Int
    BY <1>1, <1>11, <2>1
  <2> QED
    BY <2>1, <2>2, <2>3
<1> HIDE DEF R
<1>12. \A i \in 0 .. N : i \in R
  BY <1>1, <1>10, <1>11, UpTo
<1> QED
  BY <1>9, <1>12 DEF R, f, N

(* The squares of a sequence. *)
LEMMA SquaresFacts ==
  ASSUME NEW w \in Seq(Int)
  PROVE  LET q == [i \in 1 .. Len(w) |-> w[i] * w[i]]
         IN  /\ q \in Seq(Int) /\ Len(q) = Len(w) /\ Squares(w) = Sums(q)[Len(w)]
             /\ \A i \in 1 .. Len(w) : q[i] = w[i] * w[i]
<1> DEFINE q == [i \in 1 .. Len(w) |-> w[i] * w[i]]
<1>1. \A i \in 1 .. Len(w) : w[i] \in Int
  OBVIOUS
<1>2. \A i \in 1 .. Len(w) : w[i] * w[i] \in Int
  BY <1>1
<1>3. q \in [1 .. Len(w) -> Int] /\ Len(w) \in Nat
  BY <1>2
<1>4. q \in Seq(Int) /\ Len(q) = Len(w)
  BY <1>3
<1> QED
  BY <1>4 DEF Squares, Sum

(* The sums of a sequence whose values are all the same. *)
LEMMA SumsOfOne ==
  ASSUME NEW w \in Seq(Int), NEW c \in Int, \A i \in 1 .. Len(w) : w[i] = c
  PROVE  Sums(w)[Len(w)] = Len(w) * c
<1> DEFINE n == Len(w)
           s == Sums(w)
           S == {i \in 0 .. n : s[i] = i * c}
<1>1. n \in Nat /\ s[0] = 0 /\ \A i \in 1 .. n : s[i] = s[i - 1] + c
  BY SumsFacts
<1> HIDE DEF n, s
<1>2. 0 \in S
  BY <1>1
<1>3. ASSUME NEW i \in 0 .. n - 1, i \in S PROVE i + 1 \in S
  <2>1. i + 1 \in 1 .. n /\ i + 1 \in 0 .. n /\ (i + 1) - 1 = i /\ i \in Int
    BY <1>1
  <2>2. s[i + 1] = i * c + c
    BY <1>1, <1>3, <2>1
  <2>3. i * c + c = (i + 1) * c
    BY <2>1
  <2> QED
    BY <2>1, <2>2, <2>3
<1> HIDE DEF S
<1>4. \A i \in 0 .. n : i \in S
  BY <1>1, <1>2, <1>3, UpTo
<1> QED
  BY <1>1, <1>4 DEF S, n, s

(* A window of equal values has no spread. *)
LEMMA NoSpread ==
  ASSUME NEW w \in Seq(Int), NEW c \in Int, \A i \in 1 .. Len(w) : w[i] = c
  PROVE  Spread(w) = 0
<1> DEFINE n == Len(w)
           q == [i \in 1 .. Len(w) |-> w[i] * w[i]]
<1>1. Sum(w) = n * c
  BY SumsOfOne DEF Sum
<1>2. q \in Seq(Int) /\ Len(q) = n /\ Squares(w) = Sums(q)[n] /\ \A i \in 1 .. n : q[i] = w[i] * w[i]
  BY SquaresFacts
<1>3. c * c \in Int /\ \A i \in 1 .. Len(q) : q[i] = c * c
  BY <1>2
<1> HIDE DEF q
<1>4. Squares(w) = n * (c * c)
  BY <1>2, <1>3, SumsOfOne
<1>5. n \in Int
  OBVIOUS
<1> HIDE DEF n
<1>6. n * (n * (c * c)) - (n * c) * (n * c) = 0
  BY <1>5
<1> QED
  BY <1>1, <1>4, <1>6 DEF Spread, n

(* The step of the inequality of Cauchy and Schwarz. *)
LEMMA OneMore ==
  ASSUME NEW m \in Nat, NEW P \in Int, NEW R \in Int, NEW x \in Int,
         m * R >= P * P, m = 0 => P = 0 /\ R = 0
  PROVE  (m + 1) * (R + x * x) >= (P + x) * (P + x)
<1> DEFINE d == R + m * (x * x) - 2 * (P * x)
<1>1. d \in Int /\ P * x \in Int /\ x * x \in Int /\ m * (x * x) \in Int /\ m * R \in Int /\ P * P \in Int
  OBVIOUS
<1>2. (m + 1) * (R + x * x) = m * R + R + m * (x * x) + x * x
  BY <1>1
<1>3. (P + x) * (P + x) = P * P + 2 * (P * x) + x * x
  BY <1>1
<1>4. d >= 0
  <2>1. CASE m = 0
    <3>1. P * x = 0 /\ m * (x * x) = 0 /\ R = 0
      BY <2>1
    <3> QED
      BY <3>1
  <2>2. CASE m > 0
    <3>1. m * d = m * R + (m * x) * (m * x) - 2 * (P * (m * x))
      BY <1>1
    <3>2. (P - m * x) * (P - m * x) = P * P + (m * x) * (m * x) - 2 * (P * (m * x))
      BY <1>1
    <3>3. (P - m * x) * (P - m * x) >= 0
      OBVIOUS
    <3>4. (m * x) * (m * x) \in Int /\ P * (m * x) \in Int /\ m * d \in Int
      BY <1>1
    <3>5. m * d >= 0
      BY <1>1, <3>1, <3>2, <3>3, <3>4
    <3> HIDE DEF d
    <3> QED
      BY <1>1, <2>2, <3>5
  <2> QED
    BY <2>1, <2>2
<1> QED
  BY <1>1, <1>2, <1>3, <1>4

(* The deviation of a value of a window is bounded by the spread.          *)
LEMMA DeviationIsBounded ==
  ASSUME NEW m \in Nat, NEW P \in Int, NEW R \in Int, NEW v \in Int,
         m * R >= P * P, m = 0 => P = 0 /\ R = 0
  PROVE  LET d == (m + 1) * v - (P + v)
             D == (m + 1) * (R + v * v) - (P + v) * (P + v)
         IN  /\ d \in Int /\ D \in Int /\ d * d >= 0
             /\ m * D >= d * d /\ D >= 0 /\ (m = 0 => D = 0)
<1> DEFINE d == (m + 1) * v - (P + v)
           D == (m + 1) * (R + v * v) - (P + v) * (P + v)
           a == m * R - P * P
<1>1. /\ a \in Int /\ a >= 0 /\ m * R \in Int /\ P * P \in Int /\ v * v \in Int /\ P * v \in Int
      /\ m * (v * v) \in Int /\ d \in Int /\ D \in Int
  OBVIOUS
<1>2. d = m * v - P
  OBVIOUS
<1>3. D = a + R + m * (v * v) - 2 * (P * v)
  BY <1>1
<1>4. d * d >= 0
  BY <1>1
<1>5. m * D = m * a + a + d * d
  <2>1. d * d = (m * v) * (m * v) - 2 * (P * (m * v)) + P * P
    BY <1>2
  <2>2. m * D = m * a + m * R + (m * v) * (m * v) - 2 * (P * (m * v))
    BY <1>1, <1>3
  <2>3. (m * v) * (m * v) \in Int /\ P * (m * v) \in Int /\ m * a \in Int
    BY <1>1
  <2>4. m * R = a + P * P
    BY <1>1
  <2> HIDE DEF d, D, a
  <2> QED
    BY <1>1, <2>1, <2>2, <2>3, <2>4
<1>6. D >= 0
  BY OneMore, <1>1
<1>7. m = 0 => D = 0
  <2> SUFFICES ASSUME m = 0 PROVE D = 0
    OBVIOUS
  <2>1. P = 0 /\ R = 0
    OBVIOUS
  <2>2. P * v = 0 /\ m * (v * v) = 0 /\ P * P = 0 /\ m * R = 0
    BY <2>1, <1>1
  <2> QED
    BY <1>3, <2>1, <2>2
<1>8. m * a >= 0
  BY <1>1
<1> HIDE DEF d, D, a
<1>9. m * D >= d * d
  <2>1. m * a \in Int /\ d * d \in Int
    BY <1>1
  <2> QED
    BY <1>1, <1>5, <1>8, <2>1
<1> QED
  BY <1>1, <1>4, <1>6, <1>7, <1>9 DEF d, D

(* A value of a window deviates from its mean by less than the root of the *)
(* number of the values, in standard deviations.                           *)
LEMMA OwnWindow ==
  ASSUME NEW w \in Seq(Int), NEW j \in 1 .. Len(w)
  PROVE  LET d == Len(w) * w[j] - Sum(w)
         IN  /\ d \in Int /\ Spread(w) \in Int /\ Spread(w) >= 0
             /\ (Len(w) - 1) * Spread(w) >= d * d
<1> DEFINE n == Len(w)
           v == w[j]
           s == Sums(w)
           q == [i \in 1 .. Len(w) |-> w[i] * w[i]]
           r == Sums(q)
           m(i) == IF i < j THEN i ELSE i - 1
           P(i) == IF i < j THEN s[i] ELSE s[i] - v
           R(i) == IF i < j THEN r[i] ELSE r[i] - v * v
           S == {i \in 0 .. n : /\ m(i) * R(i) >= P(i) * P(i)
                                /\ m(i) = 0 => P(i) = 0 /\ R(i) = 0}
<1>1. n \in Nat /\ j \in 1 .. n /\ v \in Int /\ \A i \in 1 .. n : w[i] \in Int
  OBVIOUS
<1>2. /\ s[0] = 0 /\ \A i \in 0 .. n : s[i] \in Int
      /\ \A i \in 1 .. n : s[i] = s[i - 1] + w[i]
  BY SumsFacts
<1>3. q \in Seq(Int) /\ Len(q) = n /\ Squares(w) = r[n] /\ \A i \in 1 .. n : q[i] = w[i] * w[i]
  BY SquaresFacts
<1>4. /\ r[0] = 0 /\ \A i \in 0 .. n : r[i] \in Int
      /\ \A i \in 1 .. n : r[i] = r[i - 1] + w[i] * w[i]
  <2> HIDE DEF q
  <2>1. /\ r[0] = 0 /\ \A i \in 0 .. n : r[i] \in Int
        /\ \A i \in 1 .. n : r[i] = r[i - 1] + q[i]
    BY <1>3, SumsFacts
  <2> QED
    BY <1>3, <2>1
<1>5. Sum(w) = s[n] /\ Spread(w) = n * r[n] - s[n] * s[n]
  BY <1>3 DEF Sum, Spread
<1>6. v = w[j]
  OBVIOUS
<1> HIDE DEF n, v, s, q, r
<1>7. 0 \in S
  <2>1. 0 < j /\ 0 \in 0 .. n
    BY <1>1
  <2>2. m(0) = 0 /\ P(0) = 0 /\ R(0) = 0
    BY <1>2, <1>4, <2>1
  <2> HIDE DEF m, P, R
  <2> QED
    BY <2>1, <2>2
<1>8. ASSUME NEW i \in 0 .. n - 1, i \in S PROVE i + 1 \in S
  <2> DEFINE x == w[i + 1]
  <2>1. i + 1 \in 1 .. n /\ i + 1 \in 0 .. n /\ i \in 0 .. n /\ (i + 1) - 1 = i
    BY <1>1
  <2>2. s[i + 1] = s[i] + x /\ r[i + 1] = r[i] + x * x /\ x \in Int
    BY <1>1, <1>2, <1>4, <2>1
  <2>3. m(i) \in Nat /\ P(i) \in Int /\ R(i) \in Int
    BY <1>1, <1>2, <1>4, <2>1
  <2>4. s[i] \in Int /\ r[i] \in Int /\ x * x \in Int /\ v * v \in Int /\ i \in Int
    BY <1>1, <1>2, <1>4, <2>1, <2>2
  <2>5. CASE i + 1 = j
    <3>1. x = v
      BY <1>6, <2>5
    <3> HIDE DEF x
    <3>2. i < j /\ ~(i + 1 < j)
      BY <1>1, <2>5
    <3>3. m(i + 1) = m(i) /\ P(i + 1) = P(i) /\ R(i + 1) = R(i)
      BY <1>1, <2>1, <2>2, <2>4, <3>1, <3>2
    <3> HIDE DEF m, P, R
    <3> QED
      BY <1>8, <2>1, <3>3
  <2>6. CASE i + 1 # j
    <3>1. i < j <=> i + 1 < j
      BY <1>1, <2>1, <2>6
    <3> HIDE DEF x
    <3>2. m(i + 1) = m(i) + 1 /\ P(i + 1) = P(i) + x /\ R(i + 1) = R(i) + x * x
      BY <1>1, <2>1, <2>2, <2>4, <3>1
    <3> HIDE DEF m, P, R
    <3>3. (m(i) + 1) * (R(i) + x * x) >= (P(i) + x) * (P(i) + x)
      BY <1>8, <2>2, <2>3, OneMore
    <3>4. m(i) + 1 # 0
      BY <2>3
    <3> QED
      BY <2>1, <3>2, <3>3, <3>4
  <2> QED
    BY <2>5, <2>6
<1> HIDE DEF S
<1>9. n \in S
  <2>1. \A i \in 0 .. n : i \in S
    BY <1>1, <1>7, <1>8, UpTo
  <2> QED
    BY <1>1, <2>1
<1> DEFINE p == s[n] - v
           t == r[n] - v * v
<1>10. n - 1 \in Nat /\ p \in Int /\ t \in Int
  BY <1>1, <1>2, <1>4
<1>11. (n - 1) * t >= p * p /\ (n - 1 = 0 => p = 0 /\ t = 0)
  <2>1. ~(n < j)
    BY <1>1
  <2> QED
    BY <1>9, <2>1 DEF S
<1>12. s[n] = p + v /\ r[n] = t + v * v /\ n = (n - 1) + 1
  BY <1>1, <1>2, <1>4
<1> HIDE DEF p, t
<1>13. LET d == ((n - 1) + 1) * v - (p + v)
           D == ((n - 1) + 1) * (t + v * v) - (p + v) * (p + v)
       IN  /\ d \in Int /\ D \in Int /\ d * d >= 0
           /\ (n - 1) * D >= d * d /\ D >= 0
  BY <1>1, <1>10, <1>11, DeviationIsBounded
<1>14. LET d == n * v - s[n]
           D == n * r[n] - s[n] * s[n]
       IN  d \in Int /\ D \in Int /\ D >= 0 /\ (n - 1) * D >= d * d
  BY <1>12, <1>13
<1> QED
  BY <1>5, <1>6, <1>14 DEF n

-----------------------------------------------------------------------------
(* What the score can say *)

(* The window after a value: as long as before or longer, the value in it. *)
LEMMA WindowAfter ==
  ASSUME TypeOK, NEW k \in Keys, NEW v \in Values, Feed(k, v)
  PROVE  /\ window'[k] \in Seq(Int) /\ Len(window'[k]) \in Nat
         /\ Len(window[k]) \in Nat /\ Len(window'[k]) >= Len(window[k])
         /\ \E j \in 1 .. Len(window'[k]) : window'[k][j] = v
<1>1. /\ Len(window[k]) \in Nat /\ Len(window[k]) <= windowSize /\ windowSize \in Nat
      /\ window'[k] = Add(k, v)
  BY SizesAssumption DEF TypeOK, Feed
<1>2. /\ Add(k, v) \in Seq(Values) /\ Len(Add(k, v)) >= Len(window[k])
      /\ NextSlot(k) \in 1 .. Len(Add(k, v)) /\ Add(k, v)[NextSlot(k)] = v
  <2>1. CASE Len(window[k]) < windowSize
    BY <1>1, <2>1, AddGrows
  <2>2. CASE Len(window[k]) = windowSize
    BY <1>1, <2>2, AddReplaces
  <2> QED
    BY <1>1, <2>1, <2>2
<1>3. \A s \in Seq(Values) : s \in Seq(Int)
  <2> SUFFICES ASSUME NEW s \in Seq(Values) PROVE s \in Seq(Int)
    OBVIOUS
  <2>1. \A i \in 1 .. Len(s) : s[i] \in Values
    OBVIOUS
  <2>2. \A i \in 1 .. Len(s) : s[i] \in Int
    BY <2>1, ValuesAssumption
  <2> QED
    BY <2>2
<1> QED
  BY <1>1, <1>2, <1>3

(* An anomalous value has more than threshold * threshold values around it: *)
(* the score is at most the root of n - 1, and rounding does not make up for *)
(* a whole value.                                                           *)
LEMMA AnomalyNeedsValues ==
  ASSUME NEW w \in Seq(Int), NEW j \in 1 .. Len(w), MayBeAnomaly(w, w[j])
  PROVE  Len(w) > threshold * threshold
<1> DEFINE n == Len(w)
           d == n * w[j] - Sum(w)
           D == Spread(w)
           t == threshold * threshold
           P == Precision
           q == d * d
<1>1. /\ d \in Int /\ D \in Int /\ D >= 0 /\ (n - 1) * D >= q
  BY OwnWindow
<1>2. D # 0 /\ P * q >= (P - 1) * (t * D)
  BY DEF MayBeAnomaly
<1>3. n \in Nat /\ t \in Nat /\ P \in Nat /\ P > t /\ q \in Int
  BY <1>1, SizesAssumption, PrecisionAssumption
<1> HIDE DEF n, d, D, t, P, q
<1> SUFFICES ASSUME n <= t PROVE FALSE
  BY <1>3 DEF n, t
<1>4. (n - 1) * D \in Int /\ (t - 1) * D \in Int /\ t * D \in Int
  BY <1>1, <1>3
<1>5. (n - 1) * D <= (t - 1) * D
  BY <1>1, <1>3
<1>6. q <= (t - 1) * D
  BY <1>1, <1>3, <1>4, <1>5
<1>7. P * q <= P * ((t - 1) * D)
  <2>1. \A a, b \in Int : a <= b => P * a <= P * b
    BY <1>3
  <2> QED
    BY <1>3, <1>4, <1>6, <2>1
<1>8. (P - 1) * (t * D) <= P * ((t - 1) * D)
  <2>1. P * q \in Int /\ (P - 1) * (t * D) \in Int /\ P * ((t - 1) * D) \in Int
    BY <1>3, <1>4
  <2> QED
    BY <1>2, <1>7, <2>1
<1>9. (P - 1) * (t * D) - P * ((t - 1) * D) = (P - t) * D
  BY <1>1, <1>3
<1>10. (P - t) * D > 0
  BY <1>1, <1>2, <1>3
<1> QED
  BY <1>1, <1>3, <1>4, <1>8, <1>9, <1>10

(* No window is shorter than it was when its key had an anomalous value. *)
LEMMA FewValuesStep == TypeOK /\ FewValuesNeverAlert /\ [Next]_vars => FewValuesNeverAlert'
<1> SUFFICES ASSUME TypeOK, FewValuesNeverAlert, [Next]_vars PROVE FewValuesNeverAlert'
  OBVIOUS
<1>1. CASE UNCHANGED <<window, hotAt>>
  BY <1>1 DEF FewValuesNeverAlert
<1>2. ASSUME NEW k \in Keys, NEW v \in Values, Feed(k, v) PROVE FewValuesNeverAlert'
  <2> SUFFICES ASSUME NEW l \in Keys, hotAt'[l] # Never
               PROVE  Len(window'[l]) > threshold * threshold
    BY DEF FewValuesNeverAlert
  <2>1. threshold * threshold \in Nat
    BY SizesAssumption
  <2>2. CASE hotAt'[l] = hotAt[l]
    <3>1. Len(window[l]) > threshold * threshold
      BY <2>2 DEF FewValuesNeverAlert
    <3>2. CASE l = k
      BY <1>2, <2>1, <3>1, <3>2, WindowAfter
    <3>3. CASE l # k
      <4>1. window'[l] = window[l]
        BY <1>2, <3>3 DEF Feed, TypeOK
      <4> QED
        BY <3>1, <4>1
    <3> QED
      BY <3>2, <3>3
  <2>3. CASE hotAt'[l] # hotAt[l]
    <3>1. l = k /\ MayBeAnomaly(window'[k], v)
      <4>1. ~TooFew(k)
        BY <2>3 DEF TooFew
      <4>2. ~Normal(k)
        BY <2>3, Zenon DEF Normal, TypeOK
      <4>3. MayBeAnomaly(window'[k], v) /\ (Silent(k) \/ Alert(k, v))
        BY <1>2, <4>1, <4>2 DEF Feed
      <4>4. l = k
        BY <2>3, <4>3, Zenon DEF Silent, Alert, TypeOK
      <4> QED
        BY <4>3, <4>4
    <3>2. PICK j \in 1 .. Len(window'[k]) : window'[k][j] = v
      BY <1>2, WindowAfter
    <3>3. window'[k] \in Seq(Int)
      BY <1>2, WindowAfter
    <3>4. \A w \in Seq(Int) : \A i \in 1 .. Len(w) :
            MayBeAnomaly(w, w[i]) => Len(w) > threshold * threshold
      BY AnomalyNeedsValues
    <3> QED
      BY <3>1, <3>2, <3>3, <3>4
  <2> QED
    BY <2>2, <2>3
<1>3. CASE Consume
  BY <1>1, <1>3 DEF Consume, histVars
<1>4. CASE Tick
  BY <1>1, <1>4 DEF Tick, histVars
<1>5. CASE UNCHANGED vars
  BY <1>1, <1>5 DEF vars
<1> QED
  BY <1>2, <1>3, <1>4, <1>5 DEF Next

(* FewValuesNeverAlert: Feed adds the value to the window before it takes   *)
(* its score (detector.go), so that no value of so small a window can be   *)
(* anomalous, whatever the values are and however recalc and ZScore round  *)
(* (stats.go), as long as they do not err by one part in Precision.        *)
THEOREM SmallWindowsNeverAlert == Spec => []FewValuesNeverAlert
<1>1. Init => FewValuesNeverAlert
  BY DEF Init, FewValuesNeverAlert
<1> QED
  BY <1>1, FewValuesStep, TypeInit, TypeStep, PTL DEF Spec

-----------------------------------------------------------------------------
(* Shifts *)

(* If the last values of a key are all the same, so are those of the window. *)
LEMMA WindowIsFlat ==
  ASSUME NEW w \in Seq(Int), NEW r, NEW p \in 0 .. windowSize, Len(w) > 0, p <= Len(w),
         RingOf(w, r, p), \A i \in 1 .. Len(w) : r[i] = r[1]
  PROVE  \A j \in 1 .. Len(w) : w[j] = r[1]
<1> DEFINE n == Len(w)
<1>1. n \in Nat /\ n > 0 /\ p \in Nat /\ p <= n
  BY SizesAssumption
<1>2. \A i \in 1 .. n : r[i] = w[((p + i - 1) % n) + 1]
  BY DEF RingOf
<1>3. \A i \in 1 .. n : r[i] = r[1]
  OBVIOUS
<1> SUFFICES ASSUME NEW j \in 1 .. n PROVE w[j] = r[1]
  OBVIOUS
<1> HIDE DEF n
<1>4. CASE j > p
  <2>1. j - p \in 1 .. n /\ p + (j - p) - 1 = j - 1 /\ j - 1 \in Nat /\ j - 1 < n
    BY <1>1, <1>4
  <2>2. (p + (j - p) - 1) % n = j - 1
    BY <1>1, <2>1, Wrap
  <2>3. (j - 1) + 1 = j
    OBVIOUS
  <2> QED
    BY <1>2, <1>3, <2>1, <2>2, <2>3
<1>5. CASE j <= p
  <2>1. /\ j - p + n \in 1 .. n /\ p + (j - p + n) - 1 = j - 1 + n
        /\ j - 1 + n \in Nat /\ j - 1 + n >= n /\ j - 1 + n < 2 * n
    BY <1>1, <1>5
  <2>2. (p + (j - p + n) - 1) % n = j - 1 + n - n
    BY <1>1, <2>1, Wrap
  <2>3. (j - 1 + n - n) + 1 = j
    BY <1>1
  <2> QED
    BY <1>2, <1>3, <2>1, <2>2, <2>3
<1> QED
  BY <1>1, <1>4, <1>5

(* A value that makes the window flat is normal. *)
LEMMA ShiftStep == TypeOK /\ Ring /\ ShiftIsAbsorbed /\ [Next]_vars => ShiftIsAbsorbed'
<1> SUFFICES ASSUME TypeOK, Ring, ShiftIsAbsorbed, [Next]_vars PROVE ShiftIsAbsorbed'
  OBVIOUS
<1>1. CASE UNCHANGED <<recent, inAnomaly>>
  BY <1>1 DEF ShiftIsAbsorbed
<1>2. ASSUME NEW k \in Keys, NEW v \in Values, Feed(k, v) PROVE ShiftIsAbsorbed'
  <2> SUFFICES ASSUME NEW l \in Keys, Len(recent'[l]) = windowSize, windowSize >= minSamples,
                      \A i \in 1 .. windowSize : recent'[l][i] = recent'[l][1]
               PROVE  ~inAnomaly'[l]
    BY DEF ShiftIsAbsorbed
  <2>1. CASE l # k
    <3>1. recent'[l] = recent[l]
      BY <1>2, <2>1 DEF Feed, TypeOK
    <3>2. ~inAnomaly[l]
      BY <3>1 DEF ShiftIsAbsorbed
    <3>3. TooFew(k) \/ Normal(k) \/ Silent(k) \/ Alert(k, v)
      BY <1>2 DEF Feed
    <3>4. inAnomaly'[l] = inAnomaly[l]
      BY <2>1, <3>3, Zenon DEF TooFew, Normal, Silent, Alert, TypeOK
    <3> QED
      BY <3>2, <3>4, Zenon
  <2>2. CASE l = k
    <3>1. TypeOK' /\ RingOf(window'[k], recent'[k], pos'[k])
      BY <1>2, TypeStep, RingStep DEF Ring
    <3>2. Len(window'[k]) = windowSize /\ windowSize \in Nat /\ windowSize > 0
      BY <2>2, <3>1, SizesAssumption DEF RingOf
    <3>3. pos'[k] \in 0 .. windowSize
      BY <3>1 DEF TypeOK
    <3>4. window'[k] \in Seq(Int)
      BY <1>2, WindowAfter
    <3> DEFINE w == window'[k]
               c == recent'[k][1]
    <3>5. \A j \in 1 .. Len(w) : w[j] = c
      BY <2>2, <3>1, <3>2, <3>3, <3>4, WindowIsFlat
    <3>6. w \in Seq(Int) /\ c \in Int
      <4>1. 1 \in 1 .. Len(w)
        BY <3>2
      <4> QED
        BY <3>4, <3>5, <4>1
    <3> HIDE DEF w, c
    <3>7. Spread(w) = 0
      BY <3>5, <3>6, NoSpread
    <3>8. ~MayBeAnomaly(window'[k], v)
      BY <3>7 DEF MayBeAnomaly, w
    <3>9. ~(Len(window'[k]) < minSamples)
      BY <3>2, SizesAssumption
    <3>10. Normal(k)
      BY <1>2, <3>8, <3>9 DEF Feed
    <3> QED
      BY <2>2, <3>10, Zenon DEF Normal, TypeOK
  <2> QED
    BY <2>1, <2>2
<1>3. CASE Consume
  BY <1>1, <1>3 DEF Consume, histVars
<1>4. CASE Tick
  BY <1>1, <1>4 DEF Tick, histVars
<1>5. CASE UNCHANGED vars
  BY <1>1, <1>5 DEF vars
<1> QED
  BY <1>2, <1>3, <1>4, <1>5 DEF Next

(* ShiftIsAbsorbed: when the last windowSize values of a key are the same,  *)
(* the deviation is 0 and with it the score (stats.go), and the excursion   *)
(* is over.                                                                 *)
THEOREM ShiftsAreAbsorbed == Spec => []ShiftIsAbsorbed
<1>1. Init => Ring /\ ShiftIsAbsorbed
  <2> SUFFICES ASSUME Init, NEW k \in Keys
               PROVE  RingOf(window[k], recent[k], pos[k]) /\ ~inAnomaly[k]
    BY DEF Ring, ShiftIsAbsorbed
  <2>1. window[k] = <<>> /\ recent[k] = <<>> /\ pos[k] = 0 /\ ~inAnomaly[k]
    BY DEF Init
  <2> QED
    BY <2>1 DEF RingOf
<1> QED
  BY <1>1, ShiftStep, RingStep, TypeInit, TypeStep, PTL DEF Spec
=============================================================================
