---------------------------- MODULE ResolverProofs ----------------------------
(***************************************************************************)
(* Proofs about ResolverCache, for every set of hosts, services and        *)
(* callers, every table, every size of the cache and every ttl.            *)
(***************************************************************************)
EXTENDS ResolverCache, FiniteSetTheorems, TLAPS

(* What a caller may be doing when the clock shows t. *)
Asking      == [pc : {"ask"}, host : Hosts]
Storing(t)  == [pc : {"store"}, host : Hosts, answer : Answers, asked : 0 .. t]
Returned(t) == [pc : {"returned"}, host : Hosts, answer : Answers, at : 0 .. t]
CallOK(x, t) == x \in {Idle} \cup Asking \cup Storing(t) \cup Returned(t)

EntryOK(e, t) == e \in [answer : Answers, expiresAt : 0 .. t + ttl]

(* TypeOK in parts. *)
LEMMA TypeParts ==
  TypeOK <=> /\ docker \in [Dynamic -> Answers]
             /\ DOMAIN cache \subseteq Hosts
             /\ \A h \in DOMAIN cache : EntryOK(cache[h], now)
             /\ DOMAIN call = Callers
             /\ \A c \in Callers : CallOK(call[c], now)
             /\ now \in 0 .. MaxTime
             /\ lastTrue \in [Dynamic -> [Answers -> -1 .. now]]
BY DEF TypeOK, EntryOK, CallOK, Asking, Storing, Returned

(* What was right stays right as time passes. *)
LEMMA Later ==
  ASSUME NEW t \in Nat
  PROVE  /\ \A e : EntryOK(e, t) => EntryOK(e, t + 1)
         /\ \A x : CallOK(x, t) => CallOK(x, t + 1)
<1>1. 0 .. t \subseteq 0 .. t + 1 /\ 0 .. t + ttl \subseteq 0 .. (t + 1) + ttl
  BY SizesAssumption
<1>2. ASSUME NEW e, EntryOK(e, t) PROVE EntryOK(e, t + 1)
  BY <1>1, <1>2 DEF EntryOK
<1>3. Storing(t) \subseteq Storing(t + 1) /\ Returned(t) \subseteq Returned(t + 1)
  BY <1>1 DEF Storing, Returned
<1>4. ASSUME NEW x, CallOK(x, t) PROVE CallOK(x, t + 1)
  BY <1>3, <1>4 DEF CallOK
<1> QED
  BY <1>2, <1>4

(* Every host has an answer. *)
LEMMA InnerAnswers ==
  ASSUME TypeOK, NEW h \in Hosts PROVE inner(h) \in Answers
<1>1. CASE h \in DOMAIN Static
  BY <1>1, HostsAssumption DEF inner, Answers
<1>2. CASE h \notin DOMAIN Static
  BY <1>2 DEF inner, TypeOK, Dynamic
<1> QED
  BY <1>1, <1>2

(* A caller's step keeps its own record in type and the others as they are. *)
LEMMA CallStep ==
  ASSUME DOMAIN call = Callers, \A d \in Callers : CallOK(call[d], now),
         NEW c \in Callers, NEW x, CallOK(x, now),
         call' = [call EXCEPT ![c] = x]
  PROVE  DOMAIN call' = Callers /\ \A d \in Callers : CallOK(call'[d], now)
<1>1. DOMAIN call' = Callers /\ call'[c] = x /\ \A d \in Callers \ {c} : call'[d] = call[d]
  OBVIOUS
<1> QED
  BY <1>1

(* What Returns leaves is in type. *)
LEMMA ReturnsStep ==
  ASSUME DOMAIN call = Callers, \A d \in Callers : CallOK(call[d], now), now \in Nat,
         NEW c \in Callers, NEW h \in Hosts, NEW a \in Answers, Returns(c, h, a)
  PROVE  DOMAIN call' = Callers /\ \A d \in Callers : CallOK(call'[d], now)
<1> DEFINE x == [pc |-> "returned", host |-> h, answer |-> a, at |-> now]
<1>1. x \in Returned(now)
  BY DEF Returned
<1>2. CallOK(x, now)
  BY <1>1 DEF CallOK
<1>3. call' = [call EXCEPT ![c] = x]
  BY DEF Returns
<1> HIDE DEF x
<1> QED
  BY <1>2, <1>3, CallStep

(* What a caller that asks, or stores, has in hand. *)
LEMMA CallFields ==
  ASSUME NEW x, NEW t \in Nat, CallOK(x, t)
  PROVE  /\ x.pc = "ask" => x.host \in Hosts
         /\ x.pc = "store" => x.host \in Hosts /\ x.answer \in Answers
BY DEF CallOK, Asking, Storing, Returned, Idle

-----------------------------------------------------------------------------
(* What Store makes of the cache, if evicted gives way. *)
Put(c, evicted) ==
  [g \in (DOMAIN cache \ evicted) \cup {call[c].host} |->
     IF g = call[c].host THEN [answer |-> call[c].answer, expiresAt |-> Expiry] ELSE cache[g]]

(* Store puts the answer in the cache, and lets at most the oldest go. *)
LEMMA StorePuts ==
  ASSUME NEW c \in Callers, Store(c)
  PROVE  \E evicted : /\ cache' = Put(c, evicted)
                      /\ ~Full => evicted = {}
                      /\ Full => \E g \in Hosts : Oldest(g) /\ evicted = {g}
<1>1. PICK evicted \in IF Full THEN {{g} : g \in {x \in Hosts : Oldest(x)}} ELSE {{}} :
        cache' = Put(c, evicted)
  BY DEF Store, Put
<1>2. CASE Full
  BY <1>1, <1>2
<1>3. CASE ~Full
  BY <1>1, <1>3
<1> QED
  BY <1>2, <1>3

(* TypeOK holds at first. *)
LEMMA TypeInit == Init => TypeOK
<1> SUFFICES ASSUME Init PROVE TypeOK
  OBVIOUS
<1>1. \A c \in Callers : CallOK(call[c], now)
  BY DEF Init, CallOK
<1>2. DOMAIN cache = {}
  BY DEF Init
<1> QED
  BY <1>1, <1>2, SizesAssumption, TypeParts DEF Init

(* TypeOK is inductive. *)
LEMMA TypeStep == TypeOK /\ [Next]_vars => TypeOK'
<1> SUFFICES ASSUME TypeOK, [Next]_vars PROVE TypeOK'
  OBVIOUS
<1>n. now \in Nat /\ now \in 0 .. MaxTime
  BY SizesAssumption DEF TypeOK
<1> DEFINE Calls  == DOMAIN call' = Callers /\ \A c \in Callers : CallOK(call'[c], now')
           Cached == DOMAIN cache' \subseteq Hosts /\ \A h \in DOMAIN cache' : EntryOK(cache'[h], now')
           World  == /\ docker' \in [Dynamic -> Answers] /\ now' \in 0 .. MaxTime
                     /\ lastTrue' \in [Dynamic -> [Answers -> -1 .. now']]
<1>a. Calls /\ Cached /\ World => TypeOK'
  BY TypeParts DEF TypeOK, EntryOK, CallOK, Asking, Storing, Returned
<1>b. UNCHANGED <<cache, now>> => Cached
  BY TypeParts
<1>c. UNCHANGED <<docker, now, lastTrue>> => World
  BY TypeParts
<1>d. /\ DOMAIN call = Callers /\ \A c \in Callers : CallOK(call[c], now)
      /\ DOMAIN cache \subseteq Hosts /\ \A h \in DOMAIN cache : EntryOK(cache[h], now)
  BY TypeParts
<1> HIDE DEF Calls, Cached, World
<1>1. CASE UNCHANGED vars
  BY <1>1, <1>d, <1>a, <1>b, <1>c DEF vars, Calls
<1>2. ASSUME NEW c \in Callers, NEW h \in Hosts, Hit(c, h) PROVE TypeOK'
  <2>1. cache[h].answer \in Answers /\ Returns(c, h, cache[h].answer)
    BY <1>2, <1>d DEF Hit, Fresh, EntryOK
  <2>2. DOMAIN call' = Callers /\ \A d \in Callers : CallOK(call'[d], now)
    BY <2>1, <1>d, <1>n, ReturnsStep
  <2> QED
    BY <1>2, <2>2, <1>a, <1>b, <1>c DEF Hit, Calls
<1>3. ASSUME NEW c \in Callers, NEW h \in Hosts, Miss(c, h) PROVE TypeOK'
  <2> DEFINE x == [pc |-> "ask", host |-> h]
  <2>1. CallOK(x, now)
    <3>1. x \in Asking
      BY DEF Asking
    <3> QED
      BY <3>1 DEF CallOK
  <2>2. call' = [call EXCEPT ![c] = x]
    BY <1>3 DEF Miss
  <2> HIDE DEF x
  <2>3. DOMAIN call' = Callers /\ \A d \in Callers : CallOK(call'[d], now)
    BY <2>1, <2>2, <1>d, CallStep
  <2> QED
    BY <1>3, <2>3, <1>a, <1>b, <1>c DEF Miss, Calls
<1>4. ASSUME NEW c \in Callers, Ask(c) PROVE TypeOK'
  <2> DEFINE h == call[c].host
             x == [pc |-> "store", host |-> h, answer |-> inner(h), asked |-> now]
  <2>1. h \in Hosts
    BY <1>4, <1>d, <1>n, CallFields DEF Ask
  <2>2. inner(h) \in Answers
    BY <2>1, InnerAnswers
  <2>3. CallOK(x, now)
    <3>1. x \in Storing(now)
      BY <2>1, <2>2, <1>n DEF Storing
    <3> QED
      BY <3>1 DEF CallOK
  <2>4. call' = [call EXCEPT ![c] = x]
    BY <1>4 DEF Ask
  <2> HIDE DEF x
  <2>5. DOMAIN call' = Callers /\ \A d \in Callers : CallOK(call'[d], now)
    BY <2>3, <2>4, <1>d, CallStep
  <2> QED
    BY <1>4, <2>5, <1>a, <1>b, <1>c DEF Ask, Calls
<1>5. ASSUME NEW c \in Callers, Store(c) PROVE TypeOK'
  <2>1. call[c].host \in Hosts /\ call[c].answer \in Answers /\ Returns(c, call[c].host, call[c].answer)
    BY <1>5, <1>d, <1>n, CallFields DEF Store
  <2>2. DOMAIN call' = Callers /\ \A d \in Callers : CallOK(call'[d], now)
    BY <2>1, <1>d, <1>n, ReturnsStep
  <2>3. PICK evicted : cache' = Put(c, evicted)
    BY <1>5, StorePuts
  <2>4. EntryOK([answer |-> call[c].answer, expiresAt |-> Expiry], now)
    BY <2>1, <1>n, SizesAssumption DEF EntryOK, Expiry
  <2>5. DOMAIN cache' \subseteq Hosts /\ \A h \in DOMAIN cache' : EntryOK(cache'[h], now)
    BY <2>1, <2>3, <2>4, <1>d DEF Put
  <2> QED
    BY <1>5, <2>2, <2>5, <1>a, <1>c DEF Store, Calls, Cached
<1>6. ASSUME NEW h \in Hosts, Invalidate(h) PROVE TypeOK'
  <2>1. DOMAIN cache' \subseteq Hosts /\ \A g \in DOMAIN cache' : EntryOK(cache'[g], now)
    BY <1>6, <1>d DEF Invalidate
  <2> QED
    BY <1>6, <2>1, <1>d, <1>a, <1>c DEF Invalidate, Calls, Cached
<1>7. ASSUME NEW h \in Dynamic, NEW a \in Answers, Change(h, a) PROVE TypeOK'
  <2>1. docker' \in [Dynamic -> Answers]
    BY <1>7 DEF Change, TypeOK
  <2>2. lastTrue' \in [Dynamic -> [Answers -> -1 .. now]]
    <3>1. lastTrue[h] \in [Answers -> -1 .. now] /\ now \in -1 .. now
      BY <1>n DEF TypeOK
    <3>2. [lastTrue[h] EXCEPT ![docker[h]] = now] \in [Answers -> -1 .. now]
      BY <3>1
    <3>3. lastTrue' = [lastTrue EXCEPT ![h] = [lastTrue[h] EXCEPT ![docker[h]] = now]]
      BY <1>7 DEF Change, TypeOK
    <3> QED
      BY <3>2, <3>3 DEF TypeOK
  <2> QED
    BY <1>7, <1>n, <2>1, <2>2, <1>d, <1>a, <1>b DEF Change, Calls, World
<1>8. CASE Tick
  <2>1. now' = now + 1 /\ now' \in 0 .. MaxTime
    BY <1>8, <1>n, SizesAssumption DEF Tick
  <2>2. Calls /\ Cached
    BY <1>8, <2>1, <1>d, <1>n, Later DEF Tick, Calls, Cached
  <2>3. World
    <3>1. -1 .. now \subseteq -1 .. now'
      BY <2>1, <1>n
    <3>2. lastTrue \in [Dynamic -> [Answers -> -1 .. now']]
      BY <3>1 DEF TypeOK
    <3> QED
      BY <1>8, <2>1, <3>2 DEF Tick, World, TypeOK
  <2> QED
    BY <2>2, <2>3, <1>a
<1> QED
  BY <1>1, <1>2, <1>3, <1>4, <1>5, <1>6, <1>7, <1>8 DEF Next, Resolve

(* In every state the variables have their types: in particular a cached   *)
(* answer expires at most ttl from now.                                    *)
THEOREM TypeCorrect == Spec => []TypeOK
<1> QED
  BY TypeInit, TypeStep, PTL DEF Spec

-----------------------------------------------------------------------------
(* No step makes more entries than the cache may have. *)
LEMMA SizeStep == TypeOK /\ WithinSize /\ [Next]_vars => WithinSize'
<1> SUFFICES ASSUME TypeOK, WithinSize, [Next]_vars PROVE WithinSize'
  OBVIOUS
<1> DEFINE D == DOMAIN cache
<1>1. IsFiniteSet(D) /\ Cardinality(D) \in Nat /\ maxSize \in Nat
  BY HostsAssumption, SizesAssumption, FS_Subset, FS_CardinalityType DEF TypeOK
<1>2. CASE UNCHANGED cache
  BY <1>2 DEF WithinSize
<1>3. ASSUME NEW c \in Callers, Store(c) PROVE WithinSize'
  <2> DEFINE h == call[c].host
  <2>1. PICK evicted : /\ cache' = Put(c, evicted)
                       /\ ~Full => evicted = {}
                       /\ Full => \E g \in Hosts : Oldest(g) /\ evicted = {g}
    BY <1>3, StorePuts
  <2> DEFINE K == D \ evicted
  <2>2. DOMAIN cache' = K \cup {h}
    BY <2>1 DEF Put
  <2>3. IsFiniteSet(K) /\ Cardinality(K) \in Nat /\ (maxSize > 0 => Cardinality(K) < maxSize)
    <3>1. CASE Full
      <4>1. PICK g \in D : evicted = {g}
        BY <2>1, <3>1 DEF Oldest
      <4>2. IsFiniteSet(K) /\ Cardinality(K) = Cardinality(D) - 1
        BY <1>1, <4>1, FS_RemoveElement
      <4>3. Cardinality(K) \in Nat
        BY <4>2, FS_CardinalityType
      <4> QED
        BY <1>1, <4>2, <4>3 DEF WithinSize
    <3>2. CASE ~Full
      <4>1. K = D
        BY <2>1, <3>2
      <4> QED
        BY <1>1, <3>2, <4>1 DEF Full
    <3> QED
      BY <3>1, <3>2
  <2>4. Cardinality(K \cup {h}) <= Cardinality(K) + 1
    <3>1. Cardinality(K \cup {h}) = IF h \in K THEN Cardinality(K) ELSE Cardinality(K) + 1
      BY <2>3, FS_AddElement
    <3> QED
      BY <2>3, <3>1
  <2>5. Cardinality(K \cup {h}) \in Nat
    BY <2>3, FS_AddElement, FS_CardinalityType
  <2> HIDE DEF K
  <2> QED
    BY <1>1, <2>2, <2>3, <2>4, <2>5 DEF WithinSize
<1>4. ASSUME NEW h \in Hosts, Invalidate(h) PROVE WithinSize'
  <2>1. DOMAIN cache' = D \ {h}
    BY <1>4 DEF Invalidate
  <2>2. Cardinality(D \ {h}) <= Cardinality(D) /\ Cardinality(D \ {h}) \in Nat
    BY <1>1, FS_Subset, FS_CardinalityType
  <2> QED
    BY <1>1, <2>1, <2>2 DEF WithinSize
<1> QED
  BY <1>2, <1>3, <1>4 DEF Next, Resolve, Hit, Miss, Ask, Change, Tick, vars

(* The cache keeps to its size, however many callers find room in it and   *)
(* store at once: each looks again, under the lock under which it stores.  *)
THEOREM CacheFits == Spec => []WithinSize
<1>1. Init => WithinSize
  <2> SUFFICES ASSUME Init PROVE WithinSize
    OBVIOUS
  <2>1. DOMAIN cache = {}
    BY DEF Init
  <2> QED
    BY <2>1, FS_EmptySet, SizesAssumption DEF WithinSize
<1> QED
  BY <1>1, TypeInit, TypeStep, SizeStep, PTL DEF Spec

-----------------------------------------------------------------------------
(* What an answer's leaving the cache has to be. *)
MayLeave(h) == \/ ~Fresh(h)
               \/ Invalidate(h)
               \/ DOMAIN cache' \ DOMAIN cache # {}
               \/ \E c \in Callers : Overtaken(c) /\ Store(c)

(* Store takes no fresh answer away, but for a new host or in another's     *)
(* tracks: to renew an expired entry it evicts one that expired no later.  *)
LEMMA StoreLeaves ==
  ASSUME TypeOK, NEW c \in Callers, Store(c), NEW h \in DOMAIN cache \ DOMAIN cache'
  PROVE  MayLeave(h)
<1> DEFINE k == call[c].host
<1>1. PICK evicted : /\ cache' = Put(c, evicted)
                     /\ ~Full => evicted = {}
                     /\ Full => \E g \in Hosts : Oldest(g) /\ evicted = {g}
  BY StorePuts
<1>2. DOMAIN cache' = (DOMAIN cache \ evicted) \cup {k}
  BY <1>1 DEF Put
<1>3. Oldest(h) /\ evicted = {h}
  BY <1>1, <1>2
<1>4. CASE k \notin DOMAIN cache
  BY <1>2, <1>4 DEF MayLeave
<1>5. CASE k \in DOMAIN cache /\ Fresh(k)
  BY <1>5 DEF MayLeave, Overtaken, Store
<1>6. CASE k \in DOMAIN cache /\ ~Fresh(k)
  <2>1. now \in Int /\ cache[h].expiresAt \in Int /\ cache[k].expiresAt \in Int
    BY <1>6, SizesAssumption, TypeParts DEF EntryOK
  <2>2. ~(now < cache[k].expiresAt) /\ cache[h].expiresAt <= cache[k].expiresAt
    BY <1>3, <1>6 DEF Fresh, Oldest
  <2>3. ~(now < cache[h].expiresAt)
    BY <2>1, <2>2
  <2> QED
    BY <2>3 DEF MayLeave, Fresh
<1> QED
  BY <1>4, <1>5, <1>6

(* An answer that has not expired leaves the cache only by Invalidate, to  *)
(* make room for a host that is new, or when a caller was overtaken: a     *)
(* full cache that renews an expired entry costs no other host its answer. *)
THEOREM FreshAnswersStay == Spec => FreshStay
<1>1. TypeOK /\ [Next]_vars => [\A h \in DOMAIN cache \ DOMAIN cache' : MayLeave(h)]_vars
  <2> SUFFICES ASSUME TypeOK, Next, NEW h \in DOMAIN cache \ DOMAIN cache' PROVE MayLeave(h)
    OBVIOUS
  <2>1. cache' # cache
    OBVIOUS
  <2>2. CASE \E c \in Callers : Store(c)
    BY <2>2, StoreLeaves
  <2>3. CASE \E g \in Hosts : Invalidate(g)
    <3>1. PICK g \in Hosts : Invalidate(g)
      BY <2>3
    <3>2. g = h
      BY <3>1 DEF Invalidate
    <3> QED
      BY <3>1, <3>2 DEF MayLeave
  <2> QED
    BY <2>1, <2>2, <2>3 DEF Next, Resolve, Hit, Miss, Ask, Change, Tick
<1>2. (\A h \in DOMAIN cache \ DOMAIN cache' : MayLeave(h))
        <=> \A h \in DOMAIN cache \ DOMAIN cache' :
              \/ ~Fresh(h)
              \/ Invalidate(h)
              \/ DOMAIN cache' \ DOMAIN cache # {}
              \/ \E c \in Callers : Overtaken(c) /\ Store(c)
  BY DEF MayLeave
<1> QED
  BY <1>1, <1>2, TypeInit, TypeStep, PTL DEF Spec, FreshStay

-----------------------------------------------------------------------------
(* How old an answer is.  The proof follows an answer from the daemon, by   *)
(* way of a caller and of the cache, to whom it is returned.               *)

(* When a was last the answer of h, if the daemon answers d, the clock      *)
(* shows t and the former answers have ended as l tells.                   *)
LastAt(d, l, t, h, a) ==
  IF (IF h \in DOMAIN Static THEN Static[h] ELSE d[h]) = a THEN t ELSE l[h][a]

(* It was the answer at time s or later; the table's answers never change. *)
Since(d, l, t, h, a, s) ==
  /\ h \in DOMAIN Static => a = Static[h]
  /\ LastAt(d, l, t, h, a) >= s

EntrySince(d, l, t, h, e) == Since(d, l, t, h, e.answer, e.expiresAt - ttl - MaxFlight)

CallSince(d, l, t, x) ==
  /\ x.pc = "store" => /\ Since(d, l, t, x.host, x.answer, x.asked)
                       /\ t <= x.asked + MaxFlight
  /\ x.pc = "returned" => \/ Since(d, l, t, x.host, x.answer, x.at - MaxFlight)
                          \/ Since(d, l, t, x.host, x.answer, x.at - ttl - MaxFlight + 1)

AnswerInv ==
  /\ \A h \in DOMAIN cache : EntrySince(docker, lastTrue, now, h, cache[h])
  /\ \A c \in Callers : CallSince(docker, lastTrue, now, call[c])

(* The times are numbers. *)
LEMMA LastAtType ==
  ASSUME NEW d \in [Dynamic -> Answers], NEW t \in Nat,
         NEW l \in [Dynamic -> [Answers -> -1 .. t]],
         NEW h \in Hosts, NEW a \in Answers, h \in DOMAIN Static => a = Static[h]
  PROVE  LastAt(d, l, t, h, a) \in -1 .. t
<1>1. CASE h \in DOMAIN Static
  BY <1>1 DEF LastAt
<1>2. CASE h \notin DOMAIN Static
  <2>1. h \in Dynamic
    BY <1>2 DEF Dynamic
  <2>2. l[h] \in [Answers -> -1 .. t]
    BY <2>1
  <2>3. l[h][a] \in -1 .. t
    BY <2>2
  <2> QED
    BY <2>3 DEF LastAt
<1> QED
  BY <1>1, <1>2

(* No step makes an answer older than it was. *)
LEMMA SinceStays ==
  ASSUME TypeOK, [Next]_vars, NEW h \in Hosts, NEW a \in Answers, NEW s \in Int,
         Since(docker, lastTrue, now, h, a, s)
  PROVE  Since(docker', lastTrue', now', h, a, s)
<1>1. /\ docker \in [Dynamic -> Answers] /\ now \in Nat
      /\ lastTrue \in [Dynamic -> [Answers -> -1 .. now]]
  BY SizesAssumption DEF TypeOK
<1>2. h \in DOMAIN Static => a = Static[h]
  BY DEF Since
<1>3. LastAt(docker, lastTrue, now, h, a) \in -1 .. now /\ LastAt(docker, lastTrue, now, h, a) >= s
  BY <1>1, <1>2, LastAtType DEF Since
<1>4. CASE UNCHANGED <<docker, lastTrue, now>>
  BY <1>4
<1>5. CASE Tick
  <2>1. docker' = docker /\ lastTrue' = lastTrue /\ now' = now + 1
    BY <1>5 DEF Tick
  <2>2. LastAt(docker', lastTrue', now', h, a) >= s
    BY <1>1, <1>3, <2>1 DEF LastAt
  <2> QED
    BY <1>2, <2>2 DEF Since
<1>6. ASSUME NEW g \in Dynamic, NEW b \in Answers, Change(g, b)
      PROVE  Since(docker', lastTrue', now', h, a, s)
  <2>1. /\ docker' = [docker EXCEPT ![g] = b] /\ now' = now
        /\ lastTrue' = [lastTrue EXCEPT ![g][docker[g]] = now]
    BY <1>6 DEF Change
  <2>2. CASE h \in DOMAIN Static
    BY <1>2, <1>3, <2>1, <2>2 DEF Since, LastAt
  <2>3. CASE h \notin DOMAIN Static /\ h # g
    <3>1. h \in Dynamic
      BY <2>3 DEF Dynamic
    <3>2. docker'[h] = docker[h] /\ lastTrue'[h] = lastTrue[h]
      BY <1>1, <2>1, <2>3, <3>1
    <3> QED
      BY <1>3, <2>1, <2>3, <3>2 DEF Since, LastAt
  <2>4. CASE h \notin DOMAIN Static /\ h = g
    <3>1. docker'[h] = b
      BY <1>1, <2>1, <2>4
    <3>2. lastTrue[h] \in [Answers -> -1 .. now] /\ docker[h] \in Answers
      BY <1>1, <2>4
    <3>3. lastTrue'[h] = [lastTrue[h] EXCEPT ![docker[h]] = now]
      BY <1>1, <2>1, <2>4
    <3>4. lastTrue'[h][a] = IF a = docker[h] THEN now ELSE lastTrue[h][a]
      BY <3>2, <3>3
    <3>5. LastAt(docker', lastTrue', now', h, a) >= s
      <4>1. CASE a = b
        BY <1>1, <1>3, <2>1, <2>4, <3>1, <4>1 DEF LastAt
      <4>2. CASE a # b /\ a = docker[h]
        BY <1>1, <1>3, <2>1, <2>4, <3>1, <3>4, <4>2 DEF LastAt
      <4>3. CASE a # b /\ a # docker[h]
        BY <1>1, <1>3, <2>1, <2>4, <3>1, <3>4, <4>3 DEF LastAt
      <4> QED
        BY <4>1, <4>2, <4>3
    <3> QED
      BY <1>2, <3>5 DEF Since
  <2> QED
    BY <2>2, <2>3, <2>4
<1> QED
  BY <1>4, <1>5, <1>6 DEF Next, Resolve, Hit, Miss, Ask, Store, Returns, Invalidate, vars

(* A caller's record grows no older, but for the time of its flight. *)
LEMMA CallSinceStays ==
  ASSUME TypeOK, [Next]_vars, NEW c \in Callers,
         CallSince(docker, lastTrue, now, call[c]),
         call[c].pc = "store" => now' <= call[c].asked + MaxFlight
  PROVE  CallSince(docker', lastTrue', now', call[c])
<1> DEFINE x == call[c]
<1>1. CallOK(x, now) /\ now \in Nat
  BY SizesAssumption, TypeParts
<1>2. CASE x.pc = "store"
  <2>1. x.host \in Hosts /\ x.answer \in Answers /\ x.asked \in Int
    BY <1>1, <1>2 DEF CallOK, Asking, Storing, Returned, Idle
  <2>2. Since(docker, lastTrue, now, x.host, x.answer, x.asked)
    BY <1>2 DEF CallSince
  <2>3. Since(docker', lastTrue', now', x.host, x.answer, x.asked)
    BY <2>1, <2>2, SinceStays
  <2> QED
    BY <1>2, <2>3 DEF CallSince
<1>3. CASE x.pc = "returned"
  <2>1. x.host \in Hosts /\ x.answer \in Answers /\ x.at \in Int
    BY <1>1, <1>3 DEF CallOK, Asking, Storing, Returned, Idle
  <2>2. x.at - MaxFlight \in Int /\ x.at - ttl - MaxFlight + 1 \in Int
    BY <2>1, SizesAssumption
  <2>3. \/ Since(docker, lastTrue, now, x.host, x.answer, x.at - MaxFlight)
        \/ Since(docker, lastTrue, now, x.host, x.answer, x.at - ttl - MaxFlight + 1)
    BY <1>3 DEF CallSince
  <2>4. \/ Since(docker', lastTrue', now', x.host, x.answer, x.at - MaxFlight)
        \/ Since(docker', lastTrue', now', x.host, x.answer, x.at - ttl - MaxFlight + 1)
    BY <2>1, <2>2, <2>3, SinceStays
  <2> QED
    BY <1>3, <2>4 DEF CallSince
<1>4. CASE x.pc \notin {"store", "returned"}
  BY <1>4 DEF CallSince
<1> QED
  BY <1>2, <1>3, <1>4

(* What lies in the cache grows no older than ttl and a flight. *)
LEMMA EntriesStay ==
  ASSUME TypeOK, AnswerInv, [Next]_vars, NEW h \in DOMAIN cache
  PROVE  EntrySince(docker', lastTrue', now', h, cache[h])
<1> DEFINE e == cache[h]
<1>1. h \in Hosts /\ e.answer \in Answers /\ e.expiresAt \in Int
  BY SizesAssumption, TypeParts DEF EntryOK
<1>2. e.expiresAt - ttl - MaxFlight \in Int
  BY <1>1, SizesAssumption
<1>3. Since(docker, lastTrue, now, h, e.answer, e.expiresAt - ttl - MaxFlight)
  BY DEF AnswerInv, EntrySince
<1> HIDE DEF e
<1>4. Since(docker', lastTrue', now', h, e.answer, e.expiresAt - ttl - MaxFlight)
  BY <1>1, <1>2, <1>3, SinceStays
<1> QED
  BY <1>4 DEF EntrySince, e

(* A caller that comes to rest with an answer that is recent. *)
LEMMA ReturnsRecent ==
  ASSUME TypeOK, [Next]_vars, AnswerInv, UNCHANGED <<docker, lastTrue, now>>,
         NEW c \in Callers, NEW h \in Hosts, NEW a \in Answers, Returns(c, h, a),
         \/ Since(docker, lastTrue, now, h, a, now - MaxFlight)
         \/ Since(docker, lastTrue, now, h, a, now - ttl - MaxFlight + 1)
  PROVE  \A d \in Callers : CallSince(docker', lastTrue', now', call'[d])
<1>1. call'[c] = [pc |-> "returned", host |-> h, answer |-> a, at |-> now]
      /\ \A d \in Callers \ {c} : call'[d] = call[d]
  BY DEF Returns, TypeOK
<1>2. CallSince(docker', lastTrue', now', call'[c])
  BY <1>1 DEF CallSince
<1>3. \A d \in Callers : CallSince(docker, lastTrue, now, call[d])
  BY DEF AnswerInv
<1> QED
  BY <1>1, <1>2, <1>3

(* The ages of the answers stay within their bounds. *)
LEMMA AnswerStep == TypeOK /\ AnswerInv /\ [Next]_vars => AnswerInv'
<1> SUFFICES ASSUME TypeOK, AnswerInv, [Next]_vars PROVE AnswerInv'
  OBVIOUS
<1> DEFINE Calls  == \A c \in Callers : CallSince(docker', lastTrue', now', call'[c])
           Cached == \A h \in DOMAIN cache' : EntrySince(docker', lastTrue', now', h, cache'[h])
<1>a. Calls /\ Cached => AnswerInv'
  BY DEF AnswerInv
<1>b. UNCHANGED cache => Cached
  BY EntriesStay
<1>n. now \in Nat /\ ttl \in Nat /\ MaxFlight \in Nat
  BY SizesAssumption DEF TypeOK
<1>d. /\ \A h \in DOMAIN cache : h \in Hosts /\ EntryOK(cache[h], now)
      /\ DOMAIN call = Callers
      /\ \A c \in Callers : CallOK(call[c], now) /\ CallSince(docker, lastTrue, now, call[c])
  BY TypeParts DEF AnswerInv
<1>c. UNCHANGED <<call, now>> => Calls
  <2> SUFFICES ASSUME UNCHANGED <<call, now>>, NEW c \in Callers
               PROVE  CallSince(docker', lastTrue', now', call[c])
    OBVIOUS
  <2> QED
    BY <1>d, CallSinceStays DEF CallSince
<1> HIDE DEF Calls, Cached
<1>1. CASE UNCHANGED vars
  BY <1>1, <1>a, <1>b, <1>c DEF vars
<1>2. ASSUME NEW c \in Callers, NEW h \in Hosts, Hit(c, h) PROVE AnswerInv'
  <2> DEFINE a == cache[h].answer
             x == cache[h].expiresAt
  <2>1. h \in DOMAIN cache /\ now < x /\ Returns(c, h, a) /\ UNCHANGED <<docker, cache, lastTrue, now>>
    BY <1>2 DEF Hit, Fresh
  <2>2. a \in Answers /\ x \in Int
    BY <2>1, <1>d, <1>n DEF EntryOK
  <2>3. Since(docker, lastTrue, now, h, a, x - ttl - MaxFlight)
    BY <2>1 DEF AnswerInv, EntrySince
  <2> HIDE DEF a, x
  <2>4. LastAt(docker, lastTrue, now, h, a) \in -1 .. now
    BY <2>2, <2>3, <1>n, LastAtType DEF TypeOK, Since
  <2>5. Since(docker, lastTrue, now, h, a, now - ttl - MaxFlight + 1)
    BY <1>n, <2>1, <2>2, <2>3, <2>4 DEF Since
  <2>6. Calls
    BY <2>1, <2>2, <2>5, ReturnsRecent DEF Calls
  <2> QED
    BY <2>1, <2>6, <1>a, <1>b
<1>3. ASSUME NEW c \in Callers, NEW h \in Hosts, Miss(c, h) PROVE AnswerInv'
  <2>1. UNCHANGED <<docker, cache, now, lastTrue>> /\ call' = [call EXCEPT ![c] = [pc |-> "ask", host |-> h]]
    BY <1>3 DEF Miss
  <2>2. call'[c].pc = "ask" /\ \A d \in Callers \ {c} : call'[d] = call[d]
    BY <2>1, <1>d
  <2>3. Calls
    BY <2>1, <2>2, <1>d DEF Calls, CallSince
  <2> QED
    BY <2>1, <2>3, <1>a, <1>b
<1>4. ASSUME NEW c \in Callers, Ask(c) PROVE AnswerInv'
  <2> DEFINE h == call[c].host
             a == inner(h)
             x == [pc |-> "store", host |-> h, answer |-> a, asked |-> now]
  <2>1. UNCHANGED <<docker, cache, now, lastTrue>> /\ call' = [call EXCEPT ![c] = x]
    BY <1>4 DEF Ask
  <2>2. Since(docker, lastTrue, now, h, a, now)
    BY <1>n DEF Since, LastAt, inner
  <2>3. CallSince(docker, lastTrue, now, x)
    BY <1>n, <2>2 DEF CallSince
  <2> HIDE DEF x
  <2>4. call'[c] = x /\ \A d \in Callers \ {c} : call'[d] = call[d]
    BY <2>1, <1>d
  <2>5. Calls
    BY <2>1, <2>3, <2>4, <1>d DEF Calls
  <2> QED
    BY <2>1, <2>5, <1>a, <1>b
<1>5. ASSUME NEW c \in Callers, Store(c) PROVE AnswerInv'
  <2> DEFINE h == call[c].host
             a == call[c].answer
             s == call[c].asked
  <2>1. call[c].pc = "store" /\ Returns(c, h, a) /\ UNCHANGED <<docker, now, lastTrue>>
    BY <1>5 DEF Store
  <2>2. h \in Hosts /\ a \in Answers /\ s \in Int
    BY <2>1, <1>d, <1>n DEF CallOK, Asking, Storing, Returned, Idle
  <2>3. Since(docker, lastTrue, now, h, a, s) /\ now <= s + MaxFlight
    BY <2>1, <1>d DEF CallSince
  <2> HIDE DEF h, a, s
  <2>4. LastAt(docker, lastTrue, now, h, a) \in -1 .. now
    BY <2>2, <2>3, <1>n, LastAtType DEF TypeOK, Since
  <2>5. Since(docker, lastTrue, now, h, a, now - MaxFlight)
    BY <1>n, <2>2, <2>3, <2>4 DEF Since
  <2>6. Calls
    BY <2>1, <2>2, <2>5, ReturnsRecent DEF Calls
  <2>7. PICK evicted : cache' = Put(c, evicted)
    BY <1>5, StorePuts
  <2>8. EntrySince(docker', lastTrue', now', h, [answer |-> a, expiresAt |-> Expiry])
    <3>1. (now + ttl) - ttl - MaxFlight = now - MaxFlight
      BY <1>n
    <3> QED
      BY <2>1, <2>5, <3>1 DEF EntrySince, Expiry
  <2>9. Cached
    <3> SUFFICES ASSUME NEW g \in DOMAIN cache'
                 PROVE  EntrySince(docker', lastTrue', now', g, cache'[g])
      BY DEF Cached
    <3>1. CASE g = h
      <4>1. cache'[g] = [answer |-> a, expiresAt |-> Expiry]
        BY <2>7, <3>1 DEF Put, h, a
      <4> QED
        BY <2>8, <3>1, <4>1
    <3>2. CASE g # h
      <4>1. g \in DOMAIN cache /\ cache'[g] = cache[g]
        BY <2>7, <3>2 DEF Put, h
      <4> QED
        BY <4>1, EntriesStay
    <3> QED
      BY <3>1, <3>2
  <2> QED
    BY <2>6, <2>9, <1>a
<1>6. ASSUME NEW h \in Hosts, Invalidate(h) PROVE AnswerInv'
  <2>1. UNCHANGED <<docker, call, now, lastTrue>> /\ cache' = [g \in DOMAIN cache \ {h} |-> cache[g]]
    BY <1>6 DEF Invalidate
  <2>2. Cached
    BY <2>1, EntriesStay DEF Cached
  <2> QED
    BY <2>1, <2>2, <1>a, <1>c
<1>7. ASSUME NEW h \in Dynamic, NEW a \in Answers, Change(h, a) PROVE AnswerInv'
  BY <1>7, <1>a, <1>b, <1>c DEF Change
<1>8. CASE Tick
  <2>1. call' = call /\ cache' = cache /\ now' = now + 1
        /\ \A c \in Callers : call[c].pc = "store" => now < call[c].asked + MaxFlight
    BY <1>8 DEF Tick
  <2>2. ASSUME NEW c \in Callers PROVE CallSince(docker', lastTrue', now', call'[c])
    <3>1. call[c].pc = "store" => call[c].asked \in Int
      BY <1>d, <1>n DEF CallOK, Asking, Storing, Returned, Idle
    <3>2. call[c].pc = "store" => now' <= call[c].asked + MaxFlight
      BY <2>1, <3>1, <1>n
    <3> QED
      BY <2>1, <3>2, <1>d, CallSinceStays
  <2> QED
    BY <2>1, <2>2, <1>a, <1>b DEF Calls
<1> QED
  BY <1>1, <1>2, <1>3, <1>4, <1>5, <1>6, <1>7, <1>8 DEF Next, Resolve

(* Bounded ages are what AnswersAreRecent says. *)
LEMMA AnswersBounded == TypeOK /\ AnswerInv => AnswersAreRecent
<1> SUFFICES ASSUME TypeOK, AnswerInv, NEW c \in Callers, call[c].pc = "returned"
             PROVE  LET age == call[c].at - TrueAt(call[c].host, call[c].answer)
                    IN  age <= MaxFlight \/ age < ttl + MaxFlight
  BY DEF AnswersAreRecent
<1> DEFINE h == call[c].host
           a == call[c].answer
           t == call[c].at
<1>1. now \in Nat /\ ttl \in Nat /\ MaxFlight \in Nat
  BY SizesAssumption DEF TypeOK
<1>2. CallOK(call[c], now) /\ CallSince(docker, lastTrue, now, call[c])
  BY TypeParts DEF AnswerInv
<1>3. h \in Hosts /\ a \in Answers /\ t \in Int
  BY <1>1, <1>2 DEF CallOK, Asking, Storing, Returned, Idle
<1>4. \/ Since(docker, lastTrue, now, h, a, t - MaxFlight)
      \/ Since(docker, lastTrue, now, h, a, t - ttl - MaxFlight + 1)
  BY <1>2 DEF CallSince
<1> HIDE DEF h, a, t
<1>5. TrueAt(h, a) = LastAt(docker, lastTrue, now, h, a)
  BY DEF TrueAt, LastAt, inner
<1>6. LastAt(docker, lastTrue, now, h, a) \in -1 .. now
  BY <1>1, <1>3, <1>4, LastAtType DEF TypeOK, Since
<1>7. t - TrueAt(h, a) <= MaxFlight \/ t - TrueAt(h, a) < ttl + MaxFlight
  BY <1>1, <1>3, <1>4, <1>5, <1>6 DEF Since
<1> QED
  BY <1>7 DEF h, a, t

(* What Resolve returns was the answer less than ttl before, but for the   *)
(* time of a flight from the inner resolver to the cache: hits do not      *)
(* prolong an entry, and callers that overtake one another cannot add up.  *)
THEOREM AnswersStayRecent == Spec => []AnswersAreRecent
<1>1. Init => AnswerInv
  BY DEF Init, AnswerInv, CallSince, Idle
<1> QED
  BY <1>1, TypeInit, TypeStep, AnswerStep, AnswersBounded, PTL DEF Spec
===============================================================================
