---------------------------- MODULE ResolverCache ----------------------------
(***************************************************************************)
(* CachingResolver (src/internal/resolve/cache.go) around the resolvers    *)
(* that build.go gives it: a fixed table first, then the Docker daemon,    *)
(* whose answers change.                                                   *)
(*                                                                         *)
(* Resolve looks into the cache under the read lock, asks the inner        *)
(* resolver under no lock and stores the answer under the write lock; the  *)
(* three are steps of their own.  That there is no service for a host is   *)
(* an answer like any other, None, and is cached.                          *)
(***************************************************************************)
EXTENDS Integers, FiniteSets

CONSTANTS Hosts,
          Services,
          Callers,   (* goroutines that call Resolve                        *)
          Static,    (* the fixed table: a function from hosts to services  *)
          ttl,
          maxSize,   (* 0 for no limit                                      *)
          MaxFlight, (* bound: time from an answer to its being stored      *)
          MaxTime    (* bound: the clock                                    *)

None    == "none"
Dynamic == Hosts \ DOMAIN Static   (* hosts that the daemon is asked for *)
Answers == Services \cup {None}

ASSUME HostsAssumption == /\ IsFiniteSet(Hosts)
                          /\ DOMAIN Static \subseteq Hosts
                          /\ \A h \in DOMAIN Static : Static[h] \in Services
ASSUME SizesAssumption == /\ ttl \in Nat /\ maxSize \in Nat
                          /\ MaxFlight \in Nat /\ MaxTime \in Nat

VARIABLES docker,   (* what the daemon answers now, for hosts not in the table *)
          cache,    (* answers and their expiry, by host                    *)
          call,     (* where each caller is, and its local variables        *)
          now,      (* the clock                                            *)
          (* What has happened, for the properties.                         *)
          lastTrue  (* until when a former answer of a host was the answer  *)

vars == <<docker, cache, call, now, lastTrue>>

Idle == [pc |-> "idle"]

Init == /\ docker \in [Dynamic -> Answers]
        /\ cache = <<>>
        /\ call = [c \in Callers |-> Idle]
        /\ now = 0
        /\ lastTrue = [h \in Dynamic |-> [a \in Answers |-> -1]]

(* ChainResolver: the table decides if it has the host, else the daemon. *)
inner(h) == IF h \in DOMAIN Static THEN Static[h] ELSE docker[h]

-----------------------------------------------------------------------------
(* Resolve *)

Returns(c, h, a) ==
  call' = [call EXCEPT ![c] = [pc |-> "returned", host |-> h, answer |-> a, at |-> now]]

Resting(c) == call[c].pc \in {"idle", "returned"}
Fresh(h)   == h \in DOMAIN cache /\ now < cache[h].expiresAt

(* A mutation: an answer that is used lives on. *)
HitProlongs(c, h) ==
  /\ Resting(c)
  /\ Fresh(h)
  /\ Returns(c, h, cache[h].answer)
  /\ cache' = [cache EXCEPT ![h].expiresAt = now + ttl]
  /\ UNCHANGED <<docker, now, lastTrue>>

Hit(c, h) == /\ Resting(c)
             /\ Fresh(h)
             /\ Returns(c, h, cache[h].answer)
             /\ UNCHANGED <<docker, cache, now, lastTrue>>

Miss(c, h) == /\ Resting(c)
              /\ ~Fresh(h)
              /\ call' = [call EXCEPT ![c] = [pc |-> "ask", host |-> h]]
              /\ UNCHANGED <<docker, cache, now, lastTrue>>

(* The inner resolver answers. *)
Ask(c) == /\ call[c].pc = "ask"
          /\ call' = [call EXCEPT ![c] = [pc |-> "store", host |-> @.host,
                                          answer |-> inner(@.host), asked |-> now]]
          /\ UNCHANGED <<docker, cache, now, lastTrue>>

(* A mutation: the entry that lives longest goes. *)
Youngest(h) == /\ h \in DOMAIN cache
               /\ \A g \in DOMAIN cache : cache[g].expiresAt <= cache[h].expiresAt

(* evictOldest takes the first, in Go's order of the map, of the entries   *)
(* that expire first. *)
Oldest(h) == /\ h \in DOMAIN cache
             /\ \A g \in DOMAIN cache : cache[h].expiresAt <= cache[g].expiresAt

(* A mutation: there is no room when there is less than none. *)
OverFull == maxSize > 0 /\ Cardinality(DOMAIN cache) > maxSize

Full == maxSize > 0 /\ Cardinality(DOMAIN cache) >= maxSize

(* A mutation: an entry lives a tick too long. *)
LateExpiry == now + ttl + 1

Expiry == now + ttl

Store(c) ==
  /\ call[c].pc = "store"
  /\ LET h == call[c].host
     IN  /\ \E evicted \in IF Full THEN {{g} : g \in {x \in Hosts : Oldest(x)}} ELSE {{}} :
              cache' = [g \in (DOMAIN cache \ evicted) \cup {h} |->
                          IF g = h THEN [answer |-> call[c].answer, expiresAt |-> Expiry]
                          ELSE cache[g]]
         /\ Returns(c, h, call[c].answer)
  /\ UNCHANGED <<docker, now, lastTrue>>

Invalidate(h) == /\ cache' = [g \in DOMAIN cache \ {h} |-> cache[g]]
                 /\ UNCHANGED <<docker, call, now, lastTrue>>

-----------------------------------------------------------------------------
(* A container starts, stops or is renamed, or the daemon is out of reach; *)
(* time passes. *)
Change(h, a) == /\ a # docker[h]
                /\ docker' = [docker EXCEPT ![h] = a]
                /\ lastTrue' = [lastTrue EXCEPT ![h][docker[h]] = now]
                /\ UNCHANGED <<cache, call, now>>

Tick == /\ now < MaxTime
        /\ \A c \in Callers : call[c].pc = "store" => now < call[c].asked + MaxFlight
        /\ now' = now + 1
        /\ UNCHANGED <<docker, cache, call, lastTrue>>

Resolve(c) == \/ \E h \in Hosts : Hit(c, h) \/ Miss(c, h)
              \/ Ask(c) \/ Store(c)

Next == \/ \E c \in Callers : Resolve(c)
        \/ \E h \in Hosts : Invalidate(h)
        \/ \E h \in Dynamic, a \in Answers : Change(h, a)
        \/ Tick

Spec == Init /\ [][Next]_vars

-----------------------------------------------------------------------------
(* Properties *)

(* The types; a cached answer expires at most ttl from now.                *)
TypeOK == /\ docker \in [Dynamic -> Answers]
          /\ DOMAIN cache \subseteq Hosts
          /\ \A h \in DOMAIN cache :
               cache[h] \in [answer : Answers, expiresAt : 0 .. now + ttl]
          /\ DOMAIN call = Callers
          /\ \A c \in Callers :
               call[c] \in {Idle} \cup [pc : {"ask"}, host : Hosts]
                 \cup [pc : {"store"}, host : Hosts, answer : Answers, asked : 0 .. now]
                 \cup [pc : {"returned"}, host : Hosts, answer : Answers, at : 0 .. now]
          /\ now \in 0 .. MaxTime
          /\ lastTrue \in [Dynamic -> [Answers -> -1 .. now]]

(* The cache keeps to its size, although callers find it full or not while *)
(* others are about to store.                                              *)
WithinSize == maxSize > 0 => Cardinality(DOMAIN cache) <= maxSize

(* What Resolve returns was the answer less than ttl before, but for the   *)
(* time that a call was on its way from the inner resolver to the cache:   *)
(* neither use nor the callers' overtaking one another prolongs it.        *)
TrueAt(h, a) == IF inner(h) = a THEN now ELSE lastTrue[h][a]
AnswersAreRecent ==
  \A c \in Callers :
    call[c].pc = "returned" =>
      LET age == call[c].at - TrueAt(call[c].host, call[c].answer)
      IN  age <= MaxFlight \/ age < ttl + MaxFlight

(* An answer leaves the cache before it expires only when it is            *)
(* invalidated, or gives way to a host that has no entry, or when a caller *)
(* was overtaken and stores again what another has just stored.  To renew  *)
(* an expired entry in a full cache, which is to evict first and to        *)
(* overwrite then, costs no other host its answer.                         *)
Overtaken(c) == call[c].pc = "store" /\ Fresh(call[c].host)
FreshStay ==
  [][\A h \in DOMAIN cache \ DOMAIN cache' :
       \/ ~Fresh(h)
       \/ Invalidate(h)
       \/ DOMAIN cache' \ DOMAIN cache # {}
       \/ \E c \in Callers : Overtaken(c) /\ Store(c)]_vars
=============================================================================
