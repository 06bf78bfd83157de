------------------------------ MODULE CacheStore ------------------------------
(***************************************************************************)
(* cache/cache_store.c: a fixed table of key, value and time of expiry     *)
(* under one mutex, bounded in entries and in bytes.                       *)
(*                                                                         *)
(* A put reads the clock before it waits for the mutex, so that the times  *)
(* of use in the table need not be in the order of the puts.  Each turn of *)
(* its evicting loop is an action, with the mutex held.                    *)
(***************************************************************************)
EXTENDS Integers

CONSTANTS CacheKey, CacheValue,
          NoValue,       \* a miss
          CacheSize,     \* per value, its length
          CachePlaces,   \* ESPAGENT_CACHE_MAX_ENTRIES
          CacheTotal,    \* ESPAGENT_CACHE_MAX_TOTAL_BYTES
          CacheLongest,  \* ESPAGENT_CACHE_MAX_VALUE_BYTES
          CacheTtl,      \* the times to live asked for, in ticks
          CacheGroup,    \* sets of keys with a common prefix
          CacheUser,     \* tasks
          CacheEnd       \* bound: ticks

ASSUME CacheAssumption ==
    /\ CacheSize \in [CacheValue -> Nat] /\ NoValue \notin CacheValue
    /\ CachePlaces \in Nat \ {0} /\ CacheTotal \in Nat /\ CacheLongest \in 0 .. CacheTotal
    /\ CacheTtl \subseteq Nat \ {0} /\ CacheGroup \subseteq SUBSET CacheKey
    /\ CacheEnd \in Nat

VARIABLES
    entries,     \* s_entries: per place an entry or Unused
    total,       \* s_total_bytes
    putting,     \* per user, the put under way, or Unused
    holder,      \* the user whose put holds s_lock, with the place its key had, or Unused
    clock,       \* esp_timer_get_time, in ticks
    cacheAnswer  \* history: the key and the value of the last cache_get

cacheVars == <<entries, total, putting, holder, clock, cacheAnswer>>

Unused == [used |-> FALSE]
Place  == 1 .. CachePlaces
Entry  == [used : {TRUE}, key : CacheKey, value : CacheValue, expires : Nat, access : Nat]
Asked  == [used : {TRUE}, key : CacheKey, value : CacheValue, expires : Nat, now : Nat]
NoPlace == 0

InUse         == {i \in Place : entries[i].used}
Find(k)       == {i \in InUse : entries[i].key = k}
Expired(now)  == {i \in InUse : now >= entries[i].expires}
Freed(I)      == [i \in Place |-> IF i \in I THEN Unused ELSE entries[i]]
Bytes(I)      ==
    LET upTo[i \in 0 .. CachePlaces] ==
          IF i = 0 THEN 0 ELSE upTo[i - 1] + IF i \in I THEN CacheSize[entries[i].value] ELSE 0
    IN  upTo[CachePlaces]
Lowest(I)     == {i \in I : \A j \in I : i <= j}

CacheInit ==
    /\ entries = [i \in Place |-> Unused] /\ total = 0
    /\ putting = [c \in CacheUser |-> Unused]
    /\ holder = Unused
    /\ clock = 1
    /\ cacheAnswer = NoValue

\* Who goes: the first that is expired, or else the first of those not used for longest.
\* A set with one place, or none when the table is empty.
Victim(now) ==
    IF Expired(now) # {} THEN Lowest(Expired(now))
    ELSE Lowest({i \in InUse : \A j \in InUse : entries[i].access <= entries[j].access})

-----------------------------------------------------------------------------
(* cache_put. *)

CachePutAsked(c, k, v, ttl) ==
    /\ ~putting[c].used
    /\ CacheSize[v] <= CacheLongest
    /\ putting' = [putting EXCEPT ![c] =
          [used |-> TRUE, key |-> k, value |-> v, expires |-> clock + ttl, now |-> clock]]
    /\ UNCHANGED <<entries, total, holder, clock, cacheAnswer>>

\* Mutant: the bytes of the old entry stay counted.
CachePutLocksCounted(c) ==
    /\ putting[c].used /\ ~holder.used
    /\ LET old == Find(putting[c].key)
       IN  /\ entries' = Freed(old)
           /\ holder' = [used |-> TRUE, user |-> c,
                         place |-> IF old = {} THEN NoPlace ELSE CHOOSE i \in old : TRUE]
    /\ UNCHANGED <<total, putting, clock, cacheAnswer>>

CachePutLocks(c) ==
    /\ putting[c].used /\ ~holder.used
    /\ LET old == Find(putting[c].key)
       IN  /\ entries' = Freed(old)
           /\ total' = total - Bytes(old)
           /\ holder' = [used |-> TRUE, user |-> c,
                         place |-> IF old = {} THEN NoPlace ELSE CHOOSE i \in old : TRUE]
    /\ UNCHANGED <<putting, clock, cacheAnswer>>

Fits(v) == total + CacheSize[v] <= CacheTotal

CachePutEvicts ==
    /\ holder.used
    /\ LET p == putting[holder.user]
           victim == Victim(p.now)
       IN  /\ ~Fits(p.value) /\ victim # {}
           /\ entries' = Freed(victim)
           /\ total' = total - Bytes(victim)
    /\ UNCHANGED <<putting, holder, clock, cacheAnswer>>

\* The entry goes where its key was, to the first free place, or to the place of a victim.
CachePutStores ==
    /\ holder.used
    /\ LET p == putting[holder.user]
           free == Lowest(Place \ InUse)
           victim == IF holder.place = NoPlace /\ free = {} THEN Victim(p.now) ELSE {}
           place == CASE holder.place # NoPlace -> {holder.place}
                      [] free # {} -> free
                      [] OTHER -> victim
           left == total - Bytes(victim)
       IN  /\ Fits(p.value) \/ InUse = {}
           /\ IF left + CacheSize[p.value] > CacheTotal
              THEN entries' = Freed(victim) /\ total' = left
              ELSE /\ \E i \in place :
                         entries' = [entries EXCEPT ![i] = [used |-> TRUE, key |-> p.key,
                                       value |-> p.value, expires |-> p.expires,
                                       access |-> p.now]]
                   /\ total' = left + CacheSize[p.value]
           /\ putting' = [putting EXCEPT ![holder.user] = Unused]
    /\ holder' = Unused
    /\ UNCHANGED <<clock, cacheAnswer>>

-----------------------------------------------------------------------------
(* The other operations: one step under the mutex each. *)

\* Mutant: an entry found expired is answered like any other.
CacheGetExpired(k) ==
    /\ ~holder.used
    /\ \E i \in Find(k) : cacheAnswer' = <<k, entries[i].value>>
    /\ UNCHANGED <<entries, total, putting, holder, clock>>

CacheGet(k) ==
    /\ ~holder.used
    /\ LET found == Find(k)
           dead == found \cap Expired(clock)
       IN  /\ cacheAnswer' = <<k, IF found \ dead = {} THEN NoValue
                                  ELSE entries[CHOOSE i \in found : TRUE].value>>
           /\ entries' = [i \in Place |-> CASE i \in dead -> Unused
                                            [] i \in found \ dead -> [entries[i] EXCEPT !.access = clock]
                                            [] OTHER -> entries[i]]
           /\ total' = total - Bytes(dead)
    /\ UNCHANGED <<putting, holder, clock>>

CacheDelete(K) ==
    /\ ~holder.used
    /\ LET found == {i \in InUse : entries[i].key \in K}
       IN  entries' = Freed(found) /\ total' = total - Bytes(found)
    /\ UNCHANGED <<putting, holder, clock, cacheAnswer>>

CacheClear ==
    /\ ~holder.used
    /\ entries' = [i \in Place |-> Unused] /\ total' = 0
    /\ UNCHANGED <<putting, holder, clock, cacheAnswer>>

CacheTick ==
    /\ clock < CacheEnd
    /\ clock' = clock + 1
    /\ UNCHANGED <<entries, total, putting, holder, cacheAnswer>>

CacheNext ==
    \/ \E c \in CacheUser, k \in CacheKey, v \in CacheValue, ttl \in CacheTtl :
          CachePutAsked(c, k, v, ttl)
    \/ \E c \in CacheUser : CachePutLocks(c)
    \/ CachePutEvicts \/ CachePutStores
    \/ \E k \in CacheKey : CacheGet(k) \/ CacheDelete({k})
    \/ \E K \in CacheGroup : CacheDelete(K)
    \/ CacheClear \/ CacheTick

CacheSpec == CacheInit /\ [][CacheNext]_cacheVars

-----------------------------------------------------------------------------
(* Properties. *)

\* Types.
CacheTypeOK ==
    /\ entries \in [Place -> Entry \cup {Unused}]
    /\ total \in 0 .. CacheTotal
    /\ putting \in [CacheUser -> Asked \cup {Unused}]
    /\ holder \in [used : {TRUE}, user : CacheUser, place : Place \cup {NoPlace}] \cup {Unused}
    /\ holder.used => putting[holder.user].used
    /\ clock \in Nat

\* The bytes counted are those of the entries, whichever way entries come and go: a
\* count that drifts would make every later put evict for nothing.
BytesCounted == total = Bytes(InUse)

\* No key is in two places, also while a put has freed the old place of its key and looks
\* for room: a get would answer with whichever comes first in the table.
KeyOnce ==
    /\ \A i, j \in InUse : entries[i].key = entries[j].key => i = j
    /\ holder.used => /\ Find(putting[holder.user].key) = {}
                      /\ holder.place # NoPlace => holder.place \notin InUse

\* The table, with what is expired taken for missing, is a map that forgets.
Alive(i)   == i \in InUse \ Expired(clock)
Promise == INSTANCE CacheMap WITH
    Key <- CacheKey, Value <- CacheValue, Nothing <- NoValue, answered <- cacheAnswer,
    kept <- [k \in CacheKey |-> LET I == {i \in Find(k) : Alive(i)}
                                IN  IF I = {} THEN NoValue ELSE entries[CHOOSE i \in I : TRUE].value]

\* Whatever the interleaving of the tasks, what a get answers is what was put last under
\* that key and has neither been dropped nor run out.
CacheIsMap == Promise!Spec
=============================================================================
