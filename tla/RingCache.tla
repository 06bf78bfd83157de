----------------------------- MODULE RingCache -----------------------------
(***************************************************************************)
(* The two fixed-size result caches of sensors/sensor_mqtt.c: the policy   *)
(* cache (s_policy_cache / s_policy_cache_next) and the output cache       *)
(* (s_output_cache / s_output_cache_next).  Both are rings: a store goes   *)
(* into slot next % DEPTH whatever is there; a lookup scans the slots from *)
(* 0 up and returns the FIRST whose command_id matches, which need not be  *)
(* the one stored last.  Nothing is ever consumed or expired.              *)
(*                                                                         *)
(* A ring is a record: slots is a function whose domain is the set of used *)
(* slot numbers, next is s_*_cache_next modulo the depth.                  *)
(***************************************************************************)
EXTENDS Naturals

EmptyRing == [slots |-> [i \in {} |-> i], next |-> 0]

\* Mutant: the write position never moves on.
RingPutInPlace(ring, entry, depth) ==
    [slots |-> [i \in {ring.next} |-> entry], next |-> ring.next]

\* output_cache_store_json / policy_cache_store_json, the part under the mutex.
RingPut(ring, entry, depth) ==
    [slots |-> [i \in DOMAIN ring.slots \cup {ring.next} |->
                   IF i = ring.next THEN entry ELSE ring.slots[i]],
     next  |-> (ring.next + 1) % depth]

\* Mutant: the lookup takes any used slot.
RingMatchesAny(ring, id) == DOMAIN ring.slots

\* The slots the lookup loop would stop at.
RingMatches(ring, id) == {i \in DOMAIN ring.slots : ring.slots[i].id = id}

RingHas(ring, id) == RingMatches(ring, id) # {}

\* The lookup: the match with the lowest slot number.
RingFirst(ring, id) ==
    LET found == RingMatches(ring, id)
    IN  ring.slots[CHOOSE i \in found : \A j \in found : i <= j]

\* Every ring of that depth over the given entries.
IsRing(ring, Entry, depth) ==
    /\ ring.next \in 0 .. depth - 1
    /\ DOMAIN ring.slots \subseteq 0 .. depth - 1
    /\ \A i \in DOMAIN ring.slots : ring.slots[i] \in Entry
=============================================================================
