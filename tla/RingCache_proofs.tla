-------------------------- MODULE RingCache_proofs --------------------------
(* What stores into a ring and lookups in it preserve and return, for every *)
(* depth and every set of entries.                                          *)
EXTENDS RingCache, Extrema

\* The empty ring is a ring of every positive depth.
LEMMA EmptyRingType ==
    ASSUME NEW Entry, NEW depth \in Nat \ {0}
    PROVE  IsRing(EmptyRing, Entry, depth)
BY DEF EmptyRing, IsRing

\* A store keeps a ring a ring: next wraps inside the depth, and the only new entry is
\* the one stored.
LEMMA RingPutType ==
    ASSUME NEW Entry, NEW depth \in Nat \ {0}, NEW ring, NEW e \in Entry,
           IsRing(ring, Entry, depth)
    PROVE  IsRing(RingPut(ring, e, depth), Entry, depth)
<1>1. /\ ring.next \in 0 .. depth - 1
      /\ DOMAIN ring.slots \subseteq 0 .. depth - 1
      /\ \A i \in DOMAIN ring.slots : ring.slots[i] \in Entry
  BY DEF IsRing
<1>2. (ring.next + 1) % depth \in 0 .. depth - 1
  BY <1>1
<1> QED  BY <1>1, <1>2 DEF IsRing, RingPut

\* A ring over some entries is a ring over more of them.
LEMMA RingMonotonic ==
    ASSUME NEW Entry, NEW More, Entry \subseteq More, NEW depth, NEW ring,
           IsRing(ring, Entry, depth)
    PROVE  IsRing(ring, More, depth)
BY DEF IsRing

\* A lookup that finds anything returns a stored entry with the id asked for.
LEMMA RingFirstFound ==
    ASSUME NEW Entry, NEW depth \in Nat \ {0}, NEW ring, NEW id,
           IsRing(ring, Entry, depth), RingHas(ring, id)
    PROVE  RingFirst(ring, id) \in Entry /\ RingFirst(ring, id).id = id
<1> DEFINE found == RingMatches(ring, id)
<1>1. found \in SUBSET Nat /\ found # {}
  BY DEF IsRing, RingHas, RingMatches
<1>2. \E i \in found : \A j \in found : i <= j
  BY <1>1, LeastElement
<1>3. (CHOOSE i \in found : \A j \in found : i <= j) \in found
  BY <1>2
<1> QED  BY <1>3 DEF RingFirst, RingMatches, IsRing
=============================================================================
