------------------------- MODULE SisRehydrator_proofs -------------------------
(***************************************************************************)
(* Lemmas about SisRehydrator, for any parts and payloads: the cache only  *)
(* grows, by validated parts, and neither acceptance nor refusal of an     *)
(* item is undone by a cache that has grown.                               *)
(***************************************************************************)
EXTENDS SisRehydrator, Positions

\* The cache holds validated parts, each under its own identifier.
GoodCache(cached) ==
  /\ cached \in [PartId -> Part \cup {NoPart}]
  /\ \A p \in PartId : cached[p] # NoPart => cached[p].id = p /\ cached[p].intact

\* The other cache holds what the first holds.
Grown(cached, other) ==
  \A p \in PartId : cached[p] # NoPart => other[p] = cached[p]

LEMMA PartFields ==
  ASSUME NEW parts \in Seq(Part), NEW k \in DOMAIN parts
  PROVE  parts[k] \in Part /\ parts[k].id \in PartId /\ parts[k] # NoPart
<1>1. parts[k] \in Part
  OBVIOUS
<1> QED
  BY <1>1, PartAssumption DEF Part

LEMMA EmptyCacheGood == GoodCache(EmptyCache)
  BY DEF EmptyCache, GoodCache

\* Two resolved parts of one identifier are the same part, and what was cached of
\* it is that part.
LEMMA ResolvedAgree ==
  ASSUME NEW cached, GoodCache(cached), NEW parts \in Seq(Part),
         NEW k \in Resolved(cached, parts)
  PROVE  /\ cached[parts[k].id] # NoPart => cached[parts[k].id] = parts[k]
         /\ \A j \in 1..(k - 1) : parts[j].id = parts[k].id => parts[j] = parts[k]
<1>1. Usable(cached, parts, k) /\ k \in Nat /\ k \in DOMAIN parts
  BY DEF Resolved
<1>2. \A j \in 1..(k - 1) : parts[j] \in Part /\ parts[j] # NoPart
  BY <1>1, PartAssumption
<1>3. ASSUME NEW part \in Known(cached, parts, k) PROVE part = parts[k]
  BY <1>1, <1>3 DEF Usable
<1>4. ASSUME cached[parts[k].id] # NoPart PROVE cached[parts[k].id] = parts[k]
  BY <1>3, <1>4 DEF Known
<1>5. ASSUME NEW j \in 1..(k - 1), parts[j].id = parts[k].id PROVE parts[j] = parts[k]
  <2>1. parts[j] \in Known(cached, parts, k)
    BY <1>2, <1>5 DEF Known
  <2> QED
    BY <2>1, <1>3
<1> QED
  BY <1>4, <1>5

LEMMA ResolvedUnique ==
  ASSUME NEW cached, GoodCache(cached), NEW parts \in Seq(Part),
         NEW j \in Resolved(cached, parts), NEW k \in Resolved(cached, parts),
         parts[j].id = parts[k].id
  PROVE  parts[j] = parts[k]
<1>1. j \in Nat \ {0} /\ k \in Nat \ {0}
  BY DEF Resolved
<1>2. j \in 1..(k - 1) \/ k \in 1..(j - 1) \/ j = k
  BY <1>1
<1> QED
  BY <1>2, ResolvedAgree

\* A resolved part was valid when it was met first, in the cache or in the item.
LEMMA ResolvedIntact ==
  ASSUME NEW cached, GoodCache(cached), NEW parts \in Seq(Part),
         NEW k \in Resolved(cached, parts)
  PROVE  parts[k] \in Part /\ parts[k].intact
<1> DEFINE Same == { j \in 1..k : parts[j].id = parts[k].id }
<1>1. k \in DOMAIN parts /\ k \in Nat \ {0} /\ parts[k] \in Part
  BY DEF Resolved
<1>2. PICK n \in Same : \A m \in Same : n <= m
  <2>1. k \in Same /\ Same \subseteq Nat
    BY <1>1
  <2> QED
    BY <2>1, LeastPosition
<1>3. n \in Resolved(cached, parts) /\ parts[n].id = parts[k].id
  BY <1>1, <1>2 DEF Resolved
<1>4. \A j \in 1..(n - 1) : parts[j].id # parts[n].id
  BY <1>1, <1>2, <1>3
<1>5. Usable(cached, parts, n)
  BY <1>1, <1>3 DEF Resolved
<1>6. CASE cached[parts[n].id] = NoPart
  <2>1. Known(cached, parts, n) = {}
    BY <1>4, <1>6 DEF Known
  <2> QED
    BY <2>1, <1>1, <1>3, <1>5, ResolvedUnique DEF Usable
<1>7. CASE cached[parts[n].id] # NoPart
  <2>1. parts[k].id \in PartId
    BY <1>1 DEF Part
  <2>2. cached[parts[n].id] = parts[k]
    <3>1. cached[parts[n].id] = parts[n]
      BY <1>3, <1>7, ResolvedAgree
    <3>2. parts[n] = parts[k]
      BY <1>3, ResolvedUnique
    <3> QED
      BY <3>1, <3>2
  <2> QED
    BY <2>1, <2>2, <1>1, <1>3, <1>7 DEF GoodCache
<1> QED
  BY <1>6, <1>7

\* What one item adds to the cache.
LEMMA CacheGrows ==
  ASSUME NEW cached, GoodCache(cached), NEW parts \in Seq(Part)
  PROVE  /\ GoodCache(CacheAfter(cached, parts))
         /\ Grown(cached, CacheAfter(cached, parts))
         /\ \A k \in Resolved(cached, parts) :
              CacheAfter(cached, parts)[parts[k].id] = parts[k]
<1> DEFINE new(p) == { parts[k] : k \in { k \in Resolved(cached, parts) : parts[k].id = p } }
           after == CacheAfter(cached, parts)
<1>1. \A p \in PartId :
        after[p] = IF cached[p] # NoPart \/ new(p) = {} THEN cached[p]
                   ELSE CHOOSE part \in new(p) : TRUE
  BY DEF CacheAfter
<1>2. ASSUME NEW p \in PartId, NEW part \in new(p)
      PROVE  part \in Part /\ part.id = p /\ part.intact
  BY <1>2, ResolvedIntact
<1>3. \A p \in PartId : new(p) # {} => (CHOOSE part \in new(p) : TRUE) \in new(p)
  OBVIOUS
<1> HIDE DEF new
<1>4. GoodCache(after)
  <2>1. after = [p \in PartId |-> after[p]]
    BY DEF CacheAfter
  <2>2. ASSUME NEW p \in PartId
        PROVE  /\ after[p] \in Part \cup {NoPart}
               /\ after[p] # NoPart => after[p].id = p /\ after[p].intact
    <3>1. CASE cached[p] # NoPart \/ new(p) = {}
      BY <1>1, <3>1 DEF GoodCache
    <3>2. CASE cached[p] = NoPart /\ new(p) # {}
      <4>1. after[p] \in new(p)
        BY <1>1, <1>3, <3>2
      <4> QED
        BY <4>1, <1>2
    <3> QED
      BY <3>1, <3>2
  <2> HIDE DEF after
  <2> QED
    BY <2>1, <2>2 DEF GoodCache
<1>5. Grown(cached, after)
  BY <1>1 DEF Grown
<1>6. ASSUME NEW k \in Resolved(cached, parts) PROVE after[parts[k].id] = parts[k]
  <2>1. parts[k].id \in PartId /\ parts[k] \in new(parts[k].id)
    BY ResolvedIntact DEF Part, new
  <2>2. \A part \in new(parts[k].id) : part = parts[k]
    BY ResolvedUnique DEF new
  <2>3. CASE cached[parts[k].id] # NoPart
    BY <1>1, <2>1, <2>3, ResolvedAgree
  <2>4. CASE cached[parts[k].id] = NoPart
    BY <1>1, <1>3, <2>1, <2>2, <2>4
  <2> QED
    BY <2>3, <2>4
<1> QED
  BY <1>4, <1>5, <1>6

\* Every part of the item is the cached one.
Covered(cached, parts) == \A k \in DOMAIN parts : cached[parts[k].id] = parts[k]

\* The rehydrator stops at some part of the item.
Blocked(cached, parts) == \E k \in DOMAIN parts : ~Usable(cached, parts, k)

LEMMA AcceptedIsCovered ==
  ASSUME NEW cached, GoodCache(cached), NEW parts \in Seq(Part), Rehydrates(cached, parts)
  PROVE  Covered(CacheAfter(cached, parts), parts)
  BY CacheGrows DEF Rehydrates, Covered

LEMMA CoveredRehydrates ==
  ASSUME NEW cached, GoodCache(cached), NEW parts \in Seq(Part), Covered(cached, parts)
  PROVE  Rehydrates(cached, parts)
<1>1. ASSUME NEW k \in DOMAIN parts PROVE Usable(cached, parts, k)
  <2>1. /\ parts[k] \in Part /\ parts[k] # NoPart /\ k \in Nat
        /\ cached[parts[k].id] = parts[k]
        /\ 1..(k - 1) \subseteq DOMAIN parts
    BY PartAssumption DEF Covered
  <2>2. \A j \in 1..(k - 1) : parts[j].id = parts[k].id => parts[j] = parts[k]
    BY <2>1 DEF Covered
  <2>3. Known(cached, parts, k) = { parts[k] }
    BY <2>1, <2>2 DEF Known
  <2> QED
    BY <2>3 DEF Usable
<1>2. \A k \in DOMAIN parts : 1..k \subseteq DOMAIN parts
  OBVIOUS
<1> QED
  BY <1>1, <1>2 DEF Rehydrates, Resolved

LEMMA CoveredGrows ==
  ASSUME NEW cached, NEW other, Grown(cached, other), NEW parts \in Seq(Part),
         Covered(cached, parts)
  PROVE  Covered(other, parts)
  BY PartFields DEF Covered, Grown

LEMMA RefusedIsBlocked ==
  ASSUME NEW cached, NEW parts \in Seq(Part)
  PROVE  ~Rehydrates(cached, parts) <=> Blocked(cached, parts)
<1>1. \A k \in DOMAIN parts : 1..k \subseteq DOMAIN parts /\ k \in 1..k
  OBVIOUS
<1> QED
  BY <1>1 DEF Rehydrates, Resolved, Blocked

\* A part that could not be used cannot be used later: what has become known of
\* its identifier is either the same or valid.
LEMMA BlockedGrows ==
  ASSUME NEW cached, GoodCache(cached), NEW other, GoodCache(other), Grown(cached, other),
         NEW parts \in Seq(Part), Blocked(cached, parts)
  PROVE  Blocked(other, parts)
<1>1. PICK k \in DOMAIN parts : ~Usable(cached, parts, k)
  BY DEF Blocked
<1>2. parts[k] \in Part /\ parts[k].id \in PartId
  BY PartFields
<1>3. Known(cached, parts, k) \subseteq Known(other, parts, k)
  BY <1>2 DEF Known, Grown
<1>4. CASE Known(cached, parts, k) = {}
  <2>1. ~parts[k].intact
    BY <1>1, <1>4 DEF Usable
  <2>2. \A part \in Known(other, parts, k) : part = other[parts[k].id] /\ part # NoPart
    <3>1. \A j \in 1..(k - 1) : parts[j].id = parts[k].id => parts[j] \notin Part
      BY <1>4, PartAssumption DEF Known
    <3>2. \A j \in 1..(k - 1) : parts[j] \in Part
      OBVIOUS
    <3> QED
      BY <3>1, <3>2 DEF Known
  <2>3. parts[k] \notin Known(other, parts, k)
    BY <1>2, <2>1, <2>2 DEF GoodCache
  <2> QED
    BY <2>1, <2>3 DEF Usable, Blocked
<1>5. CASE Known(cached, parts, k) # {}
  <2>1. \E part \in Known(cached, parts, k) : part # parts[k]
    BY <1>1, <1>5 DEF Usable
  <2> QED
    BY <1>3, <2>1 DEF Usable, Blocked
<1> QED
  BY <1>4, <1>5

=============================================================================
