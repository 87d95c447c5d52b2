--------------------------- MODULE SisRehydrator ---------------------------
(***************************************************************************)
(* SisRehydrator (migration_engine/rehydration/sis_rehydrator.py): the     *)
(* single-instance content parts of an item are resolved one after the     *)
(* other against a cache of validated parts.  The first part that cannot   *)
(* be used raises and the item is refused; the parts resolved before it    *)
(* stay cached.  A part is its identifier, its data, and whether its       *)
(* metadata (reference, size, sha256) is that of the data.                 *)
(***************************************************************************)
EXTENDS Naturals, Sequences

CONSTANTS
  PartId,   \* part identifiers
  Data,     \* payloads
  NoPart    \* the cache has no part of an identifier

Part == [id : PartId, data : Data, intact : BOOLEAN]

ASSUME PartAssumption == NoPart \notin Part

EmptyCache == [p \in PartId |-> NoPart]

\* What the cache holds for part k when the loop reaches it: the part cached
\* before, or by an earlier part of the same item.
Known(cached, parts, k) ==
  ({ cached[parts[k].id] } \cup
   { parts[j] : j \in { j \in 1..(k - 1) : parts[j].id = parts[k].id } }) \ { NoPart }

\* _matches_cache for a known part, _validate_content_part for a new one.
Usable(cached, parts, k) ==
  IF Known(cached, parts, k) = {}
    THEN parts[k].intact
    ELSE Known(cached, parts, k) = { parts[k] }

Resolved(cached, parts) ==
  { k \in DOMAIN parts : \A j \in 1..k : Usable(cached, parts, j) }

Rehydrates(cached, parts) == Resolved(cached, parts) = DOMAIN parts

\* Mutant: a part is cached before it is validated.
Visited(cached, parts) ==
  { k \in DOMAIN parts : \A j \in 1..(k - 1) : Usable(cached, parts, j) }

CachedEarly(cached, parts) ==
  [p \in PartId |->
    LET new == { parts[k] : k \in { k \in Visited(cached, parts) : parts[k].id = p } }
    IN  IF cached[p] # NoPart \/ new = {} THEN cached[p] ELSE CHOOSE part \in new : TRUE]

\* Whether or not the item is refused.
CacheAfter(cached, parts) ==
  [p \in PartId |->
    LET new == { parts[k] : k \in { k \in Resolved(cached, parts) : parts[k].id = p } }
    IN  IF cached[p] # NoPart \/ new = {} THEN cached[p] ELSE CHOOSE part \in new : TRUE]

=============================================================================
