--------------------------- MODULE StaleEviction ---------------------------
(***************************************************************************)
(* What the entity store promises about entities that stop being reported. *)
(* README.md: "Stale entities (absent from 2 consecutive polls) are marked *)
(* removed".  An entity is live from the first poll that reports it; the   *)
(* first poll that misses it is forgiven, the second consecutive one       *)
(* removes it, and a poll that reports it wipes the slate clean.           *)
(***************************************************************************)
EXTENDS Naturals

CONSTANT EntityIDs

VARIABLES
  live,     \* the entities the store tracks
  misses    \* consecutive polls that missed the entity, 0 or 1 while it is live

vars == <<live, misses>>

Init ==
  /\ live = {}
  /\ misses = [id \in EntityIDs |-> 0]

(* One poll of the data source, reporting the entities in seen. *)
Poll(seen) ==
  /\ live' = seen \cup {id \in live : misses[id] = 0}
  /\ misses' = [id \in EntityIDs |-> IF id \in live' \ seen THEN 1 ELSE 0]

Next == \E seen \in SUBSET EntityIDs : Poll(seen)

Spec == Init /\ [][Next]_vars
=============================================================================
