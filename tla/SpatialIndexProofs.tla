------------------------- MODULE SpatialIndexProofs -------------------------
(***************************************************************************)
(* Proofs about SpatialIndex.tla, for every set of entities and positions, *)
(* every map from positions to cells and every number of copies.           *)
(*                                                                         *)
(* CountsMatch rests on what a slot is: the copies of an internal id in a  *)
(* cell are numbered without a gap at the end (CopiesCounted), so that a   *)
(* new slot is not already there and a job that drops one copy drops one.  *)
(* AnswersExact is read off LayersExact and CountsMatch, StaysFindable off *)
(* Filed.                                                                  *)
(***************************************************************************)
EXTENDS SpatialIndex, FiniteSetTheorems, TLAPS

(* A layer is a finite set of slots in cells of its resolution. *)
LayersFinite ==
  \A r \in Resolutions : IsFiniteSet(layers[r]) /\ \A s \in layers[r] : s.cell \in Cells[r]

(* No copy has a number above how many there are. *)
CopiesCounted ==
  \A r \in Resolutions : \A s \in layers[r] : s.copy <= Cardinality(Copies(r, s.cell, s.id))

(* All positions come from the feed. *)
FromFeed ==
  /\ \A n \in DOMAIN entities : entities[n] \in feed.positions
  /\ \A id \in DOMAIN pending : pending[id] \in feed.positions
  /\ DOMAIN pending \subseteq feed.ids

(* An entity is filed wherever its position has a cell. *)
Filed ==
  \A r \in Resolutions : \A n \in DOMAIN entities :
    entityCells[n][r] # NoCell => \E s \in layers[r] : s.cell = entityCells[n][r] /\ s.id = n

IInv ==
  /\ TypeOK /\ LayersFinite /\ CopiesCounted /\ CountsMatch
  /\ FromFeed /\ Filed /\ LayersExact

-----------------------------------------------------------------------------
(* Sets of slots: replacing some, and dropping the copies with the highest *)
(* numbers.                                                                *)
LEMMA Replaced ==
  ASSUME NEW L, NEW left, NEW entered, IsFiniteSet(L), left \subseteq L,
         IsFiniteSet(entered), entered \cap L = {}
  PROVE  /\ IsFiniteSet((L \ left) \cup entered)
         /\ Cardinality((L \ left) \cup entered) =
              Recounted(Cardinality(L), left, entered)
<1>1. L \cap left = left
  OBVIOUS
<1>2. IsFiniteSet(L \ left) /\ Cardinality(L \ left) = Cardinality(L) - Cardinality(left)
  BY <1>1, FS_Difference
<1>3. (L \ left) \cap entered = {}
  OBVIOUS
<1>4. /\ IsFiniteSet((L \ left) \cup entered)
      /\ Cardinality((L \ left) \cup entered) =
           Cardinality(L \ left) + Cardinality(entered) - Cardinality({})
  BY <1>2, <1>3, FS_Union
<1>5. IsFiniteSet(left)
  BY FS_Subset
<1>6. /\ Cardinality(L) \in Nat /\ Cardinality(left) \in Nat /\ Cardinality(entered) \in Nat
      /\ Cardinality({}) = 0
  BY <1>5, FS_CardinalityType, FS_EmptySet
<1> QED
  BY <1>2, <1>4, <1>6 DEF Recounted

Highest(C, k) == {s \in C : s.copy > Cardinality(C) - k}

(* If no copy has a number above how many there are, at most k of them are *)
(* among the k highest numbers, and the others are as many as they number. *)
LEMMA DropHighest ==
  ASSUME NEW cells, NEW ids, NEW c, NEW n, NEW k \in Nat,
         NEW C \in SUBSET [cell : cells, id : ids, copy : Nat], IsFiniteSet(C),
         \A s \in C : s.cell = c /\ s.id = n /\ s.copy <= Cardinality(C)
  PROVE  \A s \in C \ Highest(C, k) : s.copy <= Cardinality(C \ Highest(C, k))
<1> DEFINE D == Highest(C, k)
           top == (Cardinality(C) - k + 1) .. Cardinality(C)
           number == [s \in D |-> s.copy]
<1>1. Cardinality(C) \in Nat
  BY FS_CardinalityType
<1>2. IsFiniteSet(top) /\ Cardinality(top) = k
  <2>1. Cardinality(C) - k + 1 \in Int /\ Cardinality(C) \in Int
    BY <1>1
  <2> QED
    BY <1>1, <2>1, FS_Interval
<1>3. D \subseteq C /\ \A s \in D : s.copy \in Nat /\ s.copy > Cardinality(C) - k
  BY DEF Highest
<1>4. \A s \in D : s.copy \in top
  BY <1>1, <1>3
<1>5. \A s, t \in D : s.copy = t.copy => s = t
  <2> SUFFICES ASSUME NEW s \in D, NEW t \in D, s.copy = t.copy
               PROVE  s = t
    OBVIOUS
  <2>1. /\ s \in [cell : cells, id : ids, copy : Nat] /\ t \in [cell : cells, id : ids, copy : Nat]
        /\ s.cell = t.cell /\ s.id = t.id
    BY <1>3
  <2> QED
    BY <2>1
<1>6. number \in Injection(D, top)
  BY <1>4, <1>5 DEF Injection, IsInjective
<1>7. IsFiniteSet(D) /\ Cardinality(D) <= k
  BY <1>2, <1>6, FS_Injection
<1>8. C \cap D = D
  BY <1>3
<1>9. Cardinality(C \ D) = Cardinality(C) - Cardinality(D)
  BY <1>8, FS_Difference
<1>10. Cardinality(D) \in Nat
  BY <1>7, FS_CardinalityType
<1> SUFFICES ASSUME NEW s \in C \ D PROVE s.copy <= Cardinality(C \ D)
  OBVIOUS
<1>11. s.copy \in Nat /\ ~(s.copy > Cardinality(C) - k)
  BY DEF Highest
<1> QED
  BY <1>1, <1>7, <1>9, <1>10, <1>11

(* Slots that leave and slots that enter, counted per cell and resolution, *)
(* leave layers finite and counts that match them.                         *)
LEMMA CountsFollow ==
  ASSUME LayersFinite, CountsMatch,
         NEW left, NEW entered,
         \A r \in Resolutions :
           /\ left[r] \subseteq layers[r] /\ entered[r] \cap layers[r] = {}
           /\ IsFiniteSet(entered[r]) /\ \A s \in entered[r] : s.cell \in Cells[r]
           /\ layers'[r] = (layers[r] \ left[r]) \cup entered[r]
           /\ totalGlobalCounts'[r] = Recounted(totalGlobalCounts[r], left[r], entered[r])
           /\ \A c \in Cells[r] : globalCellCounts'[r][c] =
                Recounted(globalCellCounts[r][c], InCell(left[r], c), InCell(entered[r], c))
  PROVE  LayersFinite' /\ CountsMatch'
<1> SUFFICES ASSUME NEW r \in Resolutions
             PROVE  /\ IsFiniteSet(layers'[r])
                    /\ \A s \in layers'[r] : s.cell \in Cells[r]
                    /\ totalGlobalCounts'[r] = Cardinality(layers'[r])
                    /\ \A c \in Cells[r] :
                         globalCellCounts'[r][c] = Cardinality(InCell(layers'[r], c))
  BY DEF LayersFinite, CountsMatch
<1>1. /\ IsFiniteSet(layers[r]) /\ \A s \in layers[r] : s.cell \in Cells[r]
      /\ totalGlobalCounts[r] = Cardinality(layers[r])
      /\ \A c \in Cells[r] : globalCellCounts[r][c] = Cardinality(InCell(layers[r], c))
  BY DEF LayersFinite, CountsMatch
<1>2. /\ IsFiniteSet(layers'[r])
      /\ Cardinality(layers'[r]) = Recounted(Cardinality(layers[r]), left[r], entered[r])
  BY <1>1, Replaced
<1>3. ASSUME NEW c \in Cells[r]
      PROVE  globalCellCounts'[r][c] = Cardinality(InCell(layers'[r], c))
  <2>1. InCell(layers'[r], c) =
          (InCell(layers[r], c) \ InCell(left[r], c)) \cup InCell(entered[r], c)
    BY DEF InCell
  <2>2. /\ IsFiniteSet(InCell(layers[r], c)) /\ IsFiniteSet(InCell(entered[r], c))
        /\ InCell(left[r], c) \subseteq InCell(layers[r], c)
        /\ InCell(entered[r], c) \cap InCell(layers[r], c) = {}
    <3>1. InCell(layers[r], c) \in SUBSET layers[r] /\ InCell(entered[r], c) \in SUBSET entered[r]
      BY DEF InCell
    <3> QED
      BY <1>1, <3>1, FS_Subset DEF InCell
  <2>3. Cardinality(InCell(layers'[r], c)) =
          Recounted(Cardinality(InCell(layers[r], c)), InCell(left[r], c), InCell(entered[r], c))
    BY <2>1, <2>2, Replaced
  <2> QED
    BY <1>1, <2>3
<1>4. \A s \in layers'[r] : s.cell \in Cells[r]
  BY <1>1
<1> QED
  BY <1>1, <1>2, <1>3, <1>4

-----------------------------------------------------------------------------
(* The removals: what is left of each map, and of each layer.              *)

(* Entities named by the removed ids go, from all three maps at once.      *)
LEMMA MapsAfterRemoval ==
  ASSUME TypeOK, NEW batch, NEW removed, BatchUpdateRust(batch, removed)
  PROVE  LET doomed == IF IsFresh(batch) THEN {} ELSE Doomed(removed)
         IN /\ doomed \subseteq DOMAIN entities /\ IsFiniteSet(doomed)
            /\ entities' = [n \in DOMAIN entities \ doomed |-> entities[n]]
            /\ entityCells' = [n \in DOMAIN entities \ doomed |-> entityCells[n]]
            /\ entityIDToInternalID' =
                 [id \in DOMAIN entityIDToInternalID \ removed |-> entityIDToInternalID[id]]
            /\ \A id \in DOMAIN entityIDToInternalID :
                 entityIDToInternalID[id] \in doomed <=> id \in removed
<1> DEFINE doomed == IF IsFresh(batch) THEN {} ELSE Doomed(removed)
<1>1. entityIDToInternalID \in [DOMAIN entityIDToInternalID -> DOMAIN entities]
  BY DEF TypeOK
<1>2. doomed \subseteq DOMAIN entities
  BY <1>1 DEF Doomed
<1>3. IsFiniteSet(doomed)
  <2>1. doomed \in SUBSET (1 .. idCounter) /\ idCounter \in Int
    BY <1>2 DEF TypeOK
  <2>2. IsFiniteSet(1 .. idCounter)
    BY <2>1, FS_Interval
  <2> HIDE DEF doomed
  <2> QED
    BY <2>1, <2>2, FS_Subset
<1>4. DOMAIN entityCells = DOMAIN entities
  BY DEF TypeOK
<1>5. CASE IsFresh(batch)
  <2>1. DOMAIN entities = {} /\ DOMAIN entityIDToInternalID = {} /\ doomed = {}
    BY <1>1, <1>5 DEF IsFresh, Nothing
  <2>2. entities' = Nothing /\ entityCells' = Nothing /\ entityIDToInternalID' = Nothing
    BY <1>5 DEF BatchUpdateRust
  <2> QED
    BY <1>3, <2>1, <2>2 DEF Nothing
<1>6. CASE ~IsFresh(batch)
  <2>1. doomed = Doomed(removed)
    BY <1>6
  <2>2. /\ entities' = Without(entities, doomed)
        /\ entityCells' = Without(entityCells, doomed)
        /\ entityIDToInternalID' = Without(entityIDToInternalID, removed)
    BY <1>6 DEF BatchUpdateRust
  <2>3. \A a, b \in DOMAIN entityIDToInternalID :
          entityIDToInternalID[a] = entityIDToInternalID[b] => a = b
    BY DEF TypeOK
  <2>4. \A id \in DOMAIN entityIDToInternalID :
          entityIDToInternalID[id] \in doomed <=> id \in removed
    BY <2>1, <2>3 DEF Doomed
  <2> QED
    BY <1>2, <1>3, <1>4, <2>2, <2>4 DEF Without
<1> QED
  BY <1>5, <1>6

(* The slots that go are doomed entities'; of an entity that stays, none.  *)
LEMMA RemovalInv ==
  ASSUME IInv, NEW removed, NEW batch,
         batch \in [DOMAIN batch -> feed.positions], DOMAIN batch \subseteq feed.ids,
         BatchUpdateRust(batch, removed)
  PROVE  IInv'
<1> DEFINE doomed == IF IsFresh(batch) THEN {} ELSE Doomed(removed)
           gone == [r \in Resolutions |-> Deleted(r, doomed)]
<1>1. /\ doomed \subseteq DOMAIN entities /\ IsFiniteSet(doomed)
      /\ entities' = [n \in DOMAIN entities \ doomed |-> entities[n]]
      /\ entityCells' = [n \in DOMAIN entities \ doomed |-> entityCells[n]]
      /\ entityIDToInternalID' =
           [id \in DOMAIN entityIDToInternalID \ removed |-> entityIDToInternalID[id]]
      /\ \A id \in DOMAIN entityIDToInternalID :
           entityIDToInternalID[id] \in doomed <=> id \in removed
  BY MapsAfterRemoval DEF IInv
<1>2. /\ layers' = [r \in Resolutions |-> layers[r] \ gone[r]]
      /\ globalCellCounts' =
           [r \in Resolutions |-> [c \in Cells[r] |->
              globalCellCounts[r][c] - Cardinality(InCell(gone[r], c))]]
      /\ totalGlobalCounts' =
           [r \in Resolutions |-> totalGlobalCounts[r] - Cardinality(gone[r])]
      /\ pending' = batch /\ UNCHANGED <<idCounter, feed>>
  BY DEF BatchUpdateRust
<1>3. \A r \in Resolutions :
        gone[r] \subseteq layers[r] /\ \A s \in gone[r] : s.id \in doomed
  BY DEF Deleted
<1> HIDE DEF doomed, gone
<1>4. LayersFinite' /\ CountsMatch'
  <2> DEFINE none == [r \in Resolutions |-> {}]
  <2>1. \A r \in Resolutions :
          /\ IsFiniteSet(gone[r]) /\ Cardinality(gone[r]) \in Nat
          /\ \A c : Cardinality(InCell(gone[r], c)) \in Nat
    <3> SUFFICES ASSUME NEW r \in Resolutions, NEW c
                 PROVE  /\ IsFiniteSet(gone[r]) /\ Cardinality(gone[r]) \in Nat
                        /\ Cardinality(InCell(gone[r], c)) \in Nat
      OBVIOUS
    <3>1. IsFiniteSet(layers[r]) /\ gone[r] \in SUBSET layers[r]
      BY <1>3 DEF IInv, LayersFinite
    <3>2. InCell(gone[r], c) \in SUBSET layers[r]
      BY <1>3 DEF InCell
    <3> QED
      BY <3>1, <3>2, FS_Subset, FS_CardinalityType
  <2>2. \A r \in Resolutions :
          /\ totalGlobalCounts[r] \in Int
          /\ \A c \in Cells[r] : globalCellCounts[r][c] \in Int
    BY DEF IInv, TypeOK
  <2>3. \A r \in Resolutions :
           /\ gone[r] \subseteq layers[r] /\ none[r] \cap layers[r] = {}
           /\ IsFiniteSet(none[r]) /\ \A s \in none[r] : s.cell \in Cells[r]
           /\ layers'[r] = (layers[r] \ gone[r]) \cup none[r]
    BY <1>2, <1>3, FS_EmptySet
  <2>4. ASSUME NEW r \in Resolutions
        PROVE  /\ totalGlobalCounts'[r] = Recounted(totalGlobalCounts[r], gone[r], none[r])
               /\ \A c \in Cells[r] : globalCellCounts'[r][c] =
                    Recounted(globalCellCounts[r][c], InCell(gone[r], c), InCell(none[r], c))
    <3>1. \A count \in Int : \A S : Cardinality(S) \in Nat =>
            Recounted(count, S, {}) = count - Cardinality(S)
      BY FS_EmptySet DEF Recounted
    <3>2. /\ none[r] = {} /\ \A c : InCell(none[r], c) = {}
      BY DEF InCell
    <3>3. totalGlobalCounts'[r] = totalGlobalCounts[r] - Cardinality(gone[r])
      BY <1>2
    <3>4. \A c \in Cells[r] : globalCellCounts'[r][c] =
            globalCellCounts[r][c] - Cardinality(InCell(gone[r], c))
      BY <1>2
    <3> HIDE DEF none
    <3>5. totalGlobalCounts'[r] = Recounted(totalGlobalCounts[r], gone[r], none[r])
      BY <2>1, <2>2, <3>1, <3>2, <3>3
    <3>6. ASSUME NEW c \in Cells[r]
          PROVE  globalCellCounts'[r][c] =
                   Recounted(globalCellCounts[r][c], InCell(gone[r], c), InCell(none[r], c))
      <4>1. /\ globalCellCounts[r][c] \in Int /\ Cardinality(InCell(gone[r], c)) \in Nat
            /\ InCell(none[r], c) = {}
        BY <2>1, <2>2, <3>2
      <4> QED
        BY <3>1, <3>4, <4>1
    <3> QED
      BY <3>5, <3>6
  <2> HIDE DEF none
  <2> QED
    BY <2>3, <2>4, CountsFollow DEF IInv
<1>5. TypeOK'
  <2> USE DEF IInv, TypeOK
  <2>1. DOMAIN entities' \subseteq 1 .. idCounter' /\ entities' \in [DOMAIN entities' -> Positions]
    BY <1>1, <1>2
  <2>2. layers' \in [Resolutions -> SUBSET Slot']
    BY <1>2 DEF Slot, MaxInternal
  <2>3. /\ DOMAIN globalCellCounts' = Resolutions
        /\ \A r \in Resolutions : globalCellCounts'[r] \in [Cells[r] -> Int]
        /\ totalGlobalCounts' \in [Resolutions -> Int]
    <3>1. \A r \in Resolutions :
            /\ Cardinality(gone[r]) \in Nat
            /\ \A c : Cardinality(InCell(gone[r], c)) \in Nat
      <4> SUFFICES ASSUME NEW r \in Resolutions, NEW c
                   PROVE  /\ Cardinality(gone[r]) \in Nat
                          /\ Cardinality(InCell(gone[r], c)) \in Nat
        OBVIOUS
      <4>1. IsFiniteSet(layers[r]) /\ gone[r] \in SUBSET layers[r]
        BY <1>3 DEF LayersFinite
      <4>2. InCell(gone[r], c) \in SUBSET layers[r]
        BY <1>3 DEF InCell
      <4> QED
        BY <4>1, <4>2, FS_Subset, FS_CardinalityType
    <3>2. \A r \in Resolutions : globalCellCounts[r] \in [Cells[r] -> Int]
      OBVIOUS
    <3>3. \A r \in Resolutions :
            globalCellCounts'[r] = [c \in Cells[r] |->
                                      globalCellCounts[r][c] - Cardinality(InCell(gone[r], c))]
      BY <1>2
    <3>4. ASSUME NEW r \in Resolutions
          PROVE  globalCellCounts'[r] \in [Cells[r] -> Int]
      <4>1. \A c \in Cells[r] :
              globalCellCounts[r][c] \in Int /\ Cardinality(InCell(gone[r], c)) \in Nat
        BY <3>1, <3>2
      <4> DEFINE left(c) == globalCellCounts[r][c] - Cardinality(InCell(gone[r], c))
      <4>2. \A c \in Cells[r] : left(c) \in Int
        BY <4>1
      <4>3. globalCellCounts'[r] = [c \in Cells[r] |-> left(c)]
        BY <3>3
      <4> HIDE DEF left
      <4> QED
        BY <4>2, <4>3
    <3>5. totalGlobalCounts' \in [Resolutions -> Int]
      BY <1>2, <3>1
    <3> QED
      BY <1>2, <3>4, <3>5
  <2>4. idCounter' \in 0 .. MaxInternal' /\ feed' \in Feeds
    BY <1>2 DEF MaxInternal
  <2>5. /\ DOMAIN entityIDToInternalID' \subseteq EntityIDs
        /\ entityIDToInternalID' \in [DOMAIN entityIDToInternalID' -> DOMAIN entities']
        /\ \A a, b \in DOMAIN entityIDToInternalID' :
             entityIDToInternalID'[a] = entityIDToInternalID'[b] => a = b
    BY <1>1
  <2>6. \A n \in DOMAIN entities' : \E id \in DOMAIN entityIDToInternalID' :
          entityIDToInternalID'[id] = n
    <3> SUFFICES ASSUME NEW n \in DOMAIN entities \ doomed
                 PROVE  \E id \in DOMAIN entityIDToInternalID' : entityIDToInternalID'[id] = n
      BY <1>1
    <3>1. PICK id \in DOMAIN entityIDToInternalID : entityIDToInternalID[id] = n
      OBVIOUS
    <3> QED
      BY <1>1, <3>1
  <2>7. entityCells' = [n \in DOMAIN entities' |-> CellOf[entities'[n]]]
    BY <1>1
  <2>8. DOMAIN pending' \subseteq EntityIDs /\ pending' \in [DOMAIN pending' -> Positions]
    <3>1. feed \in [ids : SUBSET EntityIDs, positions : SUBSET Positions]
      BY FeedsAssumption
    <3> QED
      BY <1>2, <3>1
  <2> QED
    BY <2>1, <2>2, <2>3, <2>4, <2>5, <2>6, <2>7, <2>8
<1>6. CopiesCounted'
  <2> SUFFICES ASSUME NEW r \in Resolutions, NEW s \in layers'[r]
               PROVE  s.copy <= Cardinality(Copies(r, s.cell, s.id)')
    BY DEF CopiesCounted
  <2> DEFINE C == Copies(r, s.cell, s.id)
             k == Cardinality({n \in doomed : entityCells[n][r] = s.cell})
  <2>1. s \in layers[r] /\ s \notin gone[r]
    BY <1>2
  <2>2. /\ C \in SUBSET layers[r] /\ s \in C
        /\ \A t \in C : t.cell = s.cell /\ t.id = s.id /\ t.copy <= Cardinality(C)
    BY <2>1 DEF Copies, IInv, CopiesCounted
  <2>3. IsFiniteSet(C)
    BY <2>2, FS_Subset DEF IInv, LayersFinite
  <2>4. k \in Nat
    BY <1>1, FS_Subset, FS_CardinalityType
  <2>5. C \in SUBSET [cell : AllCells, id : 1 .. MaxInternal, copy : Nat]
    BY <2>2 DEF IInv, TypeOK, Slot
  <2>6. CASE s.id \in doomed
    <3>0. \A t \in C : t \in gone[r] <=> t \in Highest(C, k)
      BY <2>2, <2>6 DEF gone, Deleted, Highest
    <3>1. Copies(r, s.cell, s.id)' = C \ Highest(C, k)
      BY <1>2, <3>0 DEF Copies
    <3>2. s \in C \ Highest(C, k)
      BY <2>1, <2>2, <2>6 DEF gone, Deleted, Highest
    <3> HIDE DEF C, k
    <3>3. \A t \in C \ Highest(C, k) : t.copy <= Cardinality(C \ Highest(C, k))
      BY <2>2, <2>3, <2>4, <2>5, DropHighest
    <3> QED
      BY <3>1, <3>2, <3>3
  <2>7. CASE s.id \notin doomed
    <3>1. Copies(r, s.cell, s.id)' = C
      BY <1>2, <1>3, <2>7 DEF Copies
    <3> QED
      BY <2>2, <3>1
  <2> QED
    BY <2>6, <2>7
<1>7. FromFeed'
  BY <1>1, <1>2 DEF IInv, FromFeed
<1>8. Filed'
  <2> SUFFICES ASSUME NEW r \in Resolutions, NEW n \in DOMAIN entities \ doomed,
                      entityCells'[n][r] # NoCell
               PROVE  \E s \in layers'[r] : s.cell = entityCells'[n][r] /\ s.id = n
    BY <1>1 DEF Filed
  <2>1. entityCells'[n] = entityCells[n]
    BY <1>1
  <2>2. PICK s \in layers[r] : s.cell = entityCells[n][r] /\ s.id = n
    BY <2>1 DEF IInv, Filed
  <2> QED
    BY <1>2, <1>3, <2>1, <2>2
<1>9. LayersExact'
  <2> SUFFICES ASSUME FeedIsValid', NEW r \in Resolutions
               PROVE  layers'[r] = {[cell |-> entityCells'[n][r], id |-> n, copy |-> 1] :
                                      n \in DOMAIN entities'}
    BY DEF LayersExact
  <2> DEFINE slot(n) == [cell |-> entityCells[n][r], id |-> n, copy |-> 1]
  <2>1. layers[r] = {slot(n) : n \in DOMAIN entities}
    BY <1>2 DEF IInv, LayersExact, FeedIsValid
  <2>2. ASSUME NEW n \in doomed PROVE slot(n) \in gone[r]
    <3>1. /\ slot(n) \in layers[r]
          /\ slot(n).id = n /\ slot(n).copy = 1 /\ slot(n).cell = entityCells[n][r]
      BY <1>1, <2>1
    <3>2. Copies(r, entityCells[n][r], n) = {slot(n)}
      <4>1. \A s \in layers[r] : s.id = n => s = slot(n)
        BY <2>1
      <4>2. slot(n) \in Copies(r, entityCells[n][r], n)
        BY <3>1 DEF Copies
      <4> QED
        BY <4>1, <4>2 DEF Copies
    <3>3. Cardinality(Copies(r, entityCells[n][r], n)) = 1
      BY <3>2, FS_Singleton
    <3> DEFINE jobs == {m \in doomed : entityCells[m][r] = entityCells[n][r]}
    <3>4. Cardinality(jobs) \in Nat /\ Cardinality(jobs) # 0
      <4>1. IsFiniteSet(jobs) /\ n \in jobs
        BY <1>1, FS_Subset
      <4> QED
        BY <4>1, FS_CardinalityType, FS_EmptySet
    <3> HIDE DEF slot
    <3> QED
      BY <3>1, <3>3, <3>4 DEF gone, Deleted
  <2>3. layers'[r] = {slot(n) : n \in DOMAIN entities \ doomed}
    BY <1>2, <1>3, <2>1, <2>2
  <2>4. /\ DOMAIN entities' = DOMAIN entities \ doomed
        /\ \A n \in DOMAIN entities \ doomed : entityCells'[n] = entityCells[n]
    BY <1>1
  <2> QED
    BY <2>3, <2>4
<1> QED
  BY <1>4, <1>5, <1>6, <1>7, <1>8, <1>9 DEF IInv

-----------------------------------------------------------------------------
(* The insertions: an entity's internal id is its own.                     *)
LEMMA InternalID ==
  ASSUME TypeOK, NEW id, Insert(id)
  PROVE  LET n == getInternalID(id)
         IN /\ n \in 1 .. MaxInternal /\ MaxInternal \in Nat
            /\ n \in DOMAIN entities <=> id \in DOMAIN entityIDToInternalID
            /\ id \in DOMAIN entityIDToInternalID => n = entityIDToInternalID[id]
            /\ id \notin DOMAIN entityIDToInternalID => n = idCounter + 1
            /\ \A other \in DOMAIN entityIDToInternalID :
                 entityIDToInternalID[other] = n => other = id
<1> DEFINE n == getInternalID(id)
<1>1. MaxInternal \in Nat
  <2>1. feed.ids \in SUBSET EntityIDs
    BY FeedsAssumption DEF TypeOK
  <2>2. Cardinality(feed.ids) \in Nat
    BY <2>1, FiniteAssumption, FS_Subset, FS_CardinalityType
  <2> QED
    BY <2>2, BoundsAssumption DEF MaxInternal
<1>2. n <= MaxInternal /\ idCounter \in Nat
  BY DEF Insert, TypeOK
<1>3. /\ DOMAIN entities \subseteq 1 .. idCounter
      /\ \A other \in DOMAIN entityIDToInternalID :
           entityIDToInternalID[other] \in DOMAIN entities
      /\ \A a, b \in DOMAIN entityIDToInternalID :
           entityIDToInternalID[a] = entityIDToInternalID[b] => a = b
  BY DEF TypeOK
<1>4. CASE id \in DOMAIN entityIDToInternalID
  <2>1. n = entityIDToInternalID[id]
    BY <1>4 DEF getInternalID
  <2> HIDE DEF n
  <2>2. n \in 1 .. idCounter /\ n \in DOMAIN entities
    BY <1>3, <1>4, <2>1
  <2> QED
    BY <1>1, <1>2, <1>3, <1>4, <2>1, <2>2 DEF n
<1>5. CASE id \notin DOMAIN entityIDToInternalID
  <2>1. n = idCounter + 1
    BY <1>5 DEF getInternalID
  <2> HIDE DEF n
  <2>2. n \notin 1 .. idCounter /\ n >= 1
    BY <1>2, <2>1
  <2> QED
    BY <1>1, <1>2, <1>3, <1>5, <2>1, <2>2 DEF n
<1> QED
  BY <1>4, <1>5

(* What leaves and what enters a layer: at most one slot each, of this     *)
(* entity, the new one not there yet.                                      *)
LEMMA SlotsMoved ==
  ASSUME TypeOK, LayersFinite, CopiesCounted, NEW r \in Resolutions,
         NEW n \in 1 .. MaxInternal, NEW c \in Cells[r]
  PROVE  /\ OldSlot(r, n) \subseteq layers[r] /\ \A s \in OldSlot(r, n) : s.id = n
         /\ NewSlot(r, n, c) \notin layers[r]
         /\ NewSlot(r, n, c) \in Slot
         /\ \A d, m : IsFiniteSet(Copies(r, d, m))
<1>1. \A d, m : IsFiniteSet(Copies(r, d, m)) /\ Cardinality(Copies(r, d, m)) \in Nat
  <2> SUFFICES ASSUME NEW d, NEW m
               PROVE  IsFiniteSet(Copies(r, d, m)) /\ Cardinality(Copies(r, d, m)) \in Nat
    OBVIOUS
  <2>1. Copies(r, d, m) \in SUBSET layers[r]
    BY DEF Copies
  <2> QED
    BY <2>1, FS_Subset, FS_CardinalityType DEF LayersFinite
<1>2. OldSlot(r, n) \subseteq layers[r] /\ \A s \in OldSlot(r, n) : s.id = n
  BY DEF OldSlot, Copies
<1> DEFINE s == NewSlot(r, n, c)
<1>3. s.cell = c /\ s.id = n /\ s.copy = Cardinality(Copies(r, c, n)) + 1
  BY DEF NewSlot
<1>4. s \notin layers[r]
  <2>1. \A t \in layers[r] : t.copy <= Cardinality(Copies(r, t.cell, t.id))
    BY DEF CopiesCounted
  <2> HIDE DEF s
  <2> SUFFICES ASSUME s \in layers[r] PROVE FALSE
    OBVIOUS
  <2>2. s.copy <= Cardinality(Copies(r, c, n))
    BY <1>3, <2>1
  <2> QED
    BY <1>1, <1>3, <2>2
<1>5. s \in Slot
  <2>1. c \in AllCells
    BY DEF AllCells
  <2>2. Cardinality(Copies(r, c, n)) + 1 \in Nat
    BY <1>1
  <2> QED
    BY <2>1, <2>2 DEF NewSlot, Slot
<1> QED
  BY <1>1, <1>2, <1>4, <1>5

(* The next entity is inserted, moved, or left where it is.                *)
LEMMA InsertInv ==
  ASSUME IInv, NEW id, Insert(id)
  PROVE  IInv'
<1> DEFINE n == getInternalID(id)
           new == CellOf[pending[id]]
           refiled == Refiled(n, new)
           left == [r \in Resolutions |-> IF r \in refiled THEN OldSlot(r, n) ELSE {}]
           entered == [r \in Resolutions |->
                         IF r \in refiled THEN {NewSlot(r, n, new[r])} ELSE {}]
<1>1. /\ n \in 1 .. MaxInternal /\ MaxInternal \in Nat
      /\ n \in DOMAIN entities <=> id \in DOMAIN entityIDToInternalID
      /\ id \in DOMAIN entityIDToInternalID => n = entityIDToInternalID[id]
      /\ id \notin DOMAIN entityIDToInternalID => n = idCounter + 1
      /\ \A other \in DOMAIN entityIDToInternalID :
           entityIDToInternalID[other] = n => other = id
  BY InternalID DEF IInv
<1>2. /\ layers' = [r \in Resolutions |-> (layers[r] \ left[r]) \cup entered[r]]
      /\ globalCellCounts' =
           [r \in Resolutions |-> [c \in Cells[r] |->
              Recounted(globalCellCounts[r][c], InCell(left[r], c), InCell(entered[r], c))]]
      /\ totalGlobalCounts' =
           [r \in Resolutions |-> Recounted(totalGlobalCounts[r], left[r], entered[r])]
  BY DEF Insert
<1>3. /\ id \in DOMAIN pending
      /\ entities' = With(entities, n, pending[id])
      /\ entityCells' = With(entityCells, n, new)
      /\ entityIDToInternalID' = With(entityIDToInternalID, id, n)
      /\ idCounter' = IF n > idCounter THEN n ELSE idCounter
      /\ pending' = Without(pending, {id})
      /\ UNCHANGED feed
  BY DEF Insert
<1>4. /\ pending[id] \in Positions /\ pending[id] \in feed.positions
      /\ \A r \in Resolutions : new[r] \in Cells[r] \cup {NoCell}
  BY <1>3, CellOfAssumption DEF IInv, TypeOK, FromFeed
<1>5. \A r \in Resolutions :
        /\ r \in refiled => left[r] = OldSlot(r, n) /\ entered[r] = {NewSlot(r, n, new[r])}
        /\ r \notin refiled => left[r] = {} /\ entered[r] = {}
        /\ r \in refiled <=> new[r] # NoCell /\ (n \in DOMAIN entities => entityCells[n][r] # new[r])
  BY DEF Refiled
<1> HIDE DEF n, new, refiled, left, entered
<1>6. ASSUME NEW r \in Resolutions, r \in refiled
      PROVE  /\ left[r] \subseteq layers[r] /\ \A s \in left[r] : s.id = n
             /\ new[r] \in Cells[r]
             /\ NewSlot(r, n, new[r]) \notin layers[r]
             /\ NewSlot(r, n, new[r]) \in Slot
  <2>1. new[r] \in Cells[r]
    BY <1>4, <1>5, <1>6
  <2> QED
    BY <1>1, <1>5, <1>6, <2>1, SlotsMoved DEF IInv
<1>7. \A r \in Resolutions :
        /\ left[r] \subseteq layers[r] /\ \A s \in left[r] : s.id = n
        /\ entered[r] \cap layers[r] = {} /\ IsFiniteSet(entered[r])
        /\ \A s \in entered[r] : s.id = n /\ s.cell \in Cells[r] /\ s \in Slot
  <2> SUFFICES ASSUME NEW r \in Resolutions
               PROVE  /\ left[r] \subseteq layers[r] /\ \A s \in left[r] : s.id = n
                      /\ entered[r] \cap layers[r] = {} /\ IsFiniteSet(entered[r])
                      /\ \A s \in entered[r] : s.id = n /\ s.cell \in Cells[r] /\ s \in Slot
    OBVIOUS
  <2>1. CASE r \in refiled
    <3>1. NewSlot(r, n, new[r]).id = n /\ NewSlot(r, n, new[r]).cell = new[r]
      BY DEF NewSlot
    <3>2. entered[r] = {NewSlot(r, n, new[r])}
      BY <1>5, <2>1
    <3>3. IsFiniteSet(entered[r])
      BY <3>2, FS_Singleton
    <3>4. left[r] \subseteq layers[r] /\ \A s \in left[r] : s.id = n
      BY <1>6, <2>1
    <3> QED
      BY <1>6, <2>1, <3>1, <3>2, <3>3, <3>4
  <2>2. CASE r \notin refiled
    BY <1>5, <2>2, FS_EmptySet
  <2> QED
    BY <2>1, <2>2
<1>8. LayersFinite' /\ CountsMatch'
  <2>1. \A r \in Resolutions :
           /\ layers'[r] = (layers[r] \ left[r]) \cup entered[r]
           /\ totalGlobalCounts'[r] = Recounted(totalGlobalCounts[r], left[r], entered[r])
           /\ \A c \in Cells[r] : globalCellCounts'[r][c] =
                Recounted(globalCellCounts[r][c], InCell(left[r], c), InCell(entered[r], c))
    BY <1>2
  <2> QED
    BY <1>7, <2>1, CountsFollow DEF IInv
<1>9. TypeOK'
  <2> USE DEF IInv, TypeOK
  <2>1. /\ DOMAIN entities' = DOMAIN entities \cup {n} /\ entities'[n] = pending[id]
        /\ \A m \in DOMAIN entities \ {n} : entities'[m] = entities[m]
    BY <1>3 DEF With
  <2>2. /\ DOMAIN entityIDToInternalID' = DOMAIN entityIDToInternalID \cup {id}
        /\ entityIDToInternalID'[id] = n
        /\ \A other \in DOMAIN entityIDToInternalID \ {id} :
             entityIDToInternalID'[other] = entityIDToInternalID[other]
    BY <1>3 DEF With
  <2>3. /\ idCounter \in Nat /\ idCounter' \in 0 .. MaxInternal
        /\ n <= idCounter' /\ idCounter <= idCounter'
    BY <1>1, <1>3
  <2>4. DOMAIN entities' \subseteq 1 .. idCounter'
    BY <1>1, <2>1, <2>3
  <2>5. entities' \in [DOMAIN entities' -> Positions]
    BY <1>3, <1>4 DEF With
  <2>6. MaxInternal' = MaxInternal /\ Slot' = Slot /\ feed' \in Feeds
    BY <1>3 DEF MaxInternal, Slot
  <2>7. layers' \in [Resolutions -> SUBSET Slot]
    BY <1>2, <1>7
  <2>8. /\ DOMAIN globalCellCounts' = Resolutions
        /\ \A r \in Resolutions : globalCellCounts'[r] \in [Cells[r] -> Int]
        /\ totalGlobalCounts' \in [Resolutions -> Int]
    <3>1. ASSUME NEW r \in Resolutions
          PROVE  /\ totalGlobalCounts'[r] \in Int
                 /\ globalCellCounts'[r] \in [Cells[r] -> Int]
      <4>1. /\ totalGlobalCounts'[r] = Cardinality(layers'[r])
            /\ \A c \in Cells[r] : globalCellCounts'[r][c] = Cardinality(InCell(layers'[r], c))
            /\ IsFiniteSet(layers'[r])
        BY <1>8 DEF CountsMatch, LayersFinite
      <4>2. ASSUME NEW c \in Cells[r] PROVE Cardinality(InCell(layers'[r], c)) \in Nat
        <5>1. InCell(layers'[r], c) \in SUBSET layers'[r]
          BY DEF InCell
        <5> QED
          BY <4>1, <5>1, FS_Subset, FS_CardinalityType
      <4>3. Cardinality(layers'[r]) \in Nat
        BY <4>1, FS_CardinalityType
      <4> DEFINE count(c) == Recounted(globalCellCounts[r][c], InCell(left[r], c), InCell(entered[r], c))
      <4>4. globalCellCounts'[r] = [c \in Cells[r] |-> count(c)]
        BY <1>2
      <4> HIDE DEF count
      <4>5. ASSUME NEW c \in Cells[r] PROVE count(c) \in Int
        <5>1. globalCellCounts'[r][c] = count(c)
          BY <4>4
        <5> QED
          BY <4>1, <4>2, <5>1
      <4> QED
        BY <4>1, <4>3, <4>4, <4>5
    <3>2. DOMAIN totalGlobalCounts' = Resolutions /\ DOMAIN globalCellCounts' = Resolutions
      BY <1>2
    <3>3. totalGlobalCounts' = [r \in Resolutions |-> totalGlobalCounts'[r]]
      BY <1>2
    <3> QED
      BY <3>1, <3>2, <3>3
  <2>9. /\ DOMAIN entityIDToInternalID' \subseteq EntityIDs
        /\ entityIDToInternalID' \in [DOMAIN entityIDToInternalID' -> DOMAIN entities']
    BY <1>3, <2>1, <2>2 DEF With
  <2>10. \A a, b \in DOMAIN entityIDToInternalID' :
           entityIDToInternalID'[a] = entityIDToInternalID'[b] => a = b
    BY <1>1, <2>2
  <2>11. \A m \in DOMAIN entities' : \E other \in DOMAIN entityIDToInternalID' :
           entityIDToInternalID'[other] = m
    <3> SUFFICES ASSUME NEW m \in DOMAIN entities, m # n
                 PROVE  \E other \in DOMAIN entityIDToInternalID' :
                          entityIDToInternalID'[other] = m
      BY <2>1, <2>2
    <3>1. PICK other \in DOMAIN entityIDToInternalID : entityIDToInternalID[other] = m
      OBVIOUS
    <3>2. other # id
      BY <1>1, <3>1
    <3> QED
      BY <2>2, <3>1, <3>2
  <2>12. entityCells' = [m \in DOMAIN entities' |-> CellOf[entities'[m]]]
    BY <1>3 DEF With, new
  <2>13. DOMAIN pending' \subseteq EntityIDs /\ pending' \in [DOMAIN pending' -> Positions]
    BY <1>3 DEF Without
  <2> QED
    BY <2>3, <2>4, <2>5, <2>6, <2>7, <2>8, <2>9, <2>10, <2>11, <2>12, <2>13
<1>10. \A r \in Resolutions : \A c, m :
         Copies(r, c, m)' =
           (Copies(r, c, m) \ {s \in left[r] : s.cell = c /\ s.id = m})
             \cup {s \in entered[r] : s.cell = c /\ s.id = m}
  BY <1>2 DEF Copies
<1>11. \A r \in Resolutions : /\ \A s \in entered[r] : s = NewSlot(r, n, new[r])
                              /\ \A s \in left[r] : n \in DOMAIN entities /\ s.cell = entityCells[n][r]
  BY <1>5 DEF OldSlot, Copies
<1>12. CopiesCounted'
  <2> SUFFICES ASSUME NEW r \in Resolutions, NEW s \in layers'[r]
               PROVE  s.copy <= Cardinality(Copies(r, s.cell, s.id)')
    BY DEF CopiesCounted
  <2> DEFINE C == Copies(r, s.cell, s.id)
             D == Copies(r, s.cell, s.id)'
  <2>1. IsFiniteSet(C) /\ Cardinality(C) \in Nat
    <3>1. C \in SUBSET layers[r]
      BY DEF Copies
    <3> QED
      BY <3>1, FS_Subset, FS_CardinalityType DEF IInv, LayersFinite
  <2>2. s \in layers[r] \/ s \in entered[r]
    BY <1>2
  <2>3. s \in layers[r] => s \in C
    BY DEF Copies
  <2>4. \A t \in C : t \in layers[r] /\ t.cell = s.cell /\ t.id = s.id /\ t.copy <= Cardinality(C)
    BY DEF Copies, IInv, CopiesCounted
  <2>5. CASE r \notin refiled \/ s.id # n \/ (s.cell # new[r] /\ \A t \in left[r] : s.cell # t.cell)
    <3>1. D = C
      <4>1. \A t \in entered[r] : t.cell = new[r] /\ t.id = n
        BY <1>11 DEF NewSlot
      <4>2. {t \in left[r] : t.cell = s.cell /\ t.id = s.id} = {}
        BY <1>5, <1>7, <2>5
      <4>3. {t \in entered[r] : t.cell = s.cell /\ t.id = s.id} = {}
        BY <1>5, <2>5, <4>1
      <4>4. D = (C \ {t \in left[r] : t.cell = s.cell /\ t.id = s.id})
                  \cup {t \in entered[r] : t.cell = s.cell /\ t.id = s.id}
        BY <1>10
      <4> HIDE DEF C, D
      <4> QED
        BY <4>2, <4>3, <4>4
    <3>2. s \in layers[r]
      BY <1>5, <1>11, <2>2, <2>5 DEF NewSlot
    <3> QED
      BY <2>3, <2>4, <3>1, <3>2
  <2>6. CASE r \in refiled /\ s.id = n /\ s.cell = new[r]
    <3>1. \A t \in left[r] : t.cell # s.cell
      BY <1>5, <1>11, <2>6
    <3>2. entered[r] = {NewSlot(r, n, new[r])} /\ NewSlot(r, n, new[r]) \notin C
      BY <1>5, <1>6, <2>4, <2>6
    <3>3. /\ NewSlot(r, n, new[r]).cell = s.cell /\ NewSlot(r, n, new[r]).id = s.id
          /\ NewSlot(r, n, new[r]).copy = Cardinality(C) + 1
      BY <2>6 DEF NewSlot
    <3>4. D = C \cup {NewSlot(r, n, new[r])}
      BY <1>10, <3>1, <3>2, <3>3
    <3>5. Cardinality(D) = Cardinality(C) + 1
      BY <2>1, <3>2, <3>4, FS_AddElement
    <3>6. CASE s \in entered[r]
      <4>1. s.copy = Cardinality(C) + 1
        BY <3>2, <3>3, <3>6
      <4> QED
        BY <2>1, <3>5, <4>1
    <3>7. CASE s \in layers[r]
      <4>1. s.copy <= Cardinality(C) /\ s.copy \in Nat
        BY <2>3, <2>4, <3>7 DEF IInv, TypeOK, Slot
      <4> QED
        BY <2>1, <3>5, <4>1
    <3> QED
      BY <2>2, <3>6, <3>7
  <2>7. CASE r \in refiled /\ s.id = n /\ s.cell # new[r] /\ \E t \in left[r] : s.cell = t.cell
    <3>1. n \in DOMAIN entities /\ s.cell = entityCells[n][r]
      BY <1>11, <2>7
    <3>2. left[r] = {t \in C : t.copy = Cardinality(C)}
      BY <1>5, <2>7, <3>1 DEF OldSlot
    <3>3. left[r] = Highest(C, 1)
      <4>1. \A t \in C : t.copy \in Nat
        BY <2>4 DEF IInv, TypeOK, Slot
      <4> QED
        BY <2>1, <2>4, <3>2, <4>1 DEF Highest
    <3>4. \A t \in entered[r] : t.cell # s.cell
      BY <1>11, <2>7 DEF NewSlot
    <3>5. D = C \ Highest(C, 1)
      BY <1>10, <2>4, <3>3, <3>4, <3>2
    <3>6. s \in D
      BY DEF Copies
    <3>7. C \in SUBSET [cell : AllCells, id : 1 .. MaxInternal, copy : Nat]
      BY <2>4 DEF IInv, TypeOK, Slot
    <3> HIDE DEF C, D
    <3>8. \A t \in C \ Highest(C, 1) : t.copy <= Cardinality(C \ Highest(C, 1))
      BY <2>1, <2>4, <3>7, DropHighest
    <3> QED
      BY <3>5, <3>6, <3>8 DEF D
  <2> QED
    BY <2>5, <2>6, <2>7
<1>13. FromFeed'
  BY <1>3, <1>4 DEF IInv, FromFeed, With, Without
<1>14. /\ DOMAIN entities' = DOMAIN entities \cup {n} /\ DOMAIN entityCells = DOMAIN entities
       /\ entityCells'[n] = new
       /\ \A m \in DOMAIN entities \ {n} : entityCells'[m] = entityCells[m]
  BY <1>3 DEF With, IInv, TypeOK
<1>15. Filed'
  <2> SUFFICES ASSUME NEW r \in Resolutions, NEW m \in DOMAIN entities \cup {n},
                      entityCells'[m][r] # NoCell
               PROVE  \E s \in layers'[r] : s.cell = entityCells'[m][r] /\ s.id = m
    BY <1>14 DEF Filed
  <2>1. layers'[r] = (layers[r] \ left[r]) \cup entered[r]
    BY <1>2
  <2>2. CASE m # n
    <3>1. PICK s \in layers[r] : s.cell = entityCells[m][r] /\ s.id = m
      BY <1>14, <2>2 DEF IInv, Filed
    <3> QED
      BY <1>7, <1>14, <2>1, <2>2, <3>1
  <2>3. CASE m = n /\ r \in refiled
    <3>1. NewSlot(r, n, new[r]) \in layers'[r]
      BY <1>5, <2>1, <2>3
    <3> QED
      BY <1>14, <2>3, <3>1 DEF NewSlot
  <2>4. CASE m = n /\ r \notin refiled
    <3>1. n \in DOMAIN entities /\ entityCells[n][r] = new[r] /\ entityCells'[n][r] = new[r]
      BY <1>5, <1>14, <2>4
    <3>2. PICK s \in layers[r] : s.cell = entityCells[n][r] /\ s.id = n
      BY <2>4, <3>1 DEF IInv, Filed
    <3> QED
      BY <1>5, <2>1, <2>4, <3>1, <3>2
  <2> QED
    BY <2>2, <2>3, <2>4
<1>16. LayersExact'
  <2> SUFFICES ASSUME FeedIsValid', NEW r \in Resolutions
               PROVE  layers'[r] = {[cell |-> entityCells'[m][r], id |-> m, copy |-> 1] :
                                      m \in DOMAIN entities'}
    BY DEF LayersExact
  <2> DEFINE slot(m) == [cell |-> entityCells[m][r], id |-> m, copy |-> 1]
             newSlot == [cell |-> new[r], id |-> n, copy |-> 1]
  <2>1. layers[r] = {slot(m) : m \in DOMAIN entities} /\ new[r] # NoCell
    BY <1>3, <1>4 DEF IInv, LayersExact, FeedIsValid, new
  <2>2. {[cell |-> entityCells'[m][r], id |-> m, copy |-> 1] : m \in DOMAIN entities'} =
          {slot(m) : m \in DOMAIN entities \ {n}} \cup {newSlot}
    BY <1>14
  <2>3. ASSUME NEW c, n \notin DOMAIN entities \/ c # entityCells[n][r]
        PROVE  Cardinality(Copies(r, c, n)) = 0
    <3>1. Copies(r, c, n) = {}
      BY <2>1, <2>3 DEF Copies
    <3> QED
      BY <3>1, FS_EmptySet
  <2>4. r \in refiled => NewSlot(r, n, new[r]) = newSlot
    BY <1>5, <2>3 DEF NewSlot
  <2>5. CASE n \notin DOMAIN entities
    <3>1. r \in refiled
      BY <1>5, <2>1, <2>5
    <3>2. left[r] = {} /\ entered[r] = {newSlot}
      BY <1>5, <2>4, <2>5, <3>1 DEF OldSlot
    <3> HIDE DEF slot, newSlot
    <3> QED
      BY <1>2, <2>1, <2>2, <2>5, <3>2
  <2>6. CASE n \in DOMAIN entities /\ r \notin refiled
    <3>1. newSlot = slot(n) /\ left[r] = {} /\ entered[r] = {}
      BY <1>5, <2>1, <2>6
    <3> HIDE DEF slot, newSlot
    <3> QED
      BY <1>2, <2>1, <2>2, <2>6, <3>1
  <2>7. CASE n \in DOMAIN entities /\ r \in refiled
    <3>1. Copies(r, entityCells[n][r], n) = {slot(n)}
      <4>1. \A s \in layers[r] : s.id = n => s = slot(n)
        BY <2>1
      <4>2. slot(n) \in layers[r] /\ slot(n).cell = entityCells[n][r] /\ slot(n).id = n
        BY <2>1, <2>7
      <4> QED
        BY <4>1, <4>2 DEF Copies
    <3>2. Cardinality(Copies(r, entityCells[n][r], n)) = 1 /\ slot(n).copy = 1
      BY <3>1, FS_Singleton
    <3>3. left[r] = {slot(n)}
      BY <1>5, <2>7, <3>1, <3>2 DEF OldSlot
    <3>4. entered[r] = {newSlot}
      BY <1>5, <2>4, <2>7
    <3>5. \A m \in DOMAIN entities \ {n} : slot(m) # slot(n)
      OBVIOUS
    <3> HIDE DEF slot, newSlot
    <3> QED
      BY <1>2, <2>1, <2>2, <2>7, <3>3, <3>4, <3>5
  <2> QED
    BY <2>5, <2>6, <2>7
<1> QED
  BY <1>8, <1>9, <1>12, <1>13, <1>15, <1>16 DEF IInv

-----------------------------------------------------------------------------
(* At the start nothing is filed.                                          *)
LEMMA InitInv == Init => IInv
<1> SUFFICES ASSUME Init PROVE IInv
  OBVIOUS
<1>1. MaxInternal \in Nat
  <2>1. feed.ids \in SUBSET EntityIDs
    BY FeedsAssumption DEF Init
  <2>2. Cardinality(feed.ids) \in Nat
    BY <2>1, FiniteAssumption, FS_Subset, FS_CardinalityType
  <2> QED
    BY <2>2, BoundsAssumption DEF MaxInternal
<1>2. DOMAIN Nothing = {} /\ \A S : Nothing \in [{} -> S]
  BY DEF Nothing
<1>3. TypeOK
  <2>1. idCounter \in 0 .. MaxInternal /\ feed \in Feeds
    BY <1>1 DEF Init
  <2>2. layers \in [Resolutions -> SUBSET Slot] /\ totalGlobalCounts \in [Resolutions -> Int]
    BY DEF Init
  <2>3. /\ DOMAIN globalCellCounts = Resolutions
        /\ \A r \in Resolutions : globalCellCounts[r] \in [Cells[r] -> Int]
    BY DEF Init
  <2>4. entityCells = [n \in DOMAIN entities |-> CellOf[entities[n]]]
    BY <1>2 DEF Init, Nothing
  <2> QED
    BY <1>2, <2>1, <2>2, <2>3, <2>4 DEF Init, TypeOK
<1>4. LayersFinite /\ CopiesCounted
  BY FS_EmptySet DEF Init, LayersFinite, CopiesCounted
<1>5. CountsMatch
  <2>1. \A r \in Resolutions : layers[r] = {} /\ \A c : InCell(layers[r], c) = {}
    BY DEF Init, InCell
  <2> QED
    BY <2>1, FS_EmptySet DEF Init, CountsMatch
<1>6. FromFeed /\ Filed /\ LayersExact
  BY <1>2 DEF Init, FromFeed, Filed, LayersExact
<1> QED
  BY <1>3, <1>4, <1>5, <1>6 DEF IInv

(* Every step keeps the invariant: a batch or an insertion.                *)
LEMMA NextInv == IInv /\ [Next]_vars => IInv'
<1> SUFFICES ASSUME IInv, [Next]_vars PROVE IInv'
  OBVIOUS
<1>1. CASE Update
  <2>1. PICK seen \in SUBSET feed.ids : \E removed \in SUBSET (feed.ids \ seen) :
          \E batch \in [seen -> feed.positions] : BatchUpdateRust(batch, removed)
    BY <1>1 DEF Update
  <2>2. PICK removed \in SUBSET (feed.ids \ seen) :
          \E batch \in [seen -> feed.positions] : BatchUpdateRust(batch, removed)
    BY <2>1
  <2>3. PICK batch \in [seen -> feed.positions] : BatchUpdateRust(batch, removed)
    BY <2>2
  <2>4. batch \in [DOMAIN batch -> feed.positions] /\ DOMAIN batch \subseteq feed.ids
    OBVIOUS
  <2> QED
    BY <2>3, <2>4, RemovalInv
<1>2. CASE \E id \in EntityIDs : Insert(id)
  BY <1>2, InsertInv
<1>3. CASE UNCHANGED vars
  <2>1. TypeOK'
    BY <1>3 DEF vars, IInv, TypeOK, Slot, MaxInternal
  <2>2. LayersFinite' /\ CopiesCounted' /\ CountsMatch'
    BY <1>3 DEF vars, IInv, LayersFinite, CopiesCounted, Copies, CountsMatch, InCell
  <2>3. FromFeed' /\ Filed' /\ LayersExact'
    BY <1>3 DEF vars, IInv, FromFeed, Filed, LayersExact, FeedIsValid
  <2> QED
    BY <2>1, <2>2, <2>3 DEF IInv
<1> QED
  BY <1>1, <1>2, <1>3 DEF Next

(* The index always satisfies the inductive invariant.                     *)
THEOREM IndexInvariant == Spec => []IInv
<1> QED
  BY InitInv, NextInv, PTL DEF Spec

(* TypeOK: the maps keyed by entity stay aligned and internal ids are      *)
(* distinct, whatever batches arrive (index.go 115-266).                   *)
THEOREM Typing == Spec => []TypeOK
<1>1. IInv => TypeOK
  BY DEF IInv
<1> QED
  BY <1>1, IndexInvariant, PTL

(* CountsMatch: the counters agree with the layers, although every         *)
(* removal, move and insertion updates them separately, and although       *)
(* invalid coordinates leave copies behind (index.go 189-193, 235-261).    *)
THEOREM CountersAgree == Spec => []CountsMatch
<1>1. IInv => CountsMatch
  BY DEF IInv
<1> QED
  BY <1>1, IndexInvariant, PTL

(* LayersExact: with a valid feed, the layers file every entity once, under*)
(* the cell of its position, and nothing else (index.go 174-265).          *)
THEOREM FiledOnce == Spec => []LayersExact
<1>1. IInv => LayersExact
  BY DEF IInv
<1> QED
  BY <1>1, IndexInvariant, PTL

-----------------------------------------------------------------------------
(* What a query answers, when the layers are exact: the internal ids it    *)
(* meets are those of the entities in the viewport, whichever loop runs.   *)
LEMMA QueryMeets ==
  ASSUME IInv, FeedIsValid, NEW v \in Viewports, ZoomToResolution(v.Zoom) \in Resolutions
  PROVE  /\ processedEntities(v) = {n \in DOMAIN entities : IsIn(v, entities[n])}
         /\ Populated(v) = {entityCells[n][ZoomToResolution(v.Zoom)] : n \in DOMAIN entities}
<1> DEFINE r == ZoomToResolution(v.Zoom)
           slot(n) == [cell |-> entityCells[n][r], id |-> n, copy |-> 1]
<1>1. Layer(v) = {slot(n) : n \in DOMAIN entities}
  BY DEF Layer, IInv, LayersExact
<1>2. \A n \in DOMAIN entities : entityCells[n] = CellOf[entities[n]]
  BY DEF IInv, TypeOK
<1>3. \A n : slot(n).id = n /\ slot(n).cell = entityCells[n][r]
  OBVIOUS
<1> HIDE DEF r, slot
<1>4. Populated(v) = {entityCells[n][r] : n \in DOMAIN entities}
  BY <1>1, <1>3 DEF Populated
<1>5. \A n \in DOMAIN entities : slot(n).cell \in Scanned(v) <=> IsIn(v, entities[n])
  BY <1>2, <1>3, <1>4 DEF Scanned, IsIn, r
<1>6. processedEntities(v) = {n \in DOMAIN entities : slot(n).cell \in Scanned(v)}
  BY <1>1, <1>3 DEF processedEntities
<1> QED
  BY <1>4, <1>5, <1>6 DEF r

(* The slots of a cell, and of a resolution, are as many as their entities.*)
LEMMA SlotsCountEntities ==
  ASSUME IInv, FeedIsValid, NEW r \in Resolutions
  PROVE  /\ IsFiniteSet(DOMAIN entities)
         /\ Cardinality(layers[r]) = Cardinality(DOMAIN entities)
         /\ \A c : Cardinality(InCell(layers[r], c)) =
                     Cardinality({n \in DOMAIN entities : entityCells[n][r] = c})
<1> DEFINE slot(n) == [cell |-> entityCells[n][r], id |-> n, copy |-> 1]
<1>1. layers[r] = {slot(n) : n \in DOMAIN entities}
  BY DEF IInv, LayersExact
<1>2. \A n : slot(n).id = n /\ slot(n).cell = entityCells[n][r]
  OBVIOUS
<1> HIDE DEF slot
<1>3. IsFiniteSet(DOMAIN entities)
  <2>1. DOMAIN entities \in SUBSET (1 .. idCounter) /\ idCounter \in Int
    BY DEF IInv, TypeOK
  <2>2. IsFiniteSet(1 .. idCounter)
    BY <2>1, FS_Interval
  <2> QED
    BY <2>1, <2>2, FS_Subset
<1>4. ASSUME NEW D \in SUBSET DOMAIN entities
      PROVE  Cardinality({slot(n) : n \in D}) = Cardinality(D)
  <2> DEFINE T == {slot(n) : n \in D}
             f == [n \in D |-> slot(n)]
  <2>1. f \in Bijection(D, T)
    <3>1. f \in [D -> T] /\ \A a, b \in D : f[a] = f[b] => a = b
      BY <1>2
    <3>2. \A t \in T : \E n \in D : f[n] = t
      OBVIOUS
    <3> QED
      BY <3>1, <3>2 DEF Bijection, Injection, Surjection, IsInjective
  <2>2. IsFiniteSet(D)
    BY <1>3, FS_Subset
  <2>3. ExistsBijection(D, T)
    BY <2>1 DEF ExistsBijection
  <2> HIDE DEF T
  <2>4. Cardinality(T) = Cardinality(D)
    BY <2>2, <2>3, FS_Bijection
  <2> QED
    BY <2>4 DEF T
<1>5. ASSUME NEW c
      PROVE  InCell(layers[r], c) = {slot(n) : n \in {m \in DOMAIN entities : entityCells[m][r] = c}}
  BY <1>1, <1>2 DEF InCell
<1>6. \A c : Cardinality(InCell(layers[r], c)) =
               Cardinality({n \in DOMAIN entities : entityCells[n][r] = c})
  BY <1>4, <1>5
<1> QED
  BY <1>1, <1>3, <1>4, <1>6

(* Exact layers and matching counters make exact answers.                  *)
LEMMA ExactAnswers == IInv => AnswersExact
<1> SUFFICES ASSUME IInv, FeedIsValid, NEW v \in Viewports
             PROVE  VisibleExact(v) /\ OutOfViewExact(v) /\ ClustersExact(v)
  BY DEF AnswersExact
<1> DEFINE r == ZoomToResolution(v.Zoom)
<1>1. v.Zoom \in Nat
  BY ViewportsAssumption DEF ViewportType
<1>2. ~onlyClusters(v) => r \in Resolutions
  BY <1>1 DEF onlyClusters, ZoomToResolution, Resolutions
<1>3. ASSUME ~onlyClusters(v)
      PROVE  VisibleExact(v) /\ OutOfViewExact(v)
  <2>1. processedEntities(v) = {n \in DOMAIN entities : IsIn(v, entities[n])}
    BY <1>2, <1>3, QueryMeets
  <2>2. Visible(v) = processedEntities(v)
    BY <1>3, <2>1 DEF Visible
  <2>3. VisibleExact(v)
    BY <2>1, <2>2 DEF VisibleExact
  <2>4. totalGlobalCounts[r] = Cardinality(DOMAIN entities) /\ IsFiniteSet(DOMAIN entities)
    BY <1>2, <1>3, SlotsCountEntities DEF IInv, CountsMatch
  <2>5. Cardinality(DOMAIN entities) \in Nat /\ Cardinality(Visible(v)) \in Nat
    <3>1. Visible(v) \in SUBSET DOMAIN entities
      BY <2>1, <2>2
    <3> QED
      BY <2>4, <3>1, FS_Subset, FS_CardinalityType
  <2> QED
    BY <2>2, <2>3, <2>4, <2>5 DEF OutOfViewExact, OutOfView
<1>4. ASSUME onlyClusters(v), r \in Resolutions
      PROVE  ClustersExact(v)
  <2> DEFINE in(c) == {n \in DOMAIN entities : entityCells[n][r] = c}
             count == globalCellCounts[r]
  <2>1. Clusters(v) = [c \in {d \in ClusterCells(v) : count[d] > 0} |-> count[c]]
    BY <1>4 DEF Clusters
  <2>2. Populated(v) = {entityCells[n][r] : n \in DOMAIN entities}
    BY <1>4, QueryMeets
  <2>3. ClusterCells(v) \subseteq Cells[r]
    <3>1. v.cells \subseteq Cells[r]
      BY <1>4, ViewportCellsAssumption
    <3>2. Populated(v) \subseteq Cells[r]
      BY <1>4 DEF Populated, Layer, IInv, LayersFinite
    <3> QED
      BY <3>1, <3>2 DEF ClusterCells
  <2>4. \A c \in Cells[r] : count[c] = Cardinality(in(c)) /\ IsFiniteSet(in(c))
    <3>1. \A c : in(c) \in SUBSET DOMAIN entities
      OBVIOUS
    <3>2. \A c : IsFiniteSet(in(c))
      BY <1>4, <3>1, SlotsCountEntities, FS_Subset
    <3>3. \A c \in Cells[r] : count[c] = Cardinality(InCell(layers[r], c))
      BY <1>4 DEF IInv, CountsMatch
    <3> QED
      BY <1>4, <3>2, <3>3, SlotsCountEntities
  <2>5. ASSUME NEW n \in DOMAIN entities, IsIn(v, entities[n])
        PROVE  entityCells[n][r] \in DOMAIN Clusters(v)
    <3> DEFINE c == entityCells[n][r]
    <3>1. c \in Populated(v)
      BY <2>2
    <3>2. entityCells[n] = CellOf[entities[n]]
      BY DEF IInv, TypeOK
    <3>3. c \in ClusterCells(v)
      BY <2>5, <3>1, <3>2 DEF ClusterCells, OverViewport, IsIn
    <3>4. c \in Cells[r] /\ n \in in(c)
      BY <2>3, <3>3
    <3>5. count[c] = Cardinality(in(c)) /\ Cardinality(in(c)) \in Nat /\ Cardinality(in(c)) # 0
      <4>1. count[c] = Cardinality(in(c)) /\ IsFiniteSet(in(c)) /\ in(c) # {}
        BY <2>4, <3>4
      <4> HIDE DEF in, count
      <4> QED
        BY <4>1, FS_CardinalityType, FS_EmptySet
    <3> QED
      BY <2>1, <3>3, <3>5
  <2>6. ASSUME NEW c \in DOMAIN Clusters(v)
        PROVE  Clusters(v)[c] = Cardinality(in(c))
    BY <2>1, <2>3, <2>4
  <2> QED
    BY <2>5, <2>6 DEF ClustersExact
<1>5. onlyClusters(v) => VisibleExact(v) /\ OutOfViewExact(v)
  BY DEF VisibleExact, OutOfViewExact
<1>6. ~onlyClusters(v) \/ r \notin Resolutions => ClustersExact(v)
  BY DEF ClustersExact
<1> QED
  BY <1>3, <1>4, <1>5, <1>6

(* AnswersExact: with a valid feed, a query shows exactly the entities in  *)
(* its viewport, and its counts and clusters add up (index.go 319-407).    *)
THEOREM AnswersAreExact == Spec => []AnswersExact
<1> QED
  BY ExactAnswers, IndexInvariant, PTL

(* StaysFindable: an entity at valid coordinates is found, whatever invalid*)
(* ones came before (index.go 217-248).                                    *)
THEOREM Findable == Spec => []StaysFindable
<1>1. ASSUME IInv, NEW v \in Viewports, NEW n \in DOMAIN entities, ~onlyClusters(v),
             CellOf[entities[n]][ZoomToResolution(v.Zoom)] # NoCell, IsIn(v, entities[n])
      PROVE  n \in Visible(v)
  <2> DEFINE r == ZoomToResolution(v.Zoom)
  <2>1. v.Zoom \in Nat
    BY ViewportsAssumption DEF ViewportType
  <2>2. r \in Resolutions
    BY <1>1, <2>1 DEF onlyClusters, ZoomToResolution, Resolutions
  <2>3. entityCells[n] = CellOf[entities[n]]
    BY <1>1 DEF IInv, TypeOK
  <2>4. PICK s \in layers[r] : s.cell = entityCells[n][r] /\ s.id = n
    BY <1>1, <2>2, <2>3 DEF IInv, Filed
  <2>5. s \in Layer(v) /\ s.cell \in Scanned(v)
    BY <1>1, <2>2, <2>3, <2>4 DEF Layer, Scanned, Populated, IsIn
  <2> QED
    BY <1>1, <2>4, <2>5 DEF Visible, processedEntities
<1>2. IInv => StaysFindable
  BY <1>1 DEF StaysFindable
<1> QED
  BY <1>2, IndexInvariant, PTL

-----------------------------------------------------------------------------
(* What the store sees of the index: At, the position of each entity once  *)
(* the batch in progress is through.                                       *)

(* A batch drops the removed entities and places the reported ones ...     *)
LEMMA BatchTakesEffect ==
  ASSUME TypeOK, NEW removed, BatchUpdateRust(pending', removed)
  PROVE  At' = AtAfter(pending', removed)
<1> DEFINE eid == entityIDToInternalID
           doomed == IF IsFresh(pending') THEN {} ELSE Doomed(removed)
<1>1. /\ entities' = [n \in DOMAIN entities \ doomed |-> entities[n]]
      /\ entityIDToInternalID' = [id \in DOMAIN eid \ removed |-> eid[id]]
      /\ \A id \in DOMAIN eid : eid[id] \in doomed <=> id \in removed
  BY MapsAfterRemoval
<1>2. pending = Nothing /\ DOMAIN Nothing = {}
  BY DEF BatchUpdateRust, Nothing
<1>3. At = [id \in DOMAIN eid |-> entities[eid[id]]]
  BY <1>2 DEF At
<1>4. eid \in [DOMAIN eid -> DOMAIN entities]
  BY DEF TypeOK
<1> HIDE DEF doomed
<1>5. \A id \in DOMAIN eid \ removed : entities'[entityIDToInternalID'[id]] = entities[eid[id]]
  BY <1>1, <1>4
<1> QED
  BY <1>1, <1>3, <1>5 DEF At, AtAfter

(* ... and going through it changes nothing of that.                       *)
LEMMA InsertKeepsAt ==
  ASSUME TypeOK, NEW id, Insert(id)
  PROVE  At' = At
<1> DEFINE eid == entityIDToInternalID
           n == getInternalID(id)
<1>1. /\ id \in DOMAIN pending
      /\ entities' = With(entities, n, pending[id])
      /\ entityIDToInternalID' = With(eid, id, n)
      /\ pending' = Without(pending, {id})
  BY DEF Insert
<1>2. \A other \in DOMAIN eid : eid[other] = n => other = id
  BY InternalID
<1>3. eid \in [DOMAIN eid -> DOMAIN entities]
  BY DEF TypeOK
<1> HIDE DEF n
<1>4. DOMAIN entityIDToInternalID' \cup DOMAIN pending' = DOMAIN eid \cup DOMAIN pending
  BY <1>1 DEF With, Without
<1>5. ASSUME NEW x \in DOMAIN eid \cup DOMAIN pending
      PROVE  (IF x \in DOMAIN pending' THEN pending'[x] ELSE entities'[entityIDToInternalID'[x]]) =
             (IF x \in DOMAIN pending THEN pending[x] ELSE entities[eid[x]])
  <2>1. CASE x = id
    <3>1. id \notin DOMAIN pending' /\ entities'[n] = pending[id] /\ entityIDToInternalID'[id] = n
      BY <1>1 DEF With, Without
    <3> QED
      BY <1>1, <2>1, <3>1
  <2>2. CASE x # id /\ x \in DOMAIN pending
    <3>1. x \in DOMAIN pending' /\ pending'[x] = pending[x]
      BY <1>1, <2>2 DEF Without
    <3> QED
      BY <2>2, <3>1
  <2>3. CASE x # id /\ x \notin DOMAIN pending
    <3>1. x \notin DOMAIN pending' /\ entityIDToInternalID'[x] = eid[x]
      BY <1>1, <2>3 DEF With, Without
    <3>2. eid[x] \in DOMAIN entities /\ eid[x] # n
      BY <1>2, <1>3, <2>3
    <3>3. entities'[eid[x]] = entities[eid[x]]
      BY <1>1, <3>2 DEF With
    <3> QED
      BY <2>3, <3>1, <3>3
  <2> QED
    BY <2>1, <2>2, <2>3
<1> QED
  BY <1>4, <1>5 DEF At

(* BatchAsWhole: a batch takes effect as a whole and touches nothing else  *)
(* (index.go 115-121, 198-266).                                            *)
THEOREM BatchesTakeEffectWhole == Spec => BatchAsWhole
<1> DEFINE A == /\ \A removed \in SUBSET (EntityIDs \ DOMAIN pending') :
                     BatchUpdateRust(pending', removed) => At' = AtAfter(pending', removed)
                /\ pending # Nothing => At' = At
<1>1. ASSUME IInv, [Next]_vars PROVE [A]_vars
  <2>1. TypeOK
    BY <1>1 DEF IInv
  <2>2. \A removed \in SUBSET (EntityIDs \ DOMAIN pending') :
          BatchUpdateRust(pending', removed) => At' = AtAfter(pending', removed)
    BY <2>1, BatchTakesEffect
  <2>3. CASE Update
    BY <2>2, <2>3 DEF Update, BatchUpdateRust
  <2>4. CASE \E id \in EntityIDs : Insert(id)
    BY <2>1, <2>2, <2>4, InsertKeepsAt
  <2>5. CASE UNCHANGED vars
    BY <2>5
  <2> QED
    BY <1>1, <2>3, <2>4, <2>5 DEF Next
<1> QED
  BY <1>1, IndexInvariant, PTL DEF Spec, BatchAsWhole
=============================================================================
