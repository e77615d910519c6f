---------------------------- MODULE SpatialIndex ----------------------------
(***************************************************************************)
(* spatial/index.go: every entity filed under one H3 cell per resolution,  *)
(* with counters per cell and per resolution kept beside the layers.       *)
(*                                                                         *)
(* BatchUpdateRust holds the index's lock: it removes in one step, then    *)
(* inserts or moves one entity per step; pending holds the entities left,  *)
(* and queries run only when there are none.  A layer is the set of its    *)
(* slots.  A cell's list may hold an internal id twice, and may keep one    *)
(* that was removed, after coordinates the Rust library rejects (Refiled), *)
(* so a slot has a copy number; code that drops one copy drops the last.   *)
(*                                                                         *)
(* External: h3 and the Rust library, which give a position's cell at each *)
(* resolution (CellOf) and the cells a viewport covers (cells).            *)
(***************************************************************************)
EXTENDS Integers, FiniteSets

CONSTANTS
  EntityIDs,     \* entity identifiers
  Positions,     \* reported coordinates
  Cells,         \* [resolution -> its H3 cells]
  NoCell,        \* 0: what the Rust library writes for invalid coordinates
  CellOf,        \* [position -> [resolution -> cell]]
  Viewports,     \* viewports queried, each with the cells it covers
  Feeds,         \* feeds: the entities one reports and the positions it reports them at
  MaxReturns,    \* bound: internal ids given out beyond one per entity of the feed
  MaxCopies      \* bound: copies of an internal id in one cell

(* targetResolutions *)
Resolutions == {2, 3, 4, 6, 7}

AllCells == UNION {Cells[r] : r \in Resolutions}

ViewportType == [Zoom : Nat, IsGlobal : BOOLEAN, cells : SUBSET AllCells]

ASSUME CellOfAssumption ==
  /\ DOMAIN Cells = Resolutions
  /\ CellOf \in [Positions -> [Resolutions -> AllCells \cup {NoCell}]]
  /\ \A pos \in Positions : \A r \in Resolutions : CellOf[pos][r] \in Cells[r] \cup {NoCell}
ASSUME NoCellAssumption == NoCell \notin AllCells
ASSUME ViewportsAssumption == Viewports \subseteq ViewportType
ASSUME FeedsAssumption ==
  Feeds \subseteq [ids : SUBSET EntityIDs, positions : SUBSET Positions]
ASSUME BoundsAssumption == MaxReturns \in Nat /\ MaxCopies \in Nat
ASSUME FiniteAssumption == IsFiniteSet(EntityIDs)

VARIABLES
  entities,           \* [internal id -> position]
  layers,             \* [resolution -> slots]
  globalCellCounts,   \* [resolution -> [cell -> count]]
  totalGlobalCounts,  \* [resolution -> count]
  idCounter,          \* last internal id given out
  entityIDToInternalID,
  entityCells,        \* [internal id -> [resolution -> cell]]
  pending,            \* the part of the batch still to insert: [entity -> position]
  feed                \* outside the program: the feed, which never changes

vars == <<entities, layers, globalCellCounts, totalGlobalCounts, idCounter,
          entityIDToInternalID, entityCells, pending, feed>>

Nothing == [x \in {} |-> NoCell]
MaxInternal == Cardinality(feed.ids) + MaxReturns
Slot == [cell : AllCells, id : 1 .. MaxInternal, copy : Nat]

Without(f, S) == [x \in DOMAIN f \ S |-> f[x]]
With(f, x, y) == [z \in DOMAIN f \cup {x} |-> IF z = x THEN y ELSE f[z]]

(* NewIndex *)
Init ==
  /\ entities = Nothing
  /\ layers = [r \in Resolutions |-> {}]
  /\ globalCellCounts = [r \in Resolutions |-> [c \in Cells[r] |-> 0]]
  /\ totalGlobalCounts = [r \in Resolutions |-> 0]
  /\ idCounter = 0
  /\ entityIDToInternalID = Nothing
  /\ entityCells = Nothing
  /\ pending = Nothing
  /\ feed \in Feeds

InCell(S, c) == {s \in S : s.cell = c}
Copies(r, c, n) == {s \in layers[r] : s.cell = c /\ s.id = n}

-----------------------------------------------------------------------------
(* BatchUpdateRust *)

(* The maps are made anew for the first batch into an empty index. *)
IsFreshAlways(batch) == batch # Nothing
IsFresh(batch) == entities = Nothing /\ batch # Nothing

(* The internal ids to remove. *)
Doomed(removed) ==
  {entityIDToInternalID[id] : id \in removed \cap DOMAIN entityIDToInternalID}

(* A removal job per removed entity and resolution, at the entity's cell;  *)
(* each job drops one copy of every removed entity from its cell.          *)
Deleted(r, doomed) ==
  {s \in layers[r] :
     /\ s.id \in doomed
     /\ s.copy > Cardinality(Copies(r, s.cell, s.id))
                   - Cardinality({n \in doomed : entityCells[n][r] = s.cell})}

(* Take the lock and execute the removals. *)
BatchUpdateRust(batch, removed) ==
  LET doomed == IF IsFresh(batch) THEN {} ELSE Doomed(removed)
      gone == [r \in Resolutions |-> Deleted(r, doomed)]
  IN
  /\ pending = Nothing
  /\ layers' = [r \in Resolutions |-> layers[r] \ gone[r]]
  /\ globalCellCounts' =
       [r \in Resolutions |-> [c \in Cells[r] |->
          globalCellCounts[r][c] - Cardinality(InCell(gone[r], c))]]
  /\ totalGlobalCounts' =
       [r \in Resolutions |-> totalGlobalCounts[r] - Cardinality(gone[r])]
  /\ entities' = IF IsFresh(batch) THEN Nothing ELSE Without(entities, doomed)
  /\ entityCells' = IF IsFresh(batch) THEN Nothing ELSE Without(entityCells, doomed)
  /\ entityIDToInternalID' =
       IF IsFresh(batch) THEN Nothing ELSE Without(entityIDToInternalID, removed)
  /\ pending' = batch
  /\ UNCHANGED <<idCounter, feed>>

(* getInternalID *)
getInternalIDFresh(id) == idCounter + 1
getInternalID(id) ==
  IF id \in DOMAIN entityIDToInternalID THEN entityIDToInternalID[id] ELSE idCounter + 1

(* The resolutions at which an entity is filed anew: all for a new entity, *)
(* those whose cell changed for a known one, none for invalid coordinates. *)
RefiledOnlyIfFiled(n, new) ==
  {r \in Resolutions :
     /\ new[r] # NoCell
     /\ n \in DOMAIN entities => entityCells[n][r] \notin {new[r], NoCell}}
Refiled(n, new) ==
  {r \in Resolutions :
     /\ new[r] # NoCell
     /\ n \in DOMAIN entities => entityCells[n][r] # new[r]}

(* The slot a known entity leaves, if its old cell still has one. *)
OldSlotKept(r, n) == {}
OldSlot(r, n) ==
  IF n \in DOMAIN entities
    THEN {s \in Copies(r, entityCells[n][r], n) :
            s.copy = Cardinality(Copies(r, entityCells[n][r], n))}
    ELSE {}

NewSlot(r, n, cell) ==
  [cell |-> cell, id |-> n, copy |-> Cardinality(Copies(r, cell, n)) + 1]

(* The counters of a cell and of a resolution after a slot moved. *)
RecountedUp(count, left, entered) == count + Cardinality(entered)
Recounted(count, left, entered) == count - Cardinality(left) + Cardinality(entered)

(* Insert or update the next entity. *)
Insert(id) ==
  LET n == getInternalID(id)
      new == CellOf[pending[id]]
      refiled == Refiled(n, new)
      left == [r \in Resolutions |-> IF r \in refiled THEN OldSlot(r, n) ELSE {}]
      entered == [r \in Resolutions |->
                    IF r \in refiled THEN {NewSlot(r, n, new[r])} ELSE {}]
  IN /\ id \in DOMAIN pending
     /\ n <= MaxInternal
     /\ \A r \in Resolutions : \A s \in entered[r] : s.copy <= MaxCopies
     /\ layers' = [r \in Resolutions |-> (layers[r] \ left[r]) \cup entered[r]]
     /\ globalCellCounts' =
          [r \in Resolutions |-> [c \in Cells[r] |->
             Recounted(globalCellCounts[r][c], InCell(left[r], c), InCell(entered[r], c))]]
     /\ totalGlobalCounts' =
          [r \in Resolutions |-> Recounted(totalGlobalCounts[r], left[r], entered[r])]
     /\ entities' = With(entities, n, pending[id])
     /\ entityCells' = With(entityCells, n, new)
     /\ entityIDToInternalID' = With(entityIDToInternalID, id, n)
     /\ idCounter' = IF n > idCounter THEN n ELSE idCounter
     /\ pending' = Without(pending, {id})
     /\ UNCHANGED feed

(* The store removes no entity the same batch reports. *)
Update ==
  \E seen \in SUBSET feed.ids : \E removed \in SUBSET (feed.ids \ seen) :
    \E batch \in [seen -> feed.positions] : BatchUpdateRust(batch, removed)

Next == Update \/ \E id \in EntityIDs : Insert(id)

Spec == Init /\ [][Next]_vars

-----------------------------------------------------------------------------
(* Query, under the read lock *)

ZoomToResolution(zoom) ==
  CASE zoom < 4 -> 3
    [] zoom = 4 -> 5
    [] zoom \in 5 .. 7 -> 6
    [] OTHER -> 7

(* A viewport's cells are those of the resolution it is queried at. *)
ASSUME ViewportCellsAssumption ==
  \A v \in Viewports :
    ZoomToResolution(v.Zoom) \in Resolutions => v.cells \subseteq Cells[ZoomToResolution(v.Zoom)]

onlyClusters(v) == v.Zoom < 5

(* A resolution that is not a target has no layer. *)
Layer(v) ==
  LET r == ZoomToResolution(v.Zoom) IN IF r \in Resolutions THEN layers[r] ELSE {}

Populated(v) == {s.cell : s \in Layer(v)}

(* The loop goes over the viewport's cells when there are fewer of them    *)
(* than populated ones, and else over the populated cells.                 *)
OverViewport(v) == ~v.IsGlobal /\ Cardinality(v.cells) < Cardinality(Populated(v))

ScannedAll(v) == Populated(v)
Scanned(v) == IF v.IsGlobal THEN Populated(v) ELSE Populated(v) \cap v.cells

(* The distinct internal ids met: totalEntitiesInViewport counts them.     *)
processedEntities(v) == {s.id : s \in {t \in Layer(v) : t.cell \in Scanned(v)}}

Visible(v) == IF onlyClusters(v) THEN {} ELSE processedEntities(v) \cap DOMAIN entities

OutOfView(v) ==
  totalGlobalCounts[ZoomToResolution(v.Zoom)] - Cardinality(processedEntities(v))

(* At low zooms the clusters are the cells the loop went over, with their  *)
(* counters; a zero count is left out.                                     *)
ClusterCells(v) == IF OverViewport(v) THEN v.cells ELSE Populated(v)

Clusters(v) ==
  IF ~onlyClusters(v) \/ ZoomToResolution(v.Zoom) \notin Resolutions THEN Nothing
  ELSE LET count == globalCellCounts[ZoomToResolution(v.Zoom)]
       IN [c \in {d \in ClusterCells(v) : count[d] > 0} |-> count[c]]

-----------------------------------------------------------------------------
(* Every variable keeps its type, and the three maps keyed by entity stay  *)
(* aligned: the internal ids in use are distinct and are the keys of both  *)
(* entities and entityCells.                                               *)
TypeOK ==
  /\ DOMAIN entities \subseteq 1 .. idCounter
  /\ entities \in [DOMAIN entities -> Positions]
  /\ layers \in [Resolutions -> SUBSET Slot]
  /\ DOMAIN globalCellCounts = Resolutions
  /\ \A r \in Resolutions : globalCellCounts[r] \in [Cells[r] -> Int]
  /\ totalGlobalCounts \in [Resolutions -> Int]
  /\ idCounter \in 0 .. MaxInternal
  /\ feed \in Feeds
  /\ DOMAIN entityIDToInternalID \subseteq EntityIDs
  /\ entityIDToInternalID \in [DOMAIN entityIDToInternalID -> DOMAIN entities]
  /\ \A n \in DOMAIN entities : \E id \in DOMAIN entityIDToInternalID :
       entityIDToInternalID[id] = n
  /\ \A a, b \in DOMAIN entityIDToInternalID :
       entityIDToInternalID[a] = entityIDToInternalID[b] => a = b
  /\ entityCells = [n \in DOMAIN entities |-> CellOf[entities[n]]]
  /\ DOMAIN pending \subseteq EntityIDs
  /\ pending \in [DOMAIN pending -> Positions]

(* The feed reports no coordinates the Rust library rejects. *)
FeedIsValid == \A pos \in feed.positions : \A r \in Resolutions : CellOf[pos][r] # NoCell

(* With a valid feed, every entity is filed exactly once per resolution,   *)
(* under the cell of its position, and nothing else is filed, at every     *)
(* point of a batch (index.go 174-265).                                    *)
LayersExact ==
  FeedIsValid => \A r \in Resolutions :
    layers[r] = {[cell |-> entityCells[n][r], id |-> n, copy |-> 1] : n \in DOMAIN entities}

(* The counters kept beside the layers agree with them, although every     *)
(* removal, move and insertion updates them separately (index.go 189-193,  *)
(* 235-247, 259-261).                                                      *)
CountsMatch ==
  \A r \in Resolutions :
    /\ totalGlobalCounts[r] = Cardinality(layers[r])
    /\ \A c \in Cells[r] : globalCellCounts[r][c] = Cardinality(InCell(layers[r], c))

IsIn(v, pos) == v.IsGlobal \/ CellOf[pos][ZoomToResolution(v.Zoom)] \in v.cells

(* A query that shows entities shows exactly those whose position is in    *)
(* the viewport.                                                           *)
VisibleExact(v) ==
  ~onlyClusters(v) => Visible(v) = {n \in DOMAIN entities : IsIn(v, entities[n])}

(* The out-of-view count and the entities shown add up to the index.       *)
OutOfViewExact(v) ==
  ~onlyClusters(v) => OutOfView(v) + Cardinality(Visible(v)) = Cardinality(DOMAIN entities)

(* A query at a clustering zoom accounts for every entity in the viewport: *)
(* each of them is in the cluster of its cell, and each cluster counts     *)
(* exactly the entities in its cell.  Zoom 4 maps to a resolution without  *)
(* a layer, and is left out.                                               *)
ClustersExact(v) ==
  LET r == ZoomToResolution(v.Zoom)
      in(c) == {n \in DOMAIN entities : entityCells[n][r] = c}
  IN onlyClusters(v) /\ r \in Resolutions =>
       /\ \A n \in DOMAIN entities :
            IsIn(v, entities[n]) => entityCells[n][r] \in DOMAIN Clusters(v)
       /\ \A c \in DOMAIN Clusters(v) : Clusters(v)[c] = Cardinality(in(c))

(* With a valid feed, what a query answers is what the positions say,      *)
(* whichever of its three loops ran: the entities shown, how many are out  *)
(* of view, and the clusters at low zooms (index.go 319-407).              *)
AnswersExact ==
  FeedIsValid /\ pending = Nothing =>
    \A v \in Viewports : VisibleExact(v) /\ OutOfViewExact(v) /\ ClustersExact(v)

(* Whatever invalid positions were reported before, an entity whose last   *)
(* position is valid is shown by every viewport that covers it (index.go   *)
(* 217-248).                                                               *)
StaysFindable ==
  pending = Nothing =>
    \A v \in Viewports : \A n \in DOMAIN entities :
      (/\ ~onlyClusters(v)
       /\ CellOf[entities[n]][ZoomToResolution(v.Zoom)] # NoCell
       /\ IsIn(v, entities[n]))
        => n \in Visible(v)

(* Where each entity is, once the batch in progress is through.            *)
At ==
  [id \in DOMAIN entityIDToInternalID \cup DOMAIN pending |->
     IF id \in DOMAIN pending THEN pending[id] ELSE entities[entityIDToInternalID[id]]]

(* The map from entity to position that the store relies on (ApplyIndex in *)
(* Store.tla): dropping the removed entities and placing the reported ones.*)
AtAfter(batch, removed) ==
  [id \in (DOMAIN At \ removed) \cup DOMAIN batch |->
     IF id \in DOMAIN batch THEN batch[id] ELSE At[id]]

(* A batch takes effect as a whole and touches nothing else, whatever      *)
(* internal ids it goes through and whether or not the maps are made anew  *)
(* (index.go 115-121, 198-204, 206-266).                                   *)
BatchAsWhole ==
  [][/\ \A removed \in SUBSET (EntityIDs \ DOMAIN pending') :
          BatchUpdateRust(pending', removed) => At' = AtAfter(pending', removed)
     /\ pending # Nothing => At' = At]_vars
=============================================================================
