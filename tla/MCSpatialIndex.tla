--------------------------- MODULE MCSpatialIndex ---------------------------
(* Two harbours that share their coarse cells, one far away, and "nowhere":*)
(* coordinates the Rust library rejects.  A cell is its resolution and a   *)
(* name.                                                                   *)
EXTENDS SpatialIndex, TLC

CellAt(pos, r) ==
  CASE pos = "nowhere" -> NoCell
    [] pos = "far" -> <<r, "far">>
    [] OTHER -> IF r < 6 THEN <<r, "bay">> ELSE <<r, pos>>

(* The cells of the positions, and one of open sea. *)
CellsAt ==
  [r \in Resolutions |->
     ({CellAt(pos, r) : pos \in Positions} \ {NoCell}) \cup (IF r = 6 THEN {<<6, "sea">>} ELSE {})]

CellsOf == [pos \in Positions |-> [r \in Resolutions |-> CellAt(pos, r)]]

View(zoom, names) ==
  [Zoom |-> zoom, IsGlobal |-> FALSE,
   cells |-> {<<ZoomToResolution(zoom), name>> : name \in names} \cap AllCells]
World(zoom) == [Zoom |-> zoom, IsGlobal |-> TRUE, cells |-> {}]

(* Each loop of Query, at zooms that show entities and at zooms that show  *)
(* clusters.                                                               *)
SomeViews ==
  {World(6), View(6, {"east"}), View(7, {"west", "far", "sea"}), View(9, {"east", "west"}),
   View(12, {}), World(3), View(2, {"bay"}), View(3, {"bay", "far"})}

(* All entities at valid positions, or two of them at positions that are   *)
(* not all valid.                                                          *)
SomeFeeds ==
  {[ids |-> EntityIDs, positions |-> {"east", "west", "far"}]}
    \cup {[ids |-> S, positions |-> {"east", "west", "nowhere"}] :
             S \in {T \in SUBSET EntityIDs : Cardinality(T) = 2}}

(* No entity is told from another. *)
Alike == Permutations(EntityIDs)
=============================================================================
