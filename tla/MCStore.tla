------------------------------ MODULE MCStore ------------------------------
(* The entity store with one seeder reporting every entity. *)
EXTENDS Store

OneSource == {EntityIDs}
=============================================================================
