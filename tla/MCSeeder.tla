------------------------------ MODULE MCSeeder ------------------------------
(* Short-lived and longer tokens, no pause and one longer than maxDelay.   *)
EXTENDS Seeder
=============================================================================
