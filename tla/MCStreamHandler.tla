-------------------------- MODULE MCStreamHandler --------------------------
(* One connection; the bound on the browser's viewports is in the cfg. *)
EXTENDS StreamHandler
=============================================================================
