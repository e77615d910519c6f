----------------------------- MODULE MCHistory -----------------------------
(* No aircraft; more than a chunk of them; one named twice in one chunk,   *)
(* and one named twice in two.                                             *)
EXTENDS History

CONSTANTS e1, e2, e3

Reports == {<<>>, <<e1, e2, e3>>, <<e2, e2>>, <<e1, e3, e1>>}
=============================================================================
