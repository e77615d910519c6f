------------------------------- MODULE MCHub -------------------------------
(* The hub with small sets of clients, viewports and places. *)
EXTENDS Hub

CONSTANTS near, far, nearView, farView, badView

OverTheBay == [v \in Views |-> CASE v = nearView -> {near} [] v = farView -> {far} [] OTHER -> {}]
OneView == [v \in Views |-> IF v = nearView THEN {near} ELSE {}]
=============================================================================
