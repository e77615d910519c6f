------------------------------- MODULE MCPage -------------------------------
(* Places on both sides of Greenwich and of the antimeridian.  The map     *)
(* begins with the whole globe at zoom 3; the other views are detailed and *)
(* as wide as a screen shows at their zoom, over Greenwich and over the    *)
(* antimeridian as the map counts from either side.                        *)
EXTENDS Page

SomeLongitudes == {-170, -10, 170}
SomeViews ==
  {[west |-> -200, east |-> 200, zoom |-> 30],
   [west |-> -20, east |-> 20, zoom |-> 50],
   [west |-> 155, east |-> 205, zoom |-> 46],
   [west |-> -210, east |-> -175, zoom |-> 51]}
=============================================================================
