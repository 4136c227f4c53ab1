--------------------------- MODULE MCCircleQueue ---------------------------
(* Instances of CircleQueue for TLC.                                       *)
EXTENDS CircleQueue

(* A push is shorter than, or longer than, the buffer of a pop.            *)
MCLens == {1, 3}
=============================================================================
