------------------------ MODULE MCResilientConnection ------------------------
(* Model checking of ResilientConnection: a live socket, an attempt, and   *)
(* a swapped-out socket whose close event is late.                         *)
EXTENDS ResilientConnection
============================================================================
