----------------------------- MODULE MCPresence -----------------------------
(* Model checking of Presence: one swap or reconnect, with the sockets it  *)
(* takes and one to spare.                                                 *)
EXTENDS Presence, TLC

SocketSymmetry == Permutations(Sockets)
============================================================================
