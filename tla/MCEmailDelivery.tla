-------------------------- MODULE MCEmailDelivery --------------------------
(* A small instance of EmailDelivery for TLC: one request, whose message two *)
(* workers may hold at a time, and every kind of fault.  No symmetry, since   *)
(* the run checks liveness.                                                  *)
EXTENDS EmailDelivery
=============================================================================
