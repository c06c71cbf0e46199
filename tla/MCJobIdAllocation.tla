------------------------ MODULE MCJobIdAllocation ------------------------
(* A small instance of JobIdAllocation for TLC. *)
EXTENDS JobIdAllocation
=============================================================================
