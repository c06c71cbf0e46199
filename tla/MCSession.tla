----------------------------- MODULE MCSession -----------------------------
(* A small instance of Session for TLC. *)
EXTENDS Session, TLC

\* Tabs are interchangeable: sound without liveness.
Symmetry == Permutations(Tabs)
=============================================================================
