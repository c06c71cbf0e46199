----------------------------- MODULE MCLiveLog -----------------------------
(* A small instance of LiveLog for TLC. *)
EXTENDS LiveLog
=============================================================================
