------------------------------- MODULE MCLive -------------------------------
(* A small instance of LiveService. *)
EXTENDS LiveService, TLC
=============================================================================
