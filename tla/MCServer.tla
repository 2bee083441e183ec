------------------------------ MODULE MCServer ------------------------------
(* The instance of Server for TLC: one thread, the default, or two. *)
EXTENDS Server

OneOrTwo == {1, 2}
=============================================================================
