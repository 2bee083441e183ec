----------------------------- MODULE MCExchange -----------------------------
(* The instance of Exchange for TLC. *)
EXTENDS Exchange, TLC

MCSymmetry == Permutations(Connection) \cup Permutations(Content)
=============================================================================
