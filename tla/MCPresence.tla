----------------------------- MODULE MCPresence -----------------------------
(* Small instances of Presence for TLC. *)
EXTENDS Presence, TLC

Symmetry == Permutations(Name) \cup Permutations(Socket)

=============================================================================
