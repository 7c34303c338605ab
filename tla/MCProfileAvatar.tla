--------------------------- MODULE MCProfileAvatar ---------------------------
(* Small instances of ProfileAvatar for TLC. *)
EXTENDS ProfileAvatar, TLC

Symmetry == Permutations(User) \cup Permutations(Update)

==============================================================================
