------------------------- MODULE MCPhoneVerification -------------------------
(* Small instances of PhoneVerification for TLC. *)
EXTENDS PhoneVerification, TLC

Symmetry ==
    Permutations(User) \cup Permutations(Phone) \cup Permutations(Register)
        \cup Permutations(Resend) \cup Permutations(Check) \cup Permutations(Update)

==============================================================================
