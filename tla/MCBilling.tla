------------------------------ MODULE MCBilling ------------------------------
(* Small instances of Billing for TLC. *)
EXTENDS Billing, TLC

Symmetry ==
    Permutations(Plan) \cup Permutations(Buy) \cup Permutations(Change)
        \cup Permutations(Delivery)

==============================================================================
