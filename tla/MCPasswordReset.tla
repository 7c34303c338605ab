-------------------------- MODULE MCPasswordReset --------------------------
(* PasswordReset on small sets; requests of a kind are interchangeable. *)
EXTENDS PasswordReset, TLC

Symmetry == Permutations(Forgot) \cup Permutations(Verify) \cup Permutations(Reset)
            \cup Permutations(User) \cup Permutations(Email) \cup Permutations(Code)

\* Bound of ResetSessions: a behaviour has a mailed code, or it has logins and rewrites.
MailsApart ==
    \/ /\ \A f \in Forgot : forgot[f].pc = "idle"
       /\ \A v \in Verify : verify[v].pc = "idle"
    \/ rewritten = {} /\ \A l \in Login : login[l].pc = "idle"

=============================================================================
