----------------------------- MODULE OneTimeCode -----------------------------
(***************************************************************************)
(* What the forgotten-password flow promises of the code it mails, with no *)
(* word of Redis, requests or clocks: a code is issued once, claimed at    *)
(* most once, and what it bought is spent at most once.                    *)
(***************************************************************************)
CONSTANT Request   \* the requests that issue a code, one each

VARIABLE grant     \* Request -> the state of its code

States == {"unissued", "open", "claimed", "spent", "void"}

TypeOK == grant \in [Request -> States]

Init == grant = [f \in Request |-> "unissued"]

\* A new code of an address voids the one that was open there.
Issue(f) ==
    /\ grant[f] = "unissued"
    /\ \E S \in {{}} \cup {{g} : g \in Request} :
         /\ \A g \in S : grant[g] = "open"
         /\ grant' = [g \in Request |-> IF g = f THEN "open"
                                       ELSE IF g \in S THEN "void" ELSE grant[g]]

\* The right code, while it is open.
Claim(f) == grant[f] = "open" /\ grant' = [grant EXCEPT ![f] = "claimed"]

\* Too many wrong codes, no time left, or a mail that could not be queued.
Revoke(f) == grant[f] = "open" /\ grant' = [grant EXCEPT ![f] = "void"]

\* A password is replaced on the strength of the code.
Spend(f) == grant[f] = "claimed" /\ grant' = [grant EXCEPT ![f] = "spent"]

Next == \E f \in Request : Issue(f) \/ Claim(f) \/ Revoke(f) \/ Spend(f)

Spec == Init /\ [][Next]_grant

==============================================================================
