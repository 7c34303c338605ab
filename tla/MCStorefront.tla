---------------------------- MODULE MCStorefront ----------------------------
(* Small instances of PlanCatalog, Accounts and Sessions for TLC.  They share   *)
(* no state, so a behaviour runs one of them: "part" names it.                  *)
EXTENDS PlanCatalog, Accounts, Sessions, FiniteSets, TLC

CONSTANTS v1, v2, ann, Ann, bob, l1

VARIABLE part

MCValue == {v1, v2}
MCPost == {[f \in Field |-> v1]}
MCPatch == {"amount" :> v2, "title" :> v2, "period" :> v2, "type" :> v2, [f \in Field |-> v2]}
MCAddress == {ann, Ann, bob}
MCE164 == l1 :> l1 @@ v1 :> Absent
MCLower == ann :> ann @@ Ann :> ann @@ bob :> bob

StorefrontInit ==
    /\ part \in {"catalog", "accounts", "sessions"}
    /\ CatalogInit
    /\ AccountsInit
    /\ SessionsInit
    /\ part = "sessions" \/ \A u \in Holder : held[u] = [line |-> l1, verified |-> FALSE]

StorefrontNext ==
    \/ part = "catalog" /\ CatalogNext /\ UNCHANGED <<accountsVars, sessionsVars, part>>
    \/ part = "accounts" /\ AccountsNext /\ UNCHANGED <<catalogVars, sessionsVars, part>>
    \/ part = "sessions" /\ SessionsNext /\ UNCHANGED <<catalogVars, accountsVars, part>>

StorefrontSpec ==
    StorefrontInit /\ [][StorefrontNext]_<<catalogVars, accountsVars, sessionsVars, part>>

\* The type invariants of the three.
TypeOK == CatalogTypeOK /\ AccountsTypeOK /\ SessionsTypeOK

\* Bounds: the requests that begin.
CatalogRequests ==
    {q \in Editor : edit[q].pc # "idle"} \cup {b \in Buy : buy[b].pc # "idle"}
        \cup {a \in Account : register[a] # "create"}
AccountRequests ==
    {w \in Profile : profile[w].pc # "idle"} \cup {m \in Moderate : moderate[m].pc # "idle"}
        \cup {k \in Resend : resend[k].pc # "idle"} \cup {v \in Verify : verify[v].pc # "idle"}
        \cup {c \in Change : change[c].pc # "idle"} \cup {u \in User : enrol[u].pc # "idle"}
\* Those that only a seed tells apart: fewer of the others next to them.
SeedRequests ==
    {u \in User : enrol[u].as \in {"seed", "admin"} \/ enrol[u].pc = "make"
                    \/ enrol[u].found # Nothing \/ phone[u] = "seed"}
        \cup {m \in Moderate : moderate[m].admin}
        \cup {w \in Profile : profile[w].number # Nothing}
ResetRequests ==
    {a \in Ask : ask[a].pc # "idle"} \cup {c \in Check : check[c].pc # "idle"}
        \cup {x \in Use : use[x].pc # "idle"}
TokenRequests ==
    {k \in Login : login[k].pc # "idle"} \cup {f \in Refresh : refresh[f].pc # "idle"}
        \cup {o \in Logout : logout[o].pc # "idle"}
FewRequests ==
    /\ Cardinality(ResetRequests) <= IF TokenRequests = {} THEN 4 ELSE 2
    /\ Cardinality(TokenRequests) <= IF TokenRequests \subseteq Logout \cup Login THEN 2 ELSE 3
    /\ Cardinality(CatalogRequests) <= 3
    /\ Cardinality(AccountRequests) <= IF SeedRequests = {} THEN 4 ELSE 3

Symmetry ==
    Permutations(UpdatePlan) \cup Permutations(Buy) \cup Permutations(User)
        \cup Permutations(Profile)

=============================================================================
