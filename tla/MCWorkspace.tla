----------------------------- MODULE MCWorkspace -----------------------------
(* Small instances of Conversations, SetUp and Content for TLC.  They share no *)
(* state, so a behaviour runs one of them: "part" names it.                    *)
EXTENDS Conversations, SetUp, Content, TLC

CONSTANTS q1, q2

VARIABLE part

MCFigure ==
    {[amount |-> 1, frequency |-> "WEEKLY"], [amount |-> 1, frequency |-> "EVERY_2_WEEKS"]}
MCBody ==
    {[given |-> {"incomes"}, listed |-> {"incomes"}],
     [given |-> Table, listed |-> {"incomes", "goals"}]}

MCList == {<<q1, New>>}

WorkspaceInit ==
    /\ part \in {"conversations", "set-up", "content"}
    /\ ConversationsInit
    /\ SetUpInit
    /\ ContentInit

WorkspaceNext ==
    \/ part = "conversations" /\ ConversationsNext /\ UNCHANGED <<setUpVars, contentVars, part>>
    \/ part = "set-up" /\ SetUpNext /\ UNCHANGED <<conversationsVars, contentVars, part>>
    \/ part = "content" /\ ContentNext /\ UNCHANGED <<conversationsVars, setUpVars, part>>

WorkspaceSpec ==
    WorkspaceInit /\ [][WorkspaceNext]_<<conversationsVars, setUpVars, contentVars, part>>

\* The type invariants of the three.
TypeOK == ConversationsTypeOK /\ SetUpTypeOK /\ ContentTypeOK

\* Bounds: the requests that begin.
ConversationRequests ==
    {o \in Open : open[o].pc # "find"} \cup {s \in Send : send[s].pc # "find"}
        \cup {k \in Mark : mark[k].pc # "find"} \cup (Person \ people)
        \cup {l \in Look : look[l].pc # "idle"}
SetUpRequests ==
    {r \in Request : tx[r].pc # "idle"} \cup {v \in View : view[v].left # Table}
FaqRequests == {b \in Batch : batch[b].pc # "idle"} \cup asked \cup {l \in Peek : peek[l].pc # "idle"}
SiteRequests == {w \in Publish : publish[w].pc # "idle"}
FewRequests ==
    /\ Cardinality(ConversationRequests) <= 4
    /\ Cardinality(SetUpRequests) <= 3
    /\ SiteRequests = {} \/ FaqRequests \subseteq Peek   \* they do not meet
    /\ Cardinality(FaqRequests) <= 3

Symmetry ==
    Permutations(Person) \cup Permutations(Open) \cup Permutations(Mark)
        \cup Permutations(Replace)

==============================================================================
