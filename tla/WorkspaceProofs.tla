-------------------------- MODULE WorkspaceProofs --------------------------
(***************************************************************************)
(* The theorems of Conversations, SetUp and Content, for any people, rows  *)
(* and requests, and their composition: a behaviour of the workspace is    *)
(* one of each of the three.                                               *)
(*                                                                         *)
(* ConversationsInv adds to the types what a request holds (RequestsOK),   *)
(* whose creates met (PairsMet), what a mark under way leaves true         *)
(* (StatusesOK), that a stored message stands and falls with its           *)
(* conversation (RepliesOK), and what a read rests on (ReadsOK).           *)
(*                                                                         *)
(* SetUpInv adds where the rows of a replaced table are at every stage of  *)
(* its transaction (Emptied) and the order in which tables are taken       *)
(* (InOrder).  The sums of a pay plan are those of a recursive function    *)
(* over a finite set; that they exist and are numbers is shown by a        *)
(* minimal set of which it fails (MinimalSubset).                          *)
(*                                                                         *)
(* ContentInv adds what the table is made of next to a batch that is       *)
(* alone (Clean), that dropped rows do not come back (Drops), and which    *)
(* publishes are creating the website's row (SitesInv).                    *)
(***************************************************************************)
EXTENDS MCWorkspace, FiniteSetTheorems, WellFoundedInduction, TLAPS

------------------------------------------------------------------------------
(* Conversations *)

\* What a request has read by the time it waits at a step; a row is of a request
\* that has passed the step that makes it.
RequestsOK ==
    /\ \A o \in Open : open[o].pc = "create" =>
           open[o].creator \in Person /\ open[o].participant \in Person
    /\ \A c \in conversations : open[c].pc = "done"
    /\ \A s \in messages : send[s].pc \in {"touch", "sent", "refused"}
    /\ \A k \in Mark : mark[k].pc \in {"write", "say"} =>
           mark[k].message \in Send /\ mark[k].status \in Status
    /\ \A l \in Look : look[l].pc = "conversation" =>
           look[l].reader \in Person /\ look[l].conversation \in Open

\* Two requests for one pair have met: both about to create it, one after the
\* other made it, and both after that.
PairsMet ==
    /\ \A a, b \in Open :
           /\ a # b /\ open[a].pc = "create" /\ open[b].pc = "create"
           /\ open[a].creator = open[b].creator /\ open[a].participant = open[b].participant
           => {a, b} \in met
    /\ \A a \in Open, c \in conversations :
           /\ open[a].pc = "create"
           /\ open[a].creator = creator[c] /\ open[a].participant = participant[c]
           => {a, c} \in met
    /\ \A c, d \in conversations :
           /\ c # d /\ Nobody \notin Pair(c)
           /\ creator[c] = creator[d] /\ participant[c] = participant[d]
           => {c, d} \in met

\* A message nobody was told of is not marked.  But for crossed messages, one mark
\* is under way at a time; before its write the last broadcast stands, and after it
\* the column is what it is going to broadcast.
StatusesOK ==
    /\ \A s \in Send : send[s].pc \in {"find", "receiver", "store"} =>
           news[s] = Nobody /\ Marking(s) = {}
    /\ \A s \in Send \ crossed : \A j, k \in Marking(s) : j = k
    /\ \A s \in messages \ crossed :
           (\A k \in Marking(s) : mark[k].pc = "write") => news[s] \in {Nobody, status[s]}
    /\ \A s \in messages \ crossed : \A k \in Marking(s) :
           mark[k].pc = "say" => mark[k].status = status[s]

\* A message that was stored stands and falls with its conversation, and one that
\* was refused is not stored, unless it is lost.
RepliesOK ==
    /\ \A s \in Send : send[s].pc \in {"touch", "sent"} =>
           /\ send[s].conversation \in Open
           /\ open[send[s].conversation].pc = "done"
           /\ s \in messages <=> send[s].conversation \in conversations
    /\ \A s \in Send : send[s].pc = "refused" /\ s \in messages => s \in lost

\* The columns are the people the request named, or null once one was removed; a
\* read that has got to the messages is of a conversation of the reader; one that
\* broke met a row that was removed.
Broke(l) ==
    \/ people # Person
    \/ /\ look[l].conversation \in Open \ conversations
       /\ open[look[l].conversation].pc = "done"
Reads(l) ==
    /\ look[l].conversation \in Open
    /\ open[look[l].conversation].pc = "done"
    /\ look[l].reader \in Admin \cup {open[look[l].conversation].creator,
                                      open[look[l].conversation].participant}
ColumnsOK(c) ==
    /\ creator[c] \in {Nobody, open[c].creator}
    /\ participant[c] \in {Nobody, open[c].participant}
    /\ Nobody \in Pair(c) => people # Person
ReadsOK ==
    /\ \A c \in conversations : ColumnsOK(c)
    /\ \A l \in Look : look[l].pc \in {"idle", "conversation"} => look[l].shown = {}
    /\ \A l \in Look : look[l].pc = "messages" \/ look[l].shown # {} => Reads(l)
    /\ \A l \in Look : look[l].pc = "broken" => Broke(l)

ConversationsInv ==
    /\ ConversationsTypeOK
    /\ RequestsOK
    /\ PairsMet
    /\ StatusesOK
    /\ RepliesOK
    /\ ReadsOK

------------------------------------------------------------------------------
(* The initial states *)

LEMMA InitHolds == ASSUME ConversationsInit PROVE ConversationsInv
<1> USE DEF ConversationsInit
<1>1. ConversationsTypeOK
  <2>1. open \in [Open -> OpenState] BY DEF OpenState
  <2>2. send \in [Send -> SendState] BY DEF SendState
  <2>3. mark \in [Mark -> MarkState] BY DEF MarkState
  <2>4. look \in [Look -> LookState] BY DEF LookState
  <2>5. status \in [Send -> Status] BY DEF Status
  <2>6. people = Person /\ conversations = {} /\ messages = {} /\ met = {} /\ lost = {}
        /\ crossed = {}
    OBVIOUS
  <2>7. /\ creator \in [Open -> Person \cup {Nobody}]
        /\ participant \in [Open -> Person \cup {Nobody}]
        /\ news \in [Send -> Status \cup {Nobody}]
    OBVIOUS
  <2> HIDE DEF ConversationsInit
  <2> QED BY <2>1, <2>2, <2>3, <2>4, <2>5, <2>6, <2>7 DEF ConversationsTypeOK
<1>2. RequestsOK BY DEF RequestsOK
<1>3. PairsMet BY DEF PairsMet
<1>4. StatusesOK BY DEF StatusesOK, Marking
<1>5. RepliesOK BY DEF RepliesOK
<1>6. ReadsOK BY DEF ReadsOK
<1> QED BY <1>1, <1>2, <1>3, <1>4, <1>5, <1>6 DEF ConversationsInv

------------------------------------------------------------------------------
(* Types *)

\* Opening a conversation, and removing one or a person, keep the types.
LEMMA RowTypes ==
    ASSUME ConversationsTypeOK, RequestsOK,
           \/ \E o \in Open : OpenNext(o)
           \/ \E c \in Open : RemoveConversation(c)
           \/ \E p \in Person : RemovePerson(p)
    PROVE  ConversationsTypeOK'
<1>1. ASSUME NEW o \in Open, NEW p \in Person, NEW q \in Person, OpenFind(o, p, q)
      PROVE  ConversationsTypeOK'
  <2>1. open' \in [Open -> OpenState]
    BY <1>1 DEF OpenFind, ConversationsTypeOK, OpenState
  <2>2. met' \subseteq {{a, b} : a, b \in Open}
    BY <1>1 DEF OpenFind, ConversationsTypeOK
  <2> QED BY <1>1, <2>1, <2>2 DEF OpenFind, ConversationsTypeOK
<1>2. ASSUME NEW o \in Open, OpenCreate(o) PROVE ConversationsTypeOK'
  <2>1. open[o] \in OpenState BY DEF ConversationsTypeOK
  <2>2. open' \in [Open -> OpenState]
    BY <1>2, <2>1 DEF OpenCreate, ConversationsTypeOK, OpenState
  <2>3. open[o].creator \in people /\ open[o].participant \in people BY <1>2 DEF OpenCreate
  <2>4. /\ creator' \in [Open -> Person \cup {Nobody}]
        /\ participant' \in [Open -> Person \cup {Nobody}]
    BY <1>2, <2>3 DEF OpenCreate, ConversationsTypeOK
  <2>5. \A c \in conversations' : creator'[c] \in people' \cup {Nobody}
                                  /\ participant'[c] \in people' \cup {Nobody}
    BY <1>2, <2>3 DEF OpenCreate, ConversationsTypeOK
  <2> QED BY <1>2, <2>2, <2>4, <2>5 DEF OpenCreate, ConversationsTypeOK
<1>3. ASSUME NEW o \in Open, OpenFails(o) PROVE ConversationsTypeOK'
  BY <1>3 DEF OpenFails, ConversationsTypeOK, OpenState
<1>4. ASSUME NEW c \in Open, RemoveConversation(c) PROVE ConversationsTypeOK'
  BY <1>4 DEF RemoveConversation, ConversationsTypeOK
<1>5. ASSUME NEW p \in Person, RemovePerson(p) PROVE ConversationsTypeOK'
  BY <1>5 DEF RemovePerson, ConversationsTypeOK
<1> QED BY <1>1, <1>2, <1>3, <1>4, <1>5 DEF OpenNext

\* Sending keeps them: the conversation of a stored message does not change.
LEMMA SendTypes ==
    ASSUME ConversationsTypeOK, RequestsOK, \E s \in Send : SendNext(s)
    PROVE  ConversationsTypeOK'
<1>1. ASSUME NEW s \in Send, NEW p \in Person, NEW q \in Person, NEW c \in Open,
             SendFind(s, p, q, c)
      PROVE  ConversationsTypeOK'
  <2>1. send' \in [Send -> SendState] BY <1>1 DEF SendFind, ConversationsTypeOK, SendState
  <2>2. s \notin messages BY <1>1 DEF SendFind, RequestsOK
  <2>3. \A t \in messages : send'[t] = send[t]
    BY <1>1, <2>2 DEF SendFind, ConversationsTypeOK
  <2> QED BY <1>1, <2>1, <2>3 DEF SendFind, ConversationsTypeOK
<1>2. ASSUME NEW s \in Send, SendReceiver(s) \/ SendTouch(s) \/ SendFails(s)
      PROVE  ConversationsTypeOK'
  <2>1. send[s] \in SendState BY DEF ConversationsTypeOK
  <2>2. \E pc \in {"store", "sent", "refused"} : send' = [send EXCEPT ![s].pc = pc]
    BY <1>2 DEF SendReceiver, SendTouch, SendFails
  <2>3. send' \in [Send -> SendState] BY <2>1, <2>2 DEF ConversationsTypeOK, SendState
  <2>4. \A t \in Send : send'[t].conversation = send[t].conversation
    BY <2>1, <2>2 DEF ConversationsTypeOK, SendState
  <2>5. lost' \subseteq Send
    BY <1>2 DEF SendReceiver, SendTouch, SendFails, ConversationsTypeOK
  <2>6. UNCHANGED <<people, conversations, creator, participant, messages, status, news, open,
                    mark, met, crossed, look>>
    BY <1>2 DEF SendReceiver, SendTouch, SendFails
  <2> QED BY <2>3, <2>4, <2>5, <2>6 DEF ConversationsTypeOK
<1>3. ASSUME NEW s \in Send, SendStore(s) PROVE ConversationsTypeOK'
  <2>1. send[s] \in SendState BY DEF ConversationsTypeOK
  <2>2. send' \in [Send -> SendState]
    BY <1>3, <2>1 DEF SendStore, ConversationsTypeOK, SendState
  <2>3. \A t \in Send : send'[t].conversation = send[t].conversation
    BY <1>3, <2>1 DEF SendStore, ConversationsTypeOK, SendState
  <2>4. status' \in [Send -> Status] BY <1>3 DEF SendStore, ConversationsTypeOK, Status
  <2>5. \A t \in messages' : send'[t].conversation \in conversations'
    BY <1>3, <2>3 DEF SendStore, ConversationsTypeOK
  <2> QED BY <1>3, <2>2, <2>4, <2>5 DEF SendStore, ConversationsTypeOK
<1> QED BY <1>1, <1>2, <1>3 DEF SendNext

\* Marking and reading keep them.
LEMMA OtherTypes ==
    ASSUME ConversationsTypeOK, RequestsOK,
           \/ \E k \in Mark : MarkNext(k)
           \/ \E l \in Look : LookNext(l) \/ ReadNext(l)
    PROVE  ConversationsTypeOK'
<1>1. ASSUME NEW k \in Mark, NEW s \in Send, NEW st \in Status, MarkFind(k, s, st)
      PROVE  ConversationsTypeOK'
  BY <1>1 DEF MarkFind, ConversationsTypeOK, MarkState
<1>2. ASSUME NEW k \in Mark, MarkWrite(k) PROVE ConversationsTypeOK'
  <2>1. mark[k] \in MarkState /\ mark[k].status \in Status
    BY <1>2 DEF MarkWrite, ConversationsTypeOK, RequestsOK
  <2>2. mark' \in [Mark -> MarkState]
    BY <1>2, <2>1 DEF MarkWrite, ConversationsTypeOK, MarkState
  <2>3. status' \in [Send -> Status] BY <1>2, <2>1 DEF MarkWrite, ConversationsTypeOK
  <2> QED BY <1>2, <2>2, <2>3 DEF MarkWrite, ConversationsTypeOK
<1>3. ASSUME NEW k \in Mark, MarkSay(k) PROVE ConversationsTypeOK'
  <2>1. mark[k] \in MarkState BY DEF ConversationsTypeOK
  <2>2. mark' \in [Mark -> MarkState]
    BY <1>3, <2>1 DEF MarkSay, ConversationsTypeOK, MarkState
  <2>3. news' \in [Send -> Status \cup {Nobody}]
    BY <1>3 DEF MarkSay, ConversationsTypeOK, RequestsOK
  <2> QED BY <1>3, <2>2, <2>3 DEF MarkSay, ConversationsTypeOK
<1>4. ASSUME NEW k \in Mark, MarkFails(k) PROVE ConversationsTypeOK'
  BY <1>4 DEF MarkFails, ConversationsTypeOK, MarkState
<1>5. ASSUME NEW l \in Look, LookNext(l) \/ ReadNext(l) PROVE ConversationsTypeOK'
  <2>1. look \in [Look -> LookState] /\ look[l] \in LookState BY DEF ConversationsTypeOK
  <2>2. ASSUME ListAll(l) PROVE look' \in [Look -> LookState]
    BY <2>1, <2>2 DEF ListAll, LookState
  <2>3. ASSUME NEW c \in Open, ShowOne(l, c) PROVE look' \in [Look -> LookState]
    <3>1. PICK pc \in {"shown", "broken"} :
              look' = [look EXCEPT ![l] = [@ EXCEPT !.conversation = c, !.pc = pc]]
      BY <2>3 DEF ShowOne
    <3> QED BY <2>1, <3>1 DEF LookState
  <2>4. ASSUME NEW p \in Person, NEW c \in Open, ReadDetails(l, p, c)
        PROVE  look' \in [Look -> LookState]
    <3>1. PICK pc \in {"conversation", "broken"} :
              look' = [look EXCEPT ![l] =
                          [@ EXCEPT !.reader = p, !.conversation = c, !.pc = pc]]
      BY <2>4 DEF ReadDetails
    <3> QED BY <2>1, <3>1 DEF LookState
  <2>5. ASSUME ReadConversation(l) PROVE look' \in [Look -> LookState]
    BY <2>1, <2>5 DEF ReadConversation, LookState
  <2>6. ASSUME ReadMessages(l) PROVE look' \in [Look -> LookState]
    <3> DEFINE m == {s \in messages : send[s].conversation = look[l].conversation}
    <3>1. m \in SUBSET Send BY DEF ConversationsTypeOK
    <3>2. look' = [look EXCEPT ![l] = [@ EXCEPT !.shown = m, !.pc = "shown"]]
      BY <2>6 DEF ReadMessages
    <3> HIDE DEF m
    <3> QED BY <2>1, <3>1, <3>2 DEF LookState
  <2>7. ASSUME LookFails(l) PROVE look' \in [Look -> LookState]
    BY <2>1, <2>7 DEF LookFails, LookState
  <2>8. UNCHANGED <<people, conversations, creator, participant, messages, status, news, open,
                    send, mark, met, lost, crossed>>
    BY <1>5 DEF LookNext, ReadNext, ListAll, ShowOne, ReadDetails, ReadConversation,
                ReadMessages, LookFails
  <2>9. look' \in [Look -> LookState]
    BY <1>5, <2>2, <2>3, <2>4, <2>5, <2>6, <2>7 DEF LookNext, ReadNext
  <2> QED BY <2>8, <2>9 DEF ConversationsTypeOK
<1> QED BY <1>1, <1>2, <1>3, <1>4, <1>5 DEF MarkNext

------------------------------------------------------------------------------
(* What changes what *)

\* Steps that do not send leave the messages' requests alone, and so on: what each
\* kind of step may write.
LEMMA OpenFrame ==
    ASSUME NEW o \in Open, OpenNext(o)
    PROVE  UNCHANGED <<people, messages, status, news, send, mark, lost, crossed, look>>
  BY DEF OpenNext, OpenFind, OpenCreate, OpenFails

LEMMA SendFrame ==
    ASSUME NEW s \in Send, SendNext(s)
    PROVE  UNCHANGED <<people, conversations, creator, participant, news, open, mark, met,
                       crossed, look>>
  BY DEF SendNext, SendFind, SendReceiver, SendStore, SendTouch, SendFails

LEMMA MarkFrame ==
    ASSUME NEW k \in Mark, MarkNext(k)
    PROVE  UNCHANGED <<people, conversations, creator, participant, messages, open, send, met,
                       lost, look>>
  BY DEF MarkNext, MarkFind, MarkWrite, MarkSay, MarkFails

LEMMA LookFrame ==
    ASSUME NEW l \in Look, LookNext(l) \/ ReadNext(l)
    PROVE  UNCHANGED <<people, conversations, creator, participant, messages, status, news,
                       open, send, mark, met, lost, crossed>>
  BY DEF LookNext, ReadNext, ListAll, ShowOne, ReadDetails, ReadConversation, ReadMessages,
         LookFails

\* A request that opens a conversation has a pair, and keeps it.
LEMMA OpenStep ==
    ASSUME ConversationsTypeOK, RequestsOK, NEW o \in Open, OpenNext(o)
    PROVE  /\ \A a \in Open : a # o => open'[a] = open[a]
           /\ open'[o].pc \in {"create", "exists", "done", "failed"}
           /\ open'[o].pc = "create" =>
                  open'[o].creator \in Person /\ open'[o].participant \in Person
           /\ open[o].pc # "done"
<1>1. open \in [Open -> OpenState] /\ open[o] \in OpenState BY DEF ConversationsTypeOK
<1>2. ASSUME NEW p \in Person, NEW q \in Person, OpenFind(o, p, q)
      PROVE  /\ \A a \in Open : a # o => open'[a] = open[a]
             /\ open'[o].pc \in {"create", "exists"}
             /\ open'[o].creator = p /\ open'[o].participant = q
             /\ open[o].pc = "find"
  <2>1. PICK pc \in {"create", "exists"} :
            open' = [open EXCEPT ![o] = [pc |-> pc, creator |-> p, participant |-> q]]
    BY <1>2 DEF OpenFind
  <2> QED BY <1>1, <1>2, <2>1 DEF OpenFind
<1>3. ASSUME OpenCreate(o) \/ OpenFails(o)
      PROVE  /\ \A a \in Open : a # o => open'[a] = open[a]
             /\ open'[o].pc \in {"done", "failed"}
             /\ open[o].pc = "create"
  BY <1>1, <1>3 DEF OpenCreate, OpenFails, OpenState
<1> QED BY <1>2, <1>3 DEF OpenNext

\* One step of a request that sends, but for the first.
LEMMA SendStep ==
    ASSUME ConversationsTypeOK, NEW s \in Send, SendNext(s)
    PROVE  /\ \A t \in Send : t # s => send'[t] = send[t]
           /\ \/ /\ send[s].pc = "find"
                 /\ send'[s].pc \in {"receiver", "refused"}
                 /\ UNCHANGED <<messages, status, lost>>
              \/ /\ send[s].pc = "receiver"
                 /\ send'[s].pc \in {"store", "refused"}
                 /\ UNCHANGED <<messages, status, lost>>
              \/ SendStore(s) /\ send'[s].pc = "touch"
              \/ SendTouch(s) /\ send'[s].pc \in {"sent", "refused"}
              \/ SendFails(s) /\ send'[s].pc = "refused"
           /\ send[s].pc # "find" => send'[s].conversation = send[s].conversation
<1>1. send \in [Send -> SendState] /\ send[s] \in SendState BY DEF ConversationsTypeOK
<1>2. ASSUME NEW p \in Person, NEW q \in Person, NEW c \in Open, SendFind(s, p, q, c)
      PROVE  /\ \A t \in Send : t # s => send'[t] = send[t]
             /\ send[s].pc = "find"
             /\ send'[s].pc \in {"receiver", "refused"}
             /\ UNCHANGED <<messages, status, lost>>
  BY <1>1, <1>2 DEF SendFind
<1>3. ASSUME SendReceiver(s)
      PROVE  /\ \A t \in Send : t # s => send'[t] = send[t]
             /\ send[s].pc = "receiver"
             /\ send'[s].pc \in {"store", "refused"}
             /\ UNCHANGED <<messages, status, lost>>
             /\ send'[s].conversation = send[s].conversation
  BY <1>1, <1>3 DEF SendReceiver, SendState
<1>4. ASSUME SendStore(s)
      PROVE  /\ \A t \in Send : t # s => send'[t] = send[t]
             /\ send'[s].pc = "touch"
             /\ send'[s].conversation = send[s].conversation
  BY <1>1, <1>4 DEF SendStore, SendState
<1>5. ASSUME SendTouch(s)
      PROVE  /\ \A t \in Send : t # s => send'[t] = send[t]
             /\ send'[s].pc \in {"sent", "refused"}
             /\ send'[s].conversation = send[s].conversation
  BY <1>1, <1>5 DEF SendTouch, SendState
<1>6. ASSUME SendFails(s)
      PROVE  /\ \A t \in Send : t # s => send'[t] = send[t]
             /\ send'[s].pc = "refused"
             /\ send'[s].conversation = send[s].conversation
  BY <1>1, <1>6 DEF SendFails, SendState
<1> QED BY <1>2, <1>3, <1>4, <1>5, <1>6 DEF SendNext

\* One step of a mark.
LEMMA MarkStep ==
    ASSUME ConversationsTypeOK, NEW k \in Mark, MarkNext(k)
    PROVE  /\ \A j \in Mark : j # k => mark'[j] = mark[j]
           /\ \/ \E s \in Send, st \in Status :
                   /\ MarkFind(k, s, st)
                   /\ mark'[k] = [pc |-> IF s \in messages THEN "write" ELSE "say",
                                  message |-> s, status |-> st]
              \/ MarkWrite(k) /\ mark'[k].pc = "say"
              \/ MarkSay(k) /\ mark'[k].pc = "done"
              \/ MarkFails(k) /\ mark'[k].pc = "failed"
           /\ mark[k].pc # "find" =>
                  mark'[k].message = mark[k].message /\ mark'[k].status = mark[k].status
<1>1. mark \in [Mark -> MarkState] /\ mark[k] \in MarkState BY DEF ConversationsTypeOK
<1>2. ASSUME NEW s \in Send, NEW st \in Status, MarkFind(k, s, st)
      PROVE  /\ \A j \in Mark : j # k => mark'[j] = mark[j]
             /\ mark'[k] = [pc |-> IF s \in messages THEN "write" ELSE "say",
                            message |-> s, status |-> st]
             /\ mark[k].pc = "find"
  BY <1>1, <1>2 DEF MarkFind
<1>3. ASSUME MarkWrite(k) \/ MarkSay(k) \/ MarkFails(k)
      PROVE  /\ \A j \in Mark : j # k => mark'[j] = mark[j]
             /\ mark'[k].message = mark[k].message /\ mark'[k].status = mark[k].status
  BY <1>1, <1>3 DEF MarkWrite, MarkSay, MarkFails, MarkState
<1>4. ASSUME MarkWrite(k) PROVE mark'[k].pc = "say"
  BY <1>1, <1>4 DEF MarkWrite, MarkState
<1>5. ASSUME MarkSay(k) PROVE mark'[k].pc = "done"
  BY <1>1, <1>5 DEF MarkSay, MarkState
<1>6. ASSUME MarkFails(k) PROVE mark'[k].pc = "failed"
  BY <1>1, <1>6 DEF MarkFails, MarkState
<1> QED BY <1>2, <1>3, <1>4, <1>5, <1>6 DEF MarkNext

\* One step of a read, by what it has and by what it gets.
LEMMA LookStep ==
    ASSUME ConversationsTypeOK, NEW l \in Look, LookNext(l) \/ ReadNext(l)
    PROVE  /\ \A m \in Look : m # l => look'[m] = look[m]
           /\ \/ /\ look[l].pc = "idle"
                 /\ look'[l].shown = look[l].shown
                 /\ \/ look'[l].pc = "shown"
                    \/ look'[l].pc = "broken" /\ \E c \in conversations : Nobody \in Pair(c)
                    \/ /\ look'[l].pc = "broken"
                       /\ look'[l].conversation \in Open
                       /\ open[look'[l].conversation].pc = "done"
                       /\ \/ look'[l].conversation \notin conversations
                          \/ creator[look'[l].conversation] = Nobody
                    \/ look'[l].pc = "broken" /\ people # Person
                    \/ /\ look'[l].pc = "conversation"
                       /\ look'[l].reader \in Person /\ look'[l].conversation \in Open
              \/ /\ look[l].pc = "conversation"
                 /\ look'[l].pc \in {"messages", "refused"}
                 /\ look'[l].shown = look[l].shown /\ look'[l].reader = look[l].reader
                 /\ look'[l].conversation = look[l].conversation
                 /\ look'[l].pc = "messages" =>
                        /\ look[l].conversation \in conversations
                        /\ look[l].reader \in Admin \cup Pair(look[l].conversation)
              \/ /\ look[l].pc = "messages"
                 /\ look'[l].pc \in {"shown", "refused"}
                 /\ look'[l].reader = look[l].reader
                 /\ look'[l].conversation = look[l].conversation
<1>1. look \in [Look -> LookState] /\ look[l] \in LookState BY DEF ConversationsTypeOK
<1>2. \A m \in Look : m # l => look'[m] = look[m]
  <2>1. ASSUME LookNext(l) PROVE \E x : look' = [look EXCEPT ![l] = x]
    BY <2>1 DEF LookNext, ListAll, ShowOne
  <2>2. ASSUME ReadNext(l) PROVE \E x : look' = [look EXCEPT ![l] = x]
    BY <2>2 DEF ReadNext, ReadDetails, ReadConversation, ReadMessages, LookFails
  <2> QED BY <1>1, <2>1, <2>2
<1>3. ASSUME ListAll(l)
      PROVE  /\ look[l].pc = "idle" /\ look'[l].shown = look[l].shown
             /\ \/ look'[l].pc = "shown"
                \/ look'[l].pc = "broken" /\ \E c \in conversations : Nobody \in Pair(c)
  BY <1>1, <1>3 DEF ListAll, LookState
<1>4. ASSUME NEW c \in Open, ShowOne(l, c)
      PROVE  /\ look[l].pc = "idle" /\ look'[l].shown = look[l].shown
             /\ look'[l].conversation = c /\ open[c].pc = "done"
             /\ \/ look'[l].pc = "shown"
                \/ look'[l].pc = "broken" /\ (c \notin conversations \/ creator[c] = Nobody)
  BY <1>1, <1>4 DEF ShowOne, LookState
<1>5. ASSUME NEW p \in Person, NEW c \in Open, ReadDetails(l, p, c)
      PROVE  /\ look[l].pc = "idle" /\ look'[l].shown = look[l].shown
             /\ look'[l].reader = p /\ look'[l].conversation = c
             /\ \/ look'[l].pc = "conversation"
                \/ look'[l].pc = "broken" /\ people # Person
  BY <1>1, <1>5 DEF ReadDetails, LookState
<1>6. ASSUME ReadConversation(l)
      PROVE  /\ look[l].pc = "conversation"
             /\ look'[l].pc \in {"messages", "refused"}
             /\ look'[l].shown = look[l].shown /\ look'[l].reader = look[l].reader
             /\ look'[l].conversation = look[l].conversation
             /\ look'[l].pc = "messages" =>
                    /\ look[l].conversation \in conversations
                    /\ look[l].reader \in Admin \cup Pair(look[l].conversation)
  BY <1>1, <1>6 DEF ReadConversation, LookState
<1>7. ASSUME ReadMessages(l)
      PROVE  /\ look[l].pc = "messages" /\ look'[l].pc = "shown"
             /\ look'[l].reader = look[l].reader
             /\ look'[l].conversation = look[l].conversation
  BY <1>1, <1>7 DEF ReadMessages, LookState
<1>8. ASSUME LookFails(l)
      PROVE  /\ look[l].pc \in {"conversation", "messages"} /\ look'[l].pc = "refused"
             /\ look'[l].shown = look[l].shown /\ look'[l].reader = look[l].reader
             /\ look'[l].conversation = look[l].conversation
  BY <1>1, <1>8 DEF LookFails, LookState
<1>9. CASE LookNext(l) BY <1>2, <1>3, <1>4, <1>9 DEF LookNext
<1>10. CASE ReadNext(l) BY <1>2, <1>5, <1>6, <1>7, <1>8, <1>10 DEF ReadNext
<1> QED BY <1>9, <1>10

------------------------------------------------------------------------------
(* What requests hold *)

LEMMA RequestsStep ==
    ASSUME ConversationsTypeOK, RequestsOK, ConversationsNext
    PROVE  RequestsOK'
<1>1. ASSUME NEW o \in Open, OpenNext(o) PROVE RequestsOK'
  <2>1. UNCHANGED <<messages, send, mark, look>> BY <1>1, OpenFrame
  <2>2. o \notin conversations BY <1>1, OpenStep DEF RequestsOK
  <2>3. conversations' = conversations \/ (conversations' = conversations \cup {o}
                                           /\ open'[o].pc = "done")
    BY <1>1 DEF OpenNext, OpenFind, OpenCreate, OpenFails, ConversationsTypeOK, OpenState
  <2>4. conversations \subseteq Open BY DEF ConversationsTypeOK
  <2>5. \A a \in Open : open'[a].pc = "create" =>
            open'[a].creator \in Person /\ open'[a].participant \in Person
    BY <1>1, OpenStep DEF RequestsOK
  <2>6. \A c \in conversations' : open'[c].pc = "done"
    BY <1>1, <2>2, <2>3, <2>4, OpenStep DEF RequestsOK
  <2> QED BY <2>1, <2>5, <2>6 DEF RequestsOK
<1>2. ASSUME NEW c \in Open, RemoveConversation(c) PROVE RequestsOK'
  BY <1>2 DEF RemoveConversation, RequestsOK
<1>3. ASSUME NEW p \in Person, RemovePerson(p) PROVE RequestsOK'
  BY <1>3 DEF RemovePerson, RequestsOK
<1>4. ASSUME NEW s \in Send, SendNext(s) PROVE RequestsOK'
  <2>1. UNCHANGED <<conversations, open, mark, look>> BY <1>4, SendFrame
  <2>2. messages \subseteq Send BY DEF ConversationsTypeOK
  <2>3. \A t \in messages' : send'[t].pc \in {"touch", "sent", "refused"}
    <3>1. s \in messages' => send'[s].pc \in {"touch", "sent", "refused"}
      BY <1>4, SendStep DEF RequestsOK, SendTouch
    <3>2. messages' \subseteq messages \cup {s}
      BY <1>4, SendStep DEF SendStore, SendTouch, SendFails
    <3> QED BY <1>4, <2>2, <3>1, <3>2, SendStep DEF RequestsOK
  <2> QED BY <2>1, <2>3 DEF RequestsOK
<1>5. ASSUME NEW k \in Mark, MarkNext(k) PROVE RequestsOK'
  <2>1. UNCHANGED <<conversations, messages, open, send, look>> BY <1>5, MarkFrame
  <2>2. mark'[k].pc \in {"write", "say"} =>
            mark'[k].message \in Send /\ mark'[k].status \in Status
    <3>1. ASSUME NEW s \in Send, NEW st \in Status,
                 mark'[k] = [pc |-> IF s \in messages THEN "write" ELSE "say",
                             message |-> s, status |-> st]
          PROVE  mark'[k].message \in Send /\ mark'[k].status \in Status
      BY <3>1
    <3>2. ASSUME MarkWrite(k)
          PROVE  mark'[k].message \in Send /\ mark'[k].status \in Status
      <4>1. mark[k].pc = "write" BY <3>2 DEF MarkWrite
      <4> QED BY <1>5, <4>1, MarkStep DEF RequestsOK
    <3> QED BY <1>5, <3>1, <3>2, MarkStep
  <2> QED BY <1>5, <2>1, <2>2, MarkStep DEF RequestsOK
<1>6. ASSUME NEW l \in Look, LookNext(l) \/ ReadNext(l) PROVE RequestsOK'
  <2>1. UNCHANGED <<conversations, messages, open, send, mark>> BY <1>6, LookFrame
  <2>2. look'[l].pc = "conversation" =>
            look'[l].reader \in Person /\ look'[l].conversation \in Open
    BY <1>6, LookStep
  <2> QED BY <1>6, <2>1, <2>2, LookStep DEF RequestsOK
<1> QED BY <1>1, <1>2, <1>3, <1>4, <1>5, <1>6 DEF ConversationsNext

------------------------------------------------------------------------------
(* Conversations of one pair *)

LEMMA PairsStep ==
    ASSUME ConversationsTypeOK, RequestsOK, PairsMet, ConversationsNext
    PROVE  PairsMet'
<1>1. conversations \subseteq Open /\ open \in [Open -> OpenState] BY DEF ConversationsTypeOK
<1>2. ASSUME NEW o \in Open, NEW p \in Person, NEW q \in Person, OpenFind(o, p, q)
      PROVE  PairsMet'
  <2>1. UNCHANGED <<conversations, creator, participant>> BY <1>2 DEF OpenFind
  <2>2. \A a \in Open : a # o => open'[a] = open[a] BY <1>1, <1>2 DEF OpenFind
  <2>3. o \notin conversations BY <1>2 DEF OpenFind, RequestsOK
  <2>4. met \subseteq met' BY <1>2 DEF OpenFind
  <2>5. CASE \E c \in conversations : creator[c] = p /\ participant[c] = q
    <3>1. open'[o].pc = "exists" BY <1>1, <1>2, <2>5 DEF OpenFind
    <3> QED BY <1>1, <2>1, <2>2, <2>3, <2>4, <3>1 DEF PairsMet, Pair
  <2>6. CASE ~\E c \in conversations : creator[c] = p /\ participant[c] = q
    <3>1. open'[o] = [pc |-> "create", creator |-> p, participant |-> q]
      BY <1>1, <1>2, <2>6 DEF OpenFind
    <3>2. met' = met \cup {{a, o} : a \in {a \in Open : open[a] = open'[o]}}
      BY <1>2, <2>6 DEF OpenFind
    <3>3. ASSUME NEW a \in Open, open[a].pc = "create", open[a].creator = p,
                 open[a].participant = q
          PROVE  {a, o} \in met'
      <4>1. open[a] \in OpenState BY <1>1
      <4>2. open[a] = open'[o] BY <3>1, <3>3, <4>1 DEF OpenState
      <4> QED BY <3>2, <4>2
    <3>4. \A a, b \in Open :
              /\ a # b /\ open'[a].pc = "create" /\ open'[b].pc = "create"
              /\ open'[a].creator = open'[b].creator
              /\ open'[a].participant = open'[b].participant
              => {a, b} \in met'
      <4> SUFFICES ASSUME NEW a \in Open, NEW b \in Open,
                          a # b, open'[a].pc = "create", open'[b].pc = "create",
                          open'[a].creator = open'[b].creator,
                          open'[a].participant = open'[b].participant
                   PROVE  {a, b} \in met'
        OBVIOUS
      <4>1. CASE a # o /\ b # o BY <2>2, <2>4, <4>1 DEF PairsMet
      <4>2. CASE b = o BY <2>2, <3>1, <3>3, <4>2
      <4>3. CASE a = o
        <5>1. {b, o} \in met' BY <2>2, <3>1, <3>3, <4>3
        <5>2. {b, o} = {a, b} BY <4>3
        <5> QED BY <5>1, <5>2
      <4> QED BY <4>1, <4>2, <4>3
    <3>5. \A a \in Open, c \in conversations :
              /\ open'[a].pc = "create"
              /\ open'[a].creator = creator[c] /\ open'[a].participant = participant[c]
              => {a, c} \in met'
      BY <2>2, <2>4, <2>6, <3>1 DEF PairsMet
    <3> QED BY <2>1, <2>4, <3>4, <3>5 DEF PairsMet, Pair
  <2> QED BY <2>5, <2>6
<1>3. ASSUME NEW o \in Open, OpenCreate(o) PROVE PairsMet'
  <2>1. o \notin conversations /\ open[o].pc = "create" BY <1>3 DEF OpenCreate, RequestsOK
  <2>2. \A a \in Open : a # o => open'[a] = open[a] BY <1>1, <1>3 DEF OpenCreate
  <2>3. open'[o].pc = "done" BY <1>1, <1>3 DEF OpenCreate, OpenState
  <2>4. creator'[o] = open[o].creator /\ participant'[o] = open[o].participant
    BY <1>3 DEF OpenCreate, ConversationsTypeOK
  <2>5. \A c \in conversations : creator'[c] = creator[c] /\ participant'[c] = participant[c]
    BY <1>1, <1>3, <2>1 DEF OpenCreate, ConversationsTypeOK
  <2>6. conversations' = conversations \cup {o} /\ met' = met BY <1>3 DEF OpenCreate
  <2>7. \A a, b \in Open : {a, b} = {b, a} OBVIOUS
  <2>8. \A a, b \in Open :
            /\ a # b /\ open'[a].pc = "create" /\ open'[b].pc = "create"
            /\ open'[a].creator = open'[b].creator /\ open'[a].participant = open'[b].participant
            => {a, b} \in met'
    BY <2>2, <2>3, <2>6 DEF PairsMet
  <2>9. \A a \in Open, c \in conversations' :
            /\ open'[a].pc = "create"
            /\ open'[a].creator = creator'[c] /\ open'[a].participant = participant'[c]
            => {a, c} \in met'
    BY <2>1, <2>2, <2>3, <2>4, <2>5, <2>6 DEF PairsMet
  <2>10. ASSUME NEW c \in conversations', NEW d \in conversations', c # d,
                creator'[c] = creator'[d], participant'[c] = participant'[d],
                Nobody \notin {creator'[c], participant'[c]}
         PROVE  {c, d} \in met'
    <3>1. CASE c # o /\ d # o BY <2>5, <2>6, <2>10, <3>1 DEF PairsMet, Pair
    <3>2. CASE c = o
      <4>1. d \in conversations BY <2>6, <2>10, <3>2
      <4> QED BY <2>1, <2>4, <2>5, <2>6, <2>10, <3>2, <4>1 DEF PairsMet
    <3>3. CASE d = o
      <4>1. c \in conversations BY <2>6, <2>10, <3>3
      <4>2. {d, c} \in met' BY <2>1, <2>4, <2>5, <2>6, <2>10, <3>3, <4>1 DEF PairsMet
      <4>3. {d, c} = {c, d} OBVIOUS
      <4> QED BY <4>2, <4>3
    <3> QED BY <3>1, <3>2, <3>3
  <2> QED BY <2>8, <2>9, <2>10 DEF PairsMet, Pair
<1>4. ASSUME NEW o \in Open, OpenFails(o) PROVE PairsMet'
  <2>1. \A a \in Open : a # o => open'[a] = open[a] BY <1>1, <1>4 DEF OpenFails
  <2>2. open'[o].pc = "failed" BY <1>1, <1>4 DEF OpenFails, OpenState
  <2>3. UNCHANGED <<conversations, creator, participant, met>> BY <1>4 DEF OpenFails
  <2> QED BY <2>1, <2>2, <2>3 DEF PairsMet, Pair
<1>5. ASSUME NEW c \in Open, RemoveConversation(c) PROVE PairsMet'
  BY <1>5 DEF RemoveConversation, PairsMet, Pair
<1>6. ASSUME NEW p \in Person, RemovePerson(p) PROVE PairsMet'
  <2>1. UNCHANGED <<conversations, open, met>> BY <1>6 DEF RemovePerson
  <2>2. \A c \in conversations :
            /\ creator'[c] \in {Nobody, creator[c]} /\ participant'[c] \in {Nobody, participant[c]}
    BY <1>1, <1>6 DEF RemovePerson
  <2>3. \A a \in Open : open[a].pc = "create" =>
            open[a].creator # Nobody /\ open[a].participant # Nobody
    BY ConversationsAssumption DEF RequestsOK
  <2> QED BY <2>1, <2>2, <2>3 DEF PairsMet, Pair
<1>7. CASE UNCHANGED <<open, conversations, creator, participant, met>>
  BY <1>7 DEF PairsMet, Pair
<1> QED
  BY <1>2, <1>3, <1>4, <1>5, <1>6, <1>7, SendFrame, MarkFrame, LookFrame
  DEF ConversationsNext, OpenNext

------------------------------------------------------------------------------
(* Statuses *)

LEMMA StatusesStep ==
    ASSUME ConversationsTypeOK, RequestsOK, RepliesOK, StatusesOK, ConversationsNext
    PROVE  StatusesOK'
<1>1. messages \subseteq Send /\ conversations \subseteq Open BY DEF ConversationsTypeOK
<1>2. ASSUME NEW s \in Send, SendNext(s) PROVE StatusesOK'
  <2>1. UNCHANGED <<news, mark, crossed>> BY <1>2, SendFrame
  <2>2. \A t \in Send : Marking(t)' = Marking(t) BY <2>1 DEF Marking
  <2>3. \A t \in Send : send'[t].pc \in {"find", "receiver", "store"} =>
            send[t].pc \in {"find", "receiver", "store"}
    BY <1>2, SendStep DEF SendTouch, SendFails
  <2>4. \A t \in messages' : \/ t \in messages /\ status'[t] = status[t]
                             \/ news[t] = Nobody /\ Marking(t) = {}
    <3>1. CASE SendStore(s)
      <4>1. send[s].pc = "store" BY <3>1 DEF SendStore
      <4>2. \A t \in messages' : t # s => t \in messages /\ status'[t] = status[t]
        BY <3>1, <1>1 DEF SendStore, ConversationsTypeOK
      <4> QED BY <4>1, <4>2 DEF StatusesOK
    <3>2. CASE ~SendStore(s)
      <4>1. UNCHANGED <<messages, status>>
        BY <1>2, <3>2 DEF SendNext, SendFind, SendReceiver, SendTouch, SendFails
      <4> QED BY <4>1
    <3> QED BY <3>1, <3>2
  <2>5. messages' \subseteq Send
    BY <1>1, <1>2 DEF SendNext, SendFind, SendReceiver, SendStore, SendTouch, SendFails
  <2>6. ASSUME NEW t \in messages' \ crossed
        PROVE  /\ (\A k \in Marking(t) : mark[k].pc = "write") => news[t] \in {Nobody, status'[t]}
               /\ \A k \in Marking(t) : mark[k].pc = "say" => mark[k].status = status'[t]
    <3>1. CASE t \in messages /\ status'[t] = status[t] BY <2>6, <3>1 DEF StatusesOK
    <3>2. CASE news[t] = Nobody /\ Marking(t) = {} BY <3>2
    <3> QED BY <2>4, <2>6, <3>1, <3>2
  <2> QED BY <2>1, <2>2, <2>3, <2>5, <2>6 DEF StatusesOK
<1>3. ASSUME NEW k \in Mark, NEW s \in Send, NEW st \in Status, MarkFind(k, s, st),
             mark'[k] = [pc |-> IF s \in messages THEN "write" ELSE "say",
                         message |-> s, status |-> st]
      PROVE  StatusesOK'
  <2>1. UNCHANGED <<messages, status, news, send>> BY <1>3 DEF MarkFind
  <2>2. \A j \in Mark : j # k => mark'[j] = mark[j] BY <1>3 DEF MarkFind, ConversationsTypeOK
  <2>3. mark[k].pc = "find" BY <1>3 DEF MarkFind
  <2>4. Marking(s)' = Marking(s) \cup {k}
    BY <1>3, <2>2, <2>3 DEF Marking
  <2>5. \A t \in Send : t # s => Marking(t)' = Marking(t)
    BY <1>3, <2>2, <2>3 DEF Marking
  <2>6. k \notin Marking(s) BY <2>3 DEF Marking
  <2>7. crossed \subseteq crossed' /\ (s \notin crossed' => Marking(s) = {})
    BY <1>3 DEF MarkFind
  <2>8. send[s].pc \in {"touch", "sent", "refused"} BY <1>3 DEF MarkFind, RequestsOK
  <2>9. \A t \in Send : t # s => \A j \in Marking(t) : mark'[j] = mark[j]
    BY <2>2, <2>3 DEF Marking
  <2>10. \A t \in Send : send[t].pc \in {"find", "receiver", "store"} =>
             news[t] = Nobody /\ Marking(t)' = {}
    BY <2>5, <2>8 DEF StatusesOK
  <2>11. \A t \in Send \ crossed' : \A i, j \in Marking(t)' : i = j
    BY <2>4, <2>5, <2>7 DEF StatusesOK
  <2>12. ASSUME NEW t \in messages \ crossed', \A j \in Marking(t)' : mark'[j].pc = "write"
         PROVE  news[t] \in {Nobody, status[t]}
    <3>1. CASE t = s BY <2>7, <2>12, <3>1 DEF StatusesOK
    <3>2. CASE t # s BY <1>1, <2>5, <2>7, <2>9, <2>12, <3>2 DEF StatusesOK
    <3> QED BY <3>1, <3>2
  <2>13. ASSUME NEW t \in messages \ crossed', NEW j \in Marking(t)', mark'[j].pc = "say"
         PROVE  mark'[j].status = status[t]
    <3>1. CASE t = s BY <1>3, <2>4, <2>7, <2>13, <3>1
    <3>2. CASE t # s BY <1>1, <2>5, <2>7, <2>9, <2>13, <3>2 DEF StatusesOK
    <3> QED BY <3>1, <3>2
  <2> QED BY <2>1, <2>10, <2>11, <2>12, <2>13 DEF StatusesOK
<1>4. ASSUME NEW k \in Mark, MarkNext(k), mark[k].pc # "find" PROVE StatusesOK'
  <2>1. mark[k].pc \in {"write", "say"}
    BY <1>4 DEF MarkNext, MarkFind, MarkWrite, MarkSay, MarkFails
  <2>2. PICK s \in Send : s = mark[k].message BY <2>1 DEF RequestsOK
  <2>3. UNCHANGED <<messages, send, crossed>>
    BY <1>4 DEF MarkNext, MarkFind, MarkWrite, MarkSay, MarkFails
  <2>4. \A j \in Mark : j # k => mark'[j] = mark[j] BY <1>4, MarkStep
  <2>5. mark'[k].message = s BY <1>4, <2>2, MarkStep
  <2>6. \A t \in Send : Marking(t)' \subseteq Marking(t) /\ (t # s => Marking(t)' = Marking(t))
    BY <2>1, <2>2, <2>4, <2>5 DEF Marking
  <2>7. k \in Marking(s) BY <2>1, <2>2 DEF Marking
  <2>8. s \notin crossed => Marking(s) = {k} BY <2>7 DEF StatusesOK
  <2>9. \A t \in Send : t # s => news'[t] = news[t] /\ status'[t] = status[t]
    BY <1>4, <2>2 DEF MarkNext, MarkFind, MarkWrite, MarkSay, MarkFails, ConversationsTypeOK
  <2>10. send[s].pc \notin {"find", "receiver", "store"} BY <2>7 DEF StatusesOK
  <2>11. \A t \in Send : t # s => \A j \in Marking(t)' : mark'[j] = mark[j]
    BY <2>2, <2>4, <2>6 DEF Marking
  <2>12. ASSUME s \in messages \ crossed
         PROVE  /\ (\A j \in Marking(s)' : mark'[j].pc = "write") =>
                       news'[s] \in {Nobody, status'[s]}
                /\ \A j \in Marking(s)' : mark'[j].pc = "say" => mark'[j].status = status'[s]
    <3>0. mark \in [Mark -> MarkState] /\ mark[k] \in MarkState BY DEF ConversationsTypeOK
    <3>1. Marking(s) = {k} /\ Marking(s)' \subseteq {k} BY <2>6, <2>8, <2>12
    <3>2. CASE MarkWrite(k)
      <4>1. mark'[k].pc = "say" /\ mark'[k].status = mark[k].status
        BY <3>0, <3>2 DEF MarkWrite, MarkState
      <4>2. status'[s] = mark[k].status BY <2>2, <3>2 DEF MarkWrite, ConversationsTypeOK
      <4>3. k \in Marking(s)' BY <2>5, <4>1 DEF Marking
      <4> QED BY <3>1, <4>1, <4>2, <4>3
    <3>3. CASE MarkSay(k)
      <4>1. mark'[k].pc = "done" BY <3>0, <3>3 DEF MarkSay, MarkState
      <4>2. mark[k].pc = "say" BY <3>3 DEF MarkSay
      <4>3. mark[k].status = status[s] BY <2>7, <2>12, <4>2 DEF StatusesOK
      <4>4. news'[s] = mark[k].status /\ status' = status
        BY <2>2, <3>3 DEF MarkSay, ConversationsTypeOK
      <4>5. k \notin Marking(s)' BY <4>1 DEF Marking
      <4> QED BY <3>1, <4>3, <4>4, <4>5
    <3>4. CASE MarkFails(k)
      <4>1. mark'[k].pc = "failed"
        BY <3>0, <3>4 DEF MarkFails, MarkState
      <4>2. mark[k].pc = "write" /\ UNCHANGED <<news, status>> BY <3>4 DEF MarkFails
      <4>3. news[s] \in {Nobody, status[s]} BY <2>12, <3>1, <4>2 DEF StatusesOK
      <4>4. k \notin Marking(s)' BY <4>1 DEF Marking
      <4> QED BY <3>1, <4>2, <4>3, <4>4
    <3> QED BY <1>4, <3>2, <3>3, <3>4 DEF MarkNext, MarkFind
  <2>13. ASSUME NEW t \in messages \ crossed
         PROVE  /\ (\A j \in Marking(t)' : mark'[j].pc = "write") =>
                       news'[t] \in {Nobody, status'[t]}
                /\ \A j \in Marking(t)' : mark'[j].pc = "say" => mark'[j].status = status'[t]
    <3>1. CASE t = s BY <2>12, <2>13, <3>1
    <3>2. CASE t # s BY <1>1, <2>6, <2>9, <2>11, <2>13, <3>2 DEF StatusesOK
    <3> QED BY <3>1, <3>2
  <2>14. \A t \in Send : send[t].pc \in {"find", "receiver", "store"} =>
             news'[t] = Nobody /\ Marking(t)' = {}
    BY <2>6, <2>9, <2>10 DEF StatusesOK
  <2> QED BY <2>3, <2>6, <2>13, <2>14 DEF StatusesOK
<1>5. ASSUME NEW c \in Open, RemoveConversation(c) PROVE StatusesOK'
  <2>1. UNCHANGED <<status, news, send, mark, crossed>> /\ messages' \subseteq messages
    BY <1>5 DEF RemoveConversation
  <2>2. \A t \in Send : Marking(t)' = Marking(t) BY <2>1 DEF Marking
  <2> QED BY <1>1, <2>1, <2>2 DEF StatusesOK
<1>6. CASE UNCHANGED <<messages, status, news, send, mark, crossed>>
  <2>1. \A t \in Send : Marking(t)' = Marking(t) BY <1>6 DEF Marking
  <2> QED BY <1>1, <1>6, <2>1 DEF StatusesOK
<1>7. ASSUME NEW p \in Person, RemovePerson(p)
      PROVE  UNCHANGED <<messages, status, news, send, mark, crossed>>
  BY <1>7 DEF RemovePerson
<1>8. ASSUME NEW k \in Mark, MarkNext(k), mark[k].pc = "find" PROVE StatusesOK'
  BY <1>3, <1>8, MarkStep DEF MarkWrite, MarkSay, MarkFails
<1> QED
  BY <1>2, <1>4, <1>5, <1>6, <1>7, <1>8, OpenFrame, LookFrame DEF ConversationsNext

------------------------------------------------------------------------------
(* Answers *)

LEMMA RepliesStep ==
    ASSUME ConversationsTypeOK, RequestsOK, RepliesOK, ConversationsNext
    PROVE  RepliesOK'
<1>1. /\ messages \subseteq Send /\ conversations \subseteq Open
      /\ \A s \in messages : send[s].conversation \in conversations
  BY DEF ConversationsTypeOK
<1>2. ASSUME NEW o \in Open, OpenNext(o) PROVE RepliesOK'
  <2>1. UNCHANGED <<messages, send, lost>> BY <1>2, OpenFrame
  <2>2. \A a \in Open : open[a].pc = "done" => a # o /\ open'[a] = open[a]
    BY <1>2, OpenStep
  <2>3. \A a \in Open : a # o => (a \in conversations' <=> a \in conversations)
    BY <1>2 DEF OpenNext, OpenFind, OpenCreate, OpenFails
  <2> QED BY <2>1, <2>2, <2>3 DEF RepliesOK
<1>3. ASSUME NEW c \in Open, RemoveConversation(c) PROVE RepliesOK'
  BY <1>1, <1>3 DEF RemoveConversation, RepliesOK
<1>4. ASSUME NEW s \in Send, SendNext(s) PROVE RepliesOK'
  <2>1. UNCHANGED <<conversations, open>> BY <1>4, SendFrame
  <2>2. \A t \in Send : t # s => send'[t] = send[t] BY <1>4, SendStep
  <2>3. ASSUME NEW t \in Send, t # s
        PROVE  (t \in messages' <=> t \in messages) /\ (t \in lost => t \in lost')
    BY <1>4, <2>3 DEF SendNext, SendFind, SendReceiver, SendStore, SendTouch, SendFails
  <2>4. ASSUME send'[s].pc \in {"touch", "sent"}
        PROVE  /\ send'[s].conversation \in Open
               /\ open[send'[s].conversation].pc = "done"
               /\ s \in messages' <=> send'[s].conversation \in conversations
    <3>1. CASE SendStore(s)
      <4>1. send[s].conversation \in conversations /\ messages' = messages \cup {s}
            /\ send[s].pc = "store"
        BY <3>1 DEF SendStore
      <4>2. send'[s].conversation = send[s].conversation BY <1>4, <4>1, SendStep
      <4> QED BY <1>1, <4>1, <4>2 DEF RequestsOK
    <3>2. CASE SendTouch(s)
      <4>1. send[s].pc = "touch" /\ messages' = messages BY <3>2 DEF SendTouch
      <4>2. send'[s].conversation = send[s].conversation BY <1>4, <4>1, SendStep
      <4> QED BY <4>1, <4>2 DEF RepliesOK
    <3> QED BY <1>4, <2>4, <3>1, <3>2, SendStep
  <2>5. ASSUME send'[s].pc = "refused", s \in messages' PROVE s \in lost'
    <3>1. CASE send[s].pc \in {"find", "receiver", "store"}
      <4>1. s \notin messages BY <3>1 DEF RequestsOK
      <4> QED BY <1>4, <2>5, <3>1, <4>1, SendStep DEF SendTouch, SendFails, SendStore
    <3>2. CASE SendTouch(s)
      <4>1. send[s].pc = "touch" /\ messages' = messages BY <3>2 DEF SendTouch
      <4>2. send[s] \in SendState BY DEF ConversationsTypeOK
      <4>3. send'[s].pc = IF send[s].conversation \in conversations THEN "sent" ELSE "refused"
        BY <3>2, <4>2 DEF SendTouch, ConversationsTypeOK, SendState
      <4> QED BY <1>1, <2>5, <4>1, <4>3
    <3>3. CASE SendFails(s) /\ send[s].pc = "touch" BY <3>3 DEF SendFails
    <3> QED BY <1>4, <2>5, <3>1, <3>2, <3>3 DEF SendNext, SendFind, SendReceiver, SendStore, SendFails
  <2> QED BY <2>1, <2>2, <2>3, <2>4, <2>5 DEF RepliesOK
<1>5. CASE UNCHANGED <<conversations, messages, open, send, lost>> BY <1>5 DEF RepliesOK
<1>6. ASSUME NEW p \in Person, RemovePerson(p)
      PROVE  UNCHANGED <<conversations, messages, open, send, lost>>
  BY <1>6 DEF RemovePerson
<1> QED
  BY <1>2, <1>3, <1>4, <1>5, <1>6, MarkFrame, LookFrame DEF ConversationsNext

------------------------------------------------------------------------------
(* Reads *)

LEMMA ReadsStep ==
    ASSUME ConversationsTypeOK, RequestsOK, ReadsOK, ConversationsNext
    PROVE  ReadsOK'
<1>1. conversations \subseteq Open /\ people \subseteq Person BY DEF ConversationsTypeOK
<1>2. ASSUME NEW o \in Open, OpenNext(o) PROVE ReadsOK'
  <2>1. UNCHANGED <<people, look>> BY <1>2, OpenFrame
  <2>2. \A a \in Open : open[a].pc = "done" => a # o /\ open'[a] = open[a]
    BY <1>2, OpenStep
  <2>3. \A a \in Open : a # o => (a \in conversations' <=> a \in conversations)
    BY <1>2 DEF OpenNext, OpenFind, OpenCreate, OpenFails
  <2>4. \A a \in Open : a # o => creator'[a] = creator[a] /\ participant'[a] = participant[a]
    BY <1>2 DEF OpenNext, OpenFind, OpenCreate, OpenFails, ConversationsTypeOK
  <2>5. \A l \in Look : (Reads(l) => Reads(l)') /\ (Broke(l) => Broke(l)')
    BY <2>1, <2>2, <2>3 DEF Reads, Broke
  <2>6. conversations' \subseteq conversations \cup {o} /\ o \notin conversations
    BY <1>2, <2>2 DEF OpenNext, OpenFind, OpenCreate, OpenFails, RequestsOK
  <2>7. ASSUME o \in conversations' PROVE ColumnsOK(o)'
    <3>1. OpenCreate(o) BY <1>2, <2>6, <2>7 DEF OpenNext, OpenFind, OpenFails
    <3>2. /\ creator'[o] = open[o].creator /\ participant'[o] = open[o].participant
          /\ open[o].creator \in Person /\ open[o].participant \in Person
      BY <1>1, <3>1 DEF OpenCreate, ConversationsTypeOK
    <3>3. open'[o].creator = open[o].creator /\ open'[o].participant = open[o].participant
      BY <3>1 DEF OpenCreate, ConversationsTypeOK, OpenState
    <3> QED BY <3>2, <3>3, ConversationsAssumption DEF ColumnsOK, Pair
  <2>8. ASSUME NEW c \in conversations', c # o PROVE ColumnsOK(c)'
    <3>1. c \in conversations BY <2>6, <2>8
    <3>2. open'[c] = open[c] BY <1>1, <2>2, <3>1 DEF RequestsOK
    <3> QED BY <1>1, <2>1, <2>4, <2>8, <3>1, <3>2 DEF ReadsOK, ColumnsOK, Pair
  <2> QED BY <2>1, <2>5, <2>7, <2>8 DEF ReadsOK
<1>3. ASSUME NEW c \in Open, RemoveConversation(c) PROVE ReadsOK'
  <2>1. UNCHANGED <<people, creator, participant, open, look>>
        /\ conversations' \subseteq conversations
    BY <1>3 DEF RemoveConversation
  <2>2. \A l \in Look : (Reads(l) => Reads(l)') /\ (Broke(l) => Broke(l)')
    BY <2>1 DEF Reads, Broke
  <2>3. \A d \in conversations' : ColumnsOK(d)' BY <2>1 DEF ReadsOK, ColumnsOK, Pair
  <2> QED BY <2>1, <2>2, <2>3 DEF ReadsOK
<1>4. ASSUME NEW p \in Person, RemovePerson(p) PROVE ReadsOK'
  <2>1. UNCHANGED <<conversations, open, look>> /\ people' # Person
    BY <1>1, <1>4 DEF RemovePerson
  <2>2. \A l \in Look : (Reads(l) => Reads(l)') /\ Broke(l)' BY <2>1 DEF Reads, Broke
  <2>3. \A c \in conversations : /\ creator'[c] \in {Nobody, creator[c]}
                                 /\ participant'[c] \in {Nobody, participant[c]}
    BY <1>1, <1>4 DEF RemovePerson
  <2>4. \A c \in conversations : ColumnsOK(c)' BY <2>1, <2>3 DEF ReadsOK, ColumnsOK
  <2> QED BY <2>1, <2>2, <2>4 DEF ReadsOK
<1>5. ASSUME NEW l \in Look, LookNext(l) \/ ReadNext(l) PROVE ReadsOK'
  <2>1. UNCHANGED <<people, conversations, creator, participant, open>> BY <1>5, LookFrame
  <2>2. \A m \in Look : m # l => look'[m] = look[m] BY <1>5, LookStep
  <2>3. \A m \in Look : m # l => (Reads(m) => Reads(m)') /\ (Broke(m) => Broke(m)')
    BY <2>1, <2>2 DEF Reads, Broke
  <2>4. \A c \in conversations : ColumnsOK(c)' BY <2>1 DEF ReadsOK, ColumnsOK, Pair
  <2>5. look'[l].pc \in {"idle", "conversation"} => look'[l].shown = {}
    BY <1>5, LookStep DEF ReadsOK
  <2>6. ASSUME look'[l].pc = "messages" \/ look'[l].shown # {} PROVE Reads(l)'
    <3>1. CASE look[l].pc = "idle" BY <1>5, <2>6, <3>1, LookStep DEF ReadsOK
    <3>2. CASE look[l].pc = "conversation"
      <4> DEFINE c == look[l].conversation
      <4>1. /\ look'[l].pc = "messages" /\ c \in conversations
            /\ look[l].reader \in Admin \cup Pair(c)
            /\ look'[l].reader = look[l].reader /\ look'[l].conversation = look[l].conversation
        BY <1>5, <2>6, <3>2, LookStep DEF ReadsOK
      <4>2. look[l].reader \in Person BY <3>2 DEF RequestsOK
      <4>3. open[c].pc = "done" BY <4>1 DEF RequestsOK
      <4>4. ColumnsOK(c) BY <4>1 DEF ReadsOK
      <4>5. look[l].reader \in Admin \cup {open[c].creator, open[c].participant}
        BY <4>1, <4>2, <4>4, ConversationsAssumption DEF ColumnsOK, Pair
      <4> QED BY <1>1, <2>1, <4>1, <4>3, <4>5 DEF Reads
    <3>3. CASE look[l].pc = "messages"
      <4>1. Reads(l) BY <3>3 DEF ReadsOK
      <4>2. look'[l].reader = look[l].reader /\ look'[l].conversation = look[l].conversation
        BY <1>5, <3>3, LookStep
      <4> QED BY <2>1, <4>1, <4>2 DEF Reads
    <3> QED BY <1>5, <3>1, <3>2, <3>3, LookStep
  <2>7. ASSUME look'[l].pc = "broken" PROVE Broke(l)'
    <3>1. CASE \E c \in conversations : Nobody \in Pair(c)
      BY <2>1, <3>1 DEF ReadsOK, ColumnsOK, Broke
    <3>2. CASE people # Person BY <2>1, <3>2 DEF Broke
    <3>3. CASE /\ look'[l].conversation \in Open
               /\ open[look'[l].conversation].pc = "done"
               /\ \/ look'[l].conversation \notin conversations
                  \/ creator[look'[l].conversation] = Nobody
      BY <2>1, <3>3 DEF Broke, ReadsOK, ColumnsOK, Pair
    <3> QED BY <1>5, <2>7, <3>1, <3>2, <3>3, LookStep
  <2> QED BY <2>1, <2>2, <2>3, <2>4, <2>5, <2>6, <2>7 DEF ReadsOK
<1>6. CASE UNCHANGED <<people, conversations, creator, participant, open, look>>
  BY <1>6 DEF ReadsOK, Reads, Broke, ColumnsOK, Pair
<1> QED
  BY <1>2, <1>3, <1>4, <1>5, <1>6, SendFrame, MarkFrame DEF ConversationsNext

------------------------------------------------------------------------------
(* Theorems *)

\* The invariant is inductive.
LEMMA ConversationsInductive == ConversationsSpec => []ConversationsInv
<1>1. ConversationsInit => ConversationsInv BY InitHolds
<1>2. ConversationsInv /\ [ConversationsNext]_conversationsVars => ConversationsInv'
  <2> SUFFICES ASSUME ConversationsInv, [ConversationsNext]_conversationsVars PROVE ConversationsInv' OBVIOUS
  <2>1. CASE ConversationsNext
    <3>1. ConversationsTypeOK'
      BY <2>1, RowTypes, SendTypes, OtherTypes DEF ConversationsInv, ConversationsNext
    <3> QED BY <2>1, <3>1, RequestsStep, PairsStep, StatusesStep, RepliesStep, ReadsStep DEF ConversationsInv
  <2>2. CASE UNCHANGED conversationsVars
    BY <2>2 DEF ConversationsInv, conversationsVars, ConversationsTypeOK, RequestsOK, PairsMet, Pair,
                StatusesOK, Marking, RepliesOK, ReadsOK, Reads, Broke, ColumnsOK
  <2> QED BY <2>1, <2>2
<1> QED BY <1>1, <1>2, PTL DEF ConversationsSpec

\* Every variable of Conversations holds a value of its kind, and every foreign key
\* names a row (the cascades of schema.prisma).
THEOREM ConversationsTypes == ConversationsSpec => []ConversationsTypeOK
<1>1. ConversationsInv => ConversationsTypeOK BY DEF ConversationsInv
<1> QED BY <1>1, ConversationsInductive, PTL

\* ConversationService.create makes a second conversation of a pair only next to
\* another create, or in the other direction.
THEOREM ConversationIsOne == ConversationsSpec => []OneConversation
<1>1. ConversationsInv => OneConversation
  <2> SUFFICES ASSUME ConversationsInv, NEW c \in conversations, NEW d \in conversations,
                      c # d, Pair(c) = Pair(d), Nobody \notin Pair(c), creator[c] = creator[d]
               PROVE  {c, d} \in met
    BY DEF OneConversation
  <2>1. participant[c] = participant[d] BY DEF Pair
  <2> QED BY <2>1 DEF ConversationsInv, PairsMet
<1> QED BY <1>1, ConversationsInductive, PTL

\* The status broadcast by updateMessageStatus is the stored one, but for marks of
\* one message that overlap.
THEOREM StatusIsNews == ConversationsSpec => []StatusNewsAgree
<1>1. ConversationsInv => StatusNewsAgree BY DEF ConversationsInv, StatusesOK, StatusNewsAgree
<1> QED BY <1>1, ConversationsInductive, PTL

\* What senders and readers of the chat are told.
THEOREM AnswersHold == ConversationsSpec => []AnswersAreTrue
<1>1. ConversationsInv => AnswersAreTrue
  <2> SUFFICES ASSUME ConversationsInv PROVE AnswersAreTrue OBVIOUS
  <2>1. \A s \in Send :
            /\ send[s].pc = "refused" /\ s \in messages => s \in lost
            /\ send[s].pc = "sent" => (s \in messages <=> send[s].conversation \in conversations)
    BY DEF ConversationsInv, RepliesOK
  <2>2. \A l \in Look : look[l].shown # {} => Reads(l) BY DEF ConversationsInv, ReadsOK
  <2>3. \A l \in Look : look[l].pc = "broken" => Broke(l) BY DEF ConversationsInv, ReadsOK
  <2> QED BY <2>1, <2>2, <2>3 DEF AnswersAreTrue, Reads, Broke
<1> QED BY <1>1, ConversationsInductive, PTL

------------------------------------------------------------------------------
(* Incomes, bills and goals: the inductive invariant *)

\* The order in which the tables are taken.
Level(t) == IF t = "incomes" THEN 1 ELSE IF t = "commitments" THEN 2 ELSE 3

\* The requests that take whole tables.
Whole == Replace \cup Remove

\* A transaction inserts rows of its own request.
OwnRows(r, e) == \A x \in e.added : x[1] = r

\* The tables go up, and only the requests that take whole tables hold what they deleted.
InOrder(r, e) ==
    /\ e.pc \in {"idle", "answer", "commit", "done", "failed"} => e.left = {}
    /\ r \in Whole /\ e.pc # "wait" => e.snapshot = {}
    /\ e.pc \in {"idle", "done", "failed"} => e.gone = {} /\ e.added = {}
    /\ r \notin Whole => e.gone = {}
    /\ r \in Whole => \A x \in e.snapshot : x[2] = e.at
    /\ \A x \in e.gone : \A t \in e.left : Level(x[2]) < Level(t)
    /\ e.pc = "wait" => /\ \A x \in e.gone : Level(x[2]) < Level(e.at)
                        /\ \A t \in e.left : Level(e.at) < Level(t)

\* Of the rows R that were there when the request began, those of the tables it was
\* given are still to be reached, awaited or deleted, unless it failed.
Emptied(r, e, R) ==
    r \in Whole =>
        \A x \in R \cap e.before :
            x[2] \in e.given =>
                \/ e.pc = "failed"
                \/ x[2] \in e.left
                \/ x \in e.snapshot
                \/ x \in e.gone

\* Committed rows come from requests that are over.
RowsDone == \A x \in rows : tx[x[1]].pc = "done"
BeforeDone == \A r \in Request : \A x \in tx[r].before : tx[x[1]].pc = "done"

SetUpInv ==
    /\ SetUpTypeOK
    /\ RowsDone
    /\ BeforeDone
    /\ \A r \in Request : OwnRows(r, tx[r])
    /\ \A r \in Request : InOrder(r, tx[r])
    /\ \A r \in Request : Emptied(r, tx[r], rows)

\* What rows, levels and requests are made of.
LEMMA RowParts ==
    ASSUME NEW x \in Row
    PROVE  x[1] \in Request /\ x[2] \in Table
BY DEF Row

LEMMA LevelParts ==
    ASSUME NEW t \in Table
    PROVE  Level(t) \in 1 .. 3
BY DEF Level, Table

LEMMA TxParts ==
    ASSUME SetUpTypeOK, NEW r \in Request
    PROVE  /\ tx[r] \in TxState
           /\ tx[r].given \subseteq Table /\ tx[r].listed \subseteq Table
           /\ tx[r].left \subseteq Table /\ tx[r].at \in Table
           /\ tx[r].snapshot \subseteq Row /\ tx[r].gone \subseteq Row
           /\ tx[r].added \subseteq Row /\ tx[r].before \subseteq Row
           /\ tx[r].drops \in BOOLEAN /\ tx[r].holds \in Figure
           /\ tx[r].pc \in {"idle", "next", "wait", "answer", "commit", "done", "failed"}
<1>1. tx[r] \in TxState
  BY DEF SetUpTypeOK
<1> QED BY <1>1 DEF TxState

\* One request moves: it is not over, what it commits is its own, and what was there
\* when it began was committed.
LEMMA SetUpMoves ==
    ASSUME SetUpInv, NEW r \in Request, NEW e \in TxState,
           tx[r].pc # "done",
           tx' = [tx EXCEPT ![r] = e],
           rows' \subseteq Row, figure' \in [Row -> Figure], view' = view,
           OwnRows(r, e), InOrder(r, e), Emptied(r, e, rows'),
           \A x \in rows' \ rows : x[1] = r /\ e.pc = "done",
           e.before \subseteq tx[r].before \cup rows
    PROVE  SetUpInv'
<1> USE DEF SetUpInv
<1>1. SetUpTypeOK'
  BY DEF SetUpTypeOK
<1>2. /\ tx'[r] = e
      /\ \A q \in Request \ {r} : tx'[q] = tx[q]
      /\ \A q \in Request : tx[q].pc = "done" => tx'[q] = tx[q]
  BY DEF SetUpTypeOK
<1>3. /\ rows \subseteq Row
      /\ \A q \in Request : tx[q].before \subseteq Row
      /\ \A x \in Row : x[1] \in Request
  BY TxParts, RowParts DEF SetUpTypeOK
<1>4. RowsDone'
  BY <1>2, <1>3, RowParts DEF RowsDone
<1>5. BeforeDone'
  <2> SUFFICES ASSUME NEW q \in Request, NEW x \in tx'[q].before
               PROVE  tx'[x[1]].pc = "done"
    BY DEF BeforeDone
  <2>1. CASE q = r
    <3>1. x \in Row /\ tx[x[1]].pc = "done"
      BY <1>2, <1>3, <2>1 DEF RowsDone, BeforeDone
    <3> QED BY <1>2, <1>3, <3>1
  <2>2. CASE q # r
    <3>1. x \in Row /\ tx[x[1]].pc = "done"
      BY <1>2, <1>3, <2>2 DEF BeforeDone
    <3> QED BY <1>2, <1>3, <3>1
  <2> QED BY <2>1, <2>2
<1>6. \A q \in Request : OwnRows(q, tx'[q])
  BY <1>2
<1>7. \A q \in Request : InOrder(q, tx'[q])
  BY <1>2
<1>8. \A q \in Request : Emptied(q, tx'[q], rows')
  <2> SUFFICES ASSUME NEW q \in Request, q # r
               PROVE  Emptied(q, tx[q], rows')
    BY <1>2
  <2>1. \A x \in rows' \cap tx[q].before : x \in rows
    BY <1>3 DEF BeforeDone
  <2> QED BY <2>1 DEF Emptied
<1>9. /\ (\A q \in Request : OwnRows(q, tx[q]))'
      /\ (\A q \in Request : InOrder(q, tx[q]))'
      /\ (\A q \in Request : Emptied(q, tx[q], rows))'
  BY <1>6, <1>7, <1>8 DEF OwnRows, InOrder, Emptied
<1> QED BY <1>1, <1>4, <1>5, <1>9

\* At first nothing is committed and no request has begun.
LEMMA SetUpInitInv == SetUpInit => SetUpInv
<1> SUFFICES ASSUME SetUpInit
             PROVE  SetUpInv
  OBVIOUS
<1>1. AnyFigure \in Figure
  BY SetUpAssumption DEF AnyFigure
<1>2. \A r \in Request :
         /\ tx[r].pc = "idle" /\ tx[r].left = {} /\ tx[r].snapshot = {}
         /\ tx[r].gone = {} /\ tx[r].added = {} /\ tx[r].before = {}
  BY DEF SetUpInit
<1>3. SetUpTypeOK
  BY <1>1 DEF SetUpInit, SetUpTypeOK, TxState, ViewState, Table
<1>4. RowsDone /\ BeforeDone
  BY <1>2 DEF RowsDone, BeforeDone, SetUpInit
<1>5. \A r \in Request : OwnRows(r, tx[r]) /\ InOrder(r, tx[r]) /\ Emptied(r, tx[r], rows)
  BY <1>2 DEF OwnRows, InOrder, Emptied, SetUpInit
<1> QED BY <1>3, <1>4, <1>5 DEF SetUpInv

\* What a request that has not begun holds.
LEMMA IdleParts ==
    ASSUME SetUpInv, NEW r \in Request, tx[r].pc = "idle"
    PROVE  /\ tx[r].left = {} /\ tx[r].gone = {} /\ tx[r].added = {}
           /\ r \in Whole => tx[r].snapshot = {}
BY DEF SetUpInv, InOrder

\* The rows a request inserts are its own.
LEMMA LinesParts ==
    ASSUME NEW r \in Request, NEW L \in SUBSET Table
    PROVE  /\ Lines(r, L) \subseteq Row
           /\ \A x \in Lines(r, L) : x[1] = r
BY DEF Lines, Row

\* The kinds of request.
LEMMA KindParts ==
    /\ Create \subseteq Request /\ Replace \subseteq Request
    /\ Remove \subseteq Request /\ Edit \subseteq Request
    /\ \A r \in Create \cup Edit : r \notin Whole
    /\ Replace \subseteq Whole /\ Remove \subseteq Whole
BY SetUpAssumption DEF Request, Whole

\* A POST begins.
LEMMA CreateBegins ==
    ASSUME SetUpInv, NEW r \in Create, NEW b \in Body, NEW f \in Figure,
           CreateBegin(r, b, f)
    PROVE  SetUpInv'
<1>1. r \in Request /\ r \notin Whole
  BY KindParts
<1>2. SetUpTypeOK /\ tx[r].pc = "idle"
  BY DEF SetUpInv, CreateBegin
<1> DEFINE new == Lines(r, b.listed)
           e == [tx[r] EXCEPT !.pc = "commit", !.added = new, !.before = rows,
                              !.holds = f]
<1>3. b.listed \in SUBSET Table
  BY SetUpAssumption
<1>4. new \in SUBSET Row /\ rows \in SUBSET Row
  BY <1>1, <1>2, <1>3, LinesParts DEF SetUpTypeOK
<1>5. \A x \in new : x[1] = r
  BY <1>1, <1>3, LinesParts
<1>6. tx' = [tx EXCEPT ![r] = e] /\ rows' = rows /\ figure' = figure /\ view' = view
  BY DEF CreateBegin
<1> HIDE DEF new
<1>7. e \in TxState
  BY <1>1, <1>2, <1>4, TxParts DEF TxState
<1>8. /\ e.pc = "commit" /\ e.added = new /\ e.before = rows
      /\ e.left = tx[r].left /\ e.gone = tx[r].gone
  BY <1>1, <1>2, TxParts DEF TxState
<1> HIDE DEF e
<1>9. OwnRows(r, e) /\ InOrder(r, e) /\ Emptied(r, e, rows')
  BY <1>1, <1>2, <1>8, <1>5, IdleParts DEF OwnRows, InOrder, Emptied
<1> QED BY <1>1, <1>2, <1>7, <1>6, <1>8, <1>9, SetUpMoves DEF SetUpTypeOK

\* A PATCH begins.
LEMMA ReplaceBegins ==
    ASSUME SetUpInv, NEW r \in Replace, NEW b \in Body, NEW f \in Figure,
           ReplaceBegin(r, b, f)
    PROVE  SetUpInv'
<1>0. r \in Request /\ r \in Whole
  BY KindParts
<1>1. SetUpTypeOK /\ tx[r].pc = "idle"
  BY DEF SetUpInv, ReplaceBegin
<1> DEFINE e == [tx[r] EXCEPT !.pc = IF b.given = {} THEN "answer" ELSE "next",
                              !.given = b.given, !.listed = b.listed,
                              !.left = b.given, !.before = rows, !.holds = f]
<1>2. b.listed \subseteq Table /\ b.given \subseteq Table
  BY SetUpAssumption
<1>4. e \in TxState
  BY <1>0, <1>1, <1>2, TxParts DEF TxState, SetUpTypeOK
<1>5. tx' = [tx EXCEPT ![r] = e] /\ rows' = rows /\ figure' = figure /\ view' = view
  BY DEF ReplaceBegin
<1>6. /\ e.pc = IF b.given = {} THEN "answer" ELSE "next"
      /\ e.added = tx[r].added /\ e.before = rows /\ e.snapshot = tx[r].snapshot
      /\ e.left = b.given /\ e.gone = tx[r].gone /\ e.given = b.given
  BY <1>0, <1>1, TxParts DEF TxState
<1> HIDE DEF e
<1>7. OwnRows(r, e) /\ InOrder(r, e) /\ Emptied(r, e, rows')
  BY <1>0, <1>1, <1>6, IdleParts DEF OwnRows, InOrder, Emptied
<1>8. e.pc # "done"
  BY <1>6
<1> QED BY <1>0, <1>1, <1>4, <1>5, <1>6, <1>7, <1>8, SetUpMoves DEF SetUpTypeOK

\* A DELETE begins.
LEMMA RemoveBegins ==
    ASSUME SetUpInv, NEW r \in Remove, RemoveBegin(r)
    PROVE  SetUpInv'
<1>0. r \in Request /\ r \in Whole
  BY KindParts
<1>1. SetUpTypeOK /\ tx[r].pc = "idle"
  BY DEF SetUpInv, RemoveBegin
<1> DEFINE e == [tx[r] EXCEPT !.pc = "next", !.given = Table, !.left = Table, !.before = rows]
<1>4. e \in TxState
  BY <1>0, <1>1, TxParts DEF TxState, SetUpTypeOK
<1>5. tx' = [tx EXCEPT ![r] = e] /\ rows' = rows /\ figure' = figure /\ view' = view
  BY DEF RemoveBegin
<1>6. /\ e.pc = "next"
      /\ e.added = tx[r].added /\ e.before = rows /\ e.snapshot = tx[r].snapshot
      /\ e.left = Table /\ e.gone = tx[r].gone /\ e.given = Table
  BY <1>0, <1>1, TxParts DEF TxState
<1> HIDE DEF e
<1>7. OwnRows(r, e) /\ InOrder(r, e) /\ Emptied(r, e, rows')
  BY <1>0, <1>1, <1>6, IdleParts DEF OwnRows, InOrder, Emptied
<1> QED BY <1>0, <1>1, <1>4, <1>5, <1>6, <1>7, SetUpMoves DEF SetUpTypeOK

\* A statement for a whole table starts.
LEMMA DeleteStarts ==
    ASSUME SetUpInv, NEW r \in Whole, NEW t \in Table, DeleteStart(r, t)
    PROVE  SetUpInv'
<1>1. r \in Request
  BY DEF Whole, Request
<1>2. /\ SetUpTypeOK /\ tx[r].pc = "next" /\ Turn(r, t) /\ InOrder(r, tx[r])
      /\ OwnRows(r, tx[r]) /\ Emptied(r, tx[r], rows) /\ rows \subseteq Row
  BY <1>1 DEF SetUpInv, DeleteStart, SetUpTypeOK
<1> DEFINE seen == RowsOf(t)
           rest == tx[r].left \ {t}
           e == [tx[r] EXCEPT !.pc = "wait", !.left = rest, !.at = t, !.snapshot = seen]
<1>3. /\ seen \subseteq rows /\ \A x \in seen : x[2] = t
      /\ \A x \in rows : x[2] = t => x \in seen
  BY DEF RowsOf
<1>4. t \in tx[r].left /\ tx[r].left \subseteq Table
  BY <1>1, <1>2, TxParts DEF Turn
<1>5. tx' = [tx EXCEPT ![r] = e] /\ rows' = rows /\ figure' = figure /\ view' = view
  BY DEF DeleteStart
<1> HIDE DEF seen
<1>6. e \in TxState
  BY <1>1, <1>2, <1>3, <1>4, TxParts DEF TxState, SetUpTypeOK
<1>7. /\ e.pc = "wait"
      /\ e.added = tx[r].added /\ e.before = tx[r].before /\ e.snapshot = seen
      /\ e.left = tx[r].left \ {t} /\ e.gone = tx[r].gone /\ e.given = tx[r].given
      /\ e.at = t
  BY <1>1, <1>2, TxParts DEF TxState
<1> HIDE DEF e
<1>8. \A u \in tx[r].left \ {t} : Level(t) < Level(u)
  BY <1>2, <1>4 DEF Turn, Level, Table
<1>9. InOrder(r, e)
  BY <1>2, <1>3, <1>4, <1>7, <1>8 DEF InOrder
<1>10. Emptied(r, e, rows')
  BY <1>2, <1>3, <1>5, <1>7 DEF Emptied, InOrder
<1>11. OwnRows(r, e)
  BY <1>2, <1>7 DEF OwnRows
<1> QED BY <1>1, <1>2, <1>6, <1>5, <1>7, <1>9, <1>10, <1>11, SetUpMoves DEF SetUpTypeOK

\* It has its locks, and inserts the list of the table.
LEMMA DeleteEnds ==
    ASSUME SetUpInv, NEW r \in Whole, DeleteEnd(r)
    PROVE  SetUpInv'
<1>1. r \in Request
  BY DEF Whole, Request
<1>2. /\ SetUpTypeOK /\ tx[r].pc = "wait" /\ InOrder(r, tx[r])
      /\ OwnRows(r, tx[r]) /\ Emptied(r, tx[r], rows) /\ rows \subseteq Row
  BY <1>1 DEF SetUpInv, DeleteEnd, SetUpTypeOK
<1> DEFINE new == Lines(r, tx[r].listed \cap {tx[r].at})
           pc == After(r)
           gone == tx[r].gone \cup (tx[r].snapshot \cap rows)
           added == tx[r].added \cup new
           e == [tx[r] EXCEPT !.pc = pc, !.snapshot = {}, !.gone = gone, !.added = added]
<1>3. new \subseteq Row /\ \A x \in new : x[1] = r
  <2>1. tx[r].listed \cap {tx[r].at} \in SUBSET Table
    BY <1>1, <1>2, TxParts
  <2> QED BY <1>1, <2>1, LinesParts
<1>4. /\ After(r) \in {"next", "answer", "commit"}
      /\ After(r) # "next" => tx[r].left = {}
  BY DEF After
<1>5. gone \in SUBSET Row /\ added \in SUBSET Row
  BY <1>1, <1>2, <1>3, TxParts
<1>6. tx' = [tx EXCEPT ![r] = e] /\ rows' = rows /\ figure' = figure /\ view' = view
  BY DEF DeleteEnd
<1> HIDE DEF new, pc, gone, added
<1>7. pc \in {"next", "answer", "commit"}
  BY <1>4 DEF pc
<1>8. e \in TxState
  BY <1>1, <1>2, <1>5, <1>7, TxParts DEF TxState
<1>9. /\ e.pc = pc /\ e.added = added /\ e.before = tx[r].before /\ e.snapshot = {}
      /\ e.left = tx[r].left /\ e.gone = gone /\ e.given = tx[r].given
  BY <1>1, <1>2, TxParts DEF TxState
<1> HIDE DEF e
<1>10. InOrder(r, e)
  BY <1>2, <1>4, <1>9 DEF InOrder, pc, gone
<1>11. Emptied(r, e, rows')
  BY <1>2, <1>6, <1>9 DEF Emptied, gone
<1>12. OwnRows(r, e)
  BY <1>2, <1>3, <1>9 DEF OwnRows, added
<1>13. e.pc # "done"
  BY <1>9, <1>7
<1> QED BY <1>1, <1>2, <1>8, <1>6, <1>9, <1>10, <1>11, <1>12, <1>13, SetUpMoves DEF SetUpTypeOK

\* The answer is read.
LEMMA Answers ==
    ASSUME SetUpInv, NEW r \in Replace, Answer(r)
    PROVE  SetUpInv'
<1>0. r \in Request /\ r \in Whole
  BY KindParts
<1>1. /\ SetUpTypeOK /\ tx[r].pc = "answer" /\ InOrder(r, tx[r])
      /\ OwnRows(r, tx[r]) /\ Emptied(r, tx[r], rows)
  BY <1>0 DEF SetUpInv, Answer
<1> DEFINE e == [tx[r] EXCEPT !.pc = "commit"]
<1>4. e \in TxState
  BY <1>0, <1>1, TxParts DEF TxState
<1>5. tx' = [tx EXCEPT ![r] = e] /\ rows' = rows /\ figure' = figure /\ view' = view
  BY DEF Answer
<1>6. /\ e.pc = "commit"
      /\ e.added = tx[r].added /\ e.before = tx[r].before /\ e.snapshot = tx[r].snapshot
      /\ e.left = tx[r].left /\ e.gone = tx[r].gone /\ e.given = tx[r].given
  BY <1>0, <1>1, TxParts DEF TxState
<1> HIDE DEF e
<1>7. OwnRows(r, e) /\ InOrder(r, e) /\ Emptied(r, e, rows')
  BY <1>0, <1>1, <1>5, <1>6 DEF OwnRows, InOrder, Emptied
<1> QED BY <1>0, <1>1, <1>4, <1>5, <1>6, <1>7, SetUpMoves DEF SetUpTypeOK

\* What the end of a transaction leaves of its state.
LEMMA EndedParts ==
    ASSUME SetUpInv, NEW r \in Request, NEW pc \in {"done", "failed"},
           tx[r].pc # "done", tx' = Ended(r, pc), view' = view,
           rows' \subseteq Row, figure' \in [Row -> Figure],
           \A x \in rows' \ rows : x[1] = r /\ pc = "done",
           r \in Whole /\ pc = "done" =>
               \A x \in rows' \cap tx[r].before : x[2] \notin tx[r].given
    PROVE  SetUpInv'
<1>1. SetUpTypeOK
  BY DEF SetUpInv
<1> DEFINE e == [tx[r] EXCEPT !.pc = pc, !.left = {}, !.snapshot = {}, !.gone = {},
                              !.added = {}]
<1>4. e \in TxState
  BY <1>1, TxParts DEF TxState
<1>5. tx' = [tx EXCEPT ![r] = e]
  BY DEF Ended
<1>6. /\ e.pc = pc
      /\ e.added = {} /\ e.before = tx[r].before /\ e.snapshot = {}
      /\ e.left = {} /\ e.gone = {} /\ e.given = tx[r].given
  BY <1>1, TxParts DEF TxState
<1> HIDE DEF e
<1>7. OwnRows(r, e) /\ InOrder(r, e) /\ Emptied(r, e, rows')
  BY <1>6 DEF OwnRows, InOrder, Emptied
<1> QED BY <1>4, <1>5, <1>6, <1>7, SetUpMoves

\* The transaction of a POST, a PATCH or a DELETE commits.
LEMMA Commits ==
    ASSUME SetUpInv, NEW r \in Request, Commit(r)
    PROVE  SetUpInv'
<1>1. /\ SetUpTypeOK /\ tx[r].pc = "commit" /\ InOrder(r, tx[r])
      /\ OwnRows(r, tx[r]) /\ Emptied(r, tx[r], rows) /\ BeforeDone
  BY DEF SetUpInv, Commit
<1>2. /\ rows' = (rows \ tx[r].gone) \cup tx[r].added
      /\ figure' = [x \in Row |-> IF x \in tx[r].added THEN tx[r].holds ELSE figure[x]]
      /\ tx' = Ended(r, "done") /\ view' = view
  BY DEF Commit
<1>3. rows' \subseteq Row /\ figure' \in [Row -> Figure]
  BY <1>1, <1>2, TxParts DEF SetUpTypeOK
<1>4. \A x \in rows' \ rows : x[1] = r
  BY <1>1, <1>2 DEF OwnRows
<1>5. r \in Whole => \A x \in rows' \cap tx[r].before : x[2] \notin tx[r].given
  <2> SUFFICES ASSUME r \in Whole, NEW x \in rows' \cap tx[r].before,
                      x[2] \in tx[r].given
               PROVE  FALSE
    OBVIOUS
  <2>1. x[1] # r
    BY <1>1 DEF BeforeDone
  <2>2. x \in rows /\ x \notin tx[r].gone
    BY <1>1, <1>2, <2>1 DEF OwnRows
  <2> QED BY <1>1, <2>2 DEF Emptied, InOrder
<1> QED BY <1>1, <1>2, <1>3, <1>4, <1>5, EndedParts

\* A transaction is rolled back.
LEMMA RollsBack ==
    ASSUME SetUpInv, NEW r \in Request, Rollback(r)
    PROVE  SetUpInv'
<1>1. SetUpTypeOK /\ tx[r].pc # "done"
  BY DEF SetUpInv, Rollback, InTransaction
<1>2. rows' = rows /\ figure' = figure /\ view' = view /\ tx' = Ended(r, "failed")
  BY DEF Rollback
<1> QED BY <1>1, <1>2, EndedParts DEF SetUpTypeOK

\* A bill or a goal is added.
LEMMA AddsRow ==
    ASSUME SetUpInv, NEW r \in Edit, NEW t \in Table, NEW f \in Figure, AddRow(r, t, f)
    PROVE  SetUpInv'
<1>0. r \in Request /\ r \notin Whole
  BY KindParts
<1>1. SetUpTypeOK /\ tx[r].pc = "idle"
  BY DEF SetUpInv, AddRow
<1> DEFINE e == [tx[r] EXCEPT !.pc = "done", !.before = rows]
<1>2. <<r, t>> \in Row /\ <<r, t>>[1] = r
  BY <1>0 DEF Row
<1>4. e \in TxState
  BY <1>0, <1>1, TxParts DEF TxState, SetUpTypeOK
<1>5. /\ tx' = [tx EXCEPT ![r] = e] /\ view' = view
      /\ rows' = rows \cup {<<r, t>>} /\ figure' = [figure EXCEPT ![<<r, t>>] = f]
  BY DEF AddRow
<1>6. /\ e.pc = "done" /\ e.added = tx[r].added /\ e.before = rows
      /\ e.left = tx[r].left /\ e.gone = tx[r].gone
  BY <1>0, <1>1, TxParts DEF TxState
<1> HIDE DEF e
<1>7. OwnRows(r, e) /\ InOrder(r, e) /\ Emptied(r, e, rows')
  BY <1>0, <1>1, <1>6, IdleParts DEF OwnRows, InOrder, Emptied
<1>8. rows' \subseteq Row /\ figure' \in [Row -> Figure]
  BY <1>1, <1>2, <1>5 DEF SetUpTypeOK
<1>9. \A x \in rows' \ rows : x[1] = r /\ e.pc = "done"
  BY <1>2, <1>5, <1>6
<1> QED BY <1>0, <1>1, <1>4, <1>5, <1>6, <1>7, <1>8, <1>9, SetUpMoves

\* The statement for a single row starts.
LEMMA RowStarts ==
    ASSUME SetUpInv, NEW r \in Edit, NEW x \in Row, NEW drops \in BOOLEAN,
           NEW f \in Figure, RowStart(r, x, drops, f)
    PROVE  SetUpInv'
<1>0. r \in Request /\ r \notin Whole
  BY KindParts
<1>1. SetUpTypeOK /\ tx[r].pc = "idle"
  BY DEF SetUpInv, RowStart
<1> DEFINE e == [tx[r] EXCEPT !.pc = IF x \in rows THEN "wait" ELSE "failed",
                              !.snapshot = {x}, !.before = rows, !.drops = drops,
                              !.holds = f]
<1>4. e \in TxState
  BY <1>0, <1>1, TxParts DEF TxState, SetUpTypeOK
<1>5. tx' = [tx EXCEPT ![r] = e] /\ rows' = rows /\ figure' = figure /\ view' = view
  BY DEF RowStart
<1>6. /\ e.pc \in {"wait", "failed"} /\ e.added = tx[r].added /\ e.before = rows
      /\ e.left = tx[r].left /\ e.gone = tx[r].gone
  BY <1>0, <1>1, TxParts DEF TxState
<1> HIDE DEF e
<1>7. OwnRows(r, e) /\ InOrder(r, e) /\ Emptied(r, e, rows')
  BY <1>0, <1>1, <1>6, IdleParts DEF OwnRows, InOrder, Emptied
<1> QED BY <1>0, <1>1, <1>4, <1>5, <1>6, <1>7, SetUpMoves DEF SetUpTypeOK

\* And ends.
LEMMA RowEnds ==
    ASSUME SetUpInv, NEW r \in Edit, RowEnd(r)
    PROVE  SetUpInv'
<1>0. r \in Request /\ r \notin Whole
  BY KindParts
<1> DEFINE kept == tx[r].snapshot \cap rows
<1>1. SetUpTypeOK /\ tx[r].pc = "wait"
  BY DEF SetUpInv, RowEnd
<1>2. /\ rows' = IF tx[r].drops THEN rows \ kept ELSE rows
      /\ figure' = [x \in Row |-> IF x \in kept /\ ~tx[r].drops THEN tx[r].holds
                                  ELSE figure[x]]
      /\ tx' = Ended(r, IF kept = {} THEN "failed" ELSE "done")
      /\ view' = view
  BY DEF RowEnd
<1>3. rows' \subseteq rows /\ rows' \subseteq Row /\ figure' \in [Row -> Figure]
  BY <1>0, <1>1, <1>2, TxParts DEF SetUpTypeOK
<1>4. (IF kept = {} THEN "failed" ELSE "done") \in {"done", "failed"}
  OBVIOUS
<1> QED BY <1>0, <1>1, <1>2, <1>3, <1>4, EndedParts

\* A reader reads one table.
LEMMA ViewReads ==
    ASSUME SetUpInv, NEW v \in View, NEW t \in Table, ViewRead(v, t)
    PROVE  SetUpInv'
<1>1. rows' = rows /\ figure' = figure /\ tx' = tx
  BY DEF ViewRead
<1>2. view' \in [View -> ViewState]
  <2>1. {<<x, figure[x]>> : x \in RowsOf(t)} \subseteq Row \X Figure
    BY DEF RowsOf, SetUpInv, SetUpTypeOK
  <2>2. view[v] \in ViewState /\ view \in [View -> ViewState]
    BY DEF SetUpInv, SetUpTypeOK
  <2> QED BY <2>1, <2>2 DEF ViewRead, ViewState
<1>3. SetUpTypeOK'
  BY <1>1, <1>2 DEF SetUpInv, SetUpTypeOK
<1>4. RowsDone' /\ BeforeDone'
  BY <1>1 DEF SetUpInv, RowsDone, BeforeDone
<1>5. /\ (\A r \in Request : OwnRows(r, tx[r]))'
      /\ (\A r \in Request : InOrder(r, tx[r]))'
      /\ (\A r \in Request : Emptied(r, tx[r], rows))'
  BY <1>1 DEF SetUpInv, OwnRows, InOrder, Emptied
<1> QED BY <1>3, <1>4, <1>5 DEF SetUpInv

\* Every step keeps the invariant.
LEMMA SetUpStep == SetUpInv /\ [SetUpNext]_setUpVars => SetUpInv'
<1> SUFFICES ASSUME SetUpInv, [SetUpNext]_setUpVars
             PROVE  SetUpInv'
  OBVIOUS
<1>1. ASSUME NEW r \in Create, CreateNext(r)
      PROVE  SetUpInv'
  BY <1>1, KindParts, CreateBegins, Commits DEF CreateNext
<1>2. ASSUME NEW r \in Replace, ReplaceNext(r)
      PROVE  SetUpInv'
  BY <1>2, KindParts, ReplaceBegins, DeleteStarts, DeleteEnds, Answers, Commits DEF ReplaceNext
<1>3. ASSUME NEW r \in Remove, RemoveNext(r)
      PROVE  SetUpInv'
  BY <1>3, KindParts, RemoveBegins, DeleteStarts, DeleteEnds, Commits DEF RemoveNext
<1>4. ASSUME NEW r \in Edit, EditNext(r)
      PROVE  SetUpInv'
  BY <1>4, AddsRow, RowStarts, RowEnds DEF EditNext
<1>5. CASE UNCHANGED setUpVars
  <2>1. rows' = rows /\ figure' = figure /\ tx' = tx /\ view' = view
    BY <1>5 DEF setUpVars
  <2>2. SetUpTypeOK' /\ RowsDone' /\ BeforeDone'
    BY <2>1 DEF SetUpInv, SetUpTypeOK, RowsDone, BeforeDone
  <2>3. /\ (\A r \in Request : OwnRows(r, tx[r]))'
        /\ (\A r \in Request : InOrder(r, tx[r]))'
        /\ (\A r \in Request : Emptied(r, tx[r], rows))'
    BY <2>1 DEF SetUpInv, OwnRows, InOrder, Emptied
  <2> QED BY <2>2, <2>3 DEF SetUpInv
<1> QED BY <1>1, <1>2, <1>3, <1>4, <1>5, RollsBack, ViewReads DEF SetUpNext

\* The invariant holds of every reachable state.
LEMMA SetUpAlways == SetUpSpec => []SetUpInv
BY SetUpInitInv, SetUpStep, PTL DEF SetUpSpec

\* The handlers of set-up.service.ts keep rows, transactions and readers of their kinds.
THEOREM SetUpTypes == SetUpSpec => []SetUpTypeOK
<1>1. SetUpInv => SetUpTypeOK
  BY DEF SetUpInv
<1> QED BY <1>1, SetUpAlways, PTL

\* updateMySetUpIncome and removeMySetUp delete, at Read Committed, what was committed
\* when they began in every table they were given, though each statement sees other rows
\* and edits go on; and a request that has not committed has no rows.
THEOREM Replacements == SetUpSpec => []ReplacesReplace
<1>1. SetUpInv => ReplacesReplace
  <2> SUFFICES ASSUME SetUpInv, NEW r \in Replace \cup Remove
               PROVE  /\ tx[r].pc = "done" =>
                             \A x \in rows \cap tx[r].before : x[2] \notin tx[r].given
                      /\ tx[r].pc # "done" => \A x \in rows : x[1] # r
    BY DEF ReplacesReplace
  <2>1. r \in Request /\ r \in Whole
    BY DEF Request, Whole
  <2>2. InOrder(r, tx[r]) /\ Emptied(r, tx[r], rows) /\ RowsDone
    BY <2>1 DEF SetUpInv
  <2>3. ASSUME tx[r].pc = "done", NEW x \in rows \cap tx[r].before
        PROVE  x[2] \notin tx[r].given
    <3>1. tx[r].left = {} /\ tx[r].snapshot = {} /\ tx[r].gone = {}
      BY <2>1, <2>2, <2>3 DEF InOrder
    <3> QED BY <2>1, <2>2, <2>3, <3>1 DEF Emptied
  <2>4. tx[r].pc # "done" => \A x \in rows : x[1] # r
    BY <2>2 DEF RowsDone
  <2> QED BY <2>3, <2>4
<1> QED BY <1>1, SetUpAlways, PTL

------------------------------------------------------------------------------
(* No circle of locks *)

\* Whoever holds a row that another waits for, and waits itself, has reached a higher
\* table than the one the other waits at.
LEMMA WaitsClimb ==
    ASSUME SetUpInv, NEW r \in Request, tx[r].pc = "wait",
           NEW q \in WaitsFor(r), tx[q].pc = "wait"
    PROVE  /\ q \in Whole /\ q \in Connected
           /\ 1 < Level(tx[q].at)
           /\ r \in Whole => Level(tx[r].at) < Level(tx[q].at)
<1>0. q \in Connected /\ q \in Request /\ tx[q].gone \cap tx[r].snapshot # {}
  BY DEF WaitsFor, Connected
<1>1. PICK x : x \in tx[q].gone /\ x \in tx[r].snapshot
  BY <1>0
<1>2. SetUpTypeOK /\ InOrder(r, tx[r]) /\ InOrder(q, tx[q])
  BY <1>0 DEF SetUpInv
<1>3. x \in Row /\ tx[q].at \in Table /\ tx[r].at \in Table
  BY <1>0, <1>1, <1>2, TxParts
<1>4. q \in Whole
  BY <1>1, <1>2 DEF InOrder
<1>5. Level(x[2]) < Level(tx[q].at)
  BY <1>1, <1>2 DEF InOrder
<1>6. r \in Whole => x[2] = tx[r].at
  BY <1>1, <1>2 DEF InOrder
<1>7. Level(x[2]) \in 1 .. 3 /\ Level(tx[q].at) \in 1 .. 3
  BY <1>3, LevelParts, RowParts
<1> QED BY <1>0, <1>4, <1>5, <1>6, <1>7

\* Both handlers take incomes, commitments and goals in this order, so that it closes
\* no circle: who waits at one table waits for somebody at a higher one.  Requests that
\* all wait include one that asks the exhausted pool for a second connection.
THEOREM LocksClose == SetUpSpec => []StuckIsExplained
<1>1. SetUpInv => StuckIsExplained
  <2> DEFINE Blocked(r) == \/ tx[r].pc = "wait" /\ WaitsFor(r) # {}
                           \/ tx[r].pc = "answer" /\ ~Connectable
  <2> SUFFICES ASSUME SetUpInv, NEW r \in Connected, \A q \in Connected : Blocked(q)
               PROVE  ~Connectable /\ \E q \in Connected : tx[q].pc = "answer"
    BY DEF StuckIsExplained
  <2>1. CASE \E q \in Connected : tx[q].pc = "answer"
    <3>1. PICK q \in Connected : tx[q].pc = "answer"
      BY <2>1
    <3>2. ~Connectable
      BY <3>1
    <3> QED BY <3>1, <3>2
  <2>2. CASE \A q \in Connected : tx[q].pc # "answer"
    <3>1. \A q \in Connected : tx[q].pc = "wait" /\ WaitsFor(q) # {} /\ WaitsFor(q) \subseteq Connected
      BY <2>2 DEF WaitsFor
    <3> HIDE DEF Blocked
    <3>2. Connected \subseteq Request
      BY DEF Connected
    <3>3. PICK a \in WaitsFor(r) : TRUE
      BY <3>1
    <3>4. a \in Whole /\ a \in Connected /\ 1 < Level(tx[a].at)
      BY <3>1, <3>2, <3>3, WaitsClimb
    <3>5. PICK b \in WaitsFor(a) : TRUE
      BY <3>1, <3>4
    <3>6. b \in Whole /\ b \in Connected /\ Level(tx[a].at) < Level(tx[b].at)
      BY <3>1, <3>2, <3>4, <3>5, WaitsClimb
    <3>7. PICK c \in WaitsFor(b) : TRUE
      BY <3>1, <3>6
    <3>8. c \in Connected /\ Level(tx[b].at) < Level(tx[c].at)
      BY <3>1, <3>2, <3>6, <3>7, WaitsClimb
    <3>9. tx[a].at \in Table /\ tx[b].at \in Table /\ tx[c].at \in Table
      BY <3>2, <3>4, <3>6, <3>8, TxParts DEF SetUpInv
    <3>10. Level(tx[a].at) \in 1 .. 3 /\ Level(tx[b].at) \in 1 .. 3 /\ Level(tx[c].at) \in 1 .. 3
      BY <3>9, LevelParts
    <3> QED BY <3>4, <3>6, <3>8, <3>10
  <2> QED BY <2>1, <2>2
<1> QED BY <1>1, SetUpAlways, PTL

------------------------------------------------------------------------------
(* The pay plan: sums over finite sets of lines *)

\* Of the subsets of a finite set that have a property, one is minimal.
LEMMA MinimalSubset ==
    ASSUME NEW S, IsFiniteSet(S), NEW T, T \subseteq SUBSET S, T # {}
    PROVE  \E x \in T : \A y \in T : y \subseteq x => y = x
<1>1. FiniteSubsetsOf(S) = SUBSET S
  BY FS_FiniteSubsetsOfFinite
<1>2. IsWellFoundedOn(StrictSubsetOrdering(S), SUBSET S)
  BY <1>1, FS_StrictSubsetOrderingWellFounded
<1>3. \E x \in T : \A y \in T : ~ (<<y, x>> \in StrictSubsetOrdering(S))
  BY <1>2, WFMin
<1>4. \A x, y \in SUBSET S : y \subseteq x /\ y # x => <<y, x>> \in StrictSubsetOrdering(S)
  BY DEF StrictSubsetOrdering
<1> QED BY <1>3, <1>4

\* The image of a finite set is finite.
LEMMA FiniteImage ==
    ASSUME NEW S, IsFiniteSet(S), NEW f
    PROVE  IsFiniteSet({f[x] : x \in S})
<1> DEFINE T == {f[x] : x \in S}
           g == [x \in S |-> f[x]]
<1>1. g \in Surjection(S, T)
  BY DEF Surjection
<1> QED BY <1>1, FS_Surjection

\* What a line adds.
Monthly(line) == ToMonthly(line[2])

\* A line of a set.
LineOf(S) == CHOOSE x \in S : TRUE

\* h sums the lines of every subset of S.
Sums(h, S) ==
    h = [s \in SUBSET S |-> IF s = {} THEN 0 ELSE Monthly(LineOf(s)) + h[s \ {LineOf(s)}]]

\* The total is the last of these sums.
LEMMA TotalIsSum ==
    ASSUME NEW S
    PROVE  Total(S) = (CHOOSE h : Sums(h, S))[S]
BY DEF Total, MapThenSumSet, MapThenFoldSet, Sums, Monthly, LineOf

\* A line is taken from a set that has one.
LEMMA LineOfParts ==
    ASSUME NEW S, S # {}
    PROVE  LineOf(S) \in S /\ S \ {LineOf(S)} \subseteq S /\ S \ {LineOf(S)} # S
BY DEF LineOf

\* The equation at one subset.
LEMMA SumsParts ==
    ASSUME NEW S, NEW h, Sums(h, S), NEW s \in SUBSET S
    PROVE  /\ s = {} => h[s] = 0
           /\ s # {} => h[s] = Monthly(LineOf(s)) + h[s \ {LineOf(s)}]
<1> DEFINE F(t) == IF t = {} THEN 0 ELSE Monthly(LineOf(t)) + h[t \ {LineOf(t)}]
<1>1. h = [t \in SUBSET S |-> F(t)]
  BY DEF Sums
<1> HIDE DEF F
<1>2. h[s] = F(s)
  BY <1>1
<1> QED BY <1>2 DEF F

\* The sums of a smaller set are those of the larger.
LEMMA SumsAgree ==
    ASSUME NEW S, IsFiniteSet(S), NEW U \in SUBSET S,
           NEW g, Sums(g, U), NEW h, Sums(h, S), NEW s \in SUBSET U
    PROVE  g[s] = h[s]
<1> SUFFICES ASSUME g[s] # h[s]
             PROVE  FALSE
  OBVIOUS
<1> DEFINE T == {t \in SUBSET U : g[t] # h[t]}
<1>0. T \subseteq SUBSET S /\ T # {}
  OBVIOUS
<1> HIDE DEF T
<1>1. PICK t \in T : \A y \in T : y \subseteq t => y = t
  BY <1>0, MinimalSubset
<1>2. t \in SUBSET U /\ t \in SUBSET S /\ g[t] # h[t]
  BY <1>1 DEF T
<1>3. t # {}
  BY <1>2, SumsParts
<1>4. t \ {LineOf(t)} \in SUBSET U /\ t \ {LineOf(t)} \subseteq t /\ t \ {LineOf(t)} # t
  BY <1>2, <1>3, LineOfParts
<1>5. g[t \ {LineOf(t)}] = h[t \ {LineOf(t)}]
  BY <1>1, <1>4 DEF T
<1>6. /\ g[t] = Monthly(LineOf(t)) + g[t \ {LineOf(t)}]
      /\ h[t] = Monthly(LineOf(t)) + h[t \ {LineOf(t)}]
  BY <1>2, <1>3, SumsParts
<1> QED BY <1>2, <1>5, <1>6

\* There are sums of every finite set.
LEMMA SumsExist ==
    ASSUME NEW S, IsFiniteSet(S)
    PROVE  \E h : Sums(h, S)
<1> SUFFICES ASSUME ~ \E h : Sums(h, S)
             PROVE  FALSE
  OBVIOUS
<1> DEFINE T == {U \in SUBSET S : ~ \E h : Sums(h, U)}
<1>0. T \subseteq SUBSET S /\ T # {}
  OBVIOUS
<1> HIDE DEF T
<1>1. PICK U \in T : \A V \in T : V \subseteq U => V = U
  BY <1>0, MinimalSubset
<1>2. U \in SUBSET S /\ ~ \E h : Sums(h, U)
  BY <1>1 DEF T
<1>3. \A V \in SUBSET U : V # U => \E h : Sums(h, V)
  BY <1>1, <1>2 DEF T
<1> DEFINE G(V) == CHOOSE h : Sums(h, V)
           F(s) == IF s # U THEN G(s)[s]
                   ELSE IF s = {} THEN 0
                   ELSE Monthly(LineOf(s)) + G(s \ {LineOf(s)})[s \ {LineOf(s)}]
           g == [s \in SUBSET U |-> F(s)]
           R(s) == IF s = {} THEN 0 ELSE Monthly(LineOf(s)) + g[s \ {LineOf(s)}]
<1>4. \A V \in SUBSET U : V # U => Sums(G(V), V)
  BY <1>3
<1>5. \A V \in SUBSET U : IsFiniteSet(V)
  BY <1>2, FS_Subset
<1>6. ASSUME NEW s \in SUBSET U
      PROVE  F(s) = R(s)
  <2> DEFINE rest == s \ {LineOf(s)}
  <2>1. CASE s = {}
    <3>1. s # U => G(s)[s] = 0
      BY <1>4, <2>1, SumsParts
    <3> QED BY <2>1, <3>1
  <2>2. CASE s # {}
    <3>1. rest \in SUBSET U /\ rest \in SUBSET s /\ rest # U /\ LineOf(s) \in s
      BY <2>2, LineOfParts
    <3>2. g[rest] = G(rest)[rest]
      BY <3>1
    <3>3. CASE s = U
      BY <2>2, <3>2, <3>3
    <3>4. CASE s # U
      <4>1. Sums(G(s), s) /\ Sums(G(rest), rest) /\ IsFiniteSet(s)
        BY <1>4, <1>5, <3>1, <3>4
      <4>2. G(s)[s] = Monthly(LineOf(s)) + G(s)[rest]
        BY <2>2, <4>1, SumsParts
      <4> HIDE DEF G
      <4>3. G(rest)[rest] = G(s)[rest]
        BY <3>1, <4>1, SumsAgree
      <4> QED BY <2>2, <3>2, <3>4, <4>2, <4>3
    <3> QED BY <3>3, <3>4
  <2> QED BY <2>1, <2>2
<1>7. g = [s \in SUBSET U |-> R(s)]
  <2> DEFINE k == [s \in SUBSET U |-> R(s)]
  <2>0. g = [s \in SUBSET U |-> g[s]] /\ \A s \in SUBSET U : g[s] = F(s)
    OBVIOUS
  <2> HIDE DEF g, F, R
  <2>1. \A s \in SUBSET U : g[s] = k[s]
    BY <1>6, <2>0
  <2>2. k = [s \in SUBSET U |-> k[s]]
    OBVIOUS
  <2> HIDE DEF k
  <2>3. g = k
    BY <2>0, <2>1, <2>2
  <2>4. k = [s \in SUBSET U |-> R(s)]
    BY DEF k
  <2> QED BY <2>3, <2>4
<1>8. Sums(g, U)
  BY <1>7 DEF Sums
<1> QED BY <1>2, <1>8

\* What a line adds is a number of hundredths.
LEMMA MonthlyIsNat ==
    ASSUME NEW f \in Figure
    PROVE  ToMonthly(f) \in Nat
<1>1. f.amount \in Nat /\ f.frequency \in Frequency
  BY SetUpAssumption
<1> QED BY <1>1 DEF ToMonthly, Frequency

\* The total of finitely many lines is a number.
LEMMA TotalIsNat ==
    ASSUME NEW S, IsFiniteSet(S), \A line \in S : line[2] \in Figure
    PROVE  Total(S) \in Nat
<1> DEFINE h == CHOOSE h : Sums(h, S)
           T == {s \in SUBSET S : h[s] \notin Nat}
<1>1. Sums(h, S)
  BY SumsExist
<1>2. Total(S) = h[S]
  BY TotalIsSum
<1>3. T \subseteq SUBSET S
  OBVIOUS
<1> HIDE DEF h, T
<1>4. CASE T # {}
  <2>1. PICK t \in T : \A y \in T : y \subseteq t => y = t
    BY <1>3, <1>4, MinimalSubset
  <2>2. t \in SUBSET S /\ h[t] \notin Nat
    BY <2>1 DEF T
  <2>3. t # {}
    <3>1. t = {} => h[t] = 0
      BY <1>1, <2>2, SumsParts
    <3> QED BY <2>2, <3>1
  <2>4. t \ {LineOf(t)} \in SUBSET S /\ t \ {LineOf(t)} \subseteq t /\ t \ {LineOf(t)} # t
    BY <2>2, <2>3, LineOfParts
  <2>5. h[t \ {LineOf(t)}] \in Nat
    BY <2>1, <2>4 DEF T
  <2>6. Monthly(LineOf(t)) \in Nat
    BY <2>2, <2>3, LineOfParts, MonthlyIsNat DEF Monthly
  <2>7. h[t] = Monthly(LineOf(t)) + h[t \ {LineOf(t)}]
    BY <1>1, <2>2, <2>3, SumsParts
  <2> QED BY <2>2, <2>5, <2>6, <2>7
<1>5. CASE T = {}
  BY <1>2, <1>5 DEF T
<1> QED BY <1>4, <1>5

\* What is safe to spend, from any income and any expenses.
LEMMA RoundingAddsUp ==
    ASSUME NEW income \in Nat, NEW expenses \in Nat
    PROVE  LET left == Round(income) - Round(expenses)
               safe == SafeToSpend(income, expenses)
           IN  IF left >= 0 THEN safe \in Nat \cap (left - 1 .. left + 1) ELSE safe = 0
BY DEF Round, SafeToSpend

\* What is committed, inserted and seen is finite.
AllFinite ==
    /\ IsFiniteSet(rows)
    /\ \A r \in Request : IsFiniteSet(tx[r].added)
    /\ \A v \in View : IsFiniteSet(view[v].seen)

\* There are three tables.
LEMMA TableIsFinite == IsFiniteSet(Table)
<1>1. IsFiniteSet({} \cup {"incomes"})
  BY FS_EmptySet, FS_AddElement
<1>2. IsFiniteSet(({} \cup {"incomes"}) \cup {"commitments"})
  BY <1>1, FS_AddElement
<1>3. IsFiniteSet((({} \cup {"incomes"}) \cup {"commitments"}) \cup {"goals"})
  BY <1>2, FS_AddElement
<1>4. Table = (({} \cup {"incomes"}) \cup {"commitments"}) \cup {"goals"}
  BY DEF Table
<1> QED BY <1>3, <1>4

\* A request inserts at most three rows.
LEMMA LinesFinite ==
    ASSUME NEW r, NEW L \in SUBSET Table
    PROVE  IsFiniteSet(Lines(r, L))
<1> DEFINE f == [t \in L |-> <<r, t>>]
<1>1. IsFiniteSet(L)
  BY TableIsFinite, FS_Subset
<1>2. IsFiniteSet({f[t] : t \in L})
  BY <1>1, FiniteImage
<1>3. Lines(r, L) = {f[t] : t \in L}
  BY DEF Lines
<1> QED BY <1>2, <1>3

\* One request moves and inserts finitely many rows.
LEMMA FiniteMoves ==
    ASSUME SetUpTypeOK, AllFinite, NEW r \in Request, NEW e,
           tx' = [tx EXCEPT ![r] = e], view' = view,
           IsFiniteSet(e.added), IsFiniteSet(rows')
    PROVE  AllFinite'
<1>1. /\ tx'[r] = e
      /\ \A q \in Request \ {r} : tx'[q] = tx[q]
  BY DEF SetUpTypeOK
<1> QED BY <1>1 DEF AllFinite

\* A transaction ends.
LEMMA FiniteEnds ==
    ASSUME SetUpTypeOK, AllFinite, NEW r \in Request, NEW pc,
           tx' = Ended(r, pc), view' = view, IsFiniteSet(rows')
    PROVE  AllFinite'
<1> DEFINE e == [tx[r] EXCEPT !.pc = pc, !.left = {}, !.snapshot = {}, !.gone = {},
                              !.added = {}]
<1>1. tx' = [tx EXCEPT ![r] = e]
  BY DEF Ended
<1>2. e.added = {}
  BY TxParts DEF TxState
<1>3. IsFiniteSet({})
  BY FS_EmptySet
<1> HIDE DEF e
<1> QED BY <1>1, <1>2, <1>3, FiniteMoves

\* POST and PATCH begin.
LEMMA FiniteBegins ==
    ASSUME SetUpTypeOK, AllFinite, NEW r \in Request, NEW b \in Body, NEW f \in Figure
    PROVE  /\ CreateBegin(r, b, f) => AllFinite'
           /\ ReplaceBegin(r, b, f) => AllFinite'
<1>0. IsFiniteSet(rows) /\ IsFiniteSet(tx[r].added)
  BY DEF AllFinite
<1>1. ASSUME CreateBegin(r, b, f)
      PROVE  AllFinite'
  <2> DEFINE new == Lines(r, b.listed)
             e == [tx[r] EXCEPT !.pc = "commit", !.added = new, !.before = rows,
                                !.holds = f]
  <2>1. IsFiniteSet(new)
    BY SetUpAssumption, LinesFinite
  <2>2. tx' = [tx EXCEPT ![r] = e] /\ rows' = rows /\ view' = view
    BY <1>1 DEF CreateBegin
  <2> HIDE DEF new
  <2>3. e.added = new
    BY TxParts DEF TxState
  <2> HIDE DEF e
  <2> QED BY <1>0, <2>1, <2>2, <2>3, FiniteMoves
<1>2. ASSUME ReplaceBegin(r, b, f)
      PROVE  AllFinite'
  <2> DEFINE e == [tx[r] EXCEPT !.pc = IF b.given = {} THEN "answer" ELSE "next",
                                !.given = b.given, !.listed = b.listed,
                                !.left = b.given, !.before = rows, !.holds = f]
  <2>2. tx' = [tx EXCEPT ![r] = e] /\ rows' = rows /\ view' = view
    BY <1>2 DEF ReplaceBegin
  <2>3. e.added = tx[r].added
    BY TxParts DEF TxState
  <2> HIDE DEF e
  <2> QED BY <1>0, <2>2, <2>3, FiniteMoves
<1> QED BY <1>1, <1>2

\* DELETE begins, and the transactions go on.
LEMMA FiniteGoesOn ==
    ASSUME SetUpTypeOK, AllFinite, NEW r \in Request
    PROVE  /\ RemoveBegin(r) => AllFinite'
           /\ \A t \in Table : DeleteStart(r, t) => AllFinite'
           /\ DeleteEnd(r) => AllFinite'
           /\ Answer(r) => AllFinite'
           /\ Commit(r) => AllFinite'
           /\ Rollback(r) => AllFinite'
<1>0. IsFiniteSet(rows) /\ IsFiniteSet(tx[r].added)
  BY DEF AllFinite
<1>1. ASSUME NEW t \in Table, DeleteStart(r, t)
      PROVE  AllFinite'
  <2> DEFINE seen == RowsOf(t)
             rest == tx[r].left \ {t}
             e == [tx[r] EXCEPT !.pc = "wait", !.left = rest, !.at = t, !.snapshot = seen]
  <2>2. tx' = [tx EXCEPT ![r] = e] /\ rows' = rows /\ view' = view
    BY <1>1 DEF DeleteStart
  <2> HIDE DEF seen, rest
  <2>3. e.added = tx[r].added
    BY TxParts DEF TxState
  <2> HIDE DEF e
  <2> QED BY <1>0, <2>2, <2>3, FiniteMoves
<1>2. ASSUME DeleteEnd(r)
      PROVE  AllFinite'
  <2> DEFINE new == Lines(r, tx[r].listed \cap {tx[r].at})
             e == [tx[r] EXCEPT !.pc = After(r), !.snapshot = {},
                                !.gone = tx[r].gone \cup (tx[r].snapshot \cap rows),
                                !.added = tx[r].added \cup new]
  <2>1. IsFiniteSet(new)
    <3>1. tx[r].listed \cap {tx[r].at} \in SUBSET Table
      BY TxParts
    <3> QED BY <3>1, LinesFinite
  <2>2. tx' = [tx EXCEPT ![r] = e] /\ rows' = rows /\ view' = view
    BY <1>2 DEF DeleteEnd
  <2> HIDE DEF new
  <2>3. e.added = tx[r].added \cup new
    BY TxParts DEF TxState
  <2>4. IsFiniteSet(tx[r].added \cup new)
    BY <1>0, <2>1, FS_Union
  <2> HIDE DEF e
  <2> QED BY <1>0, <2>2, <2>3, <2>4, FiniteMoves
<1>3. ASSUME Answer(r)
      PROVE  AllFinite'
  <2> DEFINE e == [tx[r] EXCEPT !.pc = "commit"]
  <2>2. tx' = [tx EXCEPT ![r] = e] /\ rows' = rows /\ view' = view
    BY <1>3 DEF Answer
  <2>3. e.added = tx[r].added
    BY TxParts DEF TxState
  <2> HIDE DEF e
  <2> QED BY <1>0, <2>2, <2>3, FiniteMoves
<1>4. ASSUME Commit(r)
      PROVE  AllFinite'
  <2>1. tx' = Ended(r, "done") /\ view' = view
        /\ rows' = (rows \ tx[r].gone) \cup tx[r].added
    BY <1>4 DEF Commit
  <2>2. IsFiniteSet(rows \ tx[r].gone)
    BY <1>0, FS_Difference
  <2>3. IsFiniteSet(rows')
    BY <1>0, <2>1, <2>2, FS_Union
  <2> QED BY <2>1, <2>3, FiniteEnds
<1>5. ASSUME Rollback(r)
      PROVE  AllFinite'
  <2>1. tx' = Ended(r, "failed") /\ view' = view /\ rows' = rows
    BY <1>5 DEF Rollback
  <2> QED BY <1>0, <2>1, FiniteEnds
<1>6. ASSUME RemoveBegin(r)
      PROVE  AllFinite'
  <2> DEFINE e == [tx[r] EXCEPT !.pc = "next", !.given = Table, !.left = Table, !.before = rows]
  <2>2. tx' = [tx EXCEPT ![r] = e] /\ rows' = rows /\ view' = view
    BY <1>6 DEF RemoveBegin
  <2>3. e.added = tx[r].added
    BY TxParts DEF TxState
  <2> HIDE DEF e
  <2> QED BY <1>0, <2>2, <2>3, FiniteMoves
<1> QED BY <1>1, <1>2, <1>3, <1>4, <1>5, <1>6

\* Single rows.
LEMMA FiniteEdits ==
    ASSUME SetUpTypeOK, AllFinite, NEW r \in Edit, EditNext(r)
    PROVE  AllFinite'
<1>0. r \in Request /\ IsFiniteSet(rows) /\ IsFiniteSet(tx[r].added)
  BY KindParts DEF AllFinite
<1>1. ASSUME NEW t \in Table, NEW f \in Figure, AddRow(r, t, f)
      PROVE  AllFinite'
  <2> DEFINE e == [tx[r] EXCEPT !.pc = "done", !.before = rows]
  <2>2. tx' = [tx EXCEPT ![r] = e] /\ rows' = rows \cup {<<r, t>>} /\ view' = view
    BY <1>1 DEF AddRow
  <2>3. e.added = tx[r].added
    BY <1>0, TxParts DEF TxState
  <2>4. IsFiniteSet(rows')
    BY <1>0, <2>2, FS_AddElement
  <2> HIDE DEF e
  <2> QED BY <1>0, <2>2, <2>3, <2>4, FiniteMoves
<1>2. ASSUME NEW x \in Row, NEW drops \in BOOLEAN, NEW f \in Figure, RowStart(r, x, drops, f)
      PROVE  AllFinite'
  <2> DEFINE e == [tx[r] EXCEPT !.pc = IF x \in rows THEN "wait" ELSE "failed",
                                !.snapshot = {x}, !.before = rows, !.drops = drops,
                                !.holds = f]
  <2>2. tx' = [tx EXCEPT ![r] = e] /\ rows' = rows /\ view' = view
    BY <1>2 DEF RowStart
  <2>3. e.added = tx[r].added
    BY <1>0, TxParts DEF TxState
  <2> HIDE DEF e
  <2> QED BY <1>0, <2>2, <2>3, FiniteMoves
<1>3. ASSUME RowEnd(r)
      PROVE  AllFinite'
  <2> DEFINE kept == tx[r].snapshot \cap rows
  <2>1. /\ rows' = IF tx[r].drops THEN rows \ kept ELSE rows
        /\ tx' = Ended(r, IF kept = {} THEN "failed" ELSE "done") /\ view' = view
    BY <1>3 DEF RowEnd
  <2>2. IsFiniteSet(rows \ kept)
    BY <1>0, FS_Difference
  <2> HIDE DEF kept
  <2>3. IsFiniteSet(rows')
    BY <1>0, <2>1, <2>2
  <2> QED BY <1>0, <2>1, <2>3, FiniteEnds
<1> QED BY <1>1, <1>2, <1>3 DEF EditNext

\* A reader adds the rows of a table, which are finitely many.
LEMMA FiniteViews ==
    ASSUME SetUpTypeOK, AllFinite, NEW v \in View, NEW t \in Table, ViewRead(v, t)
    PROVE  AllFinite'
<1> DEFINE f == [x \in RowsOf(t) |-> <<x, figure[x]>>]
           new == {<<x, figure[x]>> : x \in RowsOf(t)}
<1>1. IsFiniteSet(RowsOf(t))
  <2>1. RowsOf(t) \in SUBSET rows
    BY DEF RowsOf
  <2> QED BY <2>1, FS_Subset DEF AllFinite
<1>2. IsFiniteSet(new)
  <2>1. IsFiniteSet({f[x] : x \in RowsOf(t)})
    BY <1>1, FiniteImage
  <2>2. {f[x] : x \in RowsOf(t)} = new
    OBVIOUS
  <2> QED BY <2>1, <2>2
<1>3. /\ view' = [view EXCEPT ![v] = [left |-> view[v].left \ {t},
                                      seen |-> view[v].seen \cup new]]
      /\ rows' = rows /\ tx' = tx
  BY DEF ViewRead
<1> HIDE DEF new
<1>4. IsFiniteSet(view[v].seen \cup new)
  BY <1>2, FS_Union DEF AllFinite
<1>5. /\ view'[v].seen = view[v].seen \cup new
      /\ \A w \in View \ {v} : view'[w] = view[w]
  BY <1>3 DEF SetUpTypeOK
<1> QED BY <1>3, <1>4, <1>5 DEF AllFinite

\* Every step keeps the sets finite.
LEMMA FiniteStep == SetUpTypeOK /\ AllFinite /\ [SetUpNext]_setUpVars => AllFinite'
<1> SUFFICES ASSUME SetUpTypeOK, AllFinite, [SetUpNext]_setUpVars
             PROVE  AllFinite'
  OBVIOUS
<1>1. ASSUME NEW r \in Request, CreateNext(r) \/ ReplaceNext(r) \/ RemoveNext(r)
      PROVE  AllFinite'
  BY <1>1, FiniteBegins, FiniteGoesOn DEF CreateNext, ReplaceNext, RemoveNext
<1>2. CASE UNCHANGED setUpVars
  BY <1>2 DEF setUpVars, AllFinite
<1> QED BY <1>1, <1>2, KindParts, FiniteGoesOn, FiniteEdits, FiniteViews DEF SetUpNext

\* They are empty at first.
LEMMA FiniteInit == SetUpInit => AllFinite
<1> SUFFICES ASSUME SetUpInit
             PROVE  AllFinite
  OBVIOUS
<1>1. /\ rows = {}
      /\ \A r \in Request : tx[r].added = {}
      /\ \A v \in View : view[v].seen = {}
  BY DEF SetUpInit
<1> QED BY <1>1, FS_EmptySet DEF AllFinite

\* They are finite in every reachable state.
LEMMA FiniteAlways == SetUpSpec => []AllFinite
<1>1. SetUpInv => SetUpTypeOK
  BY DEF SetUpInv
<1> QED BY <1>1, FiniteInit, FiniteStep, SetUpAlways, PTL DEF SetUpSpec

\* findAllPayIncomes rounds three sums of any finite number of rows separately; what is
\* safe to spend is still within one of the difference of the other two.
THEOREM Summaries == SetUpSpec => []SummaryAddsUp
<1>1. SetUpTypeOK /\ AllFinite => SummaryAddsUp
  <2> SUFFICES ASSUME SetUpTypeOK, AllFinite, NEW v \in View
               PROVE  LET income == TotalMonthlyIncome(v)
                          expenses == TotalMonthlyExpenses(v)
                          left == Round(income) - Round(expenses)
                          safe == SafeToSpend(income, expenses)
                      IN  IF left >= 0 THEN safe \in Nat \cap (left - 1 .. left + 1)
                          ELSE safe = 0
    BY DEF SummaryAddsUp
  <2>1. IsFiniteSet(view[v].seen) /\ \A line \in view[v].seen : line[2] \in Figure
    BY DEF AllFinite, SetUpTypeOK, ViewState
  <2>2. \A S \in SUBSET view[v].seen : Total(S) \in Nat
    BY <2>1, FS_Subset, TotalIsNat
  <2>3. TotalMonthlyIncome(v) \in Nat
    BY <2>2 DEF TotalMonthlyIncome
  <2>4. TotalMonthlyExpenses(v) \in Nat
    BY <2>2 DEF TotalMonthlyExpenses
  <2> QED BY <2>3, <2>4, RoundingAddsUp
<1>2. SetUpInv => SetUpTypeOK
  BY DEF SetUpInv
<1> QED BY <1>1, <1>2, SetUpAlways, FiniteAlways, PTL

------------------------------------------------------------------------------
(* Questions and the website: the inductive invariant *)

\* The rows a batch has created.
Created(b, e) == {<<b, j>> : j \in {j \in DOMAIN e.list : e.list[j] = New /\ j < e.next}}

\* Next to no other writer, the table F is what the batch makes of it: what it listed
\* and found, what it has yet to delete and what it created.
Clean(b, e, F) ==
    e.pc = "run" /\ e.alone =>
        /\ e.old \subseteq e.began \ Listed(e.list)
        /\ F = (e.began \cap Listed(e.list)) \cup e.old \cup Created(b, e)
        /\ \A j \in DOMAIN e.list : j < e.next /\ e.list[j] # New => e.list[j] \in e.began
        /\ e.next \in 1 .. Len(e.list) + 1

\* Rows that were not listed go and do not come back.
Drops(e, F) ==
    /\ e.pc \in {"run", "done"} => F \cap (e.began \ Listed(e.list)) \subseteq e.old
    /\ e.pc = "done" => e.old = {}
    /\ e.pc = "idle" => e.next = 1
    /\ e.pc = "run" /\ e.old # {} => e.next = 1

\* What an answer says.
Replaced(b, e) ==
    /\ e.pc = "done" /\ e.alone =>
           e.left = Listed(e.list) \cup {<<b, i>> : i \in {i \in DOMAIN e.list : e.list[i] = New}}
    /\ e.pc = "missed" /\ e.alone => ~(Listed(e.list) \subseteq e.began)

BatchOK(b, e, F) == Clean(b, e, F) /\ Drops(e, F) /\ Replaced(b, e)

\* Rows that are or were there.
Was(x) ==
    \/ x \in Faq \cup (asked \cap Post)
    \/ \E b \in Batch : \E j \in Place : x = <<b, j>> /\ j < batch[b].next

FaqsInv ==
    /\ \A x \in faqs : Was(x)
    /\ \A b \in Batch : \A x \in batch[b].began : Was(x)
    /\ \A b \in Batch : BatchOK(b, batch[b], faqs)

\* Between its lookup, which found nothing, and its create.
Creating(w) == publish[w].pc = "write" /\ publish[w].row = Null

SitesInv ==
    /\ \A w \in sites : publish[w].row = Null /\ publish[w].pc \in {"done", "failed"}
    /\ \A w \in Publish : publish[w].pc = "write" /\ publish[w].row # Null => publish[w].row \in sites
    /\ \A v, w \in Publish : Creating(w) /\ v # w /\ (Creating(v) \/ v \in sites) => {v, w} \in clash
    /\ (\E w \in Publish : publish[w].pc = "done") => sites # {}
    /\ SiteIsOne

PeeksInv ==
    /\ \A l \in Peek : \A b \in Batch \cap peek[l].after : batch[b].pc = "done"
    /\ ReadersSeeAnswers

ContentInv == ContentTypeOK /\ FaqsInv /\ SitesInv /\ PeeksInv

\* What a batch holds.
LEMMA BatchParts ==
    ASSUME ContentTypeOK, NEW b \in Batch
    PROVE  /\ batch[b] \in BatchState
           /\ batch[b].pc \in {"idle", "run", "done", "missed", "cut"}
           /\ batch[b].list \in List \cup {<<>>}
           /\ batch[b].old \subseteq FaqRow /\ batch[b].next \in Nat
           /\ batch[b].began \subseteq FaqRow /\ batch[b].alone \in BOOLEAN
           /\ batch[b].left \subseteq FaqRow
<1>1. batch[b] \in BatchState
  BY DEF ContentTypeOK
<1> QED BY <1>1 DEF BatchState

\* The lists that a batch may carry.
LEMMA ListParts ==
    ASSUME NEW L \in List \cup {<<>>}
    PROVE  /\ L \in Seq(Faq \cup {New})
           /\ Len(L) \in Nat /\ DOMAIN L = 1 .. Len(L)
           /\ \A i \in DOMAIN L : L[i] \in Faq \cup {New} /\ i \in Place /\ i \in Nat
<1>1. L \in Seq(Faq \cup {New})
  <2>1. <<>> \in Seq(Faq \cup {New})
    OBVIOUS
  <2> QED BY <2>1, ContentAssumption
<1>2. \A i \in DOMAIN L : i \in Place
  <2>1. CASE L \in List
    BY <2>1 DEF Place
  <2>2. CASE L = <<>>
    BY <2>2
  <2> QED BY <2>1, <2>2
<1> QED BY <1>1, <1>2

\* Places are numbers.
LEMMA PlaceParts == Place \subseteq Nat
BY ListParts DEF Place

\* A batch that another writer meets is no longer alone, and is else the same.
LEMMA WrittenParts ==
    ASSUME ContentTypeOK, NEW S, NEW b \in Batch
    PROVE  /\ Written(S) \in [Batch -> BatchState]
           /\ Written(S)[b] = IF batch[b].pc = "run" /\ b \notin S
                              THEN [batch[b] EXCEPT !.alone = FALSE] ELSE batch[b]
<1>1. \A c \in Batch : [batch[c] EXCEPT !.alone = FALSE] \in BatchState
  BY BatchParts DEF BatchState
<1> QED BY <1>1, BatchParts DEF Written, Running

\* What a batch keeps while the table is written by others.
LEMMA Bystander ==
    ASSUME ContentTypeOK, FaqsInv, NEW c \in Batch, NEW F, NEW d,
           \/ d = batch[c] /\ (F = faqs \/ batch[c].pc # "run")
           \/ batch[c].pc = "run" /\ d = [batch[c] EXCEPT !.alone = FALSE],
           \A x \in F \ faqs : ~Was(x)
    PROVE  /\ BatchOK(c, d, F)
           /\ d.began = batch[c].began /\ d.next = batch[c].next
<1>1. BatchOK(c, batch[c], faqs) /\ \A x \in batch[c].began : Was(x)
  BY DEF FaqsInv
<1>2. /\ d.pc = batch[c].pc /\ d.list = batch[c].list /\ d.old = batch[c].old
      /\ d.next = batch[c].next /\ d.began = batch[c].began /\ d.left = batch[c].left
      /\ d.alone => d = batch[c]
      /\ F # faqs /\ d.pc = "run" => ~d.alone
  BY BatchParts DEF BatchState
<1>3. F \cap d.began \subseteq faqs
  BY <1>1, <1>2
<1>4. Drops(d, F)
  BY <1>1, <1>2, <1>3 DEF BatchOK, Drops
<1>5. Replaced(c, d)
  BY <1>1, <1>2 DEF BatchOK, Replaced
<1>6. Clean(c, d, F)
  <2>1. CASE d.pc = "run" /\ d.alone
    <3>1. d = batch[c] /\ F = faqs
      BY <1>2, <2>1
    <3> QED BY <1>1, <3>1 DEF BatchOK
  <2>2. CASE ~(d.pc = "run" /\ d.alone)
    BY <2>2 DEF Clean
  <2> QED BY <2>1, <2>2
<1> QED BY <1>2, <1>4, <1>5, <1>6 DEF BatchOK

\* The table moves: the requests in S are those that write it or go on.
LEMMA FaqsMove ==
    ASSUME ContentTypeOK, FaqsInv, NEW S \in SUBSET Batch,
           asked \subseteq asked',
           \A c \in Batch \ S :
               \/ batch'[c] = batch[c] /\ (faqs' = faqs \/ batch[c].pc # "run")
               \/ batch[c].pc = "run" /\ batch'[c] = [batch[c] EXCEPT !.alone = FALSE],
           \A c \in S : /\ BatchOK(c, batch'[c], faqs')
                        /\ batch'[c].next \in Nat /\ batch[c].next <= batch'[c].next
                        /\ batch'[c].began \subseteq batch[c].began \cup faqs,
           \A x \in faqs' \ faqs :
               /\ ~Was(x)
               /\ x \in asked' \cap Post \/ \E c \in Batch, j \in Place : x = <<c, j>> /\ j < batch'[c].next
    PROVE  FaqsInv'
<1>1. \A c \in Batch \ S : /\ BatchOK(c, batch'[c], faqs')
                           /\ batch'[c].began = batch[c].began /\ batch'[c].next = batch[c].next
  BY Bystander
<1>2. \A c \in Batch : batch[c].next \in Nat /\ batch'[c].next \in Nat /\ batch[c].next <= batch'[c].next
  BY <1>1, BatchParts
<1>3. ASSUME NEW x, Was(x)
      PROVE  Was(x)'
  <2>1. CASE x \in Faq \cup (asked \cap Post)
    BY <2>1 DEF Was
  <2>2. ASSUME NEW c \in Batch, NEW j \in Place, x = <<c, j>>, j < batch[c].next
        PROVE  Was(x)'
    <3>1. j < batch'[c].next
      BY <1>2, <2>2, PlaceParts
    <3> QED BY <2>2, <3>1 DEF Was
  <2> QED BY <1>3, <2>1, <2>2 DEF Was
<1>4. ASSUME NEW x \in faqs'
      PROVE  Was(x)'
  <2>1. CASE x \in faqs
    BY <1>3, <2>1 DEF FaqsInv
  <2>2. CASE x \notin faqs
    BY <2>2 DEF Was
  <2> QED BY <2>1, <2>2
<1>5. ASSUME NEW c \in Batch, NEW x \in batch'[c].began
      PROVE  Was(x)'
  <2>1. x \in batch[c].began \cup faqs
    BY <1>1, <1>5
  <2> QED BY <1>3, <2>1 DEF FaqsInv
<1>6. \A c \in Batch : BatchOK(c, batch'[c], faqs')
  BY <1>1
<1>7. (\A c \in Batch : BatchOK(c, batch[c], faqs))'
  BY <1>6 DEF BatchOK, Clean, Drops, Replaced, Created
<1> QED BY <1>4, <1>5, <1>7 DEF FaqsInv

\* What a step of the questions leaves: values of their kinds, the invariant, and
\* answers that stay.
FaqsLeft ==
    /\ faqs' \subseteq FaqRow
    /\ batch' \in [Batch -> BatchState]
    /\ FaqsInv'
    /\ \A c \in Batch : batch[c].pc = "done" => batch'[c] = batch[c]

\* At the first entry nothing is created.
LEMMA CreatedNothing ==
    ASSUME NEW b, NEW e, e.list \in List \cup {<<>>}, e.next = 1
    PROVE  Created(b, e) = {}
<1>1. \A j \in DOMAIN e.list : j \in Nat /\ 1 <= j
  BY ListParts
<1> QED BY <1>1 DEF Created

\* A batch moves and writes nothing.
LEMMA BatchGoesOn ==
    ASSUME ContentTypeOK, FaqsInv, NEW b \in Batch, NEW e \in BatchState,
           batch[b].pc \in {"idle", "run"},
           batch' = [batch EXCEPT ![b] = e], faqs' = faqs, asked' = asked,
           BatchOK(b, e, faqs), e.next = batch[b].next,
           e.began \subseteq batch[b].began \cup faqs
    PROVE  FaqsLeft
<1>1. batch'[b] = e /\ \A c \in Batch \ {b} : batch'[c] = batch[c]
  BY DEF ContentTypeOK
<1>2. batch[b].next \in Nat
  BY BatchParts
<1>3. FaqsInv'
  <2> DEFINE S == {b}
  <2>1. \A c \in Batch \ S : batch'[c] = batch[c] /\ faqs' = faqs
    BY <1>1
  <2>2. \A c \in S : /\ BatchOK(c, batch'[c], faqs')
                     /\ batch'[c].next \in Nat /\ batch[c].next <= batch'[c].next
                     /\ batch'[c].began \subseteq batch[c].began \cup faqs
    BY <1>1, <1>2
  <2>3. S \in SUBSET Batch /\ asked \subseteq asked' /\ \A x \in faqs' \ faqs : FALSE
    OBVIOUS
  <2> HIDE DEF S
  <2> QED BY <2>1, <2>2, <2>3, FaqsMove
<1>4. batch' \in [Batch -> BatchState] /\ faqs' \subseteq FaqRow
  BY DEF ContentTypeOK
<1> QED BY <1>1, <1>3, <1>4 DEF FaqsLeft

\* The rows are read: what is not listed is to be deleted.
LEMMA BatchReads ==
    ASSUME ContentTypeOK, FaqsInv, NEW b \in Batch, NEW L \in List, BatchRead(b, L)
    PROVE  FaqsLeft
<1> DEFINE kept == Listed(L)
           old == faqs \ kept
           e == [batch[b] EXCEPT !.pc = "run", !.list = L, !.old = old, !.began = faqs]
<1>1. /\ batch' = [batch EXCEPT ![b] = e] /\ faqs' = faqs /\ asked' = asked
      /\ batch[b].pc = "idle"
  BY DEF BatchRead
<1>2. old \subseteq FaqRow /\ faqs \subseteq FaqRow
  BY DEF ContentTypeOK
<1> HIDE DEF kept
<1>3. /\ e \in BatchState
      /\ e.pc = "run" /\ e.list = L /\ e.old = faqs \ kept /\ e.next = batch[b].next
      /\ e.began = faqs
  BY <1>2, BatchParts DEF BatchState
<1> HIDE DEF e
<1>4. e.next = 1
  BY <1>1, <1>3 DEF FaqsInv, BatchOK, Drops
<1>5. Created(b, e) = {}
  BY <1>3, <1>4, CreatedNothing
<1>6. /\ \A j \in DOMAIN L : j \in Nat /\ ~(j < 1)
      /\ Len(L) \in Nat
  BY ListParts
<1>7. Clean(b, e, faqs)
  BY <1>3, <1>4, <1>5, <1>6 DEF Clean, kept
<1>8. Drops(e, faqs) /\ Replaced(b, e)
  BY <1>3, <1>4 DEF Drops, Replaced, kept
<1> QED BY <1>1, <1>3, <1>7, <1>8, BatchGoesOn DEF BatchOK

\* The answer: everything that was listed was there, and one row was made for each entry
\* without id.
LEMMA BatchAnswers ==
    ASSUME ContentTypeOK, FaqsInv, NEW b \in Batch, BatchDone(b)
    PROVE  FaqsLeft
<1> DEFINE e == [batch[b] EXCEPT !.pc = "done", !.left = faqs]
           L == batch[b].list
<1>1. /\ batch' = [batch EXCEPT ![b] = e] /\ faqs' = faqs /\ asked' = asked
      /\ batch[b].pc = "run" /\ batch[b].old = {} /\ batch[b].next \notin DOMAIN L
  BY BatchParts DEF BatchDone, Running, ContentTypeOK, BatchState
<1>2. batch[b] \in BatchState /\ faqs \in SUBSET FaqRow
  BY DEF ContentTypeOK
<1>3. /\ e \in BatchState
      /\ e.pc = "done" /\ e.list = L /\ e.old = {} /\ e.next = batch[b].next
      /\ e.began = batch[b].began /\ e.left = faqs /\ e.alone = batch[b].alone
  <2>1. e \in BatchState
    BY <1>2 DEF BatchState
  <2>2. /\ e.pc = "done" /\ e.list = L /\ e.old = batch[b].old /\ e.next = batch[b].next
        /\ e.began = batch[b].began /\ e.left = faqs /\ e.alone = batch[b].alone
    BY <1>2 DEF BatchState
  <2> QED BY <1>1, <2>1, <2>2
<1> HIDE DEF e
<1>4. BatchOK(b, batch[b], faqs)
  BY DEF FaqsInv
<1>5. Clean(b, e, faqs) /\ Drops(e, faqs)
  BY <1>1, <1>3, <1>4 DEF BatchOK, Clean, Drops
<1>6. ASSUME e.alone
      PROVE  e.left = Listed(L) \cup {<<b, i>> : i \in {i \in DOMAIN L : L[i] = New}}
  <2>1. /\ faqs = (e.began \cap Listed(L)) \cup Created(b, batch[b])
        /\ \A j \in DOMAIN L : j < e.next /\ L[j] # New => L[j] \in e.began
        /\ e.next \in 1 .. Len(L) + 1
    BY <1>1, <1>3, <1>4, <1>6 DEF BatchOK, Clean
  <2>2. Len(L) \in Nat /\ DOMAIN L = 1 .. Len(L)
    BY BatchParts, ListParts
  <2>3. e.next = Len(L) + 1
    BY <1>1, <1>3, <2>1, <2>2
  <2>4. \A j \in DOMAIN L : j < e.next
    BY <2>2, <2>3
  <2>5. Listed(L) \subseteq e.began
    BY <2>1, <2>4 DEF Listed
  <2>6. Created(b, batch[b]) = {<<b, i>> : i \in {i \in DOMAIN L : L[i] = New}}
    BY <1>3, <2>4 DEF Created
  <2> QED BY <1>3, <2>1, <2>5, <2>6
<1>7. Replaced(b, e)
  BY <1>3, <1>6 DEF Replaced
<1> QED BY <1>1, <1>3, <1>5, <1>7, BatchGoesOn DEF BatchOK

\* A batch stops half way; alone, it misses only a row that was not there.
LEMMA BatchStops ==
    ASSUME ContentTypeOK, FaqsInv, NEW b \in Batch, BatchMisses(b) \/ BatchCut(b)
    PROVE  FaqsLeft
<1> DEFINE L == batch[b].list
           i == batch[b].next
<1>1. PICK pc \in {"missed", "cut"} :
          /\ batch' = [batch EXCEPT ![b].pc = pc] /\ faqs' = faqs /\ asked' = asked
          /\ batch[b].pc = "run"
          /\ pc = "missed" =>
                \/ \E r \in batch[b].old : r \notin faqs
                \/ batch[b].old = {} /\ i \in DOMAIN L /\ L[i] # New /\ L[i] \notin faqs
  BY DEF BatchMisses, BatchCut, Running
<1> DEFINE e == [batch[b] EXCEPT !.pc = pc]
<1>2. batch[b] \in BatchState
  BY DEF ContentTypeOK
<1>3. /\ e \in BatchState /\ batch' = [batch EXCEPT ![b] = e]
      /\ e.pc = pc /\ e.list = L /\ e.old = batch[b].old /\ e.next = batch[b].next
      /\ e.began = batch[b].began /\ e.alone = batch[b].alone
  <2>1. e \in BatchState
    BY <1>2 DEF BatchState
  <2>2. batch' = [batch EXCEPT ![b] = e]
    BY <1>1
  <2>3. /\ e.pc = pc /\ e.list = L /\ e.old = batch[b].old /\ e.next = batch[b].next
        /\ e.began = batch[b].began /\ e.alone = batch[b].alone
    BY <1>2 DEF BatchState
  <2> QED BY <2>1, <2>2, <2>3
<1> HIDE DEF e
<1>4. BatchOK(b, batch[b], faqs)
  BY DEF FaqsInv
<1>5. Clean(b, e, faqs) /\ Drops(e, faqs)
  BY <1>1, <1>3 DEF Clean, Drops
<1>6. ASSUME pc = "missed", e.alone
      PROVE  ~(Listed(L) \subseteq e.began)
  <2>1. faqs = (e.began \cap Listed(L)) \cup batch[b].old \cup Created(b, batch[b])
    BY <1>1, <1>3, <1>4, <1>6 DEF BatchOK, Clean
  <2>2. i \in DOMAIN L /\ L[i] # New /\ L[i] \notin faqs
    BY <1>1, <1>6, <2>1
  <2>3. L[i] \in Listed(L)
    BY <2>2 DEF Listed
  <2> QED BY <2>1, <2>2, <2>3
<1>7. Replaced(b, e)
  BY <1>3, <1>6, <1>1 DEF Replaced
<1> QED BY <1>1, <1>3, <1>5, <1>7, BatchGoesOn DEF BatchOK

\* A statement of a batch writes the table: the batches that run next to it are no
\* longer alone.
LEMMA BatchStatement ==
    ASSUME ContentTypeOK, FaqsInv, NEW b \in Batch, NEW e \in BatchState,
           batch[b].pc = "run",
           batch' = [Written({b}) EXCEPT ![b] = e], asked' = asked, faqs' \subseteq FaqRow,
           BatchOK(b, e, faqs'), batch[b].next <= e.next,
           e.began = batch[b].began,
           \A x \in faqs' \ faqs :
               ~Was(x) /\ \E j \in Place : x = <<b, j>> /\ j < e.next
    PROVE  FaqsLeft
<1>1. Written({b}) \in [Batch -> BatchState]
  BY WrittenParts
<1>2. batch'[b] = e /\ \A c \in Batch \ {b} : batch'[c] = Written({b})[c]
  BY <1>1
<1>3. batch' \in [Batch -> BatchState]
  BY <1>1
<1>4. \A c \in Batch \ {b} :
          \/ batch'[c] = batch[c] /\ batch[c].pc # "run"
          \/ batch[c].pc = "run" /\ batch'[c] = [batch[c] EXCEPT !.alone = FALSE]
  BY <1>2, WrittenParts
<1>5. FaqsInv'
  <2> DEFINE S == {b}
  <2>1. \A c \in Batch \ S :
            \/ batch'[c] = batch[c] /\ (faqs' = faqs \/ batch[c].pc # "run")
            \/ batch[c].pc = "run" /\ batch'[c] = [batch[c] EXCEPT !.alone = FALSE]
    BY <1>4
  <2>2. e.next \in Nat
    BY DEF BatchState
  <2>3. \A c \in S : /\ BatchOK(c, batch'[c], faqs')
                     /\ batch'[c].next \in Nat /\ batch[c].next <= batch'[c].next
                     /\ batch'[c].began \subseteq batch[c].began \cup faqs
    BY <1>2, <2>2
  <2>4. S \in SUBSET Batch /\ asked \subseteq asked'
    OBVIOUS
  <2>5. \A x \in faqs' \ faqs :
            /\ ~Was(x)
            /\ x \in asked' \cap Post \/ \E c \in Batch, j \in Place : x = <<c, j>> /\ j < batch'[c].next
    BY <1>2
  <2> HIDE DEF S
  <2> QED BY <2>1, <2>3, <2>4, <2>5, FaqsMove
<1>6. \A c \in Batch : batch[c].pc = "done" => batch'[c] = batch[c]
  BY <1>4
<1> QED BY <1>3, <1>5, <1>6 DEF FaqsLeft

\* The rows of a batch are told from the others, and from each other.
LEMMA RowsDiffer ==
    ASSUME NEW b \in Batch, NEW j \in Place
    PROVE  /\ <<b, j>> \in FaqRow /\ <<b, j>> \notin Faq /\ <<b, j>> \notin Post
           /\ <<b, j>> # New
BY ContentAssumption DEF FaqRow

\* A row that was not listed goes.
LEMMA BatchDeletes ==
    ASSUME ContentTypeOK, FaqsInv, NEW b \in Batch, NEW r, BatchDelete(b, r)
    PROVE  FaqsLeft
<1> DEFINE rest == batch[b].old \ {r}
           e == [batch[b] EXCEPT !.old = rest]
<1>0. batch[b] \in BatchState /\ faqs \subseteq FaqRow /\ rest \subseteq FaqRow
  BY BatchParts DEF ContentTypeOK
<1>1. /\ batch[b].pc = "run" /\ r \in batch[b].old /\ r \in faqs
      /\ faqs' = faqs \ {r} /\ asked' = asked
  BY DEF BatchDelete, Running
<1>2. Written({b})[b] = batch[b]
  BY WrittenParts
<1>3. batch' = [Written({b}) EXCEPT ![b] = e]
  BY <1>2 DEF BatchDelete
<1> HIDE DEF rest
<1>4. e \in BatchState
  BY <1>0 DEF BatchState
<1>5. /\ e.pc = batch[b].pc /\ e.list = batch[b].list /\ e.old = rest
      /\ e.next = batch[b].next /\ e.began = batch[b].began /\ e.alone = batch[b].alone
  BY <1>0 DEF BatchState
<1> HIDE DEF e
<1>6. BatchOK(b, batch[b], faqs)
  BY DEF FaqsInv
<1>7. e.next = 1
  BY <1>1, <1>5, <1>6 DEF BatchOK, Drops
<1>8. Created(b, e) = {} /\ Created(b, batch[b]) = {}
  BY <1>5, <1>7, BatchParts, CreatedNothing
<1>9. Clean(b, e, faqs')
  BY <1>1, <1>5, <1>6, <1>8 DEF BatchOK, Clean, rest
<1>10. Drops(e, faqs')
  BY <1>1, <1>5, <1>6, <1>7 DEF BatchOK, Drops, rest
<1>11. Replaced(b, e)
  BY <1>1, <1>5 DEF Replaced
<1>12. batch[b].next <= e.next
  BY <1>5, BatchParts
<1> QED BY <1>0, <1>1, <1>3, <1>4, <1>5, <1>9, <1>10, <1>11, <1>12, BatchStatement DEF BatchOK

\* A row that is listed is kept, or one is made for an entry without id.
LEMMA BatchWrites ==
    ASSUME ContentTypeOK, FaqsInv, NEW b \in Batch, BatchWrite(b)
    PROVE  FaqsLeft
<1> DEFINE L == batch[b].list
           i == batch[b].next
           r == IF L[i] = New THEN <<b, i>> ELSE L[i]
           e == [batch[b] EXCEPT !.next = i + 1]
<1>0. batch[b] \in BatchState /\ faqs \subseteq FaqRow /\ i \in Nat /\ i + 1 \in Nat
  BY BatchParts DEF ContentTypeOK
<1>1. /\ batch[b].pc = "run" /\ batch[b].old = {} /\ i \in DOMAIN L
      /\ L[i] = New \/ r \in faqs
      /\ faqs' = faqs \cup {r} /\ asked' = asked
  BY DEF BatchWrite, Running
<1>2. Written({b})[b] = batch[b]
  BY WrittenParts
<1>3. batch' = [Written({b}) EXCEPT ![b] = e]
  BY <1>2 DEF BatchWrite
<1>4. e \in BatchState
  BY <1>0 DEF BatchState
<1>5. /\ e.pc = batch[b].pc /\ e.list = L /\ e.old = batch[b].old
      /\ e.next = i + 1 /\ e.began = batch[b].began /\ e.alone = batch[b].alone
  BY <1>0 DEF BatchState
<1> HIDE DEF e
<1>6. BatchOK(b, batch[b], faqs) /\ \A x \in batch[b].began : Was(x)
  BY DEF FaqsInv
<1>7. /\ Len(L) \in Nat /\ DOMAIN L = 1 .. Len(L) /\ i \in Place
      /\ L[i] \in Faq \cup {New}
      /\ \A j \in DOMAIN L : j \in Place /\ j \in Nat
  BY <1>1, BatchParts, ListParts
<1>8. r \in FaqRow
  BY <1>0, <1>1, <1>7, RowsDiffer
<1>9. ~Was(<<b, i>>)
  <2>1. <<b, i>> \notin Faq \cup Post
    BY <1>7, RowsDiffer
  <2>2. ASSUME NEW c \in Batch, NEW j \in Place, <<b, i>> = <<c, j>>
        PROVE  ~(j < batch[c].next)
    BY <1>0, <2>2
  <2> QED BY <2>1, <2>2 DEF Was
<1>10. \A x \in faqs' \ faqs : ~Was(x) /\ \E j \in Place : x = <<b, j>> /\ j < e.next
  <2> SUFFICES ASSUME NEW x \in faqs' \ faqs
               PROVE  ~Was(x) /\ \E j \in Place : x = <<b, j>> /\ j < e.next
    OBVIOUS
  <2>1. x = <<b, i>>
    BY <1>1
  <2>2. i < e.next
    BY <1>0, <1>5
  <2> QED BY <1>7, <1>9, <2>1, <2>2
<1>11. r \notin batch[b].began \/ r \in faqs
  BY <1>1, <1>6, <1>9
<1>12. Drops(e, faqs')
  BY <1>1, <1>5, <1>6, <1>11 DEF BatchOK, Drops
<1>13. Clean(b, e, faqs')
  <2> SUFFICES ASSUME batch[b].alone
               PROVE  /\ faqs' = (e.began \cap Listed(L)) \cup Created(b, e)
                      /\ \A j \in DOMAIN L : j < i + 1 /\ L[j] # New => L[j] \in e.began
                      /\ i + 1 \in 1 .. Len(L) + 1
    BY <1>1, <1>5 DEF Clean
  <2>1. /\ faqs = (e.began \cap Listed(L)) \cup Created(b, batch[b])
        /\ \A j \in DOMAIN L : j < i /\ L[j] # New => L[j] \in e.began
    BY <1>1, <1>5, <1>6 DEF BatchOK, Clean
  <2>2. \A j \in DOMAIN L : j < i + 1 <=> j < i \/ j = i
    BY <1>0, <1>7
  <2>3. CASE L[i] = New
    <3>1. Created(b, e) = Created(b, batch[b]) \cup {<<b, i>>}
      BY <1>1, <1>5, <2>2, <2>3 DEF Created
    <3> QED BY <1>0, <1>1, <1>7, <2>1, <2>2, <2>3, <3>1
  <2>4. CASE L[i] # New
    <3>1. Created(b, e) = Created(b, batch[b])
      BY <1>1, <1>5, <2>2, <2>4 DEF Created
    <3>2. L[i] \notin Created(b, batch[b])
      BY <1>7, <2>4, RowsDiffer DEF Created
    <3>3. L[i] \in e.began /\ faqs' = faqs
      BY <1>1, <2>1, <2>4, <3>2
    <3> QED BY <1>0, <1>1, <1>7, <2>1, <2>2, <3>1, <3>3
  <2> QED BY <2>3, <2>4
<1>14. Replaced(b, e)
  BY <1>1, <1>5 DEF Replaced
<1>15. faqs' \subseteq FaqRow /\ batch[b].next <= e.next
  BY <1>0, <1>1, <1>5, <1>8
<1> HIDE DEF r
<1> QED BY <1>1, <1>3, <1>4, <1>5, <1>10, <1>12, <1>13, <1>14, <1>15, BatchStatement DEF BatchOK

\* Somebody else writes the table.
LEMMA OtherStatement ==
    ASSUME ContentTypeOK, FaqsInv, batch' = Written({}), faqs' \subseteq FaqRow,
           asked \subseteq asked',
           \A x \in faqs' \ faqs : ~Was(x) /\ x \in asked' \cap Post
    PROVE  FaqsLeft
<1> DEFINE S == {}
<1>0. \A c \in Batch : c \notin S
  OBVIOUS
<1>1. batch' = Written(S) /\ batch' \in [Batch -> BatchState]
  BY BatchParts DEF Written, Running, BatchState
<1> HIDE DEF S
<1>2. \A c \in Batch :
          \/ batch'[c] = batch[c] /\ batch[c].pc # "run"
          \/ batch[c].pc = "run" /\ batch'[c] = [batch[c] EXCEPT !.alone = FALSE]
  BY <1>0, <1>1, WrittenParts
<1>3. FaqsInv'
  <2>1. \A c \in Batch \ S :
            \/ batch'[c] = batch[c] /\ (faqs' = faqs \/ batch[c].pc # "run")
            \/ batch[c].pc = "run" /\ batch'[c] = [batch[c] EXCEPT !.alone = FALSE]
    BY <1>2
  <2>2. \A c \in S : /\ BatchOK(c, batch'[c], faqs')
                     /\ batch'[c].next \in Nat /\ batch[c].next <= batch'[c].next
                     /\ batch'[c].began \subseteq batch[c].began \cup faqs
    BY DEF S
  <2>3. S \in SUBSET Batch
    BY DEF S
  <2> QED BY <2>1, <2>2, <2>3, FaqsMove
<1>4. \A c \in Batch : batch[c].pc = "done" => batch'[c] = batch[c]
  BY <1>2
<1> QED BY <1>1, <1>3, <1>4 DEF FaqsLeft

\* The single edits.
LEMMA Questions ==
    ASSUME ContentTypeOK, FaqsInv, FaqNext
    PROVE  FaqsLeft /\ asked' \subseteq Post \cup Patch /\ UNCHANGED <<sites, publish, peek, clash>>
<1>1. ASSUME NEW p \in Post, FaqCreate(p)
      PROVE  FaqsLeft /\ asked' \subseteq Post \cup Patch
             /\ UNCHANGED <<sites, publish, peek, clash>>
  <2>1. /\ p \notin asked /\ faqs' = faqs \cup {p} /\ asked' = asked \cup {p}
        /\ batch' = Written({}) /\ UNCHANGED <<sites, publish, peek, clash>>
    BY <1>1 DEF FaqCreate
  <2>2. ~Was(p)
    BY <2>1, ContentAssumption DEF Was
  <2>3. faqs' \subseteq FaqRow /\ asked' \subseteq Post \cup Patch /\ asked \subseteq asked'
    BY <2>1 DEF ContentTypeOK, FaqRow
  <2>4. \A x \in faqs' \ faqs : ~Was(x) /\ x \in asked' \cap Post
    BY <2>1, <2>2
  <2> QED BY <2>1, <2>3, <2>4, OtherStatement
<1>2. ASSUME NEW p \in Patch, NEW r \in FaqRow, FaqUpdate(p, r)
      PROVE  FaqsLeft /\ asked' \subseteq Post \cup Patch
             /\ UNCHANGED <<sites, publish, peek, clash>>
  <2>1. /\ faqs' = faqs /\ asked' = asked \cup {p}
        /\ batch' = Written({}) /\ UNCHANGED <<sites, publish, peek, clash>>
    BY <1>2 DEF FaqUpdate
  <2>2. faqs' \subseteq FaqRow /\ asked' \subseteq Post \cup Patch /\ asked \subseteq asked'
    BY <2>1 DEF ContentTypeOK
  <2>3. \A x \in faqs' \ faqs : ~Was(x) /\ x \in asked' \cap Post
    BY <2>1
  <2> QED BY <2>1, <2>2, <2>3, OtherStatement
<1>3. ASSUME NEW r \in FaqRow, FaqRemove(r)
      PROVE  FaqsLeft /\ asked' \subseteq Post \cup Patch
             /\ UNCHANGED <<sites, publish, peek, clash>>
  <2>1. /\ faqs' = faqs \ {r} /\ asked' = asked
        /\ batch' = Written({}) /\ UNCHANGED <<sites, publish, peek, clash>>
    BY <1>3 DEF FaqRemove
  <2>2. faqs' \subseteq FaqRow /\ asked' \subseteq Post \cup Patch /\ asked \subseteq asked'
    BY <2>1 DEF ContentTypeOK
  <2>3. \A x \in faqs' \ faqs : ~Was(x) /\ x \in asked' \cap Post
    BY <2>1
  <2> QED BY <2>1, <2>2, <2>3, OtherStatement
<1> QED BY <1>1, <1>2, <1>3 DEF FaqNext

\* Every step of a batch.
LEMMA BatchSteps ==
    ASSUME ContentTypeOK, FaqsInv, NEW b \in Batch, BatchNext(b)
    PROVE  FaqsLeft /\ asked' = asked /\ UNCHANGED <<sites, publish, peek, clash>>
<1>1. FaqsLeft
  BY BatchReads, BatchDeletes, BatchWrites, BatchAnswers, BatchStops DEF BatchNext
<1>2. asked' = asked /\ UNCHANGED <<sites, publish, peek, clash>>
  BY DEF BatchNext, BatchRead, BatchDelete, BatchWrite, BatchDone, BatchMisses, BatchCut
<1> QED BY <1>1, <1>2

------------------------------------------------------------------------------
(* The website *)

\* What a publish holds.
LEMMA PublishParts ==
    ASSUME ContentTypeOK, NEW w \in Publish
    PROVE  /\ publish[w] \in PublishState
           /\ publish[w].pc \in {"idle", "write", "done", "failed"}
           /\ publish[w].row \in Publish \cup {Null}
<1>1. publish[w] \in PublishState
  BY DEF ContentTypeOK
<1> QED BY <1>1 DEF PublishState

\* The types that a publish or a reader leaves.
LEMMA PublishTypes ==
    ASSUME ContentTypeOK, NEW w \in Publish, PublishNext(w)
    PROVE  /\ sites' \subseteq Publish /\ publish' \in [Publish -> PublishState]
           /\ clash' \subseteq {{u, v} : u, v \in Publish}
           /\ UNCHANGED <<faqs, asked, batch, peek>>
<1>1. ASSUME NEW x \in Publish \cup {Null}, PublishFind(w, x)
      PROVE  /\ sites' \subseteq Publish /\ publish' \in [Publish -> PublishState]
             /\ clash' \subseteq {{u, v} : u, v \in Publish}
  <2> DEFINE e == [pc |-> "write", row |-> x]
             pairs == {{v, w} : v \in {v \in Publish : publish[v].pc = "write" /\ publish[v].row = Null}}
  <2>1. e \in PublishState
    BY DEF PublishState
  <2>2. publish' = [publish EXCEPT ![w] = e] /\ sites' = sites
        /\ clash' \subseteq clash \cup pairs
    BY <1>1 DEF PublishFind
  <2>3. pairs \subseteq {{u, v} : u, v \in Publish}
    OBVIOUS
  <2> HIDE DEF e, pairs
  <2> QED BY <2>1, <2>2, <2>3 DEF ContentTypeOK
<1>2. ASSUME PublishWrite(w) \/ PublishFails(w)
      PROVE  /\ sites' \subseteq Publish /\ publish' \in [Publish -> PublishState]
             /\ clash' \subseteq {{u, v} : u, v \in Publish}
  <2>1. PICK pc \in {"done", "failed"} :
            /\ publish' = [publish EXCEPT ![w] = [publish[w] EXCEPT !.pc = pc]]
            /\ clash' = clash
            /\ sites' \subseteq sites \cup ({w, publish[w].row} \cap Publish)
    BY <1>2, PublishParts DEF PublishWrite, PublishFails
  <2>2. [publish[w] EXCEPT !.pc = pc] \in PublishState
    BY PublishParts DEF PublishState
  <2> QED BY <2>1, <2>2 DEF ContentTypeOK
<1>3. UNCHANGED <<faqs, asked, batch, peek>>
  BY DEF PublishNext, PublishFind, PublishWrite, PublishFails
<1> QED BY <1>1, <1>2, <1>3 DEF PublishNext

\* The lookup.
LEMMA SitesFind ==
    ASSUME ContentTypeOK, SitesInv, NEW w \in Publish, NEW x \in Publish \cup {Null},
           PublishFind(w, x)
    PROVE  SitesInv'
<1>1. /\ publish[w].pc = "idle" /\ (x \in sites \/ (sites = {} /\ x = Null))
      /\ publish' = [publish EXCEPT ![w] = [pc |-> "write", row |-> x]]
      /\ sites' = sites
      /\ clash' = IF x # Null THEN clash
                  ELSE clash \cup {{v, w} : v \in {v \in Publish : publish[v].pc = "write"
                                                                   /\ publish[v].row = Null}}
  BY DEF PublishFind
<1>2. /\ publish'[w].pc = "write" /\ publish'[w].row = x
      /\ \A v \in Publish \ {w} : publish'[v] = publish[v]
  BY <1>1 DEF ContentTypeOK
<1>3. clash \subseteq clash' /\ sites \subseteq Publish /\ Null \notin sites
  BY <1>1, ContentAssumption DEF ContentTypeOK
<1>4. \A v \in Publish \ {w} : x = Null /\ Creating(v) => {v, w} \in clash' /\ {w, v} \in clash'
  <2> SUFFICES ASSUME NEW v \in Publish \ {w}, x = Null, Creating(v)
               PROVE  {v, w} \in clash'
    OBVIOUS
  <2> QED BY <1>1 DEF Creating
<1>5. \A v \in sites : publish'[v].row = Null /\ publish'[v].pc \in {"done", "failed"}
  BY <1>1, <1>2, <1>3 DEF SitesInv
<1>6. \A v \in Publish : publish'[v].pc = "write" /\ publish'[v].row # Null => publish'[v].row \in sites
  BY <1>1, <1>2 DEF SitesInv
<1>7. ASSUME NEW u \in Publish, NEW v \in Publish, u # v,
             publish'[v].pc = "write", publish'[v].row = Null,
             (publish'[u].pc = "write" /\ publish'[u].row = Null) \/ u \in sites
      PROVE  {u, v} \in clash'
  <2>1. CASE v = w
    <3>1. x = Null /\ sites = {}
      BY <1>1, <1>2, <1>3, <1>7, <2>1
    <3>2. Creating(u)
      BY <1>2, <1>7, <2>1, <3>1 DEF Creating
    <3> QED BY <1>4, <1>7, <2>1, <3>1, <3>2
  <2>2. CASE v # w /\ u = w
    <3>1. w \notin sites
      BY <1>1 DEF SitesInv
    <3>2. Creating(v) /\ x = Null
      BY <1>2, <1>7, <2>2, <3>1 DEF Creating
    <3> QED BY <1>4, <1>7, <2>2, <3>2
  <2>3. CASE v # w /\ u # w
    <3>1. Creating(v) /\ (Creating(u) \/ u \in sites)
      BY <1>2, <1>7, <2>3 DEF Creating
    <3> QED BY <1>3, <1>7, <3>1 DEF SitesInv
  <2> QED BY <2>1, <2>2, <2>3
<1>8. (\E v \in Publish : publish'[v].pc = "done") => sites # {}
  BY <1>2 DEF SitesInv
<1>9. SiteIsOne'
  BY <1>1, <1>3 DEF SitesInv, SiteIsOne
<1> QED BY <1>1, <1>5, <1>6, <1>7, <1>8, <1>9 DEF SitesInv, Creating

\* The write and its failures.
LEMMA SitesWrite ==
    ASSUME ContentTypeOK, SitesInv, NEW w \in Publish, PublishWrite(w) \/ PublishFails(w)
    PROVE  SitesInv'
<1>1. PICK pc \in {"done", "failed"} :
          /\ publish[w].pc = "write" /\ publish' = [publish EXCEPT ![w].pc = pc]
          /\ clash' = clash
          /\ \/ pc = "failed" /\ sites' = sites
             \/ sites' = sites \cup {IF publish[w].row = Null THEN w ELSE publish[w].row}
  BY DEF PublishWrite, PublishFails
<1>2. /\ publish'[w].pc = pc /\ publish'[w].row = publish[w].row
      /\ \A v \in Publish \ {w} : publish'[v] = publish[v]
  BY <1>1, PublishParts DEF ContentTypeOK, PublishState
<1>3. /\ sites' = sites \/ (publish[w].row = Null /\ sites' = sites \cup {w})
      /\ pc = "done" => sites' # {}
  BY <1>1, PublishParts DEF SitesInv
<1>4. sites \subseteq Publish
  BY DEF ContentTypeOK
<1>5. \A v \in sites' : publish'[v].row = Null /\ publish'[v].pc \in {"done", "failed"}
  BY <1>1, <1>2, <1>3, <1>4 DEF SitesInv
<1>6. \A v \in Publish : publish'[v].pc = "write" /\ publish'[v].row # Null => publish'[v].row \in sites'
  BY <1>1, <1>2, <1>3 DEF SitesInv
<1>7. ASSUME NEW u \in Publish, NEW v \in Publish, u # v,
             publish'[v].pc = "write", publish'[v].row = Null,
             (publish'[u].pc = "write" /\ publish'[u].row = Null) \/ u \in sites'
      PROVE  {u, v} \in clash'
  <2>1. v # w /\ Creating(v)
    BY <1>1, <1>2, <1>7 DEF Creating
  <2>2. Creating(u) \/ u \in sites
    BY <1>1, <1>2, <1>3, <1>7 DEF Creating
  <2> QED BY <1>1, <1>7, <2>1, <2>2 DEF SitesInv
<1>8. (\E v \in Publish : publish'[v].pc = "done") => sites' # {}
  BY <1>1, <1>2, <1>3 DEF SitesInv
<1>9. ASSUME NEW u \in sites', NEW v \in sites', u # v
      PROVE  {u, v} \in clash'
  <2>1. CASE u \in sites /\ v \in sites
    BY <1>1, <1>9, <2>1 DEF SitesInv, SiteIsOne
  <2>2. CASE u \in sites /\ v \notin sites
    <3>1. v = w /\ Creating(w)
      BY <1>1, <1>3, <2>2 DEF Creating
    <3> QED BY <1>1, <1>4, <1>9, <2>2, <3>1 DEF SitesInv
  <2>3. CASE u \notin sites
    <3>1. u = w /\ Creating(w) /\ v \in sites
      BY <1>1, <1>3, <1>9, <2>3 DEF Creating
    <3>2. {v, w} \in clash
      BY <1>4, <1>9, <3>1 DEF SitesInv
    <3>3. {u, v} = {v, w}
      BY <3>1
    <3> QED BY <1>1, <3>2, <3>3
  <2> QED BY <2>1, <2>2, <2>3
<1>10. SiteIsOne'
  BY <1>9 DEF SiteIsOne
<1> QED BY <1>1, <1>5, <1>6, <1>7, <1>8, <1>10 DEF SitesInv, Creating

\* Answers stay, so what was read after them stays true.
LEMMA PeeksStay ==
    ASSUME ContentTypeOK, PeeksInv, peek' = peek,
           \A c \in Batch : batch[c].pc = "done" => batch'[c] = batch[c]
    PROVE  PeeksInv'
<1>1. \A l \in Peek : \A b \in Batch \cap peek'[l].after : batch'[b].pc = "done"
  BY DEF PeeksInv
<1>2. ReadersSeeAnswers'
  <2> SUFFICES ASSUME NEW l \in Peek
               PROVE  /\ \A b \in Batch \cap peek'[l].after :
                            peek'[l].seen \cap (batch'[b].began \ Listed(batch'[b].list)) = {}
                      /\ peek'[l].pc = "broken" => Publish \cap peek'[l].after = {}
    BY DEF ReadersSeeAnswers, Listed
  <2>1. \A b \in Batch \cap peek[l].after : batch'[b] = batch[b]
    BY DEF PeeksInv
  <2> QED BY <2>1 DEF PeeksInv, ReadersSeeAnswers
<1> QED BY <1>1, <1>2 DEF PeeksInv

\* A reader is answered.
LEMMA PeekAnswered ==
    ASSUME ContentTypeOK, FaqsInv, SitesInv, PeeksInv, NEW l \in Peek,
           NEW pc \in {"faqs", "site", "broken"}, NEW seen \in SUBSET faqs,
           peek' = [peek EXCEPT ![l] = [pc |-> pc, seen |-> seen, after |-> Answered]],
           pc = "broken" => sites = {}, batch' = batch
    PROVE  PeeksInv' /\ peek' \in [Peek -> PeekState]
<1> DEFINE e == [pc |-> pc, seen |-> seen, after |-> Answered]
<1>1. /\ \A b \in Batch \cap Answered : batch[b].pc = "done"
      /\ \A w \in Publish \cap Answered : publish[w].pc = "done"
      /\ Answered \subseteq Batch \cup Publish
  BY ContentAssumption DEF Answered
<1>2. e \in PeekState
  BY <1>1 DEF PeekState, ContentTypeOK
<1>3. /\ peek'[l] = e /\ \A m \in Peek \ {l} : peek'[m] = peek[m]
      /\ peek' \in [Peek -> PeekState]
  BY <1>2 DEF ContentTypeOK
<1>4. e.pc = pc /\ e.seen = seen /\ e.after = Answered
  OBVIOUS
<1> HIDE DEF e
<1>5. \A b \in Batch \cap Answered : seen \cap (batch[b].began \ Listed(batch[b].list)) = {}
  <2> SUFFICES ASSUME NEW b \in Batch \cap Answered
               PROVE  faqs \cap (batch[b].began \ Listed(batch[b].list)) = {}
    OBVIOUS
  <2>1. batch[b].pc = "done" /\ Drops(batch[b], faqs)
    BY <1>1 DEF FaqsInv, BatchOK
  <2> QED BY <2>1 DEF Drops
<1>6. pc = "broken" => Publish \cap Answered = {}
  BY <1>1 DEF SitesInv
<1>7. \A m \in Peek : \A b \in Batch \cap peek'[m].after : batch'[b].pc = "done"
  BY <1>1, <1>3, <1>4 DEF PeeksInv
<1>8. \A m \in Peek :
          /\ \A b \in Batch \cap peek'[m].after :
                peek'[m].seen \cap (batch'[b].began \ Listed(batch'[b].list)) = {}
          /\ peek'[m].pc = "broken" => Publish \cap peek'[m].after = {}
  BY <1>3, <1>4, <1>5, <1>6 DEF PeeksInv, ReadersSeeAnswers
<1>9. ReadersSeeAnswers'
  BY <1>8 DEF ReadersSeeAnswers, Listed
<1> QED BY <1>3, <1>7, <1>9 DEF PeeksInv

\* Every way to read.
LEMMA Peeks ==
    ASSUME ContentInv, NEW l \in Peek, PeekNext(l) \/ PublicNext(l) \/ PeekSite(l)
    PROVE  /\ PeeksInv' /\ peek' \in [Peek -> PeekState]
           /\ UNCHANGED <<faqs, asked, batch, sites, publish, clash>>
<1>1. UNCHANGED <<faqs, asked, batch, sites, publish, clash>>
  BY DEF PeekNext, PublicNext, PeekSite, PeekAll, PeekOne
<1>2. \E pc \in {"faqs", "site", "broken"}, seen \in SUBSET faqs :
          /\ peek' = [peek EXCEPT ![l] = [pc |-> pc, seen |-> seen, after |-> Answered]]
          /\ pc = "broken" => sites = {}
  <2>1. CASE PeekAll(l)
    <3>1. faqs \in SUBSET faqs
      OBVIOUS
    <3> QED BY <2>1, <3>1 DEF PeekAll
  <2>2. ASSUME NEW r \in FaqRow, PeekOne(l, r)
        PROVE  \E pc \in {"faqs", "site", "broken"}, seen \in SUBSET faqs :
                  /\ peek' = [peek EXCEPT ![l] = [pc |-> pc, seen |-> seen, after |-> Answered]]
                  /\ pc = "broken" => sites = {}
    <3>1. faqs \cap {r} \in SUBSET faqs
      OBVIOUS
    <3> QED BY <2>2, <3>1 DEF PeekOne
  <2>3. CASE PeekSite(l)
    <3>1. {} \in SUBSET faqs
      OBVIOUS
    <3> QED BY <2>3, <3>1 DEF PeekSite
  <2> QED BY <2>1, <2>2, <2>3 DEF PeekNext, PublicNext
<1> QED BY <1>1, <1>2, PeekAnswered DEF ContentInv

------------------------------------------------------------------------------
\* At first there are the rows of the table, and no request has begun.
LEMMA ContentInitInv == ContentInit => ContentInv
<1> SUFFICES ASSUME ContentInit
             PROVE  ContentInv
  OBVIOUS
<1>1. ContentTypeOK
  BY DEF ContentInit, ContentTypeOK, BatchState, PublishState, PeekState, FaqRow
<1>2. /\ \A b \in Batch : batch[b].pc = "idle" /\ batch[b].next = 1 /\ batch[b].began = {}
      /\ \A w \in Publish : publish[w].pc = "idle"
      /\ \A l \in Peek : peek[l].pc = "idle" /\ peek[l].after = {}
      /\ faqs = Faq /\ sites = {}
  BY DEF ContentInit
<1>3. FaqsInv
  BY <1>2 DEF FaqsInv, BatchOK, Clean, Drops, Replaced, Was
<1>4. SitesInv
  BY <1>2 DEF SitesInv, Creating, SiteIsOne
<1>5. PeeksInv
  BY <1>2 DEF PeeksInv, ReadersSeeAnswers
<1> QED BY <1>1, <1>3, <1>4, <1>5 DEF ContentInv

\* Steps that leave the website, or the questions, alone.
LEMMA SitesStay ==
    ASSUME SitesInv, UNCHANGED <<sites, publish, clash>>
    PROVE  SitesInv'
BY DEF SitesInv, Creating, SiteIsOne

LEMMA FaqsStay ==
    ASSUME FaqsInv, UNCHANGED <<faqs, asked, batch>>
    PROVE  FaqsInv'
<1>1. \A x : Was(x) <=> Was(x)'
  BY DEF Was
<1>2. \A b \in Batch : BatchOK(b, batch[b], faqs)'
  BY DEF FaqsInv, BatchOK, Clean, Drops, Replaced, Created, Listed
<1> QED BY <1>1, <1>2 DEF FaqsInv

\* Every step keeps the invariant.
LEMMA ContentStep == ContentInv /\ [ContentNext]_contentVars => ContentInv'
<1> SUFFICES ASSUME ContentInv, [ContentNext]_contentVars
             PROVE  ContentInv'
  OBVIOUS
<1> USE DEF ContentInv
<1>1. ASSUME FaqsLeft, asked' \subseteq Post \cup Patch, UNCHANGED <<sites, publish, peek, clash>>
      PROVE  ContentInv'
  <2>1. ContentTypeOK'
    BY <1>1 DEF ContentTypeOK, FaqsLeft
  <2>2. PeeksInv'
    BY <1>1, PeeksStay DEF FaqsLeft
  <2> QED BY <1>1, <2>1, <2>2, SitesStay DEF FaqsLeft
<1>2. ASSUME NEW b \in Batch, BatchNext(b)
      PROVE  ContentInv'
  <2>1. FaqsLeft /\ asked' = asked /\ UNCHANGED <<sites, publish, peek, clash>>
    BY <1>2, BatchSteps
  <2> QED BY <1>1, <2>1 DEF ContentTypeOK
<1>3. CASE FaqNext
  BY <1>1, <1>3, Questions
<1>4. ASSUME NEW w \in Publish, PublishNext(w)
      PROVE  ContentInv'
  <2>1. /\ sites' \subseteq Publish /\ publish' \in [Publish -> PublishState]
        /\ clash' \subseteq {{u, v} : u, v \in Publish}
        /\ UNCHANGED <<faqs, asked, batch, peek>>
    BY <1>4, PublishTypes
  <2>2. ContentTypeOK'
    BY <2>1 DEF ContentTypeOK
  <2>3. FaqsInv' /\ PeeksInv'
    BY <2>1, FaqsStay, PeeksStay
  <2>4. SitesInv'
    BY <1>4, SitesFind, SitesWrite DEF PublishNext
  <2> QED BY <2>2, <2>3, <2>4
<1>5. ASSUME NEW l \in Peek, PeekNext(l) \/ PublicNext(l) \/ PeekSite(l)
      PROVE  ContentInv'
  <2>1. /\ PeeksInv' /\ peek' \in [Peek -> PeekState]
        /\ UNCHANGED <<faqs, asked, batch, sites, publish, clash>>
    BY <1>5, Peeks
  <2>2. ContentTypeOK'
    BY <2>1 DEF ContentTypeOK
  <2> QED BY <2>1, <2>2, FaqsStay, SitesStay
<1>6. CASE UNCHANGED contentVars
  <2>1. UNCHANGED <<faqs, asked, batch, sites, publish, peek, clash>>
    BY <1>6 DEF contentVars
  <2>2. ContentTypeOK'
    BY <2>1 DEF ContentTypeOK
  <2> QED BY <2>1, <2>2, FaqsStay, SitesStay, PeeksStay
<1> QED BY <1>2, <1>3, <1>4, <1>5, <1>6 DEF ContentNext

\* It holds of every reachable state.
LEMMA ContentAlways == ContentSpec => []ContentInv
BY ContentInitInv, ContentStep, PTL DEF ContentSpec

\* The handlers of the questions and the website keep rows and requests of their kinds.
THEOREM ContentTypes == ContentSpec => []ContentTypeOK
<1>1. ContentInv => ContentTypeOK
  BY DEF ContentInv
<1> QED BY <1>1, ContentAlways, PTL

\* batchCreate answers with the rows it was given unless somebody wrote next to it, no
\* reader sees a row after a batch that dropped it has answered, and the website has two
\* rows only if two publishes were creating it at once.
THEOREM WholeContent == ContentSpec => []ContentIsWhole
<1>1. ContentInv => ContentIsWhole
  <2> SUFFICES ASSUME ContentInv
               PROVE  BatchesReplace
    BY DEF ContentIsWhole, ContentInv, SitesInv, PeeksInv
  <2>1. \A b \in Batch : Replaced(b, batch[b])
    BY DEF ContentInv, FaqsInv, BatchOK
  <2> QED BY <2>1 DEF Replaced, BatchesReplace
<1> QED BY <1>1, ContentAlways, PTL

------------------------------------------------------------------------------
(* The workspace *)

\* One part moves and the others stand still, so a behaviour of the whole is a
\* behaviour of every part.
THEOREM WorkspaceParts == WorkspaceSpec => ConversationsSpec /\ SetUpSpec /\ ContentSpec
<1>1. WorkspaceInit => ConversationsInit /\ SetUpInit /\ ContentInit
  BY DEF WorkspaceInit
<1>2. [WorkspaceNext]_<<conversationsVars, setUpVars, contentVars, part>>
          => [ConversationsNext]_conversationsVars
  BY DEF WorkspaceNext
<1>3. [WorkspaceNext]_<<conversationsVars, setUpVars, contentVars, part>>
          => [SetUpNext]_setUpVars
  BY DEF WorkspaceNext
<1>4. [WorkspaceNext]_<<conversationsVars, setUpVars, contentVars, part>>
          => [ContentNext]_contentVars
  BY DEF WorkspaceNext
<1> QED BY <1>1, <1>2, <1>3, <1>4, PTL
        DEF WorkspaceSpec, ConversationsSpec, SetUpSpec, ContentSpec

\* All handlers of the workspace keep rows and requests of their kinds, and every
\* foreign key names a row.
THEOREM WorkspaceTypes == WorkspaceSpec => []TypeOK
<1>1. ConversationsTypeOK /\ SetUpTypeOK /\ ContentTypeOK => TypeOK
  BY DEF TypeOK
<1> QED BY <1>1, WorkspaceParts, ConversationsTypes, SetUpTypes, ContentTypes, PTL

\* What is proved of each part holds of the workspace: conversations, set-ups and
\* pages keep their promises in every behaviour of the whole.
THEOREM WorkspaceKeeps ==
    WorkspaceSpec => /\ [](OneConversation /\ StatusNewsAgree /\ AnswersAreTrue)
                     /\ [](ReplacesReplace /\ StuckIsExplained /\ SummaryAddsUp)
                     /\ []ContentIsWhole
<1> QED BY WorkspaceParts, ConversationIsOne, StatusIsNews, AnswersHold, Replacements,
           LocksClose, Summaries, WholeContent, PTL

=============================================================================
