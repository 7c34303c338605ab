---------------------------- MODULE Conversations ----------------------------
(***************************************************************************)
(* Conversations and their messages (conversation.service.ts,              *)
(* message.service.ts, the status handler of message.gateway.ts over       *)
(* chat.repository.ts).  A conversation is found or created without a      *)
(* unique key; a message is stored and then its conversation is touched;   *)
(* a status is written and then broadcast.  Removing a conversation takes  *)
(* its messages along (Cascade), removing a person leaves a null behind    *)
(* (SetNull).                                                              *)
(***************************************************************************)

CONSTANTS
    Person,
    Open,    \* POST /chat/conversation; one names the conversation it creates
    Send,    \* POST /chat/message; one names the message it stores
    Mark,    \* updateMessageStatus events
    Look,    \* GET /chat/conversation, /chat/conversation/:id and /chat/message
    Admin,   \* the people whose type is admin
    Nobody   \* null

ASSUME ConversationsAssumption ==
    /\ Nobody \notin Person \cup Open \cup Send
    /\ Admin \subseteq Person

VARIABLES
    people,        \* users: the rows that exist
    conversations, \* conversations: the rows that exist
    creator,       \* the columns
    participant,
    messages,      \* messages: the rows that exist
    status,        \* the column
    news,          \* the last messageStatusUpdated of each message, if any
    open, send, mark, look,  \* the requests
    met,           \* history: the pairs of opens that were creating one pair at once
    lost,          \* history: messages whose conversation could not be touched
    crossed        \* history: messages with two marks in flight at once

conversationsVars == <<people, conversations, creator, participant, messages, status, news,
                       open, send, mark, look, met, lost, crossed>>

Status == {"SENT", "DELIVERED", "READ"}

OpenState == [pc : {"find", "create", "done", "exists", "failed"},
              creator : Person \cup {Nobody}, participant : Person \cup {Nobody}]
SendState == [pc : {"find", "receiver", "store", "touch", "sent", "refused"},
              conversation : Open \cup {Nobody}, sender : Person \cup {Nobody},
              receiver : Person \cup {Nobody}]
MarkState == [pc : {"find", "write", "say", "done", "failed"}, message : Send \cup {Nobody},
              status : Status \cup {Nobody}]
\* "broken" is a TypeError caught and answered, "refused" any other error.
LookState == [pc : {"idle", "conversation", "messages", "shown", "broken", "refused"},
              reader : Person \cup {Nobody}, conversation : Open \cup {Nobody},
              shown : SUBSET Send]

\* Every variable holds a value of its kind, and every foreign key names a row.
ConversationsTypeOK ==
    /\ people \subseteq Person
    /\ conversations \subseteq Open
    /\ creator \in [Open -> Person \cup {Nobody}]
    /\ participant \in [Open -> Person \cup {Nobody}]
    /\ messages \subseteq Send
    /\ status \in [Send -> Status]
    /\ news \in [Send -> Status \cup {Nobody}]
    /\ open \in [Open -> OpenState]
    /\ send \in [Send -> SendState]
    /\ mark \in [Mark -> MarkState]
    /\ look \in [Look -> LookState]
    /\ met \subseteq {{a, b} : a, b \in Open}
    /\ lost \subseteq Send
    /\ crossed \subseteq Send
    /\ \A c \in conversations : creator[c] \in people \cup {Nobody}
    /\ \A c \in conversations : participant[c] \in people \cup {Nobody}
    /\ \A s \in messages : send[s].conversation \in conversations

ConversationsInit ==
    /\ people = Person
    /\ conversations = {}
    /\ creator = [c \in Open |-> Nobody]
    /\ participant = [c \in Open |-> Nobody]
    /\ messages = {}
    /\ status = [s \in Send |-> "SENT"]
    /\ news = [s \in Send |-> Nobody]
    /\ open = [o \in Open |-> [pc |-> "find", creator |-> Nobody, participant |-> Nobody]]
    /\ send = [s \in Send |-> [pc |-> "find", conversation |-> Nobody, sender |-> Nobody,
                               receiver |-> Nobody]]
    /\ mark = [k \in Mark |-> [pc |-> "find", message |-> Nobody, status |-> Nobody]]
    /\ look = [l \in Look |-> [pc |-> "idle", reader |-> Nobody, conversation |-> Nobody,
                               shown |-> {}]]
    /\ met = {}
    /\ lost = {}
    /\ crossed = {}

------------------------------------------------------------------------------
(* Opening and removing a conversation *)

\* Variant: the pair is not looked for.
OpenFindNothing(o, p, q) ==
    /\ open[o].pc = "find"
    /\ open' = [open EXCEPT ![o] = [pc |-> "create", creator |-> p, participant |-> q]]
    /\ met' = met \cup {{a, o} : a \in {a \in Open : open[a] = open'[o]}}
    /\ UNCHANGED <<people, conversations, creator, participant, messages, status, news, send,
                   mark, lost, crossed, look>>

\* findFirst, in this direction only; any two ids may be named.
OpenFind(o, p, q) ==
    LET found == \E c \in conversations : creator[c] = p /\ participant[c] = q
    IN  /\ open[o].pc = "find"
        /\ open' = [open EXCEPT ![o] =
               [pc |-> IF found THEN "exists" ELSE "create",
                creator |-> p, participant |-> q]]
        /\ met' = IF found THEN met
                  ELSE met \cup {{a, o} : a \in {a \in Open : open[a] = open'[o]}}
        /\ UNCHANGED <<people, conversations, creator, participant, messages, status, news,
                       send, mark, lost, crossed, look>>

\* conversation.create, whose foreign keys need both people, and the two events.
OpenCreate(o) ==
    /\ open[o].pc = "create"
    /\ {open[o].creator, open[o].participant} \subseteq people
    /\ conversations' = conversations \cup {o}
    /\ creator' = [creator EXCEPT ![o] = open[o].creator]
    /\ participant' = [participant EXCEPT ![o] = open[o].participant]
    /\ open' = [open EXCEPT ![o].pc = "done"]
    /\ UNCHANGED <<people, messages, status, news, send, mark, met, lost, crossed, look>>

\* P2003, or no connection.
OpenFails(o) ==
    /\ open[o].pc = "create"
    /\ open' = [open EXCEPT ![o].pc = "failed"]
    /\ UNCHANGED <<people, conversations, creator, participant, messages, status, news, send,
                   mark, met, lost, crossed, look>>

\* conversation.delete, and its messages with it.
RemoveConversation(c) ==
    /\ c \in conversations
    /\ conversations' = conversations \ {c}
    /\ messages' = {s \in messages : send[s].conversation # c}
    /\ UNCHANGED <<people, creator, participant, status, news, open, send, mark, met, lost,
                   crossed, look>>

\* Variant: the columns keep the person.
RemovePersonOnly(p) ==
    /\ p \in people
    /\ people' = people \ {p}
    /\ UNCHANGED <<conversations, creator, participant, messages, status, news, open, send,
                   mark, met, lost, crossed, look>>

\* deleteUser.
RemovePerson(p) ==
    /\ p \in people
    /\ people' = people \ {p}
    /\ creator' = [c \in Open |-> IF creator[c] = p THEN Nobody ELSE creator[c]]
    /\ participant' = [c \in Open |-> IF participant[c] = p THEN Nobody ELSE participant[c]]
    /\ UNCHANGED <<conversations, messages, status, news, open, send, mark, met, lost, crossed, look>>

------------------------------------------------------------------------------
(* Sending a message *)

\* conversation.findFirst; the sender need not be one of its two people.
SendFind(s, p, q, c) ==
    /\ send[s].pc = "find"
    /\ send' = [send EXCEPT ![s] =
           [pc |-> IF c \in conversations THEN "receiver" ELSE "refused",
            conversation |-> c, sender |-> p, receiver |-> q]]
    /\ UNCHANGED <<people, conversations, creator, participant, messages, status, news, open,
                   mark, met, lost, crossed, look>>

\* user.findFirst.
SendReceiver(s) ==
    /\ send[s].pc = "receiver"
    /\ send' = [send EXCEPT ![s].pc = IF send[s].receiver \in people THEN "store" ELSE "refused"]
    /\ UNCHANGED <<people, conversations, creator, participant, messages, status, news, open,
                   mark, met, lost, crossed, look>>

\* message.create, whose foreign keys need all three.
SendStore(s) ==
    /\ send[s].pc = "store"
    /\ send[s].conversation \in conversations
    /\ {send[s].sender, send[s].receiver} \subseteq people
    /\ messages' = messages \cup {s}
    /\ status' = [status EXCEPT ![s] = "SENT"]
    /\ send' = [send EXCEPT ![s].pc = "touch"]
    /\ UNCHANGED <<people, conversations, creator, participant, news, open, mark, met, lost,
                   crossed, look>>

\* conversation.update(updated_at), which needs the row (P2025), and the answer:
\* the controller tells the room.
SendTouch(s) ==
    /\ send[s].pc = "touch"
    /\ send' = [send EXCEPT ![s].pc =
           IF send[s].conversation \in conversations THEN "sent" ELSE "refused"]
    /\ UNCHANGED <<people, conversations, creator, participant, messages, status, news, open,
                   mark, met, lost, crossed, look>>

\* P2003, or no connection: the catch block answers and undoes nothing.
SendFails(s) ==
    /\ send[s].pc \in {"receiver", "store", "touch"}
    /\ send' = [send EXCEPT ![s].pc = "refused"]
    /\ lost' = IF send[s].pc = "touch" THEN lost \cup {s} ELSE lost
    /\ UNCHANGED <<people, conversations, creator, participant, messages, status, news, open,
                   mark, met, crossed, look>>

------------------------------------------------------------------------------
(* Marking a message *)

\* The marks of s that have been received and not broadcast.
Marking(s) == {k \in Mark : mark[k].pc \in {"write", "say"} /\ mark[k].message = s}

\* message.findFirst, for an id some client was told.  A message that is gone is
\* not written, and is broadcast all the same.
MarkFind(k, s, st) ==
    /\ mark[k].pc = "find"
    /\ s \in messages \/ send[s].pc = "sent"
    /\ mark' = [mark EXCEPT ![k] =
           [pc |-> IF s \in messages THEN "write" ELSE "say", message |-> s, status |-> st]]
    /\ crossed' = IF Marking(s) = {} THEN crossed ELSE crossed \cup {s}
    /\ UNCHANGED <<people, conversations, creator, participant, messages, status, news, open,
                   send, met, lost, look>>

\* Variant: a status only moves forward.
MarkWriteForward(k) ==
    LET s == mark[k].message
    IN  /\ mark[k].pc = "write"
        /\ s \in messages
        /\ status' = [status EXCEPT ![s] = IF @ = "READ" THEN @ ELSE mark[k].status]
        /\ mark' = [mark EXCEPT ![k].pc = "say"]
        /\ UNCHANGED <<people, conversations, creator, participant, messages, news, open,
                       send, met, lost, crossed, look>>

\* message.update: the status as it came, an older one too.
MarkWrite(k) ==
    LET s == mark[k].message
    IN  /\ mark[k].pc = "write"
        /\ s \in messages
        /\ status' = [status EXCEPT ![s] = mark[k].status]
        /\ mark' = [mark EXCEPT ![k].pc = "say"]
        /\ UNCHANGED <<people, conversations, creator, participant, messages, news, open,
                       send, met, lost, crossed, look>>

\* The broadcast to every socket.
MarkSay(k) ==
    /\ mark[k].pc = "say"
    /\ news' = [news EXCEPT ![mark[k].message] = mark[k].status]
    /\ mark' = [mark EXCEPT ![k].pc = "done"]
    /\ UNCHANGED <<people, conversations, creator, participant, messages, status, open, send,
                   met, lost, crossed, look>>

\* The row is gone (P2025), or no connection: no broadcast.
MarkFails(k) ==
    /\ mark[k].pc = "write"
    /\ mark' = [mark EXCEPT ![k].pc = "failed"]
    /\ UNCHANGED <<people, conversations, creator, participant, messages, status, news, open,
                   send, met, lost, crossed, look>>

------------------------------------------------------------------------------
(* Reading.  Paging is left out. *)

Pair(c) == {creator[c], participant[c]}

\* findAll: every conversation, to anybody, with an avatar looked up on both people
\* of each: one null column and nobody gets the list.
ListAll(l) ==
    /\ look[l].pc = "idle"
    /\ look' = [look EXCEPT ![l].pc =
           IF \E c \in conversations : Nobody \in Pair(c) THEN "broken" ELSE "shown"]
    /\ UNCHANGED <<people, conversations, creator, participant, messages, status, news, open,
                   send, mark, met, lost, crossed>>

\* findOne, for an id some client was told: a conversation that is gone is null, and
\* only the creator's avatar is looked up.
ShowOne(l, c) ==
    /\ look[l].pc = "idle"
    /\ open[c].pc = "done"
    /\ look' = [look EXCEPT ![l] =
           [@ EXCEPT !.conversation = c,
                     !.pc = IF c \in conversations /\ creator[c] # Nobody
                            THEN "shown" ELSE "broken"]]
    /\ UNCHANGED <<people, conversations, creator, participant, messages, status, news, open,
                   send, mark, met, lost, crossed>>

\* getUserDetails, and the type of the result: null for a person who is gone.
ReadDetails(l, p, c) ==
    /\ look[l].pc = "idle"
    /\ look' = [look EXCEPT ![l] =
           [@ EXCEPT !.reader = p, !.conversation = c,
                     !.pc = IF p \in people THEN "conversation" ELSE "broken"]]
    /\ UNCHANGED <<people, conversations, creator, participant, messages, status, news, open,
                   send, mark, met, lost, crossed>>

\* Variant: the reader need not be one of the two.
ReadAnyConversation(l) ==
    /\ look[l].pc = "conversation"
    /\ look' = [look EXCEPT ![l].pc =
           IF look[l].conversation \in conversations THEN "messages" ELSE "refused"]
    /\ UNCHANGED <<people, conversations, creator, participant, messages, status, news, open,
                   send, mark, met, lost, crossed>>

\* conversation.findFirst: one of the reader's own, unless the reader is an admin.
ReadConversation(l) ==
    LET c == look[l].conversation
        p == look[l].reader
    IN  /\ look[l].pc = "conversation"
        /\ look' = [look EXCEPT ![l].pc =
               IF c \in conversations /\ (p \in Admin \/ p \in Pair(c))
               THEN "messages" ELSE "refused"]
        /\ UNCHANGED <<people, conversations, creator, participant, messages, status, news,
                       open, send, mark, met, lost, crossed>>

\* message.findMany, by the conversation alone.
ReadMessages(l) ==
    /\ look[l].pc = "messages"
    /\ look' = [look EXCEPT ![l] =
           [@ EXCEPT !.shown = {s \in messages : send[s].conversation = look[l].conversation},
                     !.pc = "shown"]]
    /\ UNCHANGED <<people, conversations, creator, participant, messages, status, news, open,
                   send, mark, met, lost, crossed>>

\* No connection.
LookFails(l) ==
    /\ look[l].pc \in {"conversation", "messages"}
    /\ look' = [look EXCEPT ![l].pc = "refused"]
    /\ UNCHANGED <<people, conversations, creator, participant, messages, status, news, open,
                   send, mark, met, lost, crossed>>

------------------------------------------------------------------------------
OpenNext(o) ==
    \/ \E p, q \in Person : OpenFind(o, p, q)
    \/ OpenCreate(o)
    \/ OpenFails(o)

SendNext(s) ==
    \/ \E p, q \in Person, c \in Open : SendFind(s, p, q, c)
    \/ SendReceiver(s)
    \/ SendStore(s)
    \/ SendTouch(s)
    \/ SendFails(s)

MarkNext(k) ==
    \/ \E s \in Send, st \in Status : MarkFind(k, s, st)
    \/ MarkWrite(k)
    \/ MarkSay(k)
    \/ MarkFails(k)

\* GET /chat/conversation and /chat/conversation/:id.
LookNext(l) ==
    \/ ListAll(l)
    \/ \E c \in Open : ShowOne(l, c)

\* GET /chat/message.
ReadNext(l) ==
    \/ \E p \in Person, c \in Open : ReadDetails(l, p, c)
    \/ ReadConversation(l)
    \/ ReadMessages(l)
    \/ LookFails(l)

ConversationsNext ==
    \/ \E o \in Open : OpenNext(o)
    \/ \E c \in Open : RemoveConversation(c)
    \/ \E p \in Person : RemovePerson(p)
    \/ \E s \in Send : SendNext(s)
    \/ \E k \in Mark : MarkNext(k)
    \/ \E l \in Look : LookNext(l) \/ ReadNext(l)

ConversationsSpec == ConversationsInit /\ [][ConversationsNext]_conversationsVars

------------------------------------------------------------------------------
(* Properties *)

\* Two people have two conversations only if the two were being created at once,
\* or each of them opened one: the search looks in one direction.
OneConversation ==
    \A c, d \in conversations :
        c # d /\ Pair(c) = Pair(d) /\ Nobody \notin Pair(c) =>
            {c, d} \in met \/ creator[c] # creator[d]

\* What the sender is told is what happened: a message that was refused is not
\* there, though it is stored before the last step that can refuse it, and one
\* that was sent is there for as long as its conversation.  The exception is a
\* touch that failed on a conversation that exists.  What a reader is shown are
\* messages of a conversation opened by or with that reader, and a read breaks only
\* once a person or the conversation it names was removed.
AnswersAreTrue ==
    /\ \A s \in Send :
         /\ send[s].pc = "refused" /\ s \in messages => s \in lost
         /\ send[s].pc = "sent" => (s \in messages <=> send[s].conversation \in conversations)
    /\ \A l \in Look :
         LET c == look[l].conversation
         IN  /\ look[l].shown # {} =>
                   look[l].reader \in Admin \cup {open[c].creator, open[c].participant}
             /\ look[l].pc = "broken" => people # Person \/ c \in Open \ conversations

\* The status everybody was last shown is the one that is stored, once no mark of
\* the message is under way, unless two were at once: a status is written as it
\* comes, and an older one replaces a newer one in both places.
StatusNewsAgree ==
    \A s \in messages \ crossed :
        Marking(s) = {} => news[s] \in {Nobody, status[s]}

==============================================================================
