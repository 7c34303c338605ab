------------------------------ MODULE Presence ------------------------------
(***************************************************************************)
(* Who is online (message.gateway.ts): the socket each user is reached at, *)
(* the name each caller is reached at, the availability column, and the    *)
(* status the other clients were last shown.                               *)
(*                                                                         *)
(* The maps live in the process and change in the same section as the      *)
(* event that changes them.  The column is written later, by a SELECT and  *)
(* an UPDATE, so the handlers of two sockets of one user, or the two of    *)
(* one socket, overtake each other there.                                  *)
(***************************************************************************)
CONSTANTS
    User,
    Name,    \* names callers join with
    Socket,  \* connections, each used once (socket.io gives a fresh id)
    None

ASSUME NoneAssumption == None \notin Socket \cup User

VARIABLES
    exists,        \* the accounts that have a row
    availability,  \* the column
    shown,         \* the last userStatusChange of each user
    clients,       \* userId -> socket
    activeUsers,   \* name -> socket
    socket,        \* the connections and their two handlers
    newest,        \* history: the last socket each user connected with
    steady         \* history: see Starts

vars == <<exists, availability, shown, clients, activeUsers, socket, newest, steady>>

Status == {"online", "offline"}

\* "on" and "off" are the sections of handleConnection and handleDisconnect.
\* "replaced" and "joined" are history: the user has connected again, and the
\* names the socket was joined under.
SocketState ==
    [line : {"new", "open", "closed"}, user : User \cup {None},
     on : {"idle", "read", "write", "say", "done"},
     off : {"idle", "read", "write", "say", "done"},
     replaced : BOOLEAN, joined : SUBSET Name]

\* Every variable holds a value of its kind.
TypeOK ==
    /\ exists \subseteq User
    /\ availability \in [User -> Status]
    /\ shown \in [User -> Status]
    /\ clients \in [User -> Socket \cup {None}]
    /\ activeUsers \in [Name -> Socket \cup {None}]
    /\ socket \in [Socket -> SocketState]
    /\ newest \in [User -> Socket \cup {None}]
    /\ steady \in [User -> BOOLEAN]

\* A column that was never written counts as offline.
Init ==
    /\ exists = User
    /\ availability = [u \in User |-> "offline"]
    /\ shown = [u \in User |-> "offline"]
    /\ clients = [u \in User |-> None]
    /\ activeUsers = [n \in Name |-> None]
    /\ socket = [s \in Socket |-> [line |-> "new", user |-> None, on |-> "idle",
                                   off |-> "idle", replaced |-> FALSE, joined |-> {}]]
    /\ newest = [u \in User |-> None]
    /\ steady = [u \in User |-> TRUE]

Busy(pc) == pc \in {"read", "write", "say"}

\* No handler of u's sockets in S is between two awaits.
Quiet(u, S) ==
    \A s \in S : socket[s].user = u => ~Busy(socket[s].on) /\ ~Busy(socket[s].off)

\* The handler that starts for u is alone, the sockets in S being the others.
Starts(u, S) == steady' = [steady EXCEPT ![u] = Quiet(u, S)]

(***************************************************************************)
(* handleConnection                                                        *)
(***************************************************************************)

\* The token names u: the map is set and the SELECT is sent.  A token that is
\* missing or bad closes the socket and leaves no state.
Connect(s, u) ==
    /\ socket[s].line = "new"
    /\ clients' = [clients EXCEPT ![u] = s]
    /\ newest' = [newest EXCEPT ![u] = s]
    /\ socket' = [x \in Socket |->
           IF x = s THEN [socket[s] EXCEPT !.line = "open", !.user = u, !.on = "read"]
           ELSE IF x = clients[u] THEN [socket[x] EXCEPT !.replaced = TRUE]
           ELSE socket[x]]
    /\ Starts(u, Socket)
    /\ UNCHANGED <<exists, availability, shown, activeUsers>>

\* updateUserStatus: a user without a row is not written, and is shown all the
\* same.
OnRead(s) ==
    /\ socket[s].on = "read"
    /\ socket' = [socket EXCEPT ![s].on =
           IF socket[s].user \in exists THEN "write" ELSE "say"]
    /\ UNCHANGED <<exists, availability, shown, clients, activeUsers, newest, steady>>

OnWrite(s) ==
    /\ socket[s].on = "write"
    /\ socket[s].user \in exists
    /\ availability' = [availability EXCEPT ![socket[s].user] = "online"]
    /\ socket' = [socket EXCEPT ![s].on = "say"]
    /\ UNCHANGED <<exists, shown, clients, activeUsers, newest, steady>>

OnSay(s) ==
    /\ socket[s].on = "say"
    /\ shown' = [shown EXCEPT ![socket[s].user] = "online"]
    /\ socket' = [socket EXCEPT ![s].on = "done"]
    /\ UNCHANGED <<exists, availability, clients, activeUsers, newest, steady>>

(***************************************************************************)
(* handleDisconnect                                                        *)
(***************************************************************************)

\* Variant: the names are not looked for.
ForgetNoName(s) == UNCHANGED activeUsers

\* One of the names s was joined under, the first in the map, is taken out.
ForgetName(s) ==
    LET names == {n \in Name : activeUsers[n] = s}
    IN  IF names = {} THEN UNCHANGED activeUsers
        ELSE \E n \in names : activeUsers' = [activeUsers EXCEPT ![n] = None]

\* Variant: the user is taken from the socket and not looked up in the map.
IsMappedAnyway(s) == TRUE

\* entries().find: s is the socket its user is reached at.
IsMapped(s) == clients[socket[s].user] = s

\* The socket closes, its connection handler being at "on".  A socket that a
\* later one of its user has replaced is in the map no more, and nothing else
\* is done for it.
Closes(s, on) ==
    LET u == socket[s].user
    IN  /\ socket[s].line = "open"
        /\ IF IsMapped(s)
           THEN /\ clients' = [clients EXCEPT ![u] = None]
                /\ ForgetName(s)
                /\ socket' = [socket EXCEPT ![s] =
                       [@ EXCEPT !.line = "closed", !.on = on, !.off = "read"]]
                /\ Starts(u, IF Busy(on) THEN Socket ELSE Socket \ {s})
           ELSE /\ socket' = [socket EXCEPT ![s] = [@ EXCEPT !.line = "closed", !.on = on]]
                /\ UNCHANGED <<clients, activeUsers, steady>>
        /\ UNCHANGED <<exists, availability, shown, newest>>

\* The client is gone.
Disconnect(s) == Closes(s, socket[s].on)

\* The database fails a connection handler, or the row has gone since it was
\* read.  The catch block closes the socket if it is still open; the write may
\* have been made although its answer was lost.
OnFail(s) ==
    /\ \/ socket[s].on \in {"read", "write"}
       \/ socket[s].on = "say" /\ socket[s].user \in exists
    /\ IF socket[s].line = "open" THEN Closes(s, "done")
       ELSE /\ socket' = [socket EXCEPT ![s].on = "done"]
            /\ UNCHANGED <<exists, availability, shown, clients, activeUsers, newest, steady>>

\* Variant: updateUserStatus returns for a user it has found.
OffReadReturning(s) ==
    /\ socket[s].off = "read"
    /\ socket' = [socket EXCEPT ![s].off = "say"]
    /\ UNCHANGED <<exists, availability, shown, clients, activeUsers, newest, steady>>

OffRead(s) ==
    /\ socket[s].off = "read"
    /\ socket' = [socket EXCEPT ![s].off =
           IF socket[s].user \in exists THEN "write" ELSE "say"]
    /\ UNCHANGED <<exists, availability, shown, clients, activeUsers, newest, steady>>

OffWrite(s) ==
    /\ socket[s].off = "write"
    /\ socket[s].user \in exists
    /\ availability' = [availability EXCEPT ![socket[s].user] = "offline"]
    /\ socket' = [socket EXCEPT ![s].off = "say"]
    /\ UNCHANGED <<exists, shown, clients, activeUsers, newest, steady>>

OffSay(s) ==
    /\ socket[s].off = "say"
    /\ shown' = [shown EXCEPT ![socket[s].user] = "offline"]
    /\ socket' = [socket EXCEPT ![s].off = "done"]
    /\ UNCHANGED <<exists, availability, clients, activeUsers, newest, steady>>

(***************************************************************************)
(* The process                                                             *)
(***************************************************************************)

\* The maps, the sockets and the handlers are gone.  The column stays.
Stops ==
    /\ clients' = [u \in User |-> None]
    /\ activeUsers' = [n \in Name |-> None]
    /\ socket' = [s \in Socket |->
           IF socket[s].line = "new" THEN socket[s]
           ELSE [socket[s] EXCEPT !.line = "closed", !.on = "done", !.off = "done"]]
    /\ steady' = [u \in User |-> steady[u] /\ clients[u] = None /\ Quiet(u, Socket)]
    /\ UNCHANGED <<exists, availability, shown, newest>>

\* handleDisconnect has no catch block: a query that fails in it rejects a
\* promise nobody handles, and Node ends the process.
OffFail(s) ==
    /\ socket[s].off \in {"read", "write"}
    /\ Stops

Restart == Stops

(***************************************************************************)
(* Calls, and the admin's DELETE                                           *)
(***************************************************************************)

\* Variant: the name is bound to the user.
JoinAsUser(s, n) ==
    /\ socket[s].line = "open"
    /\ activeUsers' = [activeUsers EXCEPT ![n] = socket[s].user]
    /\ socket' = [socket EXCEPT ![s].joined = @ \cup {n}]
    /\ UNCHANGED <<exists, availability, shown, clients, newest, steady>>

\* The 'join' event of the calling protocol.
Join(s, n) ==
    /\ socket[s].line = "open"
    /\ activeUsers' = [activeUsers EXCEPT ![n] = s]
    /\ socket' = [socket EXCEPT ![s].joined = @ \cup {n}]
    /\ UNCHANGED <<exists, availability, shown, clients, newest, steady>>

\* Where 'sendMessage', 'typing' and 'stopTyping' emit, and where 'call',
\* 'answer', 'iceCandidate' and 'endCall' do; nowhere when it is None.
SocketOf(u) == clients[u]
CalleeOf(n) == activeUsers[n]

RemoveUser(u) ==
    /\ u \in exists
    /\ exists' = exists \ {u}
    /\ UNCHANGED <<availability, shown, clients, activeUsers, socket, newest, steady>>

Next ==
    \/ \E s \in Socket :
           \/ \E u \in User : Connect(s, u)
           \/ OnRead(s) \/ OnWrite(s) \/ OnSay(s) \/ OnFail(s)
           \/ Disconnect(s)
           \/ OffRead(s) \/ OffWrite(s) \/ OffSay(s) \/ OffFail(s)
           \/ \E n \in Name : Join(s, n)
    \/ Restart
    \/ \E u \in User : RemoveUser(u)

Spec == Init /\ [][Next]_vars

(***************************************************************************)
(* Properties                                                              *)
(***************************************************************************)

\* Private messages reach the last socket a user connected with for as long as
\* it is open, however late the sockets before it are closed, and nothing else.
NewestIsReached ==
    \A u \in User :
        SocketOf(u) = IF newest[u] # None /\ socket[newest[u]].line = "open"
                      THEN newest[u] ELSE None

\* When nothing is under way for a user, the column and what the others were
\* shown say what the map says.  The exceptions are a handler that overlapped
\* another one of the user, and a process that stopped while the user was
\* connected; the next handler that runs alone repairs either.
PresenceAgrees ==
    \A u \in exists :
        steady[u] /\ Quiet(u, Socket) =>
            /\ availability[u] = "online" <=> clients[u] # None
            /\ shown[u] = availability[u]

\* A call is put through to an open socket.  The exceptions are a socket that
\* its user had replaced before it closed, which handleDisconnect does not look
\* at, and one joined under several names, of which it takes out one.
CallsReachOpenSocket ==
    \A n \in Name :
        LET s == CalleeOf(n)
        IN  s # None /\ socket[s].line = "closed" =>
                \/ socket[s].replaced
                \/ \E m1, m2 \in socket[s].joined : m1 # m2

=============================================================================
