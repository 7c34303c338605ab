--------------------------- MODULE PresenceProofs ---------------------------
(* Theorems about Presence, for any sets of users, names and sockets. *)
EXTENDS Presence, TLAPS

(***************************************************************************)
(* Who a socket belongs to, and where it is found                          *)
(***************************************************************************)

\* A socket that was never connected has no user, name or handler; one that was
\* has a user, and its disconnection has not begun while it is open.
Connected ==
    \A s \in Socket :
        /\ socket[s].line = "new" =>
               /\ socket[s].user = None
               /\ socket[s].on = "idle"
               /\ ~socket[s].replaced
               /\ socket[s].joined = {}
        /\ socket[s].line # "new" => socket[s].user \in User
        /\ socket[s].line # "closed" => socket[s].off = "idle"

\* The last socket of a user is one the user connected with.
NewestIsOwn ==
    \A u \in User : \A s \in Socket :
        newest[u] = s => socket[s].user = u /\ socket[s].line # "new"

\* A socket that is open and not in the map has been replaced.
UnmappedIsReplaced ==
    \A s \in Socket :
        socket[s].line = "open" /\ clients[socket[s].user] # s => socket[s].replaced

\* The names are those sockets were joined under.
NamesAreJoined ==
    \A n \in Name : \A s \in Socket : activeUsers[n] = s => n \in socket[s].joined

MapInv ==
    /\ TypeOK
    /\ Connected
    /\ NewestIsOwn
    /\ NewestIsReached
    /\ UnmappedIsReplaced
    /\ NamesAreJoined
    /\ CallsReachOpenSocket

LEMMA MapInit == Init => MapInv
  BY NoneAssumption DEF Init, MapInv, TypeOK, Status, SocketState, Connected, NewestIsOwn,
     NewestIsReached, SocketOf, UnmappedIsReplaced, NamesAreJoined, CallsReachOpenSocket, CalleeOf

\* A step of a handler that only moves its counter keeps the maps' invariant.
LEMMA MapHandler ==
  ASSUME MapInv, NEW s \in Socket, socket[s].line # "new",
         socket' \in [Socket -> SocketState],
         \A x \in Socket :
             /\ socket'[x].line = socket[x].line
             /\ socket'[x].user = socket[x].user
             /\ socket'[x].replaced = socket[x].replaced
             /\ socket'[x].joined = socket[x].joined
             /\ x # s => socket'[x] = socket[x]
         , socket'[s].off = socket[s].off \/ socket[s].line = "closed",
         availability' \in [User -> Status], shown' \in [User -> Status],
         exists' \subseteq User,
         UNCHANGED <<clients, activeUsers, newest, steady>>
  PROVE  MapInv'
  BY DEF MapInv, TypeOK, Connected, NewestIsOwn, NewestIsReached, SocketOf, UnmappedIsReplaced,
     NamesAreJoined, CallsReachOpenSocket, CalleeOf

\* A handler runs for a socket that was connected.
LEMMA HandlerIsConnected ==
  ASSUME MapInv, NEW s \in Socket, socket[s].on # "idle" \/ socket[s].off # "idle"
  PROVE  socket[s].line # "new" /\ socket[s].user \in User
  BY DEF MapInv, Connected

LEMMA MapConnect ==
  ASSUME MapInv, NEW s \in Socket, NEW u \in User, Connect(s, u)
  PROVE  MapInv'
<1>. socket \in [Socket -> SocketState]
  BY DEF MapInv, TypeOK
<1>1. /\ socket[s].line = "new" /\ socket[s].off = "idle"
      /\ clients' = [clients EXCEPT ![u] = s] /\ newest' = [newest EXCEPT ![u] = s]
      /\ UNCHANGED activeUsers
  BY DEF Connect, MapInv, Connected
<1>2. /\ socket'[s] = [socket[s] EXCEPT !.line = "open", !.user = u, !.on = "read"]
      /\ \A x \in Socket : x # s =>
             socket'[x] = IF x = clients[u] THEN [socket[x] EXCEPT !.replaced = TRUE]
                          ELSE socket[x]
      /\ socket' = [x \in Socket |-> socket'[x]]
  BY DEF Connect
<1>3. /\ socket'[s] \in SocketState
      /\ socket'[s].line = "open" /\ socket'[s].user = u
      /\ socket'[s].off = "idle" /\ socket'[s].joined = {}
  BY <1>1, <1>2 DEF SocketState, MapInv, Connected
<1>4. ASSUME NEW x \in Socket, x # s
      PROVE  /\ socket'[x] \in SocketState
             /\ socket'[x].line = socket[x].line /\ socket'[x].user = socket[x].user
             /\ socket'[x].on = socket[x].on /\ socket'[x].off = socket[x].off
             /\ socket'[x].joined = socket[x].joined
             /\ socket'[x].replaced <=> socket[x].replaced \/ clients[u] = x
  <2>1. CASE x = clients[u]
    <3>1. socket'[x] = [socket[x] EXCEPT !.replaced = TRUE] /\ socket[x] \in SocketState
      BY <2>1, <1>2, <1>4
    <3>. QED  BY <2>1, <3>1 DEF SocketState
  <2>2. CASE x # clients[u]
    <3>1. socket'[x] = socket[x] /\ socket[x] \in SocketState
      BY <2>2, <1>2, <1>4
    <3>. QED  BY <2>2, <3>1
  <2>. QED  BY <2>1, <2>2
<1>5. TypeOK'
  <2>1. socket' \in [Socket -> SocketState]
    BY <1>2, <1>3, <1>4
  <2>. QED  BY <2>1 DEF MapInv, TypeOK, Connect, Starts, Quiet
<1>6. Connected'
  <2>1. \A x \in Socket : clients[u] = x => socket[x].line # "new"
    BY NoneAssumption DEF MapInv, TypeOK, NewestIsReached, SocketOf
  <2>. QED  BY <2>1, <1>1, <1>3, <1>4 DEF MapInv, Connected
<1>7. NewestIsOwn' /\ NewestIsReached'
  <2>1. NewestIsOwn'
    <3>. SUFFICES ASSUME NEW v \in User, NEW x \in Socket, newest'[v] = x
                  PROVE  socket'[x].user = v /\ socket'[x].line # "new"
      BY DEF NewestIsOwn
    <3>1. CASE v = u
      BY <3>1, <1>1, <1>3 DEF MapInv, TypeOK
    <3>2. CASE v # u
      BY <3>2, <1>1, <1>4 DEF MapInv, TypeOK, NewestIsOwn
    <3>. QED  BY <3>1, <3>2
  <2>2. NewestIsReached'
    <3>. SUFFICES ASSUME NEW v \in User
                  PROVE  SocketOf(v)' = IF newest'[v] # None /\ socket'[newest'[v]].line = "open"
                                       THEN newest'[v] ELSE None
      BY DEF NewestIsReached, SocketOf
    <3>1. CASE v = u
      BY <3>1, <1>1, <1>3, NoneAssumption DEF MapInv, TypeOK, SocketOf
    <3>2. CASE v # u
      <4>1. newest[v] # s
        BY <1>1 DEF MapInv, NewestIsOwn
      <4>. QED  BY <3>2, <4>1, <1>1, <1>4 DEF MapInv, TypeOK, NewestIsReached, SocketOf
    <3>. QED  BY <3>1, <3>2
  <2>. QED  BY <2>1, <2>2
<1>8. UnmappedIsReplaced'
  <2>. SUFFICES ASSUME NEW x \in Socket, x # s, socket[x].line = "open",
                       clients'[socket[x].user] # x
                PROVE  socket'[x].replaced
    BY <1>1, <1>3, <1>4 DEF MapInv, TypeOK, UnmappedIsReplaced
  <2>1. CASE clients[socket[x].user] = x
    BY <2>1, <1>1, <1>4 DEF MapInv, TypeOK, Connected
  <2>2. CASE clients[socket[x].user] # x
    BY <2>2, <1>4 DEF MapInv, UnmappedIsReplaced
  <2>. QED  BY <2>1, <2>2
<1>9. NamesAreJoined' /\ CallsReachOpenSocket'
  <2>1. \A n \in Name : activeUsers[n] # s
    BY <1>1 DEF MapInv, Connected, NamesAreJoined
  <2>2. NamesAreJoined'
    BY <2>1, <1>1, <1>4 DEF MapInv, NamesAreJoined
  <2>3. CallsReachOpenSocket'
    BY <2>1, <1>1, <1>4 DEF MapInv, TypeOK, CallsReachOpenSocket, CalleeOf
  <2>. QED  BY <2>2, <2>3
<1>. QED  BY <1>5, <1>6, <1>7, <1>8, <1>9 DEF MapInv

LEMMA MapCloses ==
  ASSUME MapInv, NEW s \in Socket, NEW on \in {socket[s].on, "done"}, Closes(s, on)
  PROVE  MapInv'
<1>. DEFINE u == socket[s].user
<1>1. /\ socket[s].line = "open" /\ u \in User
      /\ socket \in [Socket -> SocketState]
      /\ UNCHANGED newest
  BY DEF Closes, MapInv, Connected, TypeOK
<1>2. CASE IsMapped(s)
  <2>1. /\ clients' = [clients EXCEPT ![u] = None]
        /\ ForgetName(s)
        /\ socket' = [socket EXCEPT ![s] =
               [@ EXCEPT !.line = "closed", !.on = on, !.off = "read"]]
    BY <1>2 DEF Closes
  <2>2. TypeOK'
    <3>1. activeUsers' \in [Name -> Socket \cup {None}]
      BY <2>1 DEF MapInv, TypeOK, ForgetName
    <3>2. socket' \in [Socket -> SocketState]
      BY <1>1, <2>1 DEF SocketState
    <3>3. steady' \in [User -> BOOLEAN]
      BY <1>2 DEF MapInv, TypeOK, Closes, Starts, Quiet
    <3>. QED  BY <1>1, <1>2, <2>1, <3>1, <3>2, <3>3 DEF MapInv, TypeOK, Closes
  <2>3. \A n \in Name : activeUsers'[n] # None => activeUsers'[n] = activeUsers[n]
    BY <2>1 DEF MapInv, TypeOK, ForgetName
  <2>4. \A n \in Name : activeUsers'[n] = s =>
            \E m \in Name : m # n /\ activeUsers[m] = s
    <3>1. CASE {n \in Name : activeUsers[n] = s} = {}
      BY <2>3, <3>1, NoneAssumption
    <3>2. CASE {n \in Name : activeUsers[n] = s} # {}
      <4>1. PICK m \in {n \in Name : activeUsers[n] = s} :
                activeUsers' = [activeUsers EXCEPT ![m] = None]
        BY <2>1, <3>2 DEF ForgetName
      <4>. QED  BY <4>1, NoneAssumption DEF MapInv, TypeOK
    <3>. QED  BY <3>1, <3>2
  <2>5. Connected'
    BY <1>1, <2>1 DEF MapInv, Connected, SocketState
  <2>6. NewestIsOwn' /\ NewestIsReached'
    BY <1>1, <1>2, <2>1, NoneAssumption
       DEF MapInv, TypeOK, NewestIsOwn, NewestIsReached, SocketOf, SocketState, IsMapped
  <2>7. UnmappedIsReplaced'
    BY <1>1, <1>2, <2>1, NoneAssumption
       DEF MapInv, TypeOK, Connected, UnmappedIsReplaced, SocketState, IsMapped
  <2>8. NamesAreJoined'
    BY <1>1, <2>1, <2>3, NoneAssumption DEF MapInv, TypeOK, NamesAreJoined, SocketState
  <2>9. CallsReachOpenSocket'
    BY <1>1, <2>1, <2>3, <2>4, NoneAssumption
       DEF MapInv, TypeOK, NamesAreJoined, CallsReachOpenSocket, CalleeOf, SocketState
  <2>. QED  BY <2>2, <2>5, <2>6, <2>7, <2>8, <2>9 DEF MapInv
<1>3. CASE ~IsMapped(s)
  <2>1. /\ socket' = [socket EXCEPT ![s] = [@ EXCEPT !.line = "closed", !.on = on]]
        /\ UNCHANGED <<exists, availability, shown, clients, activeUsers, newest, steady>>
    BY <1>3 DEF Closes
  <2>2. socket[s].replaced
    BY <1>1, <1>3 DEF MapInv, UnmappedIsReplaced, IsMapped
  <2>3. newest[u] # s
    BY <1>1, <1>3, NoneAssumption DEF MapInv, TypeOK, NewestIsReached, SocketOf, IsMapped
  <2>4. TypeOK'
    BY <1>1, <2>1 DEF MapInv, TypeOK, SocketState
  <2>5. Connected' /\ UnmappedIsReplaced'
    BY <1>1, <2>1 DEF MapInv, Connected, UnmappedIsReplaced, SocketState
  <2>6. NewestIsOwn' /\ NewestIsReached'
    BY <1>1, <2>1, <2>3 DEF MapInv, TypeOK, NewestIsOwn, NewestIsReached, SocketOf, SocketState
  <2>7. NamesAreJoined' /\ CallsReachOpenSocket'
    BY <1>1, <2>1, <2>2
       DEF MapInv, TypeOK, NamesAreJoined, CallsReachOpenSocket, CalleeOf, SocketState
  <2>. QED  BY <2>4, <2>5, <2>6, <2>7 DEF MapInv
<1>. QED  BY <1>2, <1>3

LEMMA MapStops ==
  ASSUME MapInv, Stops
  PROVE  MapInv'
<1>. /\ socket \in [Socket -> SocketState]
     /\ clients' = [u \in User |-> None]
     /\ activeUsers' = [n \in Name |-> None]
     /\ UNCHANGED newest
  BY DEF Stops, MapInv, TypeOK
<1>1. /\ socket' = [s \in Socket |-> socket'[s]]
      /\ \A s \in Socket :
             socket'[s] = IF socket[s].line = "new" THEN socket[s]
                          ELSE [socket[s] EXCEPT !.line = "closed", !.on = "done",
                                                 !.off = "done"]
  BY DEF Stops
<1>2. ASSUME NEW s \in Socket
      PROVE  /\ socket'[s] \in SocketState
             /\ socket[s].line = "new" => socket'[s] = socket[s]
             /\ socket[s].line # "new" => socket'[s].line = "closed"
             /\ socket'[s].user = socket[s].user
  <2>1. CASE socket[s].line = "new"
    <3>1. socket'[s] = socket[s] /\ socket[s] \in SocketState
      BY <2>1, <1>1
    <3>. QED  BY <2>1, <3>1
  <2>2. CASE socket[s].line # "new"
    <3>1. /\ socket'[s] = [socket[s] EXCEPT !.line = "closed", !.on = "done", !.off = "done"]
          /\ socket[s] \in SocketState
      BY <2>2, <1>1
    <3>. QED  BY <2>2, <3>1 DEF SocketState
  <2>. QED  BY <2>1, <2>2
<1>3. TypeOK'
  <2>1. socket' \in [Socket -> SocketState]
    BY <1>1, <1>2
  <2>. QED  BY <2>1 DEF MapInv, TypeOK, Stops, Quiet
<1>4. Connected'
  <2>. SUFFICES ASSUME NEW s \in Socket
                PROVE  /\ socket'[s].line = "new" =>
                              /\ socket'[s].user = None
                              /\ socket'[s].on = "idle"
                              /\ ~socket'[s].replaced
                              /\ socket'[s].joined = {}
                       /\ socket'[s].line # "new" => socket'[s].user \in User
                       /\ socket'[s].line # "closed" => socket'[s].off = "idle"
    BY DEF Connected
  <2>1. CASE socket[s].line = "new"
    BY <2>1, <1>2 DEF MapInv, Connected
  <2>2. CASE socket[s].line # "new"
    BY <2>2, <1>2 DEF MapInv, Connected
  <2>. QED  BY <2>1, <2>2
<1>5. NewestIsOwn' /\ NewestIsReached'
  <2>1. NewestIsOwn'
    BY <1>2 DEF MapInv, NewestIsOwn
  <2>2. ASSUME NEW u \in User, newest[u] # None PROVE socket'[newest[u]].line # "open"
    BY <2>2, <1>2 DEF MapInv, TypeOK, NewestIsOwn
  <2>. QED  BY <2>1, <2>2 DEF NewestIsReached, SocketOf
<1>6. UnmappedIsReplaced' /\ NamesAreJoined' /\ CallsReachOpenSocket'
  BY <1>2, NoneAssumption DEF UnmappedIsReplaced, NamesAreJoined, CallsReachOpenSocket, CalleeOf
<1>. QED  BY <1>3, <1>4, <1>5, <1>6 DEF MapInv

LEMMA MapJoin ==
  ASSUME MapInv, NEW s \in Socket, NEW n \in Name, Join(s, n)
  PROVE  MapInv'
<1>1. /\ socket \in [Socket -> SocketState] /\ socket[s].line = "open"
      /\ socket' = [socket EXCEPT ![s].joined = @ \cup {n}]
      /\ activeUsers' = [activeUsers EXCEPT ![n] = s]
      /\ UNCHANGED <<exists, availability, shown, clients, newest, steady>>
  BY DEF Join, MapInv, TypeOK
<1>2. TypeOK'
  <2>1. socket' \in [Socket -> SocketState]
    BY <1>1 DEF SocketState
  <2>. QED  BY <1>1, <2>1 DEF MapInv, TypeOK
<1>3. Connected' /\ UnmappedIsReplaced'
  BY <1>1 DEF MapInv, Connected, UnmappedIsReplaced, SocketState
<1>4. NewestIsOwn' /\ NewestIsReached'
  BY <1>1 DEF MapInv, TypeOK, NewestIsOwn, NewestIsReached, SocketOf, SocketState
<1>5. NamesAreJoined' /\ CallsReachOpenSocket'
  BY <1>1 DEF MapInv, TypeOK, NamesAreJoined, CallsReachOpenSocket, CalleeOf, SocketState
<1>. QED  BY <1>2, <1>3, <1>4, <1>5 DEF MapInv

LEMMA MapNext == MapInv /\ [Next]_vars => MapInv'
<1>. SUFFICES ASSUME MapInv, [Next]_vars PROVE MapInv'
  OBVIOUS
<1>1. ASSUME NEW s \in Socket, NEW u \in User, Connect(s, u) PROVE MapInv'
  BY <1>1, MapConnect
<1>2. ASSUME NEW s \in Socket,
             OnRead(s) \/ OnWrite(s) \/ OnSay(s) \/ OffRead(s) \/ OffWrite(s) \/ OffSay(s)
      PROVE  MapInv'
  <2>1. socket[s].line # "new" /\ socket[s].user \in User
    BY <1>2, HandlerIsConnected DEF OnRead, OnWrite, OnSay, OffRead, OffWrite, OffSay
  <2>2. socket[s].off # "idle" => socket[s].line = "closed"
    BY DEF MapInv, Connected
  <2>3. socket \in [Socket -> SocketState] /\ availability \in [User -> Status]
        /\ shown \in [User -> Status] /\ exists \subseteq User
    BY DEF MapInv, TypeOK
  <2>4. CASE OnRead(s)
    BY <2>1, <2>3, <2>4, MapHandler DEF OnRead, SocketState
  <2>5. CASE OnWrite(s)
    BY <2>1, <2>3, <2>5, MapHandler DEF OnWrite, SocketState, Status
  <2>6. CASE OnSay(s)
    BY <2>1, <2>3, <2>6, MapHandler DEF OnSay, SocketState, Status
  <2>7. CASE OffRead(s)
    BY <2>1, <2>2, <2>3, <2>7, MapHandler DEF OffRead, SocketState
  <2>8. CASE OffWrite(s)
    BY <2>1, <2>2, <2>3, <2>8, MapHandler DEF OffWrite, SocketState, Status
  <2>9. CASE OffSay(s)
    BY <2>1, <2>2, <2>3, <2>9, MapHandler DEF OffSay, SocketState, Status
  <2>. QED  BY <1>2, <2>4, <2>5, <2>6, <2>7, <2>8, <2>9
<1>3. ASSUME NEW s \in Socket, OnFail(s) PROVE MapInv'
  <2>1. CASE socket[s].line = "open"
    BY <1>3, <2>1, MapCloses DEF OnFail
  <2>2. CASE socket[s].line # "open"
    <3>1. socket[s].line # "new" /\ socket \in [Socket -> SocketState]
      BY <1>3, HandlerIsConnected DEF OnFail, MapInv, TypeOK
    <3>2. /\ socket' = [socket EXCEPT ![s].on = "done"]
          /\ UNCHANGED <<exists, availability, shown, clients, activeUsers, newest, steady>>
      BY <1>3, <2>2 DEF OnFail
    <3>. QED  BY <3>1, <3>2, MapHandler DEF MapInv, TypeOK, SocketState
  <2>. QED  BY <2>1, <2>2
<1>4. ASSUME NEW s \in Socket, Disconnect(s) PROVE MapInv'
  BY <1>4, MapCloses DEF Disconnect
<1>5. ASSUME Stops PROVE MapInv'
  BY <1>5, MapStops
<1>6. ASSUME NEW s \in Socket, NEW n \in Name, Join(s, n) PROVE MapInv'
  BY <1>6, MapJoin
<1>7. ASSUME NEW u \in User, RemoveUser(u) PROVE MapInv'
  BY <1>7 DEF RemoveUser, MapInv, TypeOK, Connected, NewestIsOwn, NewestIsReached, SocketOf,
     UnmappedIsReplaced, NamesAreJoined, CallsReachOpenSocket, CalleeOf
<1>8. ASSUME UNCHANGED vars PROVE MapInv'
  BY <1>8 DEF vars, MapInv, TypeOK, Connected, NewestIsOwn, NewestIsReached, SocketOf,
     UnmappedIsReplaced, NamesAreJoined, CallsReachOpenSocket, CalleeOf
<1>. QED  BY <1>1, <1>2, <1>3, <1>4, <1>5, <1>6, <1>7, <1>8 DEF Next, OffFail, Restart

THEOREM MapInvariant == Spec => []MapInv
  BY MapInit, MapNext, PTL DEF Spec

\* The variables keep their types.
THEOREM TypeCorrect == Spec => []TypeOK
  BY MapInvariant, PTL DEF MapInv

\* A user is reached at the last socket that connected, while it is open.
THEOREM NewestReached == Spec => []NewestIsReached
  BY MapInvariant, PTL DEF MapInv

\* A call goes to an open socket, but for the two exceptions.
THEOREM CallsReached == Spec => []CallsReachOpenSocket
  BY MapInvariant, PTL DEF MapInv

(***************************************************************************)
(* The column and the map                                                  *)
(***************************************************************************)

Works(s, u) ==
    socket[s].user = u /\ (Busy(socket[s].on) \/ Busy(socket[s].off))

\* While u is steady one handler at most is under way, it belongs to the socket
\* in the map or found none there after its own, and past its UPDATE the column
\* has what it wrote.
AgreeOf(u) ==
    steady[u] =>
        /\ \A s, t \in Socket : Works(s, u) /\ Works(t, u) => s = t
        /\ \A s \in Socket : socket[s].user = u /\ Busy(socket[s].on) =>
               /\ clients[u] = s
               /\ ~Busy(socket[s].off)
               /\ socket[s].on = "say" /\ u \in exists => availability[u] = "online"
        /\ \A s \in Socket : socket[s].user = u /\ Busy(socket[s].off) =>
               /\ clients[u] = None
               /\ socket[s].off = "say" /\ u \in exists => availability[u] = "offline"
        /\ u \in exists /\ Quiet(u, Socket) =>
               /\ availability[u] = "online" <=> clients[u] # None
               /\ shown[u] = availability[u]

AgreeInv == \A u \in User : AgreeOf(u)

LEMMA AgreeInit == Init => AgreeInv
  BY NoneAssumption DEF Init, AgreeInv, AgreeOf, Works, Quiet, Busy

\* What a step leaves alone of u keeps u's part of the invariant.
LEMMA AgreeFrame ==
  ASSUME NEW u \in User, AgreeOf(u),
         u \in exists' => u \in exists,
         clients'[u] = clients[u], availability'[u] = availability[u],
         shown'[u] = shown[u], steady'[u] = steady[u],
         \A x \in Socket :
             /\ socket'[x].user = u <=> socket[x].user = u
             /\ socket[x].user = u =>
                    /\ \/ socket'[x].on = socket[x].on
                       \/ ~Busy(socket'[x].on) /\ ~Busy(socket[x].on)
                    /\ socket'[x].off = socket[x].off
  PROVE  AgreeOf(u)'
<1>1. \A x \in Socket : Works(x, u)' <=> Works(x, u)
  BY DEF Works, Busy
<1>2. Quiet(u, Socket)' <=> Quiet(u, Socket)
  BY DEF Quiet, Busy
<1>. QED  BY <1>1, <1>2 DEF AgreeOf, Busy

LEMMA AgreeConnect ==
  ASSUME MapInv, AgreeInv, NEW s \in Socket, NEW v \in User, Connect(s, v)
  PROVE  AgreeInv'
<1>. SUFFICES ASSUME NEW u \in User PROVE AgreeOf(u)'
  BY DEF AgreeInv
<1>1. /\ socket[s].line = "new" /\ socket[s].user = None /\ socket[s].off = "idle"
      /\ socket \in [Socket -> SocketState]
      /\ clients' = [clients EXCEPT ![v] = s]
      /\ UNCHANGED <<exists, availability, shown>>
      /\ steady' = [steady EXCEPT ![v] = Quiet(v, Socket)]
  BY DEF Connect, Starts, MapInv, TypeOK, Connected
<1>2. socket'[s] = [socket[s] EXCEPT !.line = "open", !.user = v, !.on = "read"]
  BY DEF Connect
<1>3. ASSUME NEW x \in Socket, x # s
      PROVE  /\ socket'[x].user = socket[x].user
             /\ socket'[x].on = socket[x].on /\ socket'[x].off = socket[x].off
  <2>1. CASE x = clients[v]
    <3>1. socket'[x] = [socket[x] EXCEPT !.replaced = TRUE] /\ socket[x] \in SocketState
      BY <2>1, <1>1, <1>3 DEF Connect
    <3>. QED  BY <3>1 DEF SocketState
  <2>2. CASE x # clients[v]
    BY <2>2, <1>3 DEF Connect
  <2>. QED  BY <2>1, <2>2
<1>4. socket'[s].user = v /\ socket'[s].on = "read" /\ socket'[s].off = "idle"
  BY <1>1, <1>2 DEF SocketState
<1>5. CASE u = v
  <2>1. steady'[u] => Quiet(u, Socket)
    BY <1>1, <1>5 DEF MapInv, TypeOK
  <2>2. clients'[u] = s
    BY <1>1, <1>5 DEF MapInv, TypeOK
  <2>3. Quiet(u, Socket) => \A x \in Socket : Works(x, u)' => x = s
    BY <1>3 DEF Quiet, Works, Busy
  <2>4. ~Quiet(u, Socket)'
    BY <1>4, <1>5 DEF Quiet, Busy
  <2>5. \A x \in Socket : socket'[x].user = u
            /\ (Busy(socket'[x].on) \/ Busy(socket'[x].off)) => Works(x, u)'
    BY DEF Works, Busy
  <2>. QED  BY <2>1, <2>2, <2>3, <2>4, <2>5, <1>4 DEF AgreeOf, Busy
<1>6. CASE u # v
  BY <1>6, <1>1, <1>3, <1>4, NoneAssumption, AgreeFrame DEF AgreeInv, MapInv, TypeOK
<1>. QED  BY <1>5, <1>6

\* A socket whose connection handler is under way while its user is steady is in
\* the map and open.
LEMMA SteadyIsMapped ==
  ASSUME MapInv, AgreeInv, NEW s \in Socket, socket[s].user \in User,
         steady[socket[s].user], Busy(socket[s].on)
  PROVE  IsMapped(s) /\ socket[s].line = "open"
<1>1. clients[socket[s].user] = s
  BY DEF AgreeInv, AgreeOf
<1>. QED  BY <1>1, NoneAssumption DEF IsMapped, MapInv, TypeOK, NewestIsReached, SocketOf

LEMMA AgreeCloses ==
  ASSUME MapInv, AgreeInv, NEW s \in Socket, NEW on \in {socket[s].on, "done"},
         Closes(s, on)
  PROVE  AgreeInv'
<1>. DEFINE v == socket[s].user
<1>. SUFFICES ASSUME NEW u \in User PROVE AgreeOf(u)'
  BY DEF AgreeInv
<1>1. /\ socket[s].line = "open" /\ v \in User /\ socket[s].off = "idle"
      /\ socket \in [Socket -> SocketState]
      /\ UNCHANGED <<exists, availability, shown>>
  BY DEF Closes, MapInv, Connected, TypeOK
<1>2. CASE IsMapped(s)
  <2>1. /\ clients' = [clients EXCEPT ![v] = None]
        /\ socket' = [socket EXCEPT ![s] =
               [@ EXCEPT !.line = "closed", !.on = on, !.off = "read"]]
        /\ steady' = [steady EXCEPT ![v] =
               Quiet(v, IF Busy(on) THEN Socket ELSE Socket \ {s})]
    BY <1>2 DEF Closes, Starts
  <2>2. /\ socket'[s].user = v /\ socket'[s].on = on /\ socket'[s].off = "read"
        /\ \A x \in Socket : x # s => socket'[x] = socket[x]
    BY <1>1, <2>1 DEF SocketState
  <2>3. CASE u = v
    <3>1. CASE Busy(on)
      <4>1. ~Quiet(v, Socket)
        BY <3>1 DEF Quiet, Busy
      <4>2. ~steady'[u]
        BY <4>1, <3>1, <2>1, <2>3 DEF MapInv, TypeOK
      <4>. QED  BY <4>2 DEF AgreeOf
    <3>2. CASE ~Busy(on)
      <4>1. steady'[u] => Quiet(u, Socket \ {s})
        BY <3>2, <2>1, <2>3 DEF MapInv, TypeOK
      <4>2. clients'[u] = None
        BY <1>1, <2>1, <2>3 DEF MapInv, TypeOK
      <4>3. Quiet(u, Socket \ {s}) => \A x \in Socket : Works(x, u)' => x = s
        BY <2>2 DEF Quiet, Works, Busy
      <4>4. ~Quiet(u, Socket)'
        BY <2>2, <2>3 DEF Quiet, Busy
      <4>5. \A x \in Socket : socket'[x].user = u
                /\ (Busy(socket'[x].on) \/ Busy(socket'[x].off)) => Works(x, u)'
        BY DEF Works, Busy
      <4>. QED  BY <4>1, <4>2, <4>3, <4>4, <4>5, <3>2, <2>2 DEF AgreeOf, Busy
    <3>. QED  BY <3>1, <3>2
  <2>4. CASE u # v
    BY <2>4, <2>1, <2>2, <1>1, AgreeFrame DEF AgreeInv, MapInv, TypeOK
  <2>. QED  BY <2>3, <2>4
<1>3. CASE ~IsMapped(s)
  <2>1. /\ socket' = [socket EXCEPT ![s] = [@ EXCEPT !.line = "closed", !.on = on]]
        /\ UNCHANGED <<clients, steady>>
    BY <1>3 DEF Closes
  <2>2. /\ socket'[s].user = v /\ socket'[s].on = on /\ socket'[s].off = socket[s].off
        /\ \A x \in Socket : x # s => socket'[x] = socket[x]
    BY <1>1, <2>1 DEF SocketState
  <2>3. CASE u = v /\ steady[u]
    <3>1. ~Busy(socket[s].on)
      BY <2>3, <1>1, <1>3, SteadyIsMapped
    <3>2. ~Busy(on)
      BY <3>1 DEF Busy
    <3>. QED  BY <3>1, <3>2, <2>1, <2>2, <1>1, AgreeFrame DEF AgreeInv
  <2>4. CASE u = v /\ ~steady[u]
    BY <2>4, <2>1 DEF AgreeOf
  <2>5. CASE u # v
    BY <2>5, <2>1, <2>2, <1>1, AgreeFrame DEF AgreeInv
  <2>. QED  BY <2>3, <2>4, <2>5
<1>. QED  BY <1>2, <1>3

\* A step of s's handlers keeps the part of every other user.
LEMMA AgreeOthers ==
  ASSUME MapInv, AgreeInv, NEW s \in Socket, socket[s].user \in User,
         NEW u \in User, u # socket[s].user,
         \A x \in Socket : x # s => socket'[x] = socket[x],
         socket'[s].user = socket[s].user,
         availability' = availability \/ \E a : availability' = [availability EXCEPT ![socket[s].user] = a],
         shown' = shown \/ \E a : shown' = [shown EXCEPT ![socket[s].user] = a],
         UNCHANGED <<exists, clients, steady>>
  PROVE  AgreeOf(u)'
  BY AgreeFrame DEF AgreeInv, MapInv, TypeOK

\* A step of the handler of s that is under way, its user u being steady.
LEMMA AgreeSteady ==
  ASSUME MapInv, AgreeInv, NEW s \in Socket, NEW u \in User, socket[s].user = u,
         steady[u], Works(s, u),
         \A x \in Socket : x # s => socket'[x] = socket[x],
         socket'[s].user = u
  PROVE  /\ \A x \in Socket : Works(x, u)' => x = s
         /\ \A x \in Socket : socket'[x].user = u
                /\ (Busy(socket'[x].on) \/ Busy(socket'[x].off)) => x = s
         /\ Quiet(u, Socket)' <=> ~Works(s, u)'
<1>1. \A x \in Socket : Works(x, u) => x = s
  BY DEF AgreeInv, AgreeOf
<1>2. \A x \in Socket : Works(x, u)' => x = s
  BY <1>1 DEF Works, Busy
<1>3. \A x \in Socket : socket'[x].user = u
          /\ (Busy(socket'[x].on) \/ Busy(socket'[x].off)) <=> Works(x, u)'
  BY DEF Works, Busy
<1>4. Quiet(u, Socket)' <=> \A x \in Socket : ~Works(x, u)'
  BY DEF Quiet, Works, Busy
<1>. QED  BY <1>2, <1>3, <1>4

LEMMA AgreeOn ==
  ASSUME MapInv, AgreeInv, NEW s \in Socket, OnRead(s) \/ OnWrite(s) \/ OnSay(s)
  PROVE  AgreeInv'
<1>. DEFINE v == socket[s].user
<1>1. v \in User /\ socket[s].line # "new" /\ socket \in [Socket -> SocketState]
  BY HandlerIsConnected DEF MapInv, TypeOK, OnRead, OnWrite, OnSay
<1>. DEFINE on == IF socket[s].on = "read" /\ v \in exists THEN "write"
                  ELSE IF socket[s].on = "say" THEN "done" ELSE "say"
<1>2. /\ socket' = [socket EXCEPT ![s].on = on]
      /\ OnRead(s) => on = "write" \/ (on = "say" /\ v \notin exists)
      /\ OnWrite(s) => on = "say"
      /\ OnSay(s) => on = "done"
      /\ on \in {"write", "say", "done"}
  <2>1. CASE OnRead(s)
    <3>1. on = IF v \in exists THEN "write" ELSE "say"
      BY <2>1 DEF OnRead
    <3>2. socket' = [socket EXCEPT ![s].on = on]
      BY <2>1, <3>1 DEF OnRead
    <3>. QED  BY <2>1, <3>1, <3>2 DEF OnRead, OnWrite, OnSay
  <2>2. CASE OnWrite(s)
    BY <2>2 DEF OnRead, OnWrite, OnSay
  <2>3. CASE OnSay(s)
    BY <2>3 DEF OnRead, OnWrite, OnSay
  <2>. QED  BY <2>1, <2>2, <2>3
<1>. HIDE DEF on
<1>3. /\ socket'[s].user = v /\ socket'[s].on = on /\ socket'[s].off = socket[s].off
      /\ \A x \in Socket : x # s => socket'[x] = socket[x]
  BY <1>1, <1>2 DEF SocketState
<1>4. UNCHANGED <<exists, clients, steady>> /\ Busy(socket[s].on)
  BY DEF OnRead, OnWrite, OnSay, Busy
<1>5. ASSUME NEW u \in User, u # v PROVE AgreeOf(u)'
  BY <1>1, <1>3, <1>4, <1>5, AgreeOthers DEF OnRead, OnWrite, OnSay
<1>6. ASSUME NEW u \in User, u = v, steady[u] PROVE AgreeOf(u)'
  <2>1. /\ clients[u] = s /\ ~Busy(socket[s].off)
        /\ socket[s].on = "say" /\ u \in exists => availability[u] = "online"
    BY <1>1, <1>4, <1>6 DEF AgreeInv, AgreeOf
  <2>2. /\ \A x \in Socket : Works(x, u)' => x = s
        /\ \A x \in Socket : socket'[x].user = u
               /\ (Busy(socket'[x].on) \/ Busy(socket'[x].off)) => x = s
        /\ Quiet(u, Socket)' <=> ~Works(s, u)'
    BY <1>1, <1>3, <1>4, <1>6, AgreeSteady DEF Works
  <2>3. Works(s, u)' <=> on # "done"
    BY <1>2, <1>3, <1>6, <2>1 DEF Works, Busy
  <2>4. on = "say" /\ u \in exists => availability'[u] = "online"
    BY <1>1, <1>2, <1>6 DEF OnRead, OnWrite, OnSay, MapInv, TypeOK
  <2>5. on = "done" /\ u \in exists => availability'[u] = "online" /\ shown'[u] = "online"
    BY <1>1, <1>2, <1>6, <2>1 DEF OnRead, OnWrite, OnSay, MapInv, TypeOK
  <2>6. clients'[u] = s /\ s # None /\ exists' = exists
    BY <1>4, <2>1, NoneAssumption
  <2>7. ~Busy(socket'[s].off)
    BY <1>3, <2>1
  <2>. QED  BY <1>3, <2>2, <2>3, <2>4, <2>5, <2>6, <2>7 DEF AgreeOf
<1>7. ASSUME NEW u \in User, u = v, ~steady[u] PROVE AgreeOf(u)'
  BY <1>4, <1>7 DEF AgreeOf
<1>. QED  BY <1>1, <1>5, <1>6, <1>7 DEF AgreeInv

LEMMA AgreeOff ==
  ASSUME MapInv, AgreeInv, NEW s \in Socket, OffRead(s) \/ OffWrite(s) \/ OffSay(s)
  PROVE  AgreeInv'
<1>. DEFINE v == socket[s].user
<1>1. v \in User /\ socket[s].line # "new" /\ socket \in [Socket -> SocketState]
  BY HandlerIsConnected DEF MapInv, TypeOK, OffRead, OffWrite, OffSay
<1>. DEFINE off == IF socket[s].off = "read" /\ v \in exists THEN "write"
                  ELSE IF socket[s].off = "say" THEN "done" ELSE "say"
<1>2. /\ socket' = [socket EXCEPT ![s].off = off]
      /\ OffRead(s) => off = "write" \/ (off = "say" /\ v \notin exists)
      /\ OffWrite(s) => off = "say"
      /\ OffSay(s) => off = "done"
      /\ off \in {"write", "say", "done"}
  <2>1. CASE OffRead(s)
    <3>1. off = IF v \in exists THEN "write" ELSE "say"
      BY <2>1 DEF OffRead
    <3>2. socket' = [socket EXCEPT ![s].off = off]
      BY <2>1, <3>1 DEF OffRead
    <3>. QED  BY <2>1, <3>1, <3>2 DEF OffRead, OffWrite, OffSay
  <2>2. CASE OffWrite(s)
    BY <2>2 DEF OffRead, OffWrite, OffSay
  <2>3. CASE OffSay(s)
    BY <2>3 DEF OffRead, OffWrite, OffSay
  <2>. QED  BY <2>1, <2>2, <2>3
<1>. HIDE DEF off
<1>3. /\ socket'[s].user = v /\ socket'[s].off = off /\ socket'[s].on = socket[s].on
      /\ \A x \in Socket : x # s => socket'[x] = socket[x]
  BY <1>1, <1>2 DEF SocketState
<1>4. UNCHANGED <<exists, clients, steady>> /\ Busy(socket[s].off)
  BY DEF OffRead, OffWrite, OffSay, Busy
<1>5. ASSUME NEW u \in User, u # v PROVE AgreeOf(u)'
  BY <1>1, <1>3, <1>4, <1>5, AgreeOthers DEF OffRead, OffWrite, OffSay
<1>6. ASSUME NEW u \in User, u = v, steady[u] PROVE AgreeOf(u)'
  <2>1. /\ clients[u] = None /\ ~Busy(socket[s].on)
        /\ socket[s].off = "say" /\ u \in exists => availability[u] = "offline"
    BY <1>1, <1>4, <1>6 DEF AgreeInv, AgreeOf
  <2>2. /\ \A x \in Socket : Works(x, u)' => x = s
        /\ \A x \in Socket : socket'[x].user = u
               /\ (Busy(socket'[x].on) \/ Busy(socket'[x].off)) => x = s
        /\ Quiet(u, Socket)' <=> ~Works(s, u)'
    BY <1>1, <1>3, <1>4, <1>6, AgreeSteady DEF Works
  <2>3. Works(s, u)' <=> off # "done"
    BY <1>2, <1>3, <1>6, <2>1 DEF Works, Busy
  <2>4. off = "say" /\ u \in exists => availability'[u] = "offline"
    BY <1>1, <1>2, <1>6 DEF OffRead, OffWrite, OffSay, MapInv, TypeOK
  <2>5. off = "done" /\ u \in exists => availability'[u] = "offline" /\ shown'[u] = "offline"
    BY <1>1, <1>2, <1>6, <2>1 DEF OffRead, OffWrite, OffSay, MapInv, TypeOK
  <2>6. clients'[u] = None /\ exists' = exists
    BY <1>4, <2>1
  <2>7. ~Busy(socket'[s].on)
    BY <1>3, <2>1
  <2>. QED  BY <1>3, <2>2, <2>3, <2>4, <2>5, <2>6, <2>7 DEF AgreeOf
<1>7. ASSUME NEW u \in User, u = v, ~steady[u] PROVE AgreeOf(u)'
  BY <1>4, <1>7 DEF AgreeOf
<1>. QED  BY <1>1, <1>5, <1>6, <1>7 DEF AgreeInv

LEMMA AgreeFail ==
  ASSUME MapInv, AgreeInv, NEW s \in Socket, OnFail(s)
  PROVE  AgreeInv'
<1>. DEFINE v == socket[s].user
<1>1. v \in User /\ socket \in [Socket -> SocketState] /\ Busy(socket[s].on)
  BY HandlerIsConnected DEF MapInv, TypeOK, OnFail, Busy
<1>2. CASE socket[s].line = "open"
  BY <1>2, AgreeCloses DEF OnFail
<1>3. CASE socket[s].line # "open"
  <2>1. /\ socket' = [socket EXCEPT ![s].on = "done"]
        /\ UNCHANGED <<exists, availability, shown, clients, steady>>
    BY <1>3 DEF OnFail
  <2>2. /\ socket'[s].user = v
        /\ \A x \in Socket : x # s => socket'[x] = socket[x]
    BY <1>1, <2>1 DEF SocketState
  <2>3. ~steady[v]
    BY <1>1, <1>3, SteadyIsMapped
  <2>4. ASSUME NEW u \in User, u = v PROVE AgreeOf(u)'
    BY <2>1, <2>3, <2>4 DEF AgreeOf
  <2>5. ASSUME NEW u \in User, u # v PROVE AgreeOf(u)'
    BY <1>1, <2>1, <2>2, <2>5, AgreeOthers
  <2>. QED  BY <2>4, <2>5 DEF AgreeInv
<1>. QED  BY <1>2, <1>3

LEMMA AgreeStops ==
  ASSUME MapInv, AgreeInv, Stops
  PROVE  AgreeInv'
<1>. SUFFICES ASSUME NEW u \in User, steady'[u] PROVE AgreeOf(u)'
  BY DEF AgreeInv, AgreeOf
<1>1. /\ steady[u] /\ clients[u] = None /\ Quiet(u, Socket)
      /\ clients'[u] = None
      /\ UNCHANGED <<exists, availability, shown>>
  BY DEF Stops
<1>2. \A s \in Socket : ~Busy(socket'[s].on) /\ ~Busy(socket'[s].off)
  <2>. SUFFICES ASSUME NEW s \in Socket
                PROVE  ~Busy(socket'[s].on) /\ ~Busy(socket'[s].off)
    OBVIOUS
  <2>1. CASE socket[s].line = "new"
    BY <2>1 DEF Stops, MapInv, Connected, Busy
  <2>2. CASE socket[s].line # "new"
    <3>1. /\ socket'[s] = [socket[s] EXCEPT !.line = "closed", !.on = "done", !.off = "done"]
          /\ socket[s] \in SocketState
      BY <2>2 DEF Stops, MapInv, TypeOK
    <3>. QED  BY <3>1 DEF SocketState, Busy
  <2>. QED  BY <2>1, <2>2
<1>3. u \in exists' => /\ availability'[u] = "online" <=> clients'[u] # None
                       /\ shown'[u] = availability'[u]
  BY <1>1 DEF AgreeInv, AgreeOf
<1>4. \A s \in Socket : ~Works(s, u)'
  BY <1>2 DEF Works, Busy
<1>5. \A s, t \in Socket : Works(s, u)' /\ Works(t, u)' => s = t
  BY <1>4
<1>6. (\A s \in Socket : socket[s].user = u /\ Busy(socket[s].on) =>
           /\ clients[u] = s
           /\ ~Busy(socket[s].off)
           /\ socket[s].on = "say" /\ u \in exists => availability[u] = "online")'
  BY <1>2 DEF Busy
<1>7. (\A s \in Socket : socket[s].user = u /\ Busy(socket[s].off) =>
           /\ clients[u] = None
           /\ socket[s].off = "say" /\ u \in exists => availability[u] = "offline")'
  BY <1>2 DEF Busy
<1>8. (u \in exists /\ Quiet(u, Socket) =>
           /\ availability[u] = "online" <=> clients[u] # None
           /\ shown[u] = availability[u])'
  BY <1>3
<1>. QED  BY <1>5, <1>6, <1>7, <1>8 DEF AgreeOf

LEMMA AgreeNext == MapInv /\ AgreeInv /\ [Next]_vars => AgreeInv'
<1>. SUFFICES ASSUME MapInv, AgreeInv, [Next]_vars PROVE AgreeInv'
  OBVIOUS
<1>1. ASSUME NEW s \in Socket, NEW u \in User, Connect(s, u) PROVE AgreeInv'
  BY <1>1, AgreeConnect
<1>2. ASSUME NEW s \in Socket, OnRead(s) \/ OnWrite(s) \/ OnSay(s) PROVE AgreeInv'
  BY <1>2, AgreeOn
<1>3. ASSUME NEW s \in Socket, OffRead(s) \/ OffWrite(s) \/ OffSay(s) PROVE AgreeInv'
  BY <1>3, AgreeOff
<1>4. ASSUME NEW s \in Socket, OnFail(s) PROVE AgreeInv'
  BY <1>4, AgreeFail
<1>5. ASSUME NEW s \in Socket, Disconnect(s) PROVE AgreeInv'
  BY <1>5, AgreeCloses DEF Disconnect
<1>6. ASSUME Stops PROVE AgreeInv'
  BY <1>6, AgreeStops
<1>7. ASSUME NEW s \in Socket, NEW n \in Name, Join(s, n) PROVE AgreeInv'
  <2>1. \A x \in Socket : /\ socket'[x].user = socket[x].user
                           /\ socket'[x].on = socket[x].on
                           /\ socket'[x].off = socket[x].off
    BY <1>7 DEF Join, MapInv, TypeOK, SocketState
  <2>. QED  BY <1>7, <2>1, AgreeFrame DEF Join, AgreeInv
<1>8. ASSUME NEW u \in User, RemoveUser(u) PROVE AgreeInv'
  BY <1>8, AgreeFrame DEF RemoveUser, AgreeInv
<1>9. ASSUME UNCHANGED vars PROVE AgreeInv'
  BY <1>9, AgreeFrame DEF vars, AgreeInv
<1>. QED  BY <1>1, <1>2, <1>3, <1>4, <1>5, <1>6, <1>7, <1>8, <1>9 DEF Next, OffFail, Restart

\* The column and what is shown agree with the map wherever no handlers
\* overlapped and no process stopped on a connected user.
THEOREM PresenceKept == Spec => []PresenceAgrees
<1>1. MapInv /\ AgreeInv => PresenceAgrees
  <2>. SUFFICES ASSUME MapInv, AgreeInv,
                       NEW u \in exists, steady[u], Quiet(u, Socket)
                PROVE  /\ availability[u] = "online" <=> clients[u] # None
                       /\ shown[u] = availability[u]
    BY DEF PresenceAgrees
  <2>1. u \in User
    BY DEF MapInv, TypeOK
  <2>. QED  BY <2>1 DEF AgreeInv, AgreeOf
<1>. QED  BY <1>1, MapInit, MapNext, AgreeInit, AgreeNext, PTL DEF Spec

=============================================================================
