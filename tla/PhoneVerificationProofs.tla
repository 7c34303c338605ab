----------------------- MODULE PhoneVerificationProofs -----------------------
(* The resend slot and the verified number, for any accounts and requests. *)
EXTENDS PhoneVerification, TLAPS

\* What a request that is under way has read.
Locals ==
    /\ \A g \in Register : register[g].pc # "idle" => register[g].phone \in Phone
    /\ \A r \in Resend :
          resend[r].pc # "idle" =>
              /\ resend[r].user \in User /\ users[resend[r].user] # None
              /\ resend[r].at \in Time
    /\ \A v \in Check :
          /\ check[v].pc # "idle" => check[v].user \in User /\ check[v].phone \in Phone
          /\ check[v].moved => check[v].pc = "verified"
    /\ \A w \in Update :
          /\ update[w].pc # "idle" => update[w].user \in User /\ update[w].phone \in Phone
          /\ update[w].moved => update[w].pc = "saved"

Typed == TypeOK /\ Locals

LEMMA RowsDiffer == None \notin UserRow /\ Gone \notin UserRow /\ None # Gone
BY NoneAssumption, RowAssumption

------------------------------------------------------------------------------

\* Every variable keeps its type, and a request has read what it is about to use.
THEOREM TypedInvariant == Spec => []Typed
<1>1. Init => Typed
  <2> SUFFICES ASSUME Init PROVE Typed
    OBVIOUS
  <2>1. \A p \in Phone : NewRow(p) \in UserRow
    BY DEF NewRow, UserRow
  <2>2. TypeOK
    BY <2>1, TimeAssumption, NoneAssumption
       DEF Init, TypeOK, Time, NoTime, RegisterState, ResendState, CheckState, UpdateState
  <2>3. Locals
    BY DEF Init, Locals
  <2>4. QED BY <2>2, <2>3 DEF Typed
<1>2. Typed /\ [Next]_vars => Typed'
  <2> SUFFICES ASSUME Typed, [Next]_vars PROVE Typed'
    OBVIOUS
  <2> USE DEF Typed
  <2>0. /\ \A u \in User : users[u] \in UserRow \cup {None, Gone}
        /\ \A u \in User : Exists(u) => users[u] \in UserRow
        /\ \A g \in Register : register[g] \in RegisterState
        /\ \A r \in Resend : resend[r] \in ResendState
        /\ \A v \in Check : check[v] \in CheckState
        /\ \A w \in Update : update[w] \in UpdateState
        /\ \A p \in Phone : NewRow(p) \in UserRow
        /\ now \in Time
    BY DEF TypeOK, Exists, NewRow, UserRow
  <2>1. ASSUME NEW g \in Register, RegisterNext(g) PROVE Typed'
    <3>1. PICK s \in RegisterState :
            /\ register' = [register EXCEPT ![g] = s]
            /\ s.pc # "idle" /\ s.phone \in Phone
      <4>1. ASSUME NEW p \in Phone, RegisterLookup(g, p)
            PROVE  \E c \in {"conflict", "create"} :
                      register' = [register EXCEPT ![g] =
                          [register[g] EXCEPT !.pc = c, !.phone = p]]
        BY <4>1 DEF RegisterLookup
      <4>2. ASSUME RegisterCreate(g)
            PROVE  /\ register[g].pc # "idle"
                   /\ \E c \in {"send", "conflict"}, u \in User \cup {register[g].user} :
                      register' = [register EXCEPT ![g] =
                          [register[g] EXCEPT !.pc = c, !.user = u]]
        <5>1. CASE ~Taken(register[g].phone)
          BY <4>2, <5>1 DEF RegisterCreate
        <5>2. CASE Taken(register[g].phone)
          <6>1. register' = [register EXCEPT ![g] = [register[g] EXCEPT !.pc = "conflict"]]
            BY <4>2, <5>2 DEF RegisterCreate
          <6>2. [register[g] EXCEPT !.pc = "conflict"]
                   = [register[g] EXCEPT !.pc = "conflict", !.user = register[g].user]
            BY <2>0 DEF RegisterState
          <6>3. QED BY <4>2, <6>1, <6>2 DEF RegisterCreate
        <5>3. QED BY <5>1, <5>2
      <4>3. ASSUME RegisterSend(g)
            PROVE  /\ register[g].pc # "idle"
                   /\ \E c \in {"sent", "unsent"} :
                      register' = [register EXCEPT ![g] = [register[g] EXCEPT !.pc = c]]
        BY <4>3 DEF RegisterSend
      <4>4. CASE \E p \in Phone : RegisterLookup(g, p)
        <5>1. PICK p \in Phone, c \in {"conflict", "create"} :
                 register' = [register EXCEPT ![g] = [register[g] EXCEPT !.pc = c, !.phone = p]]
          BY <4>1, <4>4
        <5>2. [register[g] EXCEPT !.pc = c, !.phone = p] \in RegisterState
          BY <2>0 DEF RegisterState
        <5>3. QED BY <2>0, <5>1, <5>2 DEF RegisterState
      <4>5. CASE RegisterCreate(g)
        <5>1. PICK c \in {"send", "conflict"}, u \in User \cup {register[g].user} :
                 register' = [register EXCEPT ![g] =
                     [register[g] EXCEPT !.pc = c, !.user = u]]
          BY <4>2, <4>5
        <5>2. [register[g] EXCEPT !.pc = c, !.user = u] \in RegisterState
          BY <2>0 DEF RegisterState
        <5>3. register[g].phone \in Phone
          BY <4>2, <4>5 DEF Locals
        <5>4. QED BY <2>0, <5>1, <5>2, <5>3 DEF RegisterState
      <4>6. CASE RegisterSend(g)
        BY <2>0, <4>3, <4>6 DEF RegisterState, Locals
      <4>7. QED BY <2>1, <4>4, <4>5, <4>6 DEF RegisterNext
    <3>2. /\ users' \in [User -> UserRow \cup {None, Gone}]
          /\ \A u \in User : users[u] # None => users'[u] = users[u]
      <4>1. CASE \E p \in Phone : RegisterLookup(g, p)
        BY <4>1 DEF RegisterLookup, TypeOK
      <4>2. CASE RegisterCreate(g)
        <5>1. register[g].phone \in Phone
          BY <4>2 DEF RegisterCreate, Locals
        <5>2. QED BY <2>0, <4>2, <5>1 DEF RegisterCreate, TypeOK
      <4>3. CASE RegisterSend(g)
        BY <4>3 DEF RegisterSend, TypeOK
      <4>4. QED BY <2>1, <4>1, <4>2, <4>3 DEF RegisterNext
    <3>3. UNCHANGED <<now, cleared, resend, check, update>>
      BY <2>1 DEF RegisterNext, RegisterLookup, RegisterCreate, RegisterSend
    <3>4. TypeOK'
      BY <3>1, <3>2, <3>3 DEF TypeOK
    <3>5. Locals'
      BY <3>1, <3>2, <3>3 DEF Locals, TypeOK
    <3>6. QED BY <3>4, <3>5
  <2>2. ASSUME NEW r \in Resend, ResendNext(r) PROVE Typed'
    <3>1. PICK s \in ResendState :
            /\ resend' = [resend EXCEPT ![r] = s]
            /\ s.user \in User /\ users[s.user] # None /\ s.at \in Time
      <4>1. CASE \E u \in User : ResendRead(r, u)
        <5>1. PICK u \in User : ResendRead(r, u)
          BY <4>1
        <5>2. PICK c \in {"refused", "cooldown", "claim"} :
                 resend' = [resend EXCEPT ![r] =
                     [resend[r] EXCEPT !.user = u, !.phone = users[u].phone, !.at = now,
                                       !.pc = c]]
          BY <5>1 DEF ResendRead
        <5>3. users[u] # None /\ users[u].phone \in Phone
          BY <2>0, <5>1 DEF ResendRead, Exists, UserRow
        <5>4. [resend[r] EXCEPT !.user = u, !.phone = users[u].phone, !.at = now, !.pc = c]
                 \in ResendState
          BY <2>0, <5>3 DEF ResendState
        <5>5. QED BY <2>0, <5>2, <5>3, <5>4 DEF ResendState
      <4>2. CASE ResendClaim(r)
        <5>1. PICK c \in {"send", "cooldown"}, e \in Nat \cup {NoTime} :
                 resend' = [resend EXCEPT ![r] = [resend[r] EXCEPT !.pc = c, !.epoch = e]]
          <6>1. CASE Claimable(r)
            BY <4>2, <6>1 DEF ResendClaim, Locals, TypeOK
          <6>2. CASE ~Claimable(r)
            <7>1. resend' = [resend EXCEPT ![r] = [resend[r] EXCEPT !.pc = "cooldown"]]
              BY <4>2, <6>2 DEF ResendClaim
            <7>2. [resend[r] EXCEPT !.pc = "cooldown"]
                     = [resend[r] EXCEPT !.pc = "cooldown", !.epoch = resend[r].epoch]
              BY <2>0 DEF ResendState
            <7>3. resend[r].epoch \in Nat \cup {NoTime}
              BY <2>0 DEF ResendState
            <7>4. QED BY <7>1, <7>2, <7>3
          <6>3. QED BY <6>1, <6>2
        <5>2. [resend[r] EXCEPT !.pc = c, !.epoch = e] \in ResendState
          BY <2>0 DEF ResendState
        <5>3. resend[r].user \in User /\ users[resend[r].user] # None /\ resend[r].at \in Time
          BY <4>2 DEF ResendClaim, Locals
        <5>4. QED BY <2>0, <5>1, <5>2, <5>3 DEF ResendState
      <4>3. CASE ResendSend(r)
        <5>1. PICK c \in {"sent", "unsent"} :
                 resend' = [resend EXCEPT ![r] = [resend[r] EXCEPT !.pc = c]]
          BY <4>3 DEF ResendSend
        <5>2. resend[r].user \in User /\ users[resend[r].user] # None /\ resend[r].at \in Time
          BY <4>3 DEF ResendSend, Locals
        <5>3. [resend[r] EXCEPT !.pc = c] \in ResendState
          BY <2>0 DEF ResendState
        <5>4. QED BY <2>0, <5>1, <5>2, <5>3 DEF ResendState
      <4>4. QED BY <2>2, <4>1, <4>2, <4>3 DEF ResendNext
    <3>2. /\ users' \in [User -> UserRow \cup {None, Gone}]
          /\ \A u \in User : users[u] # None => users'[u] # None
      <4>1. CASE \E u \in User : ResendRead(r, u)
        BY <4>1 DEF ResendRead, TypeOK
      <4>2. CASE ResendClaim(r)
        <5> DEFINE u == resend[r].user
        <5>1. CASE Claimable(r)
          <6>1. /\ u \in User /\ resend[r].at \in Time /\ users[u] \in UserRow
                /\ users' = [users EXCEPT ![u] = [users[u] EXCEPT !.lastSent = resend[r].at]]
            BY <2>0, <4>2, <5>1 DEF ResendClaim, Claimable, Locals
          <6>2. [users[u] EXCEPT !.lastSent = resend[r].at] \in UserRow
            BY <6>1 DEF UserRow
          <6>3. QED BY <6>1, <6>2, RowsDiffer DEF TypeOK
        <5>2. CASE ~Claimable(r)
          BY <4>2, <5>2 DEF ResendClaim, TypeOK
        <5>3. QED BY <5>1, <5>2
      <4>3. CASE ResendSend(r)
        BY <4>3 DEF ResendSend, TypeOK
      <4>4. QED BY <2>2, <4>1, <4>2, <4>3 DEF ResendNext
    <3>3. UNCHANGED <<now, cleared, register, check, update>>
      BY <2>2 DEF ResendNext, ResendRead, ResendClaim, ResendSend
    <3>4. TypeOK'
      BY <3>1, <3>2, <3>3 DEF TypeOK
    <3>5. Locals'
      BY <3>1, <3>2, <3>3 DEF Locals, TypeOK
    <3>6. QED BY <3>4, <3>5
  <2>3. ASSUME NEW v \in Check, CheckNext(v) PROVE Typed'
    <3>1. PICK s \in CheckState :
            /\ check' = [check EXCEPT ![v] = s]
            /\ s.user \in User /\ s.phone \in Phone
            /\ s.moved => s.pc = "verified"
      <4>1. CASE \E u \in User : CheckRead(v, u)
        <5>1. PICK u \in User : CheckRead(v, u)
          BY <4>1
        <5>2. PICK c \in {"rejected", "check"} :
                 check' = [check EXCEPT ![v] =
                     [check[v] EXCEPT !.user = u, !.phone = users[u].phone, !.pc = c]]
          BY <5>1 DEF CheckRead
        <5>3. users[u].phone \in Phone /\ ~check[v].moved
          BY <2>0, <5>1 DEF CheckRead, UserRow, Locals
        <5>4. [check[v] EXCEPT !.user = u, !.phone = users[u].phone, !.pc = c] \in CheckState
          BY <2>0, <5>3 DEF CheckState
        <5>5. QED BY <2>0, <5>2, <5>3, <5>4 DEF CheckState
      <4>2. CASE CheckTwilio(v)
        <5>1. PICK c \in {"mark", "rejected"} :
                 check' = [check EXCEPT ![v] = [check[v] EXCEPT !.pc = c]]
          BY <4>2 DEF CheckTwilio
        <5>2. check[v].user \in User /\ check[v].phone \in Phone /\ ~check[v].moved
          BY <4>2 DEF CheckTwilio, Locals
        <5>3. [check[v] EXCEPT !.pc = c] \in CheckState
          BY <2>0 DEF CheckState
        <5>4. QED BY <2>0, <5>1, <5>2, <5>3 DEF CheckState
      <4>3. CASE CheckMark(v)
        <5>1. check[v].user \in User /\ check[v].phone \in Phone /\ ~check[v].moved
          BY <4>3 DEF CheckMark, Locals
        <5>2. CASE Exists(check[v].user)
          <6>1. PICK m \in BOOLEAN :
                   check' = [check EXCEPT ![v] =
                       [check[v] EXCEPT !.pc = "verified", !.moved = m]]
            BY <4>3, <5>2 DEF CheckMark
          <6>2. [check[v] EXCEPT !.pc = "verified", !.moved = m] \in CheckState
            BY <2>0 DEF CheckState
          <6>3. QED BY <2>0, <5>1, <6>1, <6>2 DEF CheckState
        <5>3. CASE ~Exists(check[v].user)
          <6>1. check' = [check EXCEPT ![v] = [check[v] EXCEPT !.pc = "gone"]]
            BY <4>3, <5>3 DEF CheckMark
          <6>2. [check[v] EXCEPT !.pc = "gone"] \in CheckState
            BY <2>0 DEF CheckState
          <6>3. QED BY <2>0, <5>1, <6>1, <6>2 DEF CheckState
        <5>4. QED BY <5>2, <5>3
      <4>4. QED BY <2>3, <4>1, <4>2, <4>3 DEF CheckNext
    <3>2. /\ users' \in [User -> UserRow \cup {None, Gone}]
          /\ \A u \in User : users[u] # None => users'[u] # None
      <4>1. CASE CheckMark(v) /\ Exists(check[v].user)
        <5> DEFINE u == check[v].user
        <5>1. /\ u \in User /\ users[u] \in UserRow
              /\ users' = [users EXCEPT ![u] = [users[u] EXCEPT !.verified = TRUE]]
          BY <2>0, <4>1 DEF CheckMark, Locals
        <5>2. [users[u] EXCEPT !.verified = TRUE] \in UserRow
          BY <5>1 DEF UserRow
        <5>3. QED BY <5>1, <5>2, RowsDiffer DEF TypeOK
      <4>2. CASE users' = users
        BY <4>2 DEF TypeOK
      <4>3. QED BY <2>3, <4>1, <4>2 DEF CheckNext, CheckRead, CheckTwilio, CheckMark
    <3>3. UNCHANGED <<now, cleared, register, resend, update>>
      BY <2>3 DEF CheckNext, CheckRead, CheckTwilio, CheckMark
    <3>4. TypeOK'
      BY <3>1, <3>2, <3>3 DEF TypeOK
    <3>5. Locals'
      BY <3>1, <3>2, <3>3 DEF Locals, TypeOK
    <3>6. QED BY <3>4, <3>5
  <2>4. ASSUME NEW w \in Update, UpdateNext(w) PROVE Typed'
    <3>1. PICK s \in UpdateState :
            /\ update' = [update EXCEPT ![w] = s]
            /\ s.user \in User /\ s.phone \in Phone
            /\ s.moved => s.pc = "saved"
      <4>1. CASE \E u \in User, p \in Phone : UpdateRead(w, u, p)
        <5>1. PICK u \in User, p \in Phone : UpdateRead(w, u, p)
          BY <4>1
        <5>2. PICK c \in BOOLEAN :
                 update' = [update EXCEPT ![w] =
                     [update[w] EXCEPT !.pc = "save", !.user = u, !.phone = p, !.changed = c]]
          BY <5>1 DEF UpdateRead
        <5>3. [update[w] EXCEPT !.pc = "save", !.user = u, !.phone = p, !.changed = c]
                 \in UpdateState
          BY <2>0 DEF UpdateState
        <5>4. ~update[w].moved
          BY <5>1 DEF UpdateRead, Locals
        <5>5. QED BY <2>0, <5>2, <5>3, <5>4 DEF UpdateState
      <4>2. CASE UpdateSave(w)
        <5>1. update[w].user \in User /\ update[w].phone \in Phone /\ ~update[w].moved
          BY <4>2 DEF UpdateSave, Locals
        <5>2. CASE \E m \in BOOLEAN :
                     update' = [update EXCEPT ![w] =
                         [update[w] EXCEPT !.pc = "saved", !.moved = m]]
          <6>1. PICK m \in BOOLEAN :
                   update' = [update EXCEPT ![w] =
                       [update[w] EXCEPT !.pc = "saved", !.moved = m]]
            BY <5>2
          <6>2. [update[w] EXCEPT !.pc = "saved", !.moved = m] \in UpdateState
            BY <2>0 DEF UpdateState
          <6>3. QED BY <2>0, <5>1, <6>1, <6>2 DEF UpdateState
        <5>3. CASE update' = [update EXCEPT ![w] = [update[w] EXCEPT !.pc = "refused"]]
          <6>1. [update[w] EXCEPT !.pc = "refused"] \in UpdateState
            BY <2>0 DEF UpdateState
          <6>2. QED BY <2>0, <5>1, <5>3, <6>1 DEF UpdateState
        <5>4. QED BY <4>2, <5>2, <5>3 DEF UpdateSave
      <4>3. QED BY <2>4, <4>1, <4>2 DEF UpdateNext
    <3>2. /\ users' \in [User -> UserRow \cup {None, Gone}]
          /\ \A u \in User : users[u] # None => users'[u] # None
          /\ cleared' \in [User -> Nat]
      <4>1. CASE UNCHANGED <<users, cleared>>
        BY <4>1 DEF TypeOK
      <4>2. CASE UpdateSave(w) /\ ~UNCHANGED <<users, cleared>>
        <5> DEFINE u == update[w].user
        <5>1. /\ u \in User /\ update[w].phone \in Phone /\ users[u] \in UserRow
              /\ users' = [users EXCEPT ![u] = Saved(users[u], w)]
              /\ cleared' = [cleared EXCEPT ![u] =
                     IF update[w].changed THEN cleared[u] + 1 ELSE cleared[u]]
          BY <2>0, <4>2 DEF UpdateSave, Locals
        <5>2. Saved(users[u], w) \in UserRow
          BY <2>0, <5>1 DEF Saved, UserRow
        <5>3. QED BY <5>1, <5>2, RowsDiffer DEF TypeOK
      <4>3. QED BY <2>4, <4>1, <4>2 DEF UpdateNext, UpdateRead
    <3>3. UNCHANGED <<now, register, resend, check>>
      BY <2>4 DEF UpdateNext, UpdateRead, UpdateSave
    <3>4. TypeOK'
      BY <3>1, <3>2, <3>3 DEF TypeOK
    <3>5. Locals'
      BY <3>1, <3>2, <3>3 DEF Locals, TypeOK
    <3>6. QED BY <3>4, <3>5
  <2>5. ASSUME NEW u \in User, RemoveUser(u) PROVE Typed'
    <3>1. TypeOK'
      BY <2>5 DEF RemoveUser, TypeOK
    <3>2. \A t \in User : users[t] # None => users'[t] # None
      BY <2>5, NoneAssumption DEF RemoveUser, TypeOK
    <3>3. Locals'
      BY <2>5, <3>2 DEF RemoveUser, Locals
    <3>4. QED BY <3>1, <3>3
  <2>6. CASE Tick
    BY <2>6, TimeAssumption DEF Tick, TypeOK, Locals, Time
  <2>7. CASE UNCHANGED vars
    BY <2>7 DEF vars, TypeOK, Locals
  <2>8. QED
    BY <2>1, <2>2, <2>3, <2>4, <2>5, <2>6, <2>7 DEF Next
<1>3. QED BY <1>1, <1>2, PTL DEF Spec

\* Every variable keeps its type.
THEOREM TypeCorrect == Spec => []TypeOK
<1>1. Typed => TypeOK
  BY DEF Typed
<1>2. QED BY <1>1, TypedInvariant, PTL

------------------------------------------------------------------------------
(* The resend slot *)

\* A claim of the current epoch is no later than what the slot holds, and what
\* the slot holds was claimed.
SlotHoldsClaims ==
    /\ \A r \in Resend :
          Claimed(r) =>
              LET u == resend[r].user
              IN  /\ resend[r].epoch \in Nat
                  /\ resend[r].epoch <= cleared[u]
                  /\ Exists(u) /\ resend[r].epoch = cleared[u] =>
                        users[u].lastSent # NoTime /\ resend[r].at <= users[u].lastSent
    /\ \A u \in User :
          Exists(u) /\ users[u].lastSent # NoTime =>
              \E r \in Resend : Claimed(r) /\ resend[r].user = u
                                /\ resend[r].at = users[u].lastSent

\* An account is verified by a verification of its own.
VerifiedByCheck ==
    \A u \in User :
        Exists(u) /\ users[u].verified =>
            \E v \in Check : check[v].pc = "verified" /\ check[v].user = u

SlotInv == SlotHoldsClaims /\ VerifiedByCheck /\ ClaimsSpaced /\ RefusedBecauseOfAnother

\* A step that claims nothing: requests of other kinds, and the clock.
LEMMA SlotFrame ==
    ASSUME Typed, SlotInv, resend' = resend,
           \A u \in User : users[u] = Gone => users'[u] = Gone,
           \A v \in Check : check[v].pc = "verified" => check'[v] = check[v],
           \A u \in User :
               \/ users'[u] = users[u] /\ cleared'[u] = cleared[u]
               \/ ~Exists(u)' /\ cleared'[u] = cleared[u]
               \/ /\ users[u] = None /\ cleared'[u] = cleared[u]
                  /\ users'[u].lastSent = NoTime /\ ~users'[u].verified
               \/ /\ Exists(u) /\ cleared'[u] = cleared[u]
                  /\ users'[u].lastSent = users[u].lastSent
                  /\ \/ users'[u].verified = users[u].verified
                     \/ \E v \in Check : check'[v].pc = "verified" /\ check'[v].user = u
               \/ /\ Exists(u) /\ cleared'[u] = cleared[u] + 1
                  /\ users'[u].lastSent = NoTime /\ ~users'[u].verified
    PROVE  SlotInv'
<1>1. /\ \A r \in Resend : Claimed(r) => resend[r].user \in User /\ users[resend[r].user] # None
      /\ \A u \in User : cleared[u] \in Nat
  BY DEF Typed, Locals, Claimed, TypeOK
<1>2. \A r \in Resend : Claimed(r)' <=> Claimed(r)
  BY DEF Claimed
<1>3. SlotHoldsClaims'
  <2>1. ASSUME NEW r \in Resend, Claimed(r)
        PROVE  LET u == resend[r].user
               IN  /\ resend[r].epoch \in Nat
                   /\ resend[r].epoch <= cleared'[u]
                   /\ Exists(u)' /\ resend[r].epoch = cleared'[u] =>
                        users'[u].lastSent # NoTime /\ resend[r].at <= users'[u].lastSent
    <3> DEFINE u == resend[r].user
    <3>1. u \in User /\ users[u] # None /\ cleared[u] \in Nat
      BY <1>1, <2>1
    <3>2. /\ resend[r].epoch \in Nat /\ resend[r].epoch <= cleared[u]
          /\ Exists(u) /\ resend[r].epoch = cleared[u] =>
                users[u].lastSent # NoTime /\ resend[r].at <= users[u].lastSent
      BY <2>1 DEF SlotInv, SlotHoldsClaims
    <3>3. QED BY <3>1, <3>2 DEF Exists
  <2>2. ASSUME NEW u \in User, Exists(u)', users'[u].lastSent # NoTime
        PROVE  \E r \in Resend : Claimed(r) /\ resend[r].user = u
                                 /\ resend[r].at = users'[u].lastSent
    <3>1. Exists(u) /\ users[u].lastSent = users'[u].lastSent
      BY <2>2 DEF Exists
    <3>2. QED BY <2>2, <3>1 DEF SlotInv, SlotHoldsClaims
  <2>3. QED BY <1>2, <2>1, <2>2 DEF SlotHoldsClaims
<1>4. VerifiedByCheck'
  <2> SUFFICES ASSUME NEW u \in User, Exists(u)', users'[u].verified
               PROVE  \E v \in Check : check'[v].pc = "verified" /\ check'[v].user = u
    BY DEF VerifiedByCheck
  <2>1. CASE Exists(u) /\ users[u].verified
    BY <2>1 DEF SlotInv, VerifiedByCheck
  <2>2. CASE ~(Exists(u) /\ users[u].verified)
    BY <2>2 DEF Exists
  <2>3. QED BY <2>1, <2>2
<1>5. ClaimsSpaced'
  BY <1>2 DEF SlotInv, ClaimsSpaced
<1>6. RefusedBecauseOfAnother'
  <2> SUFFICES ASSUME NEW r \in Resend, resend[r].pc = "cooldown"
               PROVE  \/ \E s \in Resend \ {r} :
                           /\ Claimed(s) /\ resend[s].user = resend[r].user
                           /\ resend[r].at - resend[s].at < Cooldown
                      \/ \E v \in Check :
                           check'[v].pc = "verified" /\ check'[v].user = resend[r].user
                      \/ users'[resend[r].user] = Gone
    BY <1>2 DEF RefusedBecauseOfAnother
  <2>1. resend[r].user \in User
    BY DEF Typed, Locals
  <2>2. QED BY <2>1 DEF SlotInv, RefusedBecauseOfAnother
<1>7. QED BY <1>3, <1>4, <1>5, <1>6 DEF SlotInv

\* Claims of one slot are a cooldown apart, and a refusal has its claim: the
\* inductive invariant.
THEOREM SlotInvariant == Spec => []SlotInv
<1>1. Init => SlotInv
  <2> SUFFICES ASSUME Init PROVE SlotInv
    OBVIOUS
  <2>1. \A u \in User : Exists(u) => users[u].lastSent = NoTime /\ ~users[u].verified
    BY DEF Init, Exists, NewRow
  <2>2. \A r \in Resend : resend[r].pc = "idle"
    BY DEF Init
  <2>3. QED
    BY <2>1, <2>2 DEF SlotInv, SlotHoldsClaims, VerifiedByCheck, ClaimsSpaced,
         RefusedBecauseOfAnother, Claimed
<1>2. Typed /\ SlotInv /\ [Next]_vars => SlotInv'
  <2> SUFFICES ASSUME Typed, SlotInv, [Next]_vars PROVE SlotInv'
    OBVIOUS
  <2>0. /\ \A u \in User : users[u] \in UserRow \cup {None, Gone}
        /\ \A u \in User : Exists(u) => users[u] \in UserRow
        /\ \A u \in User : cleared[u] \in Nat
        /\ \A r \in Resend : resend[r] \in ResendState
        /\ \A v \in Check : check[v] \in CheckState
    BY DEF Typed, TypeOK, Exists
  <2>1. ASSUME NEW g \in Register, RegisterNext(g) PROVE SlotInv'
    <3>1. UNCHANGED <<cleared, resend, check>>
      BY <2>1 DEF RegisterNext, RegisterLookup, RegisterCreate, RegisterSend
    <3>2. \A u \in User :
             \/ users'[u] = users[u]
             \/ users[u] = None /\ users'[u].lastSent = NoTime /\ ~users'[u].verified
      <4>1. CASE RegisterCreate(g)
        <5>1. CASE Taken(register[g].phone)
          BY <4>1, <5>1 DEF RegisterCreate
        <5>2. CASE ~Taken(register[g].phone)
          <6>1. PICK t \in User :
                   /\ users[t] = None
                   /\ users' = [users EXCEPT ![t] = NewRow(register[g].phone)]
            BY <4>1, <5>2 DEF RegisterCreate
          <6>2. /\ users'[t] = NewRow(register[g].phone)
                /\ \A u \in User \ {t} : users'[u] = users[u]
            BY <6>1 DEF Typed, TypeOK
          <6>3. users'[t].lastSent = NoTime /\ ~users'[t].verified
            BY <6>2 DEF NewRow
          <6>4. QED BY <6>1, <6>2, <6>3
        <5>3. QED BY <5>1, <5>2
      <4>2. CASE users' = users
        BY <4>2
      <4>3. QED BY <2>1, <4>1, <4>2 DEF RegisterNext, RegisterLookup, RegisterSend
    <3>3. QED BY <3>1, <3>2, SlotFrame, NoneAssumption
  <2>2. ASSUME NEW r \in Resend, NEW u \in User, ResendRead(r, u) PROVE SlotInv'
    <3>1. /\ resend[r].pc = "idle" /\ Exists(u) /\ users[u] \in UserRow
          /\ resend'[r].user = u /\ resend'[r].at = now
          /\ resend'[r].pc \in {"refused", "cooldown", "claim"}
          /\ resend'[r].pc = "cooldown" => CoolingDown(users[u].lastSent, now)
          /\ \A s \in Resend \ {r} : resend'[s] = resend[s]
          /\ UNCHANGED <<users, cleared, check>>
      BY <2>0, <2>2 DEF ResendRead, ResendState, Typed, TypeOK
    <3>2. /\ \A s \in Resend : Claimed(s)' <=> Claimed(s)
          /\ ~Claimed(r)
      BY <3>1 DEF Claimed
    <3>3. SlotHoldsClaims' /\ VerifiedByCheck' /\ ClaimsSpaced'
      <4>1. VerifiedByCheck'
        BY <3>1 DEF SlotInv, VerifiedByCheck, Exists
      <4>2. ClaimsSpaced'
        BY <3>1, <3>2 DEF SlotInv, ClaimsSpaced
      <4>3. SlotHoldsClaims'
        BY <3>1, <3>2 DEF SlotInv, SlotHoldsClaims, Exists
      <4>4. QED BY <4>1, <4>2, <4>3
    <3>4. resend'[r].pc = "cooldown" =>
             \E s \in Resend \ {r} : /\ Claimed(s) /\ resend[s].user = u
                                     /\ now - resend[s].at < Cooldown
      BY <3>1, <3>2 DEF SlotInv, SlotHoldsClaims, CoolingDown
    <3>5. RefusedBecauseOfAnother'
      BY <3>1, <3>2, <3>4 DEF SlotInv, RefusedBecauseOfAnother
    <3>6. QED BY <3>3, <3>5 DEF SlotInv
  <2>3. ASSUME NEW r \in Resend, ResendClaim(r), Claimable(r) PROVE SlotInv'
    <3> DEFINE u == resend[r].user
               t == resend[r].at
    <3>1. /\ resend[r].pc = "claim" /\ u \in User /\ Exists(u) /\ users[u] \in UserRow
          /\ t \in Time /\ ~CoolingDown(users[u].lastSent, t)
      BY <2>0, <2>3 DEF ResendClaim, Claimable, Typed, Locals
    <3>2. /\ users' = [users EXCEPT ![u] = [users[u] EXCEPT !.lastSent = t]]
          /\ resend' = [resend EXCEPT ![r] =
                 [resend[r] EXCEPT !.pc = "send", !.epoch = cleared[u]]]
          /\ UNCHANGED <<cleared, check>>
      BY <2>3 DEF ResendClaim
    <3>3. /\ resend'[r].user = u /\ resend'[r].at = t
          /\ resend'[r].epoch = cleared[u] /\ resend'[r].pc = "send"
          /\ \A s \in Resend \ {r} : resend'[s] = resend[s]
      BY <2>0, <3>2 DEF ResendState, Typed, TypeOK
    <3>4. /\ users'[u].lastSent = t /\ users'[u].verified = users[u].verified
          /\ users'[u] \in UserRow
          /\ \A w \in User \ {u} : users'[w] = users[w]
      BY <3>1, <3>2 DEF UserRow, Typed, TypeOK
    <3>5. \A s \in Resend : Claimed(s)' <=> Claimed(s) \/ s = r
      BY <3>3 DEF Claimed
    <3>6. t # NoTime /\ t \in Int /\ Cooldown \in Nat
      BY <3>1, TimeAssumption DEF Time, NoTime
    <3>7. ASSUME NEW s \in Resend \ {r}, Claimed(s), resend[s].user = u,
                 resend[s].epoch = cleared[u]
          PROVE  t - resend[s].at >= Cooldown
      <4>1. users[u].lastSent # NoTime /\ resend[s].at <= users[u].lastSent
        BY <3>1, <3>7 DEF SlotInv, SlotHoldsClaims
      <4>2. users[u].lastSent \in Int /\ resend[s].at \in Int
        BY <2>0, <3>1, <3>7, TimeAssumption
           DEF UserRow, Time, NoTime, Typed, Locals, Claimed
      <4>3. t - users[u].lastSent >= Cooldown
        BY <3>1, <3>6, <4>1, <4>2 DEF CoolingDown
      <4>4. QED BY <3>6, <4>1, <4>2, <4>3
    <3>8. \A w \in User : Exists(w)' <=> Exists(w)
      BY <3>1, <3>4, RowsDiffer DEF Exists
    <3>9. SlotHoldsClaims'
      <4>1. ASSUME NEW s \in Resend \ {r}, Claimed(s), Exists(resend[s].user),
                   resend[s].epoch = cleared[resend[s].user]
            PROVE  /\ users'[resend[s].user].lastSent # NoTime
                   /\ resend[s].at <= users'[resend[s].user].lastSent
        <5>1. CASE resend[s].user = u
          <6>1. resend[s].at \in Int
            BY <4>1, TimeAssumption DEF Typed, Locals, Claimed, Time
          <6>2. QED BY <3>4, <3>6, <3>7, <4>1, <5>1, <6>1
        <5>2. CASE resend[s].user # u
          <6>1. resend[s].user \in User
            BY <4>1 DEF Typed, Locals, Claimed
          <6>2. QED BY <3>4, <4>1, <5>2, <6>1 DEF SlotInv, SlotHoldsClaims
        <5>3. QED BY <5>1, <5>2
      <4>2. \A s \in Resend \ {r} : Claimed(s) =>
               /\ resend[s].user \in User
               /\ resend[s].epoch \in Nat /\ resend[s].epoch <= cleared[resend[s].user]
        BY DEF SlotInv, SlotHoldsClaims, Typed, Locals, Claimed
      <4>3. ASSUME NEW s \in Resend, Claimed(s)'
            PROVE  /\ resend'[s].epoch \in Nat
                   /\ resend'[s].epoch <= cleared[resend'[s].user]
                   /\ users'[resend'[s].user] \notin {None, Gone}
                        /\ resend'[s].epoch = cleared[resend'[s].user] =>
                            /\ users'[resend'[s].user].lastSent # NoTime
                            /\ resend'[s].at <= users'[resend'[s].user].lastSent
        <5>1. CASE s = r
          BY <2>0, <3>1, <3>3, <3>4, <3>6, <5>1
        <5>2. CASE s # r
          <6>1. Claimed(s) /\ resend'[s] = resend[s]
            BY <3>3, <3>5, <4>3, <5>2
          <6>2. QED BY <3>8, <4>1, <4>2, <5>2, <6>1 DEF Exists
        <5>3. QED BY <5>1, <5>2
      <4>4. ASSUME NEW w \in User, Exists(w), users'[w].lastSent # NoTime
            PROVE  \E s \in Resend : Claimed(s)' /\ resend'[s].user = w
                                     /\ resend'[s].at = users'[w].lastSent
        <5>1. CASE w = u
          BY <3>3, <3>4, <3>5, <5>1
        <5>2. CASE w # u
          <6>1. PICK s \in Resend : Claimed(s) /\ resend[s].user = w
                                    /\ resend[s].at = users[w].lastSent
            BY <3>4, <4>4, <5>2 DEF SlotInv, SlotHoldsClaims
          <6>2. s # r
            BY <5>2, <6>1
          <6>3. QED BY <3>3, <3>4, <3>5, <5>2, <6>1, <6>2
        <5>3. QED BY <5>1, <5>2
      <4>5. QED BY <3>2, <3>8, <4>3, <4>4 DEF SlotHoldsClaims, Exists
    <3>10. VerifiedByCheck'
      BY <3>1, <3>2, <3>4, <3>8 DEF SlotInv, VerifiedByCheck
    <3>11. ClaimsSpaced'
      BY <3>3, <3>5, <3>7 DEF SlotInv, ClaimsSpaced
    <3>12. RefusedBecauseOfAnother'
      <4>1. \A w \in User : users'[w] = Gone <=> users[w] = Gone
        BY <3>1, <3>4, RowsDiffer DEF Exists
      <4>2. \A s \in Resend : resend[s].pc = "cooldown" => resend[s].user \in User
        BY DEF Typed, Locals
      <4>3. QED
        BY <3>2, <3>3, <3>5, <4>1, <4>2 DEF SlotInv, RefusedBecauseOfAnother
    <3>13. QED BY <3>9, <3>10, <3>11, <3>12 DEF SlotInv
  <2>4. ASSUME NEW r \in Resend, ResendClaim(r), ~Claimable(r) PROVE SlotInv'
    <3> DEFINE u == resend[r].user
    <3>1. /\ resend[r].pc = "claim" /\ u \in User /\ users[u] # None
          /\ resend'[r].pc = "cooldown"
          /\ resend'[r].user = u /\ resend'[r].at = resend[r].at
          /\ \A s \in Resend \ {r} : resend'[s] = resend[s]
          /\ UNCHANGED <<users, cleared, check>>
      BY <2>0, <2>4 DEF ResendClaim, ResendState, Typed, TypeOK, Locals
    <3>2. /\ \A s \in Resend : Claimed(s)' <=> Claimed(s)
          /\ ~Claimed(r)
      BY <3>1 DEF Claimed
    <3>3. VerifiedByCheck' /\ ClaimsSpaced'
      BY <3>1, <3>2 DEF SlotInv, VerifiedByCheck, ClaimsSpaced, Exists
    <3>4. SlotHoldsClaims'
      BY <3>1, <3>2 DEF SlotInv, SlotHoldsClaims, Exists
    <3>5. \/ \E s \in Resend \ {r} :
                /\ Claimed(s) /\ resend[s].user = u
                /\ resend[r].at - resend[s].at < Cooldown
          \/ \E v \in Check : check[v].pc = "verified" /\ check[v].user = u
          \/ users[u] = Gone
      BY <2>4, <3>1, <3>2
         DEF Claimable, CoolingDown, Exists, SlotInv, SlotHoldsClaims, VerifiedByCheck
    <3>6. RefusedBecauseOfAnother'
      BY <3>1, <3>2, <3>5 DEF SlotInv, RefusedBecauseOfAnother
    <3>7. QED BY <3>3, <3>4, <3>6 DEF SlotInv
  <2>5. ASSUME NEW r \in Resend, ResendSend(r) PROVE SlotInv'
    <3>1. PICK c \in {"sent", "unsent"} :
             resend' = [resend EXCEPT ![r] = [resend[r] EXCEPT !.pc = c]]
      BY <2>5 DEF ResendSend
    <3>2. /\ \A s \in Resend : /\ resend'[s].user = resend[s].user
                               /\ resend'[s].at = resend[s].at
                               /\ resend'[s].epoch = resend[s].epoch
                               /\ resend'[s].pc = "cooldown" <=> resend[s].pc = "cooldown"
          /\ UNCHANGED <<users, cleared, check>>
      BY <2>0, <2>5, <3>1 DEF ResendSend, ResendState, Typed, TypeOK
    <3>3. \A s \in Resend : Claimed(s)' <=> Claimed(s)
      BY <2>0, <2>5, <3>1 DEF ResendSend, ResendState, Typed, TypeOK, Claimed
    <3>4. VerifiedByCheck' /\ ClaimsSpaced'
      BY <3>2, <3>3 DEF SlotInv, VerifiedByCheck, ClaimsSpaced, Exists
    <3>5. SlotHoldsClaims'
      BY <3>2, <3>3 DEF SlotInv, SlotHoldsClaims, Exists
    <3>6. RefusedBecauseOfAnother'
      BY <3>2, <3>3 DEF SlotInv, RefusedBecauseOfAnother
    <3>7. QED BY <3>4, <3>5, <3>6 DEF SlotInv
  <2>6. ASSUME NEW v \in Check, CheckNext(v) PROVE SlotInv'
    <3>1. UNCHANGED <<cleared, resend>>
      BY <2>6 DEF CheckNext, CheckRead, CheckTwilio, CheckMark
    <3>2. \A x \in Check : check[x].pc = "verified" => check'[x] = check[x]
      BY <2>6 DEF CheckNext, CheckRead, CheckTwilio, CheckMark, Typed, TypeOK
    <3>3. \A u \in User :
             \/ users'[u] = users[u]
             \/ /\ Exists(u) /\ users'[u].lastSent = users[u].lastSent
                /\ users'[u] \in UserRow
                /\ \E x \in Check : check'[x].pc = "verified" /\ check'[x].user = u
      <4>1. CASE CheckMark(v) /\ Exists(check[v].user)
        <5> DEFINE u == check[v].user
        <5>1. /\ u \in User /\ users[u] \in UserRow
              /\ users' = [users EXCEPT ![u] = [users[u] EXCEPT !.verified = TRUE]]
              /\ check' = [check EXCEPT ![v] =
                     [check[v] EXCEPT !.pc = "verified",
                                      !.moved = users[u].phone # check[v].phone]]
          BY <2>0, <4>1 DEF CheckMark, Typed, Locals
        <5>2. check'[v].pc = "verified" /\ check'[v].user = u
          BY <2>0, <5>1 DEF CheckState, Typed, TypeOK
        <5>3. users'[u] \in UserRow /\ users'[u].lastSent = users[u].lastSent
          BY <5>1 DEF UserRow, Typed, TypeOK
        <5>4. \A t \in User \ {u} : users'[t] = users[t]
          BY <5>1 DEF Typed, TypeOK
        <5>5. QED BY <4>1, <5>2, <5>3, <5>4
      <4>2. CASE users' = users
        BY <4>2
      <4>3. QED BY <2>6, <4>1, <4>2 DEF CheckNext, CheckRead, CheckTwilio, CheckMark
    <3>4. \A u \in User : users[u] = Gone => users'[u] = Gone
      BY <3>3 DEF Exists
    <3>5. QED BY <3>1, <3>2, <3>3, <3>4, SlotFrame
  <2>7. ASSUME NEW w \in Update, UpdateNext(w) PROVE SlotInv'
    <3>1. UNCHANGED <<resend, check>>
      BY <2>7 DEF UpdateNext, UpdateRead, UpdateSave
    <3>2. \A u \in User :
             \/ users'[u] = users[u] /\ cleared'[u] = cleared[u]
             \/ /\ Exists(u) /\ cleared'[u] = cleared[u]
                /\ users'[u].lastSent = users[u].lastSent
                /\ users'[u].verified = users[u].verified
             \/ /\ Exists(u) /\ cleared'[u] = cleared[u] + 1
                /\ users'[u].lastSent = NoTime /\ ~users'[u].verified
      <4>1. CASE UpdateSave(w) /\ ~UNCHANGED <<users, cleared>>
        <5> DEFINE u == update[w].user
        <5>1. /\ Exists(u) /\ u \in User /\ users[u] \in UserRow
              /\ users' = [users EXCEPT ![u] = Saved(users[u], w)]
              /\ cleared' = [cleared EXCEPT ![u] =
                     IF update[w].changed THEN cleared[u] + 1 ELSE cleared[u]]
          BY <2>0, <4>1 DEF UpdateSave, Typed, Locals
        <5>2. \A t \in User \ {u} : users'[t] = users[t] /\ cleared'[t] = cleared[t]
          BY <5>1 DEF Typed, TypeOK
        <5>3. users'[u] = Saved(users[u], w)
          BY <5>1 DEF Typed, TypeOK
        <5>4. CASE update[w].changed
          <6>1. users'[u].lastSent = NoTime /\ ~users'[u].verified
            BY <5>3, <5>4 DEF Saved, NewRow
          <6>2. cleared'[u] = cleared[u] + 1
            BY <5>1, <5>4 DEF Typed, TypeOK
          <6>3. QED BY <5>1, <5>2, <6>1, <6>2
        <5>5. CASE ~update[w].changed
          <6>1. /\ users'[u].lastSent = users[u].lastSent
                /\ users'[u].verified = users[u].verified
            BY <5>1, <5>3, <5>5 DEF Saved, UserRow
          <6>2. cleared'[u] = cleared[u]
            BY <5>1, <5>5 DEF Typed, TypeOK
          <6>3. QED BY <5>1, <5>2, <6>1, <6>2
        <5>6. QED BY <5>4, <5>5
      <4>2. CASE UNCHANGED <<users, cleared>>
        BY <4>2
      <4>3. QED BY <2>7, <4>1, <4>2 DEF UpdateNext, UpdateRead
    <3>3. \A u \in User : users[u] = Gone => users'[u] = Gone
      BY <3>2 DEF Exists
    <3>4. QED BY <3>1, <3>2, <3>3, SlotFrame
  <2>8. ASSUME NEW u \in User, RemoveUser(u) PROVE SlotInv'
    <3>1. /\ UNCHANGED <<cleared, resend, check>>
          /\ users'[u] = Gone /\ \A t \in User \ {u} : users'[t] = users[t]
      BY <2>8 DEF RemoveUser, Typed, TypeOK
    <3>2. ~Exists(u)'
      BY <3>1 DEF Exists
    <3>3. QED BY <3>1, <3>2, SlotFrame
  <2>9. CASE Tick \/ UNCHANGED vars
    BY <2>9, SlotFrame DEF Tick, vars
  <2>10. QED
    BY <2>1, <2>2, <2>3, <2>4, <2>5, <2>6, <2>7, <2>8, <2>9 DEF Next, ResendNext
<1>3. QED BY <1>1, <1>2, TypedInvariant, PTL DEF Spec

\* Two requests of an account that both send an SMS read the clock a cooldown
\* apart, unless a new number emptied the slot between them.
THEOREM SlotClaimsSpaced == Spec => []ClaimsSpaced
<1>1. SlotInv => ClaimsSpaced
  BY DEF SlotInv
<1>2. QED BY <1>1, SlotInvariant, PTL

\* A request refused for the cooldown was refused because of another request's
\* claim, or because the account was verified or removed meanwhile.
THEOREM RefusalHasCause == Spec => []RefusedBecauseOfAnother
<1>1. SlotInv => RefusedBecauseOfAnother
  BY DEF SlotInv
<1>2. QED BY <1>1, SlotInvariant, PTL

------------------------------------------------------------------------------
(* The verified number *)

\* What Twilio approved stays approved, and who was overtaken stays overtaken.
LEMMA CheckHistory ==
    ASSUME Typed, NEW v \in Check, CheckNext(v)
    PROVE  /\ \A x \in Check :
                 check[x].pc \in {"mark", "verified", "gone"} =>
                     /\ check'[x].pc \in {"mark", "verified", "gone"}
                     /\ check'[x].user = check[x].user /\ check'[x].phone = check[x].phone
           /\ \A x \in Check : check[x].moved => check'[x] = check[x]
<1>1. /\ \A x \in Check : check[x] \in CheckState
      /\ \A x \in Check : check[x].moved => check[x].pc = "verified"
  BY DEF Typed, TypeOK, Locals
<1>2. CASE \E u \in User : CheckRead(v, u)
  BY <1>1, <1>2 DEF CheckRead, Typed, TypeOK
<1>3. CASE CheckTwilio(v)
  BY <1>1, <1>3 DEF CheckTwilio, Typed, TypeOK
<1>4. CASE CheckMark(v)
  <2>1. check[v].pc = "mark" /\ \A x \in Check \ {v} : check'[x] = check[x]
    BY <1>4 DEF CheckMark, Typed, TypeOK
  <2>2. /\ check'[v].pc \in {"verified", "gone"}
        /\ check'[v].user = check[v].user /\ check'[v].phone = check[v].phone
    <3>1. CASE Exists(check[v].user)
      <4>1. check' = [check EXCEPT ![v] =
               [check[v] EXCEPT !.pc = "verified",
                                !.moved = users[check[v].user].phone # check[v].phone]]
        BY <1>4, <3>1 DEF CheckMark
      <4>2. QED BY <1>1, <4>1 DEF CheckState, Typed, TypeOK
    <3>2. CASE ~Exists(check[v].user)
      <4>1. check' = [check EXCEPT ![v] = [check[v] EXCEPT !.pc = "gone"]]
        BY <1>4, <3>2 DEF CheckMark
      <4>2. QED BY <1>1, <4>1 DEF CheckState, Typed, TypeOK
    <3>3. QED BY <3>1, <3>2
  <2>3. QED BY <1>1, <2>1, <2>2
<1>5. QED BY <1>2, <1>3, <1>4 DEF CheckNext

\* A row is verified only for a number Twilio approved for its account, unless a
\* request wrote it after the number had moved away from what the request read.
THEOREM VerifiedNumber == Spec => []VerifiedNumberWasApproved
<1>1. Init => VerifiedNumberWasApproved
  BY DEF Init, VerifiedNumberWasApproved, Exists, NewRow
<1>2. Typed /\ VerifiedNumberWasApproved /\ [Next]_vars => VerifiedNumberWasApproved'
  <2> SUFFICES ASSUME Typed, VerifiedNumberWasApproved, [Next]_vars,
                      NEW u \in User, Exists(u)', users'[u].verified, ~Overtaken(u)'
               PROVE  \E v \in Check :
                         /\ check'[v].pc \in {"mark", "verified", "gone"}
                         /\ check'[v].user = u /\ check'[v].phone = users'[u].phone
    BY DEF VerifiedNumberWasApproved, Approved
  <2> DEFINE Goal == \E v \in Check :
                         /\ check'[v].pc \in {"mark", "verified", "gone"}
                         /\ check'[v].user = u /\ check'[v].phone = users'[u].phone
  <2>0. /\ \A t \in User : Exists(t) => users[t] \in UserRow
        /\ \A v \in Check : check[v] \in CheckState
        /\ \A w \in Update : update[w] \in UpdateState
        /\ \A w \in Update : update[w].moved => update[w].pc = "saved"
    BY DEF Typed, TypeOK, Exists, Locals
  <2>1. CASE users'[u] = users[u] /\ check' = check /\ update' = update
    BY <2>1 DEF VerifiedNumberWasApproved, Exists, Overtaken, Approved
  <2>2. ASSUME NEW g \in Register, RegisterCreate(g) PROVE Goal
    <3>1. check' = check /\ update' = update
      BY <2>2 DEF RegisterCreate
    <3>2. users'[u] = users[u] \/ users'[u] = NewRow(register[g].phone)
      BY <2>2 DEF RegisterCreate, Typed, TypeOK
    <3>3. ~NewRow(register[g].phone).verified
      BY DEF NewRow
    <3>4. QED BY <2>1, <3>1, <3>2, <3>3
  <2>3. ASSUME NEW r \in Resend, ResendClaim(r) PROVE Goal
    <3>1. check' = check /\ update' = update
      BY <2>3 DEF ResendClaim
    <3>2. \/ users'[u] = users[u]
          \/ Exists(u) /\ users'[u] = [users[u] EXCEPT !.lastSent = resend[r].at]
      BY <2>3 DEF ResendClaim, Claimable, Typed, TypeOK
    <3>3. Exists(u) /\ users'[u].verified = users[u].verified /\ users'[u].phone = users[u].phone
      BY <2>0, <3>2 DEF Exists, UserRow
    <3>4. QED BY <3>1, <3>3 DEF VerifiedNumberWasApproved, Overtaken, Approved
  <2>4. ASSUME NEW v \in Check, CheckNext(v) PROVE Goal
    <3>1. update' = update
      BY <2>4 DEF CheckNext, CheckRead, CheckTwilio, CheckMark
    <3>2. ~Overtaken(u)
      BY <2>4, <3>1, CheckHistory DEF Overtaken
    <3>3. CASE users'[u] = users[u]
      <4>1. Approved(u, users[u].phone)
        BY <3>2, <3>3 DEF VerifiedNumberWasApproved, Exists
      <4>2. QED BY <2>4, <3>3, <4>1, CheckHistory DEF Approved
    <3>4. CASE users'[u] # users[u]
      <4>1. CheckMark(v) /\ check[v].user = u /\ Exists(u)
        BY <2>4, <3>4 DEF CheckNext, CheckRead, CheckTwilio, CheckMark, Typed, TypeOK
      <4>2. /\ users' = [users EXCEPT ![u] = [users[u] EXCEPT !.verified = TRUE]]
            /\ check' = [check EXCEPT ![v] =
                   [check[v] EXCEPT !.pc = "verified",
                                    !.moved = users[u].phone # check[v].phone]]
        BY <4>1 DEF CheckMark
      <4>3. users'[u].phone = users[u].phone
        BY <2>0, <4>1, <4>2 DEF UserRow, Typed, TypeOK
      <4>4. /\ check'[v].pc = "verified" /\ check'[v].user = u
            /\ check'[v].phone = check[v].phone
            /\ check'[v].moved <=> users[u].phone # check[v].phone
        BY <2>0, <4>1, <4>2 DEF CheckState, Typed, TypeOK
      <4>5. users[u].phone = check[v].phone
        BY <4>4 DEF Overtaken
      <4>6. QED BY <4>3, <4>4, <4>5 DEF Approved
    <3>5. QED BY <3>3, <3>4
  <2>5. ASSUME NEW w \in Update, UpdateNext(w) PROVE Goal
    <3>1. check' = check
      BY <2>5 DEF UpdateNext, UpdateRead, UpdateSave
    <3>2. \A x \in Update : update[x].moved =>
             update'[x].moved /\ update'[x].user = update[x].user
      BY <2>0, <2>5 DEF UpdateNext, UpdateRead, UpdateSave, Typed, TypeOK
    <3>3. ~Overtaken(u)
      BY <3>1, <3>2 DEF Overtaken
    <3>4. CASE users'[u] = users[u]
      BY <3>1, <3>3, <3>4 DEF VerifiedNumberWasApproved, Exists, Approved
    <3>5. CASE users'[u] # users[u]
      <4>1. UpdateSave(w) /\ update[w].user = u /\ Exists(u) /\ users' # users
        BY <2>5, <3>5 DEF UpdateNext, UpdateRead, UpdateSave, Typed, TypeOK
      <4>2. /\ users' = [users EXCEPT ![u] = Saved(users[u], w)]
            /\ update' = [update EXCEPT ![w] =
                   [update[w] EXCEPT !.pc = "saved",
                             !.moved = ~update[w].changed /\ users[u].phone # update[w].phone]]
        BY <4>1 DEF UpdateSave
      <4>3. users'[u] = Saved(users[u], w)
        BY <4>2 DEF Typed, TypeOK
      <4>4. ~update[w].changed
        BY <4>3 DEF Saved, NewRow
      <4>5. update'[w].user = u /\ (update'[w].moved <=> users[u].phone # update[w].phone)
        BY <2>0, <4>1, <4>2, <4>4 DEF UpdateState, Typed, TypeOK
      <4>6. users[u].phone = update[w].phone
        BY <4>5 DEF Overtaken
      <4>7. users'[u].phone = users[u].phone /\ users'[u].verified = users[u].verified
        BY <2>0, <4>1, <4>3, <4>4, <4>6 DEF Saved, UserRow
      <4>8. QED BY <3>1, <3>3, <4>1, <4>7 DEF VerifiedNumberWasApproved, Approved
    <3>6. QED BY <3>4, <3>5
  <2>6. ASSUME NEW t \in User, RemoveUser(t) PROVE Goal
    <3>1. users'[u] = users[u] \/ users'[u] = Gone
      BY <2>6 DEF RemoveUser, Typed, TypeOK
    <3>2. QED BY <2>1, <2>6, <3>1 DEF RemoveUser, Exists
  <2>7. CASE UNCHANGED <<users, check, update>>
    BY <2>1, <2>7
  <2>8. QED
    BY <2>2, <2>3, <2>4, <2>5, <2>6, <2>7
       DEF Next, RegisterNext, RegisterLookup, RegisterSend, ResendNext, ResendRead,
           ResendSend, Tick, vars
<1>3. QED BY <1>1, <1>2, TypedInvariant, PTL DEF Spec

==============================================================================
