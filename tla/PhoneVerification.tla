-------------------------- MODULE PhoneVerification --------------------------
(***************************************************************************)
(* The phone number of an account (auth.service.ts): registration, the     *)
(* verification of the number with a code Twilio Verify keeps, the resend  *)
(* slot (one SMS per cooldown, claimed by a conditional UPDATE) and the    *)
(* profile update that replaces the number.                                *)
(*                                                                         *)
(* A request is one action per section between two awaits.  Twilio's       *)
(* answers are nondeterministic: it accepts or rejects a message, approves *)
(* or rejects a code.                                                      *)
(***************************************************************************)
EXTENDS Integers

CONSTANTS
    User, Phone,
    Register,  \* POST /auth/register requests
    Resend,    \* POST /auth/resend-phone-otp requests
    Check,     \* POST /auth/verify-phone requests
    Update,    \* PATCH /auth/update requests that carry a phone_number
    None,      \* no row yet, or no value
    Gone,      \* the row was deleted
    Cooldown,  \* PHONE_OTP_RESEND_COOLDOWN_SECONDS
    MaxTime    \* the clock stops here

ASSUME TimeAssumption == Cooldown \in Nat /\ MaxTime \in Nat
ASSUME NoneAssumption == {None, Gone} \cap (User \cup Phone) = {} /\ None # Gone

VARIABLES
    now,
    users,   \* the rows of the user table
    cleared, \* history: how often an update emptied the slot of an account
    register, resend, check, update  \* the requests

vars == <<now, users, cleared, register, resend, check, update>>

NoTime == -1
Time == 0..MaxTime

\* phone_number, phone_verified_at # null, phone_otp_last_sent_at.
UserRow == [phone : Phone, verified : BOOLEAN, lastSent : Time \cup {NoTime}]

ASSUME RowAssumption == {None, Gone} \cap UserRow = {}

RegisterState ==
    [pc : {"idle", "create", "send", "sent", "unsent", "conflict"},
     phone : Phone \cup {None}, user : User \cup {None}]

\* "at" is the clock the handler reads; "epoch" is history, the value of
\* cleared at the claim.
ResendState ==
    [pc : {"idle", "claim", "send", "sent", "unsent", "cooldown", "refused"},
     user : User \cup {None}, phone : Phone \cup {None},
     at : Time \cup {NoTime}, epoch : Nat \cup {NoTime}]

\* "moved" is history: the account had another number when the row was written.
CheckState ==
    [pc : {"idle", "check", "mark", "verified", "rejected", "gone"},
     user : User \cup {None}, phone : Phone \cup {None}, moved : BOOLEAN]
UpdateState ==
    [pc : {"idle", "save", "saved", "refused"},
     user : User \cup {None}, phone : Phone \cup {None},
     changed : BOOLEAN, moved : BOOLEAN]

\* Every variable holds a value of its kind.
TypeOK ==
    /\ now \in Time
    /\ users \in [User -> UserRow \cup {None, Gone}]
    /\ cleared \in [User -> Nat]
    /\ register \in [Register -> RegisterState]
    /\ resend \in [Resend -> ResendState]
    /\ check \in [Check -> CheckState]
    /\ update \in [Update -> UpdateState]

Exists(u) == users[u] \notin {None, Gone}

\* phone_number is a unique column.
Taken(p) == \E u \in User : Exists(u) /\ users[u].phone = p

NewRow(p) == [phone |-> p, verified |-> FALSE, lastSent |-> NoTime]

\* Some accounts have registered before, under numbers of their own.
Init ==
    /\ now = 0
    /\ users \in [User -> {NewRow(p) : p \in Phone} \cup {None}]
    /\ \A u, w \in User :
          Exists(u) /\ Exists(w) /\ users[u].phone = users[w].phone => u = w
    /\ cleared = [u \in User |-> 0]
    /\ register = [g \in Register |-> [pc |-> "idle", phone |-> None, user |-> None]]
    /\ resend = [r \in Resend |-> [pc |-> "idle", user |-> None, phone |-> None,
                                   at |-> NoTime, epoch |-> NoTime]]
    /\ check = [v \in Check |-> [pc |-> "idle", user |-> None, phone |-> None,
                                 moved |-> FALSE]]
    /\ update = [w \in Update |-> [pc |-> "idle", user |-> None, phone |-> None,
                                   changed |-> FALSE, moved |-> FALSE]]

------------------------------------------------------------------------------
(* register *)

\* exist({ field: 'phone_number' }).
RegisterLookup(g, p) ==
    /\ register[g].pc = "idle"
    /\ register' = [register EXCEPT ![g] =
           [@ EXCEPT !.pc = IF Taken(p) THEN "conflict" ELSE "create", !.phone = p]]
    /\ UNCHANGED <<now, users, cleared, resend, check, update>>

\* Variant: the new row starts with its resend slot taken.
RegisterCreateStamped(g) ==
    /\ register[g].pc = "create"
    /\ \/ /\ ~Taken(register[g].phone)
          /\ \E u \in User :
               /\ users[u] = None
               /\ users' = [users EXCEPT ![u] =
                      [NewRow(register[g].phone) EXCEPT !.lastSent = now]]
               /\ register' = [register EXCEPT ![g] = [@ EXCEPT !.pc = "send", !.user = u]]
       \/ /\ Taken(register[g].phone)
          /\ register' = [register EXCEPT ![g].pc = "conflict"]
          /\ UNCHANGED users
    /\ UNCHANGED <<now, cleared, resend, check, update>>

\* createUser; a number taken since the lookup violates the unique column.
RegisterCreate(g) ==
    /\ register[g].pc = "create"
    /\ \/ /\ ~Taken(register[g].phone)
          /\ \E u \in User :
               /\ users[u] = None
               /\ users' = [users EXCEPT ![u] = NewRow(register[g].phone)]
               /\ register' = [register EXCEPT ![g] = [@ EXCEPT !.pc = "send", !.user = u]]
       \/ /\ Taken(register[g].phone)
          /\ register' = [register EXCEPT ![g].pc = "conflict"]
          /\ UNCHANGED users
    /\ UNCHANGED <<now, cleared, resend, check, update>>

\* sendSms; when it throws the account is kept, to request another code later.
RegisterSend(g) ==
    /\ register[g].pc = "send"
    /\ \E outcome \in {"sent", "unsent"} :
         register' = [register EXCEPT ![g].pc = outcome]
    /\ UNCHANGED <<now, users, cleared, resend, check, update>>

------------------------------------------------------------------------------
(* resendPhoneOtp *)

\* elapsed < Cooldown, and the complement the claim tests: null or
\* <= eligibleBefore.
CoolingDown(last, t) == last # NoTime /\ t - last < Cooldown

\* findById, then the early returns; the handler reads the clock here.
ResendRead(r, u) ==
    /\ resend[r].pc = "idle"
    /\ Exists(u)
    /\ resend' = [resend EXCEPT ![r] =
           [@ EXCEPT !.user = u, !.phone = users[u].phone, !.at = now,
                     !.pc = IF users[u].verified THEN "refused"
                            ELSE IF CoolingDown(users[u].lastSent, now) THEN "cooldown"
                            ELSE "claim"]]
    /\ UNCHANGED <<now, users, cleared, register, check, update>>

\* The WHERE of the updateMany, and a variant that names the row alone.
ClaimableById(r) == Exists(resend[r].user)
Claimable(r) ==
    LET u == resend[r].user
    IN  /\ Exists(u)
        /\ ~users[u].verified
        /\ ~CoolingDown(users[u].lastSent, resend[r].at)

\* updateMany sets the slot to the clock read above; count 0 is refused.
ResendClaim(r) ==
    LET u == resend[r].user
    IN  /\ resend[r].pc = "claim"
        /\ \/ /\ Claimable(r)
              /\ users' = [users EXCEPT ![u].lastSent = resend[r].at]
              /\ resend' = [resend EXCEPT ![r] =
                     [@ EXCEPT !.pc = "send", !.epoch = cleared[u]]]
           \/ /\ ~Claimable(r)
              /\ resend' = [resend EXCEPT ![r].pc = "cooldown"]
              /\ UNCHANGED users
        /\ UNCHANGED <<now, cleared, register, check, update>>

\* sendSms to the number that was read; when it throws the slot stays claimed.
ResendSend(r) ==
    /\ resend[r].pc = "send"
    /\ \E outcome \in {"sent", "unsent"} :
         resend' = [resend EXCEPT ![r].pc = outcome]
    /\ UNCHANGED <<now, users, cleared, register, check, update>>

------------------------------------------------------------------------------
(* verifyPhone *)

\* findById, then the early return of a verified number.
CheckRead(v, u) ==
    /\ check[v].pc = "idle"
    /\ Exists(u)
    /\ check' = [check EXCEPT ![v] =
           [@ EXCEPT !.user = u, !.phone = users[u].phone,
                     !.pc = IF users[u].verified THEN "rejected" ELSE "check"]]
    /\ UNCHANGED <<now, users, cleared, register, resend, update>>

\* verifySms of the number that was read.
CheckTwilio(v) ==
    /\ check[v].pc = "check"
    /\ \E outcome \in {"mark", "rejected"} :
         check' = [check EXCEPT ![v].pc = outcome]
    /\ UNCHANGED <<now, users, cleared, register, resend, update>>

\* markPhoneAsVerified: by id, whatever number the row has by now.
CheckMark(v) ==
    LET u == check[v].user
    IN  /\ check[v].pc = "mark"
        /\ \/ /\ Exists(u)
              /\ users' = [users EXCEPT ![u].verified = TRUE]
              /\ check' = [check EXCEPT ![v] =
                     [@ EXCEPT !.pc = "verified", !.moved = users[u].phone # check[v].phone]]
           \/ /\ ~Exists(u)
              /\ check' = [check EXCEPT ![v].pc = "gone"]
              /\ UNCHANGED users
        /\ UNCHANGED <<now, cleared, register, resend, update>>

------------------------------------------------------------------------------
(* updateUser, and the rest *)

\* findFirst(current), and the decision whether the number is a new one.
UpdateRead(w, u, p) ==
    /\ update[w].pc = "idle"
    /\ Exists(u)
    /\ update' = [update EXCEPT ![w] =
           [@ EXCEPT !.pc = "save", !.user = u, !.phone = p,
                     !.changed = p # users[u].phone]]
    /\ UNCHANGED <<now, users, cleared, register, resend, check>>

\* Variant of Saved: the verified timestamp is kept.
SavedKeepingVerified(row, w) == [row EXCEPT !.phone = update[w].phone]

\* Variant of Saved: a new number starts without one.
SavedWithoutNumber(row, w) ==
    IF update[w].changed THEN [row EXCEPT !.phone = None, !.verified = FALSE]
    ELSE row

\* user.update writes the number the request carries, and the two nulls only if
\* it was decided to be new.
Saved(row, w) ==
    IF update[w].changed THEN NewRow(update[w].phone)
    ELSE [row EXCEPT !.phone = update[w].phone]

UpdateSave(w) ==
    LET u == update[w].user
        p == update[w].phone
    IN  /\ update[w].pc = "save"
        /\ \/ /\ Exists(u)
              /\ \A t \in User \ {u} : Exists(t) => users[t].phone # p
              /\ users' = [users EXCEPT ![u] = Saved(@, w)]
              /\ cleared' = [cleared EXCEPT ![u] = IF update[w].changed THEN @ + 1 ELSE @]
              /\ update' = [update EXCEPT ![w] =
                     [@ EXCEPT !.pc = "saved",
                               !.moved = ~update[w].changed /\ users[u].phone # p]]
           \/ \* P2025 or P2002.
              /\ Exists(u) => \E t \in User \ {u} : Exists(t) /\ users[t].phone = p
              /\ update' = [update EXCEPT ![w].pc = "refused"]
              /\ UNCHANGED <<users, cleared>>
        /\ UNCHANGED <<now, register, resend, check>>

\* The admin's DELETE.
RemoveUser(u) ==
    /\ Exists(u)
    /\ users' = [users EXCEPT ![u] = Gone]
    /\ UNCHANGED <<now, cleared, register, resend, check, update>>

Tick ==
    /\ now < MaxTime
    /\ now' = now + 1
    /\ UNCHANGED <<users, cleared, register, resend, check, update>>

RegisterNext(g) ==
    (\E p \in Phone : RegisterLookup(g, p)) \/ RegisterCreate(g) \/ RegisterSend(g)
ResendNext(r) ==
    (\E u \in User : ResendRead(r, u)) \/ ResendClaim(r) \/ ResendSend(r)
CheckNext(v) ==
    (\E u \in User : CheckRead(v, u)) \/ CheckTwilio(v) \/ CheckMark(v)
UpdateNext(w) ==
    (\E u \in User, p \in Phone : UpdateRead(w, u, p)) \/ UpdateSave(w)

Next ==
    \/ \E g \in Register : RegisterNext(g)
    \/ \E r \in Resend : ResendNext(r)
    \/ \E v \in Check : CheckNext(v)
    \/ \E w \in Update : UpdateNext(w)
    \/ \E u \in User : RemoveUser(u)
    \/ Tick

Spec == Init /\ [][Next]_vars

------------------------------------------------------------------------------
(* Properties *)

Claimed(r) == resend[r].pc \in {"send", "sent", "unsent"}

\* Of the resend requests of an account, however they interleave, two that go
\* on to send an SMS read the clock at least Cooldown apart, unless a change of
\* number emptied the slot between them: "Claim the resend slot atomically.
\* This prevents two simultaneous API requests from sending two SMS messages."
ClaimsSpaced ==
    \A r, s \in Resend :
        /\ r # s /\ Claimed(r) /\ Claimed(s)
        /\ resend[r].user = resend[s].user
        /\ resend[r].epoch = resend[s].epoch
        => resend[r].at - resend[s].at >= Cooldown \/ resend[s].at - resend[r].at >= Cooldown

\* Nobody is told to wait for a message that was never asked for: a request
\* refused for the cooldown was refused because of another one that claimed the
\* slot less than Cooldown before it, or because the account was verified or
\* removed meanwhile.  An account whose first SMS failed at registration can
\* ask for another one at once.
RefusedBecauseOfAnother ==
    \A r \in Resend :
        resend[r].pc = "cooldown" =>
            \/ \E s \in Resend \ {r} :
                 /\ Claimed(s) /\ resend[s].user = resend[r].user
                 /\ resend[r].at - resend[s].at < Cooldown
            \/ \E v \in Check : check[v].pc = "verified" /\ check[v].user = resend[r].user
            \/ users[resend[r].user] = Gone

Approved(u, p) ==
    \E v \in Check : /\ check[v].pc \in {"mark", "verified", "gone"}
                     /\ check[v].user = u /\ check[v].phone = p

\* A request that wrote the row of an account after its number had moved away
\* from what the request had read.
Overtaken(u) ==
    \/ \E v \in Check : check[v].moved /\ check[v].user = u
    \/ \E w \in Update : update[w].moved /\ update[w].user = u

\* A number counts as verified only if Twilio approved a code for that number
\* and that account, unless an update moved the number between the read and the
\* write of a verification or of another update.
VerifiedNumberWasApproved ==
    \A u \in User :
        Exists(u) /\ users[u].verified /\ ~Overtaken(u) => Approved(u, users[u].phone)

\* The same without the exception: "Changed email and phone values clear the
\* corresponding verified timestamp; use the existing verification endpoints to
\* verify the new contact details".
VerifiedOnlyIfApproved ==
    \A u \in User : Exists(u) /\ users[u].verified => Approved(u, users[u].phone)

==============================================================================
