---------------------------- MODULE PasswordReset ----------------------------
(***************************************************************************)
(* The forgotten-password flow of auth.service.ts: a code mailed to an     *)
(* address, its verification by a Lua script in Redis, the reset token and *)
(* the new password, next to the logins that store refresh tokens, the     *)
(* profile updates that move an address, the changes of password that      *)
(* leave those tokens alone and the removal of accounts.                   *)
(*                                                                         *)
(* A request runs one atomic section between two awaits as one action.  A  *)
(* request that stops between two sections (a crash, a dropped connection  *)
(* to Redis) is a request whose next action never happens.                 *)
(***************************************************************************)
EXTENDS Integers, FiniteSets

CONSTANTS
    User, Email, Code,
    Forgot,       \* POST /auth/forgot-password requests, email form
    Verify,       \* POST /auth/forgot-password/verify-otp requests, email form
    PhoneVerify,  \* the same two routes, phone form
    Reset,        \* POST /auth/reset-password requests
    Login,        \* POST /auth/login requests
    Change,       \* POST /auth/change-password requests
    Moderate,     \* PATCH /admin/user/:id requests that carry a password
    None,         \* "no value": null, an absent row or an absent key
    CooldownTTL,  \* EX 30 of the cooldown key
    ChallengeTTL, \* EX 600 of the challenge key
    TokenTTL,     \* EX 600 of the token key and the JWT's 10m
    MaxAttempts,  \* 5 in the Lua script
    MaxTime       \* the clock stops here

ASSUME TTLAssumption ==
    /\ CooldownTTL \in Nat /\ ChallengeTTL \in Nat /\ TokenTTL \in Nat
    /\ MaxAttempts \in Nat \ {0} /\ MaxTime \in Nat

ASSUME NoneAssumption ==
    None \notin User \cup Email \cup Code \cup Forgot \cup Verify
                     \cup PhoneVerify \cup Reset \cup Login \cup Change \cup Moderate

\* A request id of one route is not one of the other: the token of a Verify
\* carries a jti, that of a PhoneVerify does not.
ASSUME RouteAssumption == Verify \cap PhoneVerify = {}

\* Nor do two requests of different routes write the same password hash.
ASSUME WriterAssumption ==
    Reset \cap Change = {} /\ Reset \cap Moderate = {} /\ Change \cap Moderate = {}

VARIABLES
    now,        \* the clock of Redis and of the JWT library
    users,      \* the rows of the user table, None once removed
    cooldown,   \* password-reset:email:<hash>:cooldown -> its expiry
    challenge,  \* password-reset:email:<hash> -> the challenge
    token,      \* password-reset:token:<jti> -> the owner
    session,    \* refresh_token:<user> -> the login that stored it
    forgot, verify, phone, reset, login, \* the requests
    rewritten   \* the Change and Moderate requests that have replaced a password

vars == <<now, users, cooldown, challenge, token, session,
          forgot, verify, phone, reset, login, rewritten>>

NoTime == -1
Time == 0..MaxTime

\* The password column: the request that wrote the hash, None at first.
Rewrite == Change \cup Moderate
Password == Reset \cup Rewrite \cup {None}
UserRow == [email : Email, password : Password]
Challenge == [forgot : Forgot, code : Code, user : User,
              attempts : 0..MaxAttempts - 1, exp : Nat]
ASSUME NoneIsNoKey == None \notin Challenge
Token == [user : User, exp : Nat]

\* pc, and the locals that live across an await.  "claimedAt", "storedAt",
\* "matchedAt", "challenge", "stale" and "kept" are history: no guard reads them.
ForgotState ==
    [pc : {"idle", "lookup", "store", "mail", "cleanup", "done", "refused", "failed"},
     email : Email \cup {None}, user : User \cup {None},
     claimedAt : Time \cup {NoTime}, storedAt : Time \cup {NoTime}]
VerifyState ==
    [pc : {"idle", "recheck", "store", "issued", "rejected"},
     email : Email \cup {None}, user : User \cup {None},
     challenge : Forgot \cup {None}, matchedAt : Time \cup {NoTime},
     jwtExp : Nat \cup {NoTime}]
PhoneState == [user : User \cup {None}, jwtExp : Nat \cup {NoTime}]
ResetState ==
    [pc : {"idle", "consume", "update", "revoke", "done", "refused",
           "updateFailed", "revokeFailed"},
     token : Verify \cup PhoneVerify \cup {None}, user : User \cup {None}]
LoginState ==
    [pc : {"idle", "details", "store", "done", "refused"},
     user : User \cup {None}, password : Password,
     stale : BOOLEAN, kept : BOOLEAN]

\* Every variable holds a value of its kind: a row or nothing, a key with an
\* attempt count below the limit or nothing, a request at one of its awaits.
TypeOK ==
    /\ now \in Time
    /\ users \in [User -> UserRow \cup {None}]
    /\ cooldown \in [Email -> Nat \cup {NoTime}]
    /\ challenge \in [Email -> Challenge \cup {None}]
    /\ token \in [Verify -> Token \cup {None}]
    /\ session \in [User -> Login \cup {None}]
    /\ forgot \in [Forgot -> ForgotState]
    /\ verify \in [Verify -> VerifyState]
    /\ phone \in [PhoneVerify -> PhoneState]
    /\ reset \in [Reset -> ResetState]
    /\ login \in [Login -> LoginState]
    /\ rewritten \subseteq Rewrite

\* Accounts exist at first, each with an address of its own (the column is
\* unique), and Redis is empty.
Init ==
    /\ now = 0
    /\ users \in [User -> [email : Email, password : {None}]]
    /\ \A u, w \in User : users[u].email = users[w].email => u = w
    /\ cooldown = [e \in Email |-> NoTime]
    /\ challenge = [e \in Email |-> None]
    /\ token = [v \in Verify |-> None]
    /\ session = [u \in User |-> None]
    /\ forgot = [f \in Forgot |-> [pc |-> "idle", email |-> None, user |-> None,
                                   claimedAt |-> NoTime, storedAt |-> NoTime]]
    /\ verify = [v \in Verify |-> [pc |-> "idle", email |-> None, user |-> None,
                                   challenge |-> None, matchedAt |-> NoTime,
                                   jwtExp |-> NoTime]]
    /\ phone = [p \in PhoneVerify |-> [user |-> None, jwtExp |-> NoTime]]
    /\ reset = [r \in Reset |-> [pc |-> "idle", token |-> None, user |-> None]]
    /\ login = [l \in Login |-> [pc |-> "idle", user |-> None, password |-> None,
                                 stale |-> FALSE, kept |-> FALSE]]
    /\ rewritten = {}

\* Redis drops a key once the clock is past its expiry; at the expiry itself
\* the key is still served, with PTTL 0.
Live(exp) == now <= exp

\* findFirst({ email, deleted_at: null, status: 1 }).
HoldsEmail(u, e) == users[u] # None /\ users[u].email = e

------------------------------------------------------------------------------
(* forgotPasswordByEmail *)

\* Variant: SET without NX.
ForgotClaimAnyway(f, e) ==
    /\ forgot[f].pc = "idle"
    /\ cooldown' = [cooldown EXCEPT ![e] = now + CooldownTTL]
    /\ forgot' = [forgot EXCEPT ![f] =
           [@ EXCEPT !.pc = "lookup", !.email = e, !.claimedAt = now]]
    /\ UNCHANGED <<now, users, challenge, token, session, verify, phone, reset, login,
                   rewritten>>

\* SET cooldown NX EX 30: the first request of a window takes the slot.
ForgotClaim(f, e) ==
    /\ forgot[f].pc = "idle"
    /\ ~Live(cooldown[e])
    /\ cooldown' = [cooldown EXCEPT ![e] = now + CooldownTTL]
    /\ forgot' = [forgot EXCEPT ![f] =
           [@ EXCEPT !.pc = "lookup", !.email = e, !.claimedAt = now]]
    /\ UNCHANGED <<now, users, challenge, token, session, verify, phone, reset, login,
                   rewritten>>

\* The slot is taken: the neutral response, nothing else.
ForgotRefused(f, e) ==
    /\ forgot[f].pc = "idle"
    /\ Live(cooldown[e])
    /\ forgot' = [forgot EXCEPT ![f] =
           [@ EXCEPT !.pc = "refused", !.email = e]]
    /\ UNCHANGED <<now, users, cooldown, challenge, token, session, verify, phone,
                   reset, login, rewritten>>

\* An unknown address gets the same response and keeps the cooldown.
ForgotLookup(f) ==
    /\ forgot[f].pc = "lookup"
    /\ \/ \E u \in User :
            /\ HoldsEmail(u, forgot[f].email)
            /\ forgot' = [forgot EXCEPT ![f] =
                   [@ EXCEPT !.pc = "store", !.user = u]]
       \/ /\ \A u \in User : ~HoldsEmail(u, forgot[f].email)
          /\ forgot' = [forgot EXCEPT ![f].pc = "refused"]
    /\ UNCHANGED <<now, users, cooldown, challenge, token, session, verify, phone,
                   reset, login, rewritten>>

\* SET challenge EX 600 replaces whatever challenge the address had.
ForgotStore(f) ==
    /\ forgot[f].pc = "store"
    /\ \E c \in Code :
         challenge' = [challenge EXCEPT ![forgot[f].email] =
             [forgot |-> f, code |-> c, user |-> forgot[f].user,
              attempts |-> 0, exp |-> now + ChallengeTTL]]
    /\ forgot' = [forgot EXCEPT ![f] =
           [@ EXCEPT !.pc = "mail", !.storedAt = now]]
    /\ UNCHANGED <<now, users, cooldown, token, session, verify, phone, reset, login,
                   rewritten>>

\* queue.add(...) resolves: the mail will be sent.
ForgotQueued(f) ==
    /\ forgot[f].pc = "mail"
    /\ forgot' = [forgot EXCEPT ![f].pc = "done"]
    /\ UNCHANGED <<now, users, cooldown, challenge, token, session, verify, phone,
                   reset, login, rewritten>>

\* queue.add(...) rejects: the handler goes to its catch block.
ForgotQueueFails(f) ==
    /\ forgot[f].pc = "mail"
    /\ forgot' = [forgot EXCEPT ![f].pc = "cleanup"]
    /\ UNCHANGED <<now, users, cooldown, challenge, token, session, verify, phone,
                   reset, login, rewritten>>

\* DEL challenge cooldown: whoever's keys they are by now.
ForgotCleanup(f) ==
    /\ forgot[f].pc = "cleanup"
    /\ challenge' = [challenge EXCEPT ![forgot[f].email] = None]
    /\ cooldown' = [cooldown EXCEPT ![forgot[f].email] = NoTime]
    /\ forgot' = [forgot EXCEPT ![f].pc = "failed"]
    /\ UNCHANGED <<now, users, token, session, verify, phone, reset, login,
                   rewritten>>

------------------------------------------------------------------------------
(* verifyEmailPasswordResetOtp and the Lua script VERIFY_EMAIL_RESET_OTP *)

\* GET finds the challenge of an address.
Served(e) == challenge[e] # None /\ Live(challenge[e].exp)

\* GET returns nil.
VerifyNoChallenge(v, e) ==
    /\ verify[v].pc = "idle"
    /\ ~Served(e)
    /\ verify' = [verify EXCEPT ![v] =
           [@ EXCEPT !.pc = "rejected", !.email = e]]
    /\ UNCHANGED <<now, users, cooldown, challenge, token, session, forgot, phone,
                   reset, login, rewritten>>

\* Variant: the script returns before DEL.
VerifyMatchesKeeping(v, e, c) ==
    /\ verify[v].pc = "idle"
    /\ Served(e)
    /\ challenge[e].code = c
    /\ verify' = [verify EXCEPT ![v] =
           [@ EXCEPT !.pc = "recheck", !.email = e, !.user = challenge[e].user,
                     !.challenge = challenge[e].forgot, !.matchedAt = now]]
    /\ UNCHANGED <<now, users, cooldown, challenge, token, session, forgot, phone,
                   reset, login, rewritten>>

\* The hashes agree: DEL and return the user id stored with the challenge.
VerifyMatches(v, e, c) ==
    /\ verify[v].pc = "idle"
    /\ Served(e)
    /\ challenge[e].code = c
    /\ challenge' = [challenge EXCEPT ![e] = None]
    /\ verify' = [verify EXCEPT ![v] =
           [@ EXCEPT !.pc = "recheck", !.email = e, !.user = challenge[e].user,
                     !.challenge = challenge[e].forgot, !.matchedAt = now]]
    /\ UNCHANGED <<now, users, cooldown, token, session, forgot, phone, reset, login,
                   rewritten>>

\* Variants of AfterWrongCode: the limit tested before the attempt is counted,
\* and the key written back without a lifetime (SET in place of PSETEX ttl).
AfterWrongCodeLate(ch) ==
    IF ch.attempts >= MaxAttempts \/ ch.exp - now <= 0
    THEN None
    ELSE [ch EXCEPT !.attempts = @ + 1]
AfterWrongCodeForever(ch) ==
    IF ch.attempts + 1 >= MaxAttempts \/ ch.exp - now <= 0
    THEN None
    ELSE [ch EXCEPT !.attempts = @ + 1, !.exp = MaxTime]

\* What a wrong code leaves of a challenge: nothing at the last attempt or when
\* no lifetime is left, else one more attempt and the lifetime it had.
AfterWrongCode(ch) ==
    LET ttl == ch.exp - now
    IN  IF ch.attempts + 1 >= MaxAttempts \/ ttl <= 0
        THEN None
        ELSE [ch EXCEPT !.attempts = @ + 1, !.exp = now + ttl]

VerifyWrongCode(v, e, c) ==
    /\ verify[v].pc = "idle"
    /\ Served(e)
    /\ challenge[e].code # c
    /\ challenge' = [challenge EXCEPT ![e] = AfterWrongCode(challenge[e])]
    /\ verify' = [verify EXCEPT ![v] =
           [@ EXCEPT !.pc = "rejected", !.email = e,
                     !.challenge = challenge[e].forgot]]
    /\ UNCHANGED <<now, users, cooldown, token, session, forgot, phone, reset, login,
                   rewritten>>

\* findFirst({ id, email, deleted_at: null, status: 1 }), and a variant that
\* looks the id up alone.
EligibleById(v) == users[verify[v].user] # None
Eligible(v) == HoldsEmail(verify[v].user, verify[v].email)

\* The row may have changed since the challenge was stored: it is read again,
\* by id and address, and the token is signed.
VerifyRecheck(v) ==
    /\ verify[v].pc = "recheck"
    /\ \/ /\ Eligible(v)
          /\ verify' = [verify EXCEPT ![v] =
                 [@ EXCEPT !.pc = "store", !.jwtExp = now + TokenTTL]]
       \/ /\ ~Eligible(v)
          /\ verify' = [verify EXCEPT ![v].pc = "rejected"]
    /\ UNCHANGED <<now, users, cooldown, challenge, token, session, forgot, phone,
                   reset, login, rewritten>>

\* SET token EX 600 under a fresh jti (the request's own id), then respond.
VerifyStore(v) ==
    /\ verify[v].pc = "store"
    /\ token' = [token EXCEPT ![v] = [user |-> verify[v].user, exp |-> now + TokenTTL]]
    /\ verify' = [verify EXCEPT ![v].pc = "issued"]
    /\ UNCHANGED <<now, users, cooldown, challenge, session, forgot, phone, reset,
                   login, rewritten>>

\* verifyForgotPasswordOtp: the code Twilio approved buys a token without a jti.
PhoneIssue(p, u) ==
    /\ phone[p].user = None
    /\ users[u] # None
    /\ phone' = [phone EXCEPT ![p] = [user |-> u, jwtExp |-> now + TokenTTL]]
    /\ UNCHANGED <<now, users, cooldown, challenge, token, session, forgot, verify,
                   reset, login, rewritten>>

------------------------------------------------------------------------------
(* resetPassword *)

\* The JWT is valid and its subject's row exists.
ResetCheckEmail(r, v) ==
    /\ reset[r].pc = "idle"
    /\ verify[v].pc = "issued"
    /\ now < verify[v].jwtExp
    /\ users[verify[v].user] # None
    /\ reset' = [reset EXCEPT ![r] = [pc |-> "consume", token |-> v,
                                      user |-> verify[v].user]]
    /\ UNCHANGED <<now, users, cooldown, challenge, token, session, forgot, verify,
                   phone, login, rewritten>>

\* A token without a jti skips GETDEL: it may be presented again.
ResetCheckPhone(r, p) ==
    /\ reset[r].pc = "idle"
    /\ phone[p].user # None
    /\ now < phone[p].jwtExp
    /\ users[phone[p].user] # None
    /\ reset' = [reset EXCEPT ![r] = [pc |-> "update", token |-> p,
                                      user |-> phone[p].user]]
    /\ UNCHANGED <<now, users, cooldown, challenge, token, session, forgot, verify,
                   phone, login, rewritten>>

\* Variant: GET in place of GETDEL.
ResetConsumeByGet(r) ==
    LET t == token[reset[r].token]
    IN  /\ reset[r].pc = "consume"
        /\ reset' = [reset EXCEPT ![r].pc =
               IF t # None /\ Live(t.exp) /\ t.user = reset[r].user
               THEN "update" ELSE "refused"]
        /\ UNCHANGED <<now, users, cooldown, challenge, token, session, forgot,
                       verify, phone, login, rewritten>>

\* GETDEL returns the owner, and only this request sees it.
ResetConsume(r) ==
    LET t == token[reset[r].token]
    IN  /\ reset[r].pc = "consume"
        /\ token' = [token EXCEPT ![reset[r].token] = None]
        /\ reset' = [reset EXCEPT ![r].pc =
               IF t # None /\ Live(t.exp) /\ t.user = reset[r].user
               THEN "update" ELSE "refused"]
        /\ UNCHANGED <<now, users, cooldown, challenge, session, forgot, verify,
                       phone, login, rewritten>>

\* Variant: the handler returns after the update.
ResetUpdateOnly(r) ==
    /\ reset[r].pc = "update"
    /\ users[reset[r].user] # None
    /\ users' = [users EXCEPT ![reset[r].user].password = r]
    /\ reset' = [reset EXCEPT ![r].pc = "done"]
    /\ UNCHANGED <<now, cooldown, challenge, token, session, forgot, verify, phone,
                   login, rewritten>>

\* prisma.user.update by id.
ResetUpdate(r) ==
    /\ reset[r].pc = "update"
    /\ users[reset[r].user] # None
    /\ users' = [users EXCEPT ![reset[r].user].password = r]
    /\ reset' = [reset EXCEPT ![r].pc = "revoke"]
    /\ UNCHANGED <<now, cooldown, challenge, token, session, forgot, verify, phone,
                   login, rewritten>>

\* The row is gone, or the database fails: the token stays consumed.
ResetUpdateFails(r) ==
    /\ reset[r].pc = "update"
    /\ reset' = [reset EXCEPT ![r].pc = "updateFailed"]
    /\ UNCHANGED <<now, users, cooldown, challenge, token, session, forgot, verify,
                   phone, login, rewritten>>

\* DEL refresh_token:<user>.
ResetRevoke(r) ==
    /\ reset[r].pc = "revoke"
    /\ session' = [session EXCEPT ![reset[r].user] = None]
    /\ reset' = [reset EXCEPT ![r].pc = "done"]
    /\ UNCHANGED <<now, users, cooldown, challenge, token, forgot, verify, phone,
                   login, rewritten>>

ResetRevokeFails(r) ==
    /\ reset[r].pc = "revoke"
    /\ reset' = [reset EXCEPT ![r].pc = "revokeFailed"]
    /\ UNCHANGED <<now, users, cooldown, challenge, token, session, forgot, verify,
                   phone, login, rewritten>>

------------------------------------------------------------------------------
(* validateUser and login *)

\* bcrypt.compare against the row that was read succeeds.
LoginValidate(l, u) ==
    /\ login[l].pc = "idle"
    /\ users[u] # None
    /\ login' = [login EXCEPT ![l] =
           [@ EXCEPT !.pc = "details", !.user = u, !.password = users[u].password]]
    /\ UNCHANGED <<now, users, cooldown, challenge, token, session, forgot, verify,
                   phone, reset, rewritten>>

\* getUserDetails reads the row a second time, but not to compare the password.
LoginDetails(l) ==
    /\ login[l].pc = "details"
    /\ login' = [login EXCEPT ![l].pc =
           IF users[login[l].user] # None THEN "store" ELSE "refused"]
    /\ UNCHANGED <<now, users, cooldown, challenge, token, session, forgot, verify,
                   phone, reset, rewritten>>

\* SET refresh_token:<user> EX 7d.  "stale": the password was replaced since.
LoginStore(l) ==
    LET u == login[l].user
    IN  /\ login[l].pc = "store"
        /\ session' = [session EXCEPT ![u] = l]
        /\ login' = [login EXCEPT ![l] =
               [@ EXCEPT !.pc = "done",
                         !.stale = users[u] # None /\ users[u].password # login[l].password]]
        /\ UNCHANGED <<now, users, cooldown, challenge, token, forgot, verify, phone,
                       reset, rewritten>>

------------------------------------------------------------------------------
(* The rest of the application, and time *)

\* updateUser moves an account to an address no row holds.
ChangeEmail(u, e) ==
    /\ users[u] # None
    /\ \A w \in User : ~HoldsEmail(w, e)
    /\ users' = [users EXCEPT ![u].email = e]
    /\ UNCHANGED <<now, cooldown, challenge, token, session, forgot, verify, phone,
                   reset, login, rewritten>>

\* The requests that hold a refresh token of u, marked: the password was replaced
\* and nobody deleted the key.
Keep(u) ==
    IF session[u] = None THEN login ELSE [login EXCEPT ![session[u]].kept = TRUE]

\* changePassword of the repository: update where the email is e.  refresh_token
\* stays.  (The comparison before it is Accounts!ChangeValidate.)
ChangePassword(x, u, e) ==
    /\ x \in Change \ rewritten
    /\ HoldsEmail(u, e)
    /\ users' = [users EXCEPT ![u].password = x]
    /\ login' = Keep(u)
    /\ rewritten' = rewritten \cup {x}
    /\ UNCHANGED <<now, cooldown, challenge, token, session, forgot, verify, phone, reset>>

\* updateUser of the repository: one update by id of the password and, when the
\* body has one, of the address.  refresh_token stays here as well.
AdminUpdate(x, u, e) ==
    /\ x \in Moderate \ rewritten
    /\ users[u] # None
    /\ e # users[u].email => \A w \in User : ~HoldsEmail(w, e)
    /\ users' = [users EXCEPT ![u] = [email |-> e, password |-> x]]
    /\ login' = Keep(u)
    /\ rewritten' = rewritten \cup {x}
    /\ UNCHANGED <<now, cooldown, challenge, token, session, forgot, verify, phone, reset>>

\* The admin's DELETE removes the row; nothing in Redis is touched.
RemoveUser(u) ==
    /\ users[u] # None
    /\ users' = [users EXCEPT ![u] = None]
    /\ UNCHANGED <<now, cooldown, challenge, token, session, forgot, verify, phone,
                   reset, login, rewritten>>

Tick ==
    /\ now < MaxTime
    /\ now' = now + 1
    /\ UNCHANGED <<users, cooldown, challenge, token, session, forgot, verify, phone,
                   reset, login, rewritten>>

ForgotNext(f) ==
    \/ \E e \in Email : ForgotClaim(f, e) \/ ForgotRefused(f, e)
    \/ ForgotLookup(f) \/ ForgotStore(f) \/ ForgotQueued(f)
    \/ ForgotQueueFails(f) \/ ForgotCleanup(f)

VerifyNext(v) ==
    \/ \E e \in Email :
         \/ VerifyNoChallenge(v, e)
         \/ \E c \in Code : VerifyMatches(v, e, c) \/ VerifyWrongCode(v, e, c)
    \/ VerifyRecheck(v) \/ VerifyStore(v)

ResetNext(r) ==
    \/ \E v \in Verify : ResetCheckEmail(r, v)
    \/ \E p \in PhoneVerify : ResetCheckPhone(r, p)
    \/ ResetConsume(r) \/ ResetUpdate(r) \/ ResetUpdateFails(r)
    \/ ResetRevoke(r) \/ ResetRevokeFails(r)

LoginNext(l) ==
    \/ \E u \in User : LoginValidate(l, u)
    \/ LoginDetails(l) \/ LoginStore(l)

Next ==
    \/ \E f \in Forgot : ForgotNext(f)
    \/ \E v \in Verify : VerifyNext(v)
    \/ \E p \in PhoneVerify, u \in User : PhoneIssue(p, u)
    \/ \E r \in Reset : ResetNext(r)
    \/ \E l \in Login : LoginNext(l)
    \/ \E u \in User, e \in Email : ChangeEmail(u, e)
    \/ \E x \in Rewrite, u \in User, e \in Email :
         ChangePassword(x, u, e) \/ AdminUpdate(x, u, e)
    \/ \E u \in User : RemoveUser(u)
    \/ Tick

Spec == Init /\ [][Next]_vars

------------------------------------------------------------------------------
(* Properties *)

\* The code of one challenge is compared with what a user typed at most
\* MaxAttempts times, the match included, however the verifications of an
\* address interleave and whenever its challenge is replaced (attempts in the
\* Lua script).
AttemptsBounded ==
    \A f \in Forgot :
        Cardinality({v \in Verify : verify[v].challenge = f}) <= MaxAttempts

\* A code opens the door only during ChallengeTTL after it was stored: wrong
\* attempts in between do not prolong its life (PSETEX with the rest of it).
CodeHonouredInTime ==
    \A v \in Verify :
        verify[v].matchedAt # NoTime =>
            verify[v].matchedAt
                <= forgot[verify[v].challenge].storedAt + ChallengeTTL

\* The reset requests that replaced a password.
Wrote(r) == reset[r].pc \in {"revoke", "done", "revokeFailed"}

\* One mailed code changes at most one password, once: the script consumes the
\* challenge, GETDEL consumes the token it bought.
CodeChangesPasswordOnce ==
    \A r, s \in Reset :
        /\ Wrote(r) /\ reset[r].token \in Verify
        /\ Wrote(s) /\ reset[s].token \in Verify
        /\ verify[reset[r].token].challenge = verify[reset[s].token].challenge
        => r = s

\* A token is signed only for the account that holds, at that moment, the
\* address the code was mailed to, and that held it when the code was made: an
\* address that moved to another account in between buys nothing.
TokenOnlyForMailboxHolder ==
    [][\A v \in Verify :
         verify'[v].jwtExp # verify[v].jwtExp =>
            LET f == verify[v].challenge
            IN  /\ verify[v].user = forgot[f].user
                /\ users[forgot[f].user] # None
                /\ users[forgot[f].user].email = forgot[f].email]_vars

\* Two codes queued for one address were asked for more than CooldownTTL apart,
\* unless a request of that address failed to queue its mail.
CooldownSpacesMails ==
    \A f, g \in Forgot :
        /\ f # g
        /\ forgot[f].pc = "done" /\ forgot[g].pc = "done"
        /\ forgot[f].email = forgot[g].email
        /\ forgot[f].claimedAt <= forgot[g].claimedAt
        /\ forgot[g].claimedAt <= forgot[f].claimedAt + CooldownTTL
        => \E h \in Forgot : forgot[h].pc = "failed" /\ forgot[h].email = forgot[f].email

\* The same without the exception: "Re-requesting a code uses the
\* forgot-password endpoint after the 30-second resend cooldown".
CooldownBetweenMails ==
    \A f, g \in Forgot :
        /\ f # g
        /\ forgot[f].pc = "done" /\ forgot[g].pc = "done"
        /\ forgot[f].email = forgot[g].email
        => \/ forgot[f].claimedAt > forgot[g].claimedAt + CooldownTTL
           \/ forgot[g].claimedAt > forgot[f].claimedAt + CooldownTTL

\* A reset whose password is written and whose refresh token is not (yet)
\* deleted.
Unrevoked(u) ==
    \E r \in Reset : reset[r].pc \in {"revoke", "revokeFailed"} /\ reset[r].user = u

\* A refresh token in Redis belongs to a login made with the password the
\* account has now; the exceptions are a reset that is about to delete it or
\* could not, a login that a new password overtook between its check and its SET,
\* and a token that was in Redis when the holder changed the password or an
\* administrator replaced it: those two writers leave it there.
SurvivingSessionIsCurrent ==
    \A u \in User :
        /\ users[u] # None
        /\ session[u] # None
        /\ ~login[session[u]].stale
        /\ ~login[session[u]].kept
        /\ ~Unrevoked(u)
        => login[session[u]].password = users[u].password

\* The same of a password that a reset wrote, without the overtaken login:
\* "Reset invalidates the stored refresh token".
ResetInvalidatesSessions ==
    \A u \in User :
        /\ users[u] # None
        /\ users[u].password \in Reset
        /\ session[u] # None
        /\ ~Unrevoked(u)
        => login[session[u]].password = users[u].password

\* The life of a mailed code, seen from outside (OneTimeCode): a challenge in
\* Redis is open, a matched one is claimed, one whose token wrote a password is
\* spent, and one that left Redis unmatched is void.
Grant ==
    [f \in Forgot |->
        IF forgot[f].storedAt = NoTime THEN "unissued"
        ELSE IF \E e \in Email : challenge[e] # None /\ challenge[e].forgot = f
             THEN "open"
        ELSE IF \E r \in Reset : Wrote(r) /\ reset[r].token \in Verify
                                  /\ verify[reset[r].token].challenge = f
             THEN "spent"
        ELSE IF \E v \in Verify : verify[v].challenge = f /\ verify[v].matchedAt # NoTime
             THEN "claimed"
        ELSE "void"]

Abstract == INSTANCE OneTimeCode WITH Request <- Forgot, grant <- Grant

\* Every behaviour of the handlers is one of the abstract code's life.
ImplementsOneTimeCode == Abstract!Spec

==============================================================================
