------------------------------- MODULE Sessions -------------------------------
(***************************************************************************)
(* The refresh token of an account and the reset by SMS that ends it:      *)
(* login, refreshToken, revokeRefreshToken, forgotPassword,                *)
(* verifyForgotPasswordOtp and resetPassword of auth.service.ts over       *)
(* twilio-verify.service.ts.                                               *)
(*                                                                         *)
(* A refresh token is a JWT of { sub, iat, exp } and nothing else: two     *)
(* logins of one account in one second get the same token.  The clock      *)
(* counts those seconds.  Passwords are PasswordReset's.                   *)
(***************************************************************************)
EXTENDS Integers

CONSTANTS
    Holder,      \* accounts
    Line,        \* phone numbers in E.164 form
    Typed, E164, \* what clients type, and the valid number it parses to, or Absent
    Text,        \* the verifications Twilio opens, each with a code of its own
    Ask,         \* POST /auth/forgot-password requests, phone form
    Check,       \* POST /auth/forgot-password/verify-otp requests, phone form
    Use,         \* POST /auth/reset-password requests with a phone token
    Login, Refresh, Logout,  \* POST /auth/login, /refresh-token and /logout requests
    TokenLife,   \* the 10m of the reset token
    SessionLife, \* the 7 days of refresh_token:<id>
    MaxClock,    \* the clock stops here
    Absent       \* null

ASSUME SessionsAssumption ==
    /\ E164 \in [Typed -> Line \cup {Absent}]
    /\ TokenLife \in Nat /\ SessionLife \in Nat /\ MaxClock \in Nat
    /\ Absent \notin Holder \cup Line \cup Text \cup Check \cup Login

VARIABLES
    clock,
    held,    \* phone_number and phone_verified_at of each account, Absent once removed
    open,    \* at Twilio: the verification each number has open
    sent,    \* the verifications ever opened
    session, \* refresh_token:<id>
    ask, check, use, login, refresh, logout  \* the requests

sessionsVars == <<clock, held, open, sent, session, ask, check, use, login, refresh, logout>>

Never == -1
Second == 0..MaxClock

Row == [line : Line \cup {Absent}, verified : BOOLEAN]

ASSUME RowAssumption == Absent \notin Row

\* "by" is history: the login that stored the token.
Stored == [second : Second, exp : Nat, by : Login]

ASSUME StoredAssumption == Absent \notin Stored

AskState == [pc : {"idle", "send", "sent", "neutral", "refused", "failed"},
             line : Line \cup {Absent}]
\* "text" is history: the verification whose code was approved.
CheckState == [pc : {"idle", "twilio", "issued", "rejected"}, holder : Holder \cup {Absent},
               line : Line \cup {Absent}, text : Text \cup {Absent}, exp : Nat \cup {Never}]
\* "at" is history: when the request began.
UseState == [pc : {"idle", "write", "revoke", "done", "refused", "failed"},
             token : Check \cup {Absent}, at : Second \cup {Never}]
\* "after" is history: the resets that had been answered when the token was stored.
LoginState == [pc : {"idle", "details", "store", "touch", "done", "failed"},
               holder : Holder \cup {Absent}, second : Second \cup {Never}, after : SUBSET Use]
\* "lapsed" is history: the token was of no login that followed every reset.
RefreshState == [pc : {"idle", "details", "granted", "refused"}, token : Login \cup {Absent},
                 lapsed : BOOLEAN]
LogoutState == [pc : {"idle", "del", "done", "none"}, holder : Holder \cup {Absent}]

\* Every variable holds a value of its kind.
SessionsTypeOK ==
    /\ clock \in Second
    /\ held \in [Holder -> Row \cup {Absent}]
    /\ open \in [Line -> Text \cup {Absent}]
    /\ sent \subseteq Text
    /\ session \in [Holder -> Stored \cup {Absent}]
    /\ ask \in [Ask -> AskState]
    /\ check \in [Check -> CheckState]
    /\ use \in [Use -> UseState]
    /\ login \in [Login -> LoginState]
    /\ refresh \in [Refresh -> RefreshState]
    /\ logout \in [Logout -> LogoutState]

\* The column is unique.
LineFree(p) == \A u \in Holder : held[u] # Absent => held[u].line # p

\* Accounts an administrator made have no number.
SessionsInit ==
    /\ clock = 0
    /\ held \in [Holder -> Row]
    /\ \A u \in Holder : held[u].line = Absent => ~held[u].verified
    /\ \A u, w \in Holder : held[u].line = held[w].line /\ held[u].line # Absent => u = w
    /\ open = [p \in Line |-> Absent]
    /\ sent = {}
    /\ session = [u \in Holder |-> Absent]
    /\ ask = [a \in Ask |-> [pc |-> "idle", line |-> Absent]]
    /\ check = [c \in Check |-> [pc |-> "idle", holder |-> Absent, line |-> Absent,
                                 text |-> Absent, exp |-> Never]]
    /\ use = [x \in Use |-> [pc |-> "idle", token |-> Absent, at |-> Never]]
    /\ login = [k \in Login |-> [pc |-> "idle", holder |-> Absent, second |-> Never,
                                 after |-> {}]]
    /\ refresh = [f \in Refresh |-> [pc |-> "idle", token |-> Absent, lapsed |-> FALSE]]
    /\ logout = [o \in Logout |-> [pc |-> "idle", holder |-> Absent]]

------------------------------------------------------------------------------
(* Texts: sendSms, and Twilio *)

\* verifications.create accepts: a number without an open verification gets
\* one; one that has it is sent the same code again.
Opens(p) ==
    \/ /\ open[p] # Absent
       /\ UNCHANGED <<open, sent>>
    \/ /\ open[p] = Absent
       /\ \E t \in Text \ sent :
            /\ open' = [open EXCEPT ![p] = t]
            /\ sent' = sent \cup {t}

\* Registration and resend text the number of an account (PhoneVerification).
OtherText(u) ==
    /\ held[u] # Absent
    /\ held[u].line # Absent
    /\ Opens(held[u].line)
    /\ UNCHANGED <<clock, held, session, ask, check, use, login, refresh, logout>>

\* Ten minutes, or five wrong codes.
Closes(p) ==
    /\ open[p] # Absent
    /\ open' = [open EXCEPT ![p] = Absent]
    /\ UNCHANGED <<clock, held, sent, session, ask, check, use, login, refresh, logout>>

------------------------------------------------------------------------------
(* forgotPassword *)

\* The number is parsed and its row read.  A number nobody has gets a neutral
\* answer, one that is not verified a refusal.
AskRead(a, t) ==
    LET owners == {u \in Holder : held[u] # Absent /\ held[u].line = E164[t]}
    IN  /\ ask[a].pc = "idle"
        /\ ask' = [ask EXCEPT ![a] =
               [pc |-> IF E164[t] = Absent THEN "refused"
                       ELSE IF owners = {} THEN "neutral"
                       ELSE IF \E u \in owners : held[u].verified THEN "send"
                       ELSE "refused",
                line |-> E164[t]]]
        /\ UNCHANGED <<clock, held, open, sent, session, check, use, login, refresh, logout>>

\* The text goes to the number of the row that was read.
AskSend(a) ==
    /\ ask[a].pc = "send"
    /\ Opens(ask[a].line)
    /\ ask' = [ask EXCEPT ![a].pc = "sent"]
    /\ UNCHANGED <<clock, held, session, check, use, login, refresh, logout>>

\* Twilio refuses or cannot be reached: every branch of handleTwilioError throws.
AskFails(a) ==
    /\ ask[a].pc = "send"
    /\ ask' = [ask EXCEPT ![a].pc = "failed"]
    /\ UNCHANGED <<clock, held, open, sent, session, check, use, login, refresh, logout>>

------------------------------------------------------------------------------
(* verifyForgotPasswordOtp *)

\* The row by id, and its number, verified or not.
CheckRead(c, u) ==
    /\ check[c].pc = "idle"
    /\ check' = [check EXCEPT ![c] =
           IF held[u] = Absent THEN [@ EXCEPT !.pc = "rejected"]
           ELSE IF held[u].line = Absent THEN [@ EXCEPT !.pc = "rejected"]
           ELSE [@ EXCEPT !.pc = "twilio", !.holder = u, !.line = held[u].line]]
    /\ UNCHANGED <<clock, held, open, sent, session, ask, use, login, refresh, logout>>

\* Variant: the status is not compared with 'approved'; a wrong code leaves the
\* verification pending.
CheckAnswered(c) ==
    /\ check[c].pc = "twilio"
    /\ open[check[c].line] # Absent
    /\ check' = [check EXCEPT ![c] =
           [@ EXCEPT !.pc = "issued", !.text = open[check[c].line], !.exp = clock + TokenLife]]
    /\ UNCHANGED <<clock, held, open, sent, session, ask, use, login, refresh, logout>>

\* The code of the open verification: Twilio approves it, which closes it, and
\* the token is signed, without a jti.
CheckApproved(c) ==
    /\ check[c].pc = "twilio"
    /\ open[check[c].line] # Absent
    /\ open' = [open EXCEPT ![check[c].line] = Absent]
    /\ check' = [check EXCEPT ![c] =
           [@ EXCEPT !.pc = "issued", !.text = open[check[c].line], !.exp = clock + TokenLife]]
    /\ UNCHANGED <<clock, held, sent, session, ask, use, login, refresh, logout>>

\* A wrong code, none open, or an error, perhaps after Twilio approved.
CheckRejected(c) ==
    /\ check[c].pc = "twilio"
    /\ open' \in {open, [open EXCEPT ![check[c].line] = Absent]}
    /\ check' = [check EXCEPT ![c].pc = "rejected"]
    /\ UNCHANGED <<clock, held, sent, session, ask, use, login, refresh, logout>>

------------------------------------------------------------------------------
(* resetPassword *)

\* The signature, the expiry and the row; a token without a jti is not consumed.
UseRead(x, c) ==
    /\ use[x].pc = "idle"
    /\ check[c].pc = "issued"
    /\ use' = [use EXCEPT ![x] =
           [pc |-> IF clock < check[c].exp /\ held[check[c].holder] # Absent
                   THEN "write" ELSE "refused",
            token |-> c, at |-> clock]]
    /\ UNCHANGED <<clock, held, open, sent, session, ask, check, login, refresh, logout>>

\* The password is hashed and written by id.
UseWrite(x) ==
    /\ use[x].pc = "write"
    /\ held[check[use[x].token].holder] # Absent
    /\ use' = [use EXCEPT ![x].pc = "revoke"]
    /\ UNCHANGED <<clock, held, open, sent, session, ask, check, login, refresh, logout>>

\* DEL refresh_token:<id>.
UseRevoke(x) ==
    /\ use[x].pc = "revoke"
    /\ session' = [session EXCEPT ![check[use[x].token].holder] = Absent]
    /\ use' = [use EXCEPT ![x].pc = "done"]
    /\ UNCHANGED <<clock, held, open, sent, ask, check, login, refresh, logout>>

\* The row is gone or a store fails; the client gets an error.
UseFails(x) ==
    /\ use[x].pc \in {"write", "revoke"}
    /\ use' = [use EXCEPT ![x].pc = "failed"]
    /\ UNCHANGED <<clock, held, open, sent, session, ask, check, login, refresh, logout>>

------------------------------------------------------------------------------
(* login, refreshToken, revokeRefreshToken *)

\* The account a reset is for, and those that were answered.
ResetOf(x) == check[use[x].token].holder
Answered(u) == {x \in Use : use[x].pc = "done" /\ ResetOf(x) = u}

\* validateUser: the password fits and the number is verified.
LoginValidate(k, u) ==
    /\ login[k].pc = "idle"
    /\ held[u] # Absent
    /\ held[u].line # Absent
    /\ held[u].verified
    /\ login' = [login EXCEPT ![k] = [@ EXCEPT !.pc = "details", !.holder = u]]
    /\ UNCHANGED <<clock, held, open, sent, session, ask, check, use, refresh, logout>>

\* The row again and its payments; then both tokens are signed.
LoginSign(k) ==
    /\ login[k].pc = "details"
    /\ login' = [login EXCEPT ![k] =
           IF held[@.holder] = Absent THEN [@ EXCEPT !.pc = "failed"]
           ELSE [@ EXCEPT !.pc = "store", !.second = clock]]
    /\ UNCHANGED <<clock, held, open, sent, session, ask, check, use, refresh, logout>>

\* SET refresh_token:<id> EX 7d.
LoginStore(k) ==
    /\ login[k].pc = "store"
    /\ session' = [session EXCEPT ![login[k].holder] =
           [second |-> login[k].second, exp |-> clock + SessionLife, by |-> k]]
    /\ login' = [login EXCEPT ![k] =
           [@ EXCEPT !.pc = "touch", !.after = Answered(login[k].holder)]]
    /\ UNCHANGED <<clock, held, open, sent, ask, check, use, refresh, logout>>

\* updated_at, by id: without the row the login fails and its token stays stored.
LoginTouch(k) ==
    /\ login[k].pc = "touch"
    /\ login' = [login EXCEPT ![k].pc =
           IF held[login[k].holder] = Absent THEN "failed" ELSE "done"]
    /\ UNCHANGED <<clock, held, open, sent, session, ask, check, use, refresh, logout>>

\* A query or Redis fails.
LoginFails(k) ==
    /\ login[k].pc \in {"details", "store", "touch"}
    /\ login' = [login EXCEPT ![k].pc = "failed"]
    /\ UNCHANGED <<clock, held, open, sent, session, ask, check, use, refresh, logout>>

\* GET refresh_token:<id>.
Kept(u) == session[u] # Absent /\ clock <= session[u].exp

\* A login that made the token of login k and followed every reset of its account.
Current(k) ==
    \E j \in Login :
        /\ login[j].pc \in {"touch", "done", "failed"}
        /\ login[j].holder = login[k].holder
        /\ login[j].second = login[k].second
        /\ Answered(login[k].holder) \subseteq login[j].after

\* The token of login k is compared with the stored one.
RefreshRead(f, k) ==
    LET u == login[k].holder
    IN  /\ refresh[f].pc = "idle"
        /\ login[k].pc = "done"
        /\ refresh' = [refresh EXCEPT ![f] =
               [pc |-> IF Kept(u) /\ session[u].second = login[k].second
                       THEN "details" ELSE "refused",
                token |-> k, lapsed |-> ~Current(k)]]
        /\ UNCHANGED <<clock, held, open, sent, session, ask, check, use, login, logout>>

\* The row; then a new access token.
RefreshDetails(f) ==
    /\ refresh[f].pc = "details"
    /\ refresh' = [refresh EXCEPT ![f].pc =
           IF held[login[refresh[f].token].holder] = Absent THEN "refused" ELSE "granted"]
    /\ UNCHANGED <<clock, held, open, sent, session, ask, check, use, login, logout>>

\* Any access token the account was ever given will do: its expiry is ignored.
LogoutRead(o, k) ==
    /\ logout[o].pc = "idle"
    /\ login[k].pc = "done"
    /\ logout' = [logout EXCEPT ![o] =
           [pc |-> IF Kept(login[k].holder) THEN "del" ELSE "none",
            holder |-> login[k].holder]]
    /\ UNCHANGED <<clock, held, open, sent, session, ask, check, use, login, refresh>>

\* DEL, whatever is stored by now.
LogoutDel(o) ==
    /\ logout[o].pc = "del"
    /\ session' = [session EXCEPT ![logout[o].holder] = Absent]
    /\ logout' = [logout EXCEPT ![o].pc = "done"]
    /\ UNCHANGED <<clock, held, open, sent, ask, check, use, login, refresh>>

------------------------------------------------------------------------------
(* The rest of the application, and time *)

\* updateUser gives an account another number.
MoveLine(u, p) ==
    /\ held[u] # Absent
    /\ LineFree(p)
    /\ held' = [held EXCEPT ![u] = [line |-> p, verified |-> FALSE]]
    /\ UNCHANGED <<clock, open, sent, session, ask, check, use, login, refresh, logout>>

\* verifyPhone: a code of the same service marks the number.
MarkLine(u) ==
    /\ held[u] # Absent
    /\ held[u].line # Absent
    /\ open[held[u].line] # Absent
    /\ open' = [open EXCEPT ![held[u].line] = Absent]
    /\ held' = [held EXCEPT ![u] = [@ EXCEPT !.verified = TRUE]]
    /\ UNCHANGED <<clock, sent, session, ask, check, use, login, refresh, logout>>

\* The administrator's DELETE; Redis is not told.
RemoveHolder(u) ==
    /\ held[u] # Absent
    /\ held' = [held EXCEPT ![u] = Absent]
    /\ UNCHANGED <<clock, open, sent, session, ask, check, use, login, refresh, logout>>

Passes ==
    /\ clock < MaxClock
    /\ clock' = clock + 1
    /\ UNCHANGED <<held, open, sent, session, ask, check, use, login, refresh, logout>>

AskNext(a) == (\E t \in Typed : AskRead(a, t)) \/ AskSend(a) \/ AskFails(a)

CheckNext(c) == (\E u \in Holder : CheckRead(c, u)) \/ CheckApproved(c) \/ CheckRejected(c)

UseNext(x) == (\E c \in Check : UseRead(x, c)) \/ UseWrite(x) \/ UseRevoke(x) \/ UseFails(x)

LoginNext(k) ==
    \/ \E u \in Holder : LoginValidate(k, u)
    \/ LoginSign(k) \/ LoginStore(k) \/ LoginTouch(k) \/ LoginFails(k)

RefreshNext(f) == (\E k \in Login : RefreshRead(f, k)) \/ RefreshDetails(f)

LogoutNext(o) == (\E k \in Login : LogoutRead(o, k)) \/ LogoutDel(o)

HolderNext(u) ==
    \/ OtherText(u) \/ MarkLine(u) \/ RemoveHolder(u)
    \/ \E p \in Line : MoveLine(u, p)

SessionsNext ==
    \/ \E a \in Ask : AskNext(a)
    \/ \E c \in Check : CheckNext(c)
    \/ \E x \in Use : UseNext(x)
    \/ \E k \in Login : LoginNext(k)
    \/ \E f \in Refresh : RefreshNext(f)
    \/ \E o \in Logout : LogoutNext(o)
    \/ \E u \in Holder : HolderNext(u)
    \/ \E p \in Line : Closes(p)
    \/ Passes

SessionsSpec == SessionsInit /\ [][SessionsNext]_sessionsVars

------------------------------------------------------------------------------
(* Properties *)

\* The resets that wrote a password.
WroteBy(x) == use[x].pc \in {"revoke", "done"}

\* A phone token may be presented more than once (it has no jti), but all the
\* passwords one text ever writes are of one account, by requests that begin
\* within TokenLife of each other.
TextServesOneAccount ==
    \A x, y \in Use :
        /\ WroteBy(x) /\ WroteBy(y)
        /\ check[use[x].token].text = check[use[y].token].text
        => ResetOf(x) = ResetOf(y) /\ use[x].at - use[y].at < TokenLife

\* A refresh that begins after a reset was answered gets no access token out of
\* a login from before it, unless another login got the same token in the same
\* second and followed the reset.
RefreshFollowsReset ==
    \A f \in Refresh : refresh[f].pc = "granted" => ~refresh[f].lapsed

\* Both: what a reset by SMS may write and what it ends.
SessionsAreEarned == TextServesOneAccount /\ RefreshFollowsReset

==============================================================================
