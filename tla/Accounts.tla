------------------------------- MODULE Accounts -------------------------------
(***************************************************************************)
(* The address, the verification mark and the password of an account:      *)
(* register, verifyEmail, resendVerificationEmail and changePassword of    *)
(* auth.service.ts, the address and the number in its updateUser, the      *)
(* administrator's create, update and delete (user.service.ts over         *)
(* user.repository.ts), the seed (admin-seed.ts) and the mailed codes      *)
(* (ucode.repository.ts).                                                  *)
(*                                                                         *)
(* Every handler looks a row up by address or by id, awaits, and writes    *)
(* by address or by id; the row may have another address by then.  The     *)
(* only constraint is the unique column.                                   *)
(***************************************************************************)

CONSTANTS
    User,      \* rows, each named by the request that creates it
    Address,   \* as typed
    Lower,     \* what trim().toLowerCase() makes of an address
    Profile,   \* PATCH /auth/update requests that carry an address or a number
    Moderate,  \* PATCH /admin/user/:id requests
    Resend,    \* POST /auth/resend-verification-email; one names the code it makes
    Verify,    \* POST /auth/verify-email requests
    Change,    \* POST /auth/change-password requests
    SeedAddress, \* ADMIN_EMAIL, lower case, or null; ADMIN_PHONE is the number "seed"
    Nothing    \* null

\* A password is named by the request that set it.
Password == User \cup Moderate \cup Change

ASSUME AccountsAssumption ==
    /\ Lower \in [Address -> Address]
    /\ \A e \in Address : Lower[Lower[e]] = Lower[e]
    /\ SeedAddress = Nothing \/ (SeedAddress \in Address /\ Lower[SeedAddress] = SeedAddress)
    /\ Nothing \notin Address \cup User \cup Password \cup Resend
ASSUME PasswordAssumption ==
    User \cap Moderate = {} /\ User \cap Change = {} /\ Moderate \cap Change = {}

VARIABLES
    rows,      \* the accounts that have a row
    email,     \* the column, unique over rows
    password,  \* the column, hashed
    phone,     \* the column, unique over rows: none, the account's own, or ADMIN_PHONE
    admins,    \* the accounts whose type is admin
    mark,      \* email_verified_at: null, or (history) the mailbox that got the code, or the seed's
    code,      \* ucodes: the address each is for, the mailbox it went to, expired or not
    enrol,     \* where the creation of each account is
    profile, moderate, resend, verify, change,  \* the requests
    typed,     \* history: the accounts whose address an administrator typed
    doubted    \* history: accounts whose mark may be for another address (see below)

accountsVars == <<rows, email, password, phone, admins, mark, code, enrol, profile, moderate, resend,
                  verify, change, typed, doubted>>

Phone == {"none", "own", "seed"}

\* "as" is the number a registration gives, or the type an administrator gives.
\* "found" is the account a seed writes to; "fit" is history: whether that is still
\* an admin's that may have the number, if nobody else wrote its type or its number
\* meanwhile.
EnrolState == [pc : {"idle", "recheck", "insert", "make", "attach", "done", "failed"},
               address : Address \cup {Nothing}, as : {"own", "seed", "user", "admin"},
               found : User \cup {Nothing}, fit : {"yes", "no", "written"}]
\* "address", "number" or "password" is null when the body has none.
ProfileState == [pc : {"idle", "save", "done", "failed"}, user : User \cup {Nothing},
                 address : Address \cup {Nothing}, current : Address \cup {Nothing},
                 number : {"own", "seed", Nothing}]
ModerateState == [pc : {"idle", "save", "done", "failed"}, user : User \cup {Nothing},
                  address : Address \cup {Nothing}, password : Password \cup {Nothing},
                  admin : BOOLEAN]
ResendState == [pc : {"idle", "details", "insert", "mail", "done", "failed"},
                user : User \cup {Nothing}, to : Address \cup {Nothing},
                address : Address \cup {Nothing}]
VerifyState == [pc : {"idle", "token", "mark", "done", "failed"}, user : User \cup {Nothing},
                address : Address \cup {Nothing}, code : Resend \cup {Nothing}]
\* The last three are history: the row written and the password replaced, and
\* whether the asker's row was written by another request after the comparison.
ChangeState == [pc : {"idle", "validate", "save", "done", "failed"},
                user : User \cup {Nothing}, address : Address \cup {Nothing},
                old : Password \cup {Nothing}, wrote : User \cup {Nothing},
                replaced : Password \cup {Nothing}, disturbed : BOOLEAN]
CodeState == [address : Address \cup {Nothing}, to : Address \cup {Nothing}, live : BOOLEAN]

\* Every variable holds a value of its kind; the addresses of rows differ, and no two
\* have the seed's number.
AccountsTypeOK ==
    /\ rows \subseteq User
    /\ email \in [User -> Address \cup {Nothing}]
    /\ password \in [User -> Password \cup {Nothing}]
    /\ phone \in [User -> Phone]
    /\ admins \subseteq User
    /\ mark \in [User -> Address \cup {Nothing}]
    /\ code \in [Resend -> CodeState]
    /\ enrol \in [User -> EnrolState]
    /\ profile \in [Profile -> ProfileState]
    /\ moderate \in [Moderate -> ModerateState]
    /\ resend \in [Resend -> ResendState]
    /\ verify \in [Verify -> VerifyState]
    /\ change \in [Change -> ChangeState]
    /\ typed \subseteq User
    /\ doubted \subseteq User
    /\ \A u, v \in rows : email[u] = email[v] /\ email[u] # Nothing => u = v
    /\ \A u, v \in rows : phone[u] = "seed" /\ phone[v] = "seed" => u = v

AccountsInit ==
    /\ rows = {}
    /\ email = [u \in User |-> Nothing]
    /\ password = [u \in User |-> Nothing]
    /\ mark = [u \in User |-> Nothing]
    /\ code = [k \in Resend |-> [address |-> Nothing, to |-> Nothing, live |-> FALSE]]
    /\ phone = [u \in User |-> "none"]
    /\ admins = {}
    /\ enrol = [u \in User |-> [pc |-> "idle", address |-> Nothing, as |-> "own",
                                 found |-> Nothing, fit |-> "yes"]]
    /\ profile = [w \in Profile |-> [pc |-> "idle", user |-> Nothing, address |-> Nothing,
                                     current |-> Nothing, number |-> Nothing]]
    /\ moderate = [m \in Moderate |-> [pc |-> "idle", user |-> Nothing, address |-> Nothing,
                                       password |-> Nothing, admin |-> FALSE]]
    /\ resend = [k \in Resend |-> [pc |-> "idle", user |-> Nothing, to |-> Nothing,
                                   address |-> Nothing]]
    /\ verify = [v \in Verify |-> [pc |-> "idle", user |-> Nothing, address |-> Nothing,
                                   code |-> Nothing]]
    /\ change = [c \in Change |-> [pc |-> "idle", user |-> Nothing, address |-> Nothing,
                                   old |-> Nothing, wrote |-> Nothing, replaced |-> Nothing,
                                   disturbed |-> FALSE]]
    /\ typed = {}
    /\ doubted = {}

Holders(e) == {u \in rows : email[u] = e}
Free(e, u) == Holders(e) \subseteq {u}
Number(as) == IF as \in {"own", "seed"} THEN as ELSE "none"
\* The number is its own, or ADMIN_PHONE and nobody else's.
NumberFree(n, u) == n = "seed" => \A v \in rows \ {u} : phone[v] # "seed"

\* History: the row of u is written, which a password change that has compared the
\* old password does not expect.
Disturb(u) ==
    [c \in Change |-> [change[c] EXCEPT !.disturbed = @ \/ (change[c].pc = "save"
                                                            /\ change[c].user = u)]]

\* History: the type or the number of u is written, which a seed that has found u
\* does not expect.
Written(u) ==
    [v \in User |-> IF enrol[v].pc = "attach" /\ enrol[v].found = u
                     THEN [enrol[v] EXCEPT !.fit = "written"] ELSE enrol[v]]

------------------------------------------------------------------------------
(* register, and the administrator's create *)

\* Variant: the address is looked up and stored as it was typed.
RegisterAsTyped(u, e, n) ==
    /\ enrol[u].pc = "idle"
    /\ Holders(e) = {} /\ NumberFree(n, u)
    /\ enrol' = [enrol EXCEPT ![u] = [@ EXCEPT !.pc = "recheck", !.address = e, !.as = n]]
    /\ UNCHANGED <<rows, email, password, mark, code, profile, moderate, resend, verify,
                   change, typed, doubted, phone, admins>>

\* register: normalise, then exist() on the address and on the number.
RegisterCheck(u, e, n) ==
    /\ enrol[u].pc = "idle"
    /\ Holders(Lower[e]) = {} /\ NumberFree(n, u)
    /\ enrol' = [enrol EXCEPT ![u] = [@ EXCEPT !.pc = "recheck", !.address = Lower[e],
                                               !.as = n]]
    /\ UNCHANGED <<rows, email, password, mark, code, profile, moderate, resend, verify,
                   change, typed, doubted, phone, admins>>

\* user.service create: the address goes to createUser as typed.
AdminCreate(u, e, t) ==
    /\ enrol[u].pc = "idle"
    /\ enrol' = [enrol EXCEPT ![u] = [@ EXCEPT !.pc = "recheck", !.address = e, !.as = t]]
    /\ typed' = typed \cup {u}
    /\ UNCHANGED <<rows, email, password, mark, code, profile, moderate, resend, verify,
                   change, doubted, phone, admins>>

\* createUser: exist(), then the hash.
CreateUserCheck(u) ==
    /\ enrol[u].pc = "recheck"
    /\ enrol' = [enrol EXCEPT ![u].pc =
           IF Holders(enrol[u].address) = {} THEN "insert" ELSE "failed"]
    /\ UNCHANGED <<rows, email, password, mark, code, profile, moderate, resend, verify,
                   change, typed, doubted, phone, admins>>

\* createUser: user.create, which the unique columns may refuse (P2002).
CreateUserInsert(u) ==
    LET new == enrol[u]
    IN  /\ new.pc = "insert"
        /\ IF Holders(new.address) = {} /\ NumberFree(new.as, u)
           THEN /\ rows' = rows \cup {u}
                /\ email' = [email EXCEPT ![u] = new.address]
                /\ password' = [password EXCEPT ![u] = u]
                /\ phone' = [phone EXCEPT ![u] = Number(new.as)]
                /\ admins' = IF new.as = "admin" THEN admins \cup {u} ELSE admins
                /\ enrol' = [enrol EXCEPT ![u].pc = "done"]
           ELSE /\ enrol' = [enrol EXCEPT ![u].pc = "failed"]
                /\ UNCHANGED <<rows, email, password, phone, admins>>
        /\ UNCHANGED <<mark, code, profile, moderate, resend, verify, change, typed, doubted>>

------------------------------------------------------------------------------
(* seedAdmin: a transaction at Read Committed, run by hand and any number of times *)

\* The account is an admin's, without a number or with this one.
Fit(v) == v \in admins /\ phone[v] # "own"

\* user.findMany by number and address: one account that is fit, or none, to go on.
SeedRead(u) ==
    LET found == {v \in rows : phone[v] = "seed" \/ (email[v] = SeedAddress
                                                      /\ SeedAddress # Nothing)}
    IN  /\ enrol[u].pc = "idle"
        /\ enrol' = [enrol EXCEPT ![u] =
               IF found = {} THEN [@ EXCEPT !.pc = "make", !.address = SeedAddress]
               ELSE IF \E v \in found : found = {v} /\ Fit(v)
               THEN [@ EXCEPT !.pc = "attach", !.found = CHOOSE v \in found : TRUE]
               ELSE [@ EXCEPT !.pc = "failed"]]
        /\ UNCHANGED <<rows, email, password, mark, code, profile, moderate, resend, verify,
                       change, typed, doubted, phone, admins>>

\* user.create, verified as it stands.
SeedMake(u) ==
    /\ enrol[u].pc = "make"
    /\ SeedAddress = Nothing \/ Holders(SeedAddress) = {}
    /\ NumberFree("seed", u)
    /\ rows' = rows \cup {u}
    /\ email' = [email EXCEPT ![u] = SeedAddress]
    /\ password' = [password EXCEPT ![u] = u]
    /\ phone' = [phone EXCEPT ![u] = "seed"]
    /\ admins' = admins \cup {u}
    /\ mark' = [mark EXCEPT ![u] = SeedAddress]
    /\ enrol' = [enrol EXCEPT ![u].pc = "done"]
    /\ UNCHANGED <<code, profile, moderate, resend, verify, change, typed, doubted>>

\* user.update by id, of the number and its mark alone.
SeedAttach(u) ==
    LET v == enrol[u].found
        fit == IF enrol[u].fit = "yes" /\ ~Fit(v) THEN "no" ELSE enrol[u].fit
    IN  /\ enrol[u].pc = "attach"
        /\ v \in rows /\ NumberFree("seed", v)
        /\ phone' = [phone EXCEPT ![v] = "seed"]
        /\ enrol' = [enrol EXCEPT ![u] = [@ EXCEPT !.pc = "done", !.fit = fit]]
        /\ UNCHANGED <<rows, email, password, mark, code, profile, moderate, resend, verify,
                       change, typed, doubted, admins>>

\* P2002, P2025 or no connection: the transaction is rolled back.
SeedFails(u) ==
    /\ enrol[u].pc \in {"make", "attach"}
    /\ enrol' = [enrol EXCEPT ![u].pc = "failed"]
    /\ UNCHANGED <<rows, email, password, mark, code, profile, moderate, resend, verify,
                   change, typed, doubted, phone, admins>>

------------------------------------------------------------------------------
(* A profile update, and the administrator's update and delete *)

\* findFirst(current); the DTO has normalised the address.
ProfileRead(w, u, e, n) ==
    /\ profile[w].pc = "idle"
    /\ u \in rows
    /\ e # Nothing \/ n # Nothing
    /\ profile' = [profile EXCEPT ![w] =
           [pc |-> "save", user |-> u, address |-> IF e = Nothing THEN Nothing ELSE Lower[e],
            current |-> email[u], number |-> n]]
    /\ UNCHANGED <<rows, email, password, mark, code, enrol, moderate, resend, verify,
                   change, typed, doubted, phone, admins>>

\* user.update of what the body has, which the unique columns allow.
ProfileWrites(w) ==
    LET u == profile[w].user
        e == profile[w].address
        n == profile[w].number
    IN  /\ profile[w].pc = "save"
        /\ u \in rows
        /\ e # Nothing => Free(e, u)
        /\ NumberFree(n, u)
        /\ email' = [email EXCEPT ![u] = IF e # Nothing THEN e ELSE @]
        /\ phone' = [phone EXCEPT ![u] = IF n # Nothing THEN n ELSE @]
        /\ profile' = [profile EXCEPT ![w].pc = "done"]
        /\ change' = IF e # Nothing THEN Disturb(u) ELSE change
        /\ enrol' = IF n # Nothing THEN Written(u) ELSE enrol
        /\ typed' = IF e # Nothing THEN typed \ {u} ELSE typed
        /\ UNCHANGED <<rows, password, code, moderate, resend, verify, admins>>

\* Variant: the mark stays.
ProfileKeepsMark(w) == ProfileWrites(w) /\ UNCHANGED <<mark, doubted>>

\* The mark goes with the write if the address is not the one that was read, which
\* need not be the one it replaces.
ProfileSave(w) ==
    LET u == profile[w].user
        e == profile[w].address
        read == profile[w].current
    IN  /\ ProfileWrites(w)
        /\ mark' = [mark EXCEPT ![u] = IF e \notin {read, Nothing} THEN Nothing ELSE @]
        /\ doubted' = IF e # Nothing /\ e = read /\ email[u] # read
                      THEN doubted \cup {u} ELSE doubted

\* P2002, P2025 or no connection: the handler answers an error.
ProfileFails(w) ==
    /\ profile[w].pc = "save"
    /\ profile' = [profile EXCEPT ![w].pc = "failed"]
    /\ UNCHANGED <<rows, email, password, mark, code, enrol, moderate, resend, verify,
                   change, typed, doubted, phone, admins>>

\* updateUser of the repository: exist() on the address, and the row is there.
ModerateCheck(m, u, e, p, a) ==
    /\ moderate[m].pc = "idle"
    /\ e # Nothing => Holders(e) = {}
    /\ u \in rows
    /\ moderate' = [moderate EXCEPT ![m] =
           [pc |-> "save", user |-> u, address |-> e, password |-> p, admin |-> a]]
    /\ UNCHANGED <<rows, email, password, mark, code, enrol, profile, resend, verify,
                   change, typed, doubted, phone, admins>>

\* user.update: the address as typed; email_verified_at is left alone.  A body
\* without type makes the account a user's.
ModerateSave(m) ==
    LET u == moderate[m].user
        e == moderate[m].address
        p == moderate[m].password
    IN  /\ moderate[m].pc = "save"
        /\ u \in rows
        /\ e # Nothing => Free(e, u)
        /\ email' = [email EXCEPT ![u] = IF e # Nothing THEN e ELSE @]
        /\ password' = [password EXCEPT ![u] = IF p # Nothing THEN p ELSE @]
        /\ admins' = IF moderate[m].admin THEN admins \cup {u} ELSE admins \ {u}
        /\ moderate' = [moderate EXCEPT ![m].pc = "done"]
        /\ change' = Disturb(u)
        /\ enrol' = Written(u)
        /\ typed' = IF e # Nothing THEN typed \cup {u} ELSE typed
        /\ doubted' = IF e # Nothing THEN doubted \cup {u} ELSE doubted
        /\ UNCHANGED <<rows, mark, code, profile, resend, verify, phone>>

\* The catch block of the repository: no row, a taken address, no connection.
ModerateFails(m) ==
    /\ moderate[m].pc = "save"
    /\ moderate' = [moderate EXCEPT ![m].pc = "failed"]
    /\ UNCHANGED <<rows, email, password, mark, code, enrol, profile, resend, verify,
                   change, typed, doubted, phone, admins>>

\* deleteUser; ucodes keep their address and lose their user.
DeleteUser(u) ==
    /\ u \in rows
    /\ rows' = rows \ {u}
    /\ change' = Disturb(u)
    /\ UNCHANGED <<email, password, mark, code, enrol, profile, moderate, resend, verify,
                   typed, doubted, phone, admins>>

------------------------------------------------------------------------------
(* The verification of an address *)

\* getUserByEmail.
ResendRead(k, e) ==
    /\ resend[k].pc = "idle"
    /\ \E u \in Holders(e) :
         resend' = [resend EXCEPT ![k] =
             [pc |-> "details", user |-> u, to |-> e, address |-> Nothing]]
    /\ UNCHANGED <<rows, email, password, mark, code, enrol, profile, moderate, verify,
                   change, typed, doubted, phone, admins>>

\* createToken: getUserDetails by id, whose address may be another one by now.  A
\* row that is gone gives no code, and the mail says "null".
ResendDetails(k) ==
    /\ resend[k].pc = "details"
    /\ resend' = [resend EXCEPT ![k] =
           IF resend[k].user \in rows
           THEN [@ EXCEPT !.pc = "insert", !.address = email[resend[k].user]]
           ELSE [@ EXCEPT !.pc = "done"]]
    /\ UNCHANGED <<rows, email, password, mark, code, enrol, profile, moderate, verify,
                   change, typed, doubted, phone, admins>>

\* createToken: ucode.create, good for five minutes.  An earlier code stays good.
ResendInsert(k) ==
    /\ resend[k].pc = "insert"
    /\ code' = [code EXCEPT ![k] =
           [address |-> resend[k].address, to |-> Nothing, live |-> TRUE]]
    /\ resend' = [resend EXCEPT ![k].pc = "mail"]
    /\ UNCHANGED <<rows, email, password, mark, enrol, profile, moderate, verify, change,
                   typed, doubted, phone, admins>>

\* sendOtpCodeToEmail: to the address of the request.
ResendMail(k) ==
    /\ resend[k].pc = "mail"
    /\ code' = [code EXCEPT ![k].to = resend[k].to]
    /\ resend' = [resend EXCEPT ![k].pc = "done"]
    /\ UNCHANGED <<rows, email, password, mark, enrol, profile, moderate, verify, change,
                   typed, doubted, phone, admins>>

\* A call rejects.
ResendFails(k) ==
    /\ resend[k].pc \in {"details", "insert", "mail"}
    /\ resend' = [resend EXCEPT ![k].pc = "failed"]
    /\ UNCHANGED <<rows, email, password, mark, code, enrol, profile, moderate, verify,
                   change, typed, doubted, phone, admins>>

\* expired_at passes.
CodeExpires(k) ==
    /\ code[k].live
    /\ code' = [code EXCEPT ![k].live = FALSE]
    /\ UNCHANGED <<rows, email, password, mark, enrol, profile, moderate, resend, verify,
                   change, typed, doubted, phone, admins>>

\* verifyEmail: exist() on the address that was typed.
VerifyRead(v, e) ==
    /\ verify[v].pc = "idle"
    /\ \E u \in Holders(e) :
         verify' = [verify EXCEPT ![v] =
             [pc |-> "token", user |-> u, address |-> e, code |-> Nothing]]
    /\ UNCHANGED <<rows, email, password, mark, code, enrol, profile, moderate, resend,
                   change, typed, doubted, phone, admins>>

\* validateToken, with a code that reached a mailbox: the address has a holder still
\* (not looked at again, whoever it is), and the code is for it and is live.  It is
\* not used up.
VerifyToken(v, k) ==
    LET e == verify[v].address
    IN  /\ verify[v].pc = "token"
        /\ code[k].to # Nothing
        /\ verify' = [verify EXCEPT ![v] =
               IF Holders(e) # {} /\ code[k].address = e /\ code[k].live
               THEN [@ EXCEPT !.pc = "mark", !.code = k]
               ELSE [@ EXCEPT !.pc = "failed"]]
        /\ UNCHANGED <<rows, email, password, mark, code, enrol, profile, moderate, resend,
                       change, typed, doubted, phone, admins>>

\* user.update by id.  The row may have moved to another address since it was
\* looked up, and the code may have been mailed to an address it had left.
VerifyMark(v) ==
    LET u == verify[v].user
        k == verify[v].code
    IN  /\ verify[v].pc = "mark"
        /\ IF u \in rows
           THEN /\ mark' = [mark EXCEPT ![u] = code[k].to]
                /\ verify' = [verify EXCEPT ![v].pc = "done"]
                /\ doubted' = IF email[u] # verify[v].address \/ code[k].to # code[k].address
                              THEN doubted \cup {u} ELSE doubted
           ELSE /\ verify' = [verify EXCEPT ![v].pc = "failed"]
                /\ UNCHANGED <<mark, doubted>>
        /\ UNCHANGED <<rows, email, password, code, enrol, profile, moderate, resend, change,
                       typed, phone, admins>>

------------------------------------------------------------------------------
(* changePassword *)

\* getUserDetails: the address.  The asker gives the password the account has.
ChangeRead(c, u) ==
    /\ change[c].pc = "idle"
    /\ u \in rows
    /\ change' = [change EXCEPT ![c] =
           [@ EXCEPT !.pc = "validate", !.user = u, !.address = email[u],
                     !.old = password[u]]]
    /\ UNCHANGED <<rows, email, password, mark, code, enrol, profile, moderate, resend,
                   verify, typed, doubted, phone, admins>>

\* Variant: the old password is not compared.
ChangeTrusts(c) ==
    /\ change[c].pc = "validate"
    /\ change' = [change EXCEPT ![c].pc = "save"]
    /\ UNCHANGED <<rows, email, password, mark, code, enrol, profile, moderate, resend,
                   verify, typed, doubted, phone, admins>>

\* validatePassword: whoever holds the address now has this password.
ChangeValidate(c) ==
    /\ change[c].pc = "validate"
    /\ change' = [change EXCEPT ![c].pc =
           IF \E u \in Holders(change[c].address) : password[u] = change[c].old
           THEN "save" ELSE "failed"]
    /\ UNCHANGED <<rows, email, password, mark, code, enrol, profile, moderate, resend,
                   verify, typed, doubted, phone, admins>>

\* changePassword of the repository, after the hash: user.update by address, which
\* Prisma refuses when the address is null.
ChangeSave(c) ==
    /\ change[c].pc = "save" /\ change[c].address # Nothing
    /\ \E u \in Holders(change[c].address) :
         /\ password' = [password EXCEPT ![u] = c]
         /\ change' = [Disturb(u) EXCEPT ![c] =
                [change[c] EXCEPT !.pc = "done", !.wrote = u, !.replaced = password[u]]]
    /\ UNCHANGED <<rows, email, mark, code, enrol, profile, moderate, resend, verify, typed,
                   doubted, phone, admins>>

\* No row has the address any more (P2025), the address is null, or a call rejects.
ChangeFails(c) ==
    /\ change[c].pc \in {"validate", "save"}
    /\ change' = [change EXCEPT ![c].pc = "failed"]
    /\ UNCHANGED <<rows, email, password, mark, code, enrol, profile, moderate, resend,
                   verify, typed, doubted, phone, admins>>

------------------------------------------------------------------------------
EnrolNext(u) ==
    \/ \E e \in Address, n \in {"own", "seed"} : RegisterCheck(u, e, n)
    \/ \E e \in Address, t \in {"user", "admin"} : AdminCreate(u, e, t)
    \/ CreateUserCheck(u)
    \/ CreateUserInsert(u)

SeedNext(u) ==
    \/ SeedRead(u)
    \/ SeedMake(u)
    \/ SeedAttach(u)
    \/ SeedFails(u)

ProfileNext(w) ==
    \/ \E u \in User, e \in Address \cup {Nothing},
       n \in {"own", "seed", Nothing} : ProfileRead(w, u, e, n)
    \/ ProfileSave(w)
    \/ ProfileFails(w)

ModerateNext(m) ==
    \/ \E u \in User, e \in Address \cup {Nothing}, p \in {m, Nothing},
       a \in BOOLEAN : ModerateCheck(m, u, e, p, a)
    \/ ModerateSave(m)
    \/ ModerateFails(m)

ResendNext(k) ==
    \/ \E e \in Address : ResendRead(k, e)
    \/ ResendDetails(k)
    \/ ResendInsert(k)
    \/ ResendMail(k)
    \/ ResendFails(k)

VerifyNext(v) ==
    \/ \E e \in Address : VerifyRead(v, e)
    \/ \E k \in Resend : VerifyToken(v, k)
    \/ VerifyMark(v)

ChangeNext(c) ==
    \/ \E u \in User : ChangeRead(c, u)
    \/ ChangeValidate(c)
    \/ ChangeSave(c)
    \/ ChangeFails(c)

AccountsNext ==
    \/ \E u \in User : EnrolNext(u) \/ SeedNext(u) \/ DeleteUser(u)
    \/ \E w \in Profile : ProfileNext(w)
    \/ \E m \in Moderate : ModerateNext(m)
    \/ \E k \in Resend : ResendNext(k) \/ CodeExpires(k)
    \/ \E v \in Verify : VerifyNext(v)
    \/ \E c \in Change : ChangeNext(c)

AccountsSpec == AccountsInit /\ [][AccountsNext]_accountsVars

------------------------------------------------------------------------------
(* Properties *)

\* An account shown as verified was verified with a code that went to the address
\* it has now, except where the code base lets the two part: an administrator
\* replaced the address, the address moved between the lookup and the mark or
\* between the lookup and the code, or a profile update saved what it took for
\* the unchanged address.
VerifiedAddressWasProved ==
    \A u \in rows \ doubted : mark[u] \in {Nothing, email[u]}

\* A password change writes the row of its asker and replaces the password it
\* compared, though it looks the row up by address three times, unless that row was
\* written or removed while the new password was being hashed: an address that is
\* given up in that window and taken by another account takes the write with it.
PasswordChangesAreOwn ==
    \A c \in Change :
        change[c].pc = "done" /\ ~change[c].disturbed =>
            change[c].wrote = change[c].user /\ change[c].replaced = change[c].old

\* A seed gives its number to no account but an admin's that has no other, unless the
\* account's type or number was written after the seed had read it: by an administrator
\* or by a profile update, whose number the seed then overwrites.
SeedsSpareOthers == \A u \in User : enrol[u].fit # "no"

\* Who writes an account by what was read before writes the account that was meant.
WritesAreOwn == PasswordChangesAreOwn /\ SeedsSpareOthers

\* Two accounts share a mailbox, by addresses that differ in case, only if an
\* administrator typed one of them: every other way in normalises.
MailboxesAreSingle ==
    \A u, v \in rows \ typed : email[u] # Nothing /\ email[v] # Nothing
                                      /\ Lower[email[u]] = Lower[email[v]] => u = v

==============================================================================
