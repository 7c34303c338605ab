-------------------------- MODULE AccountsProofs ---------------------------
(***************************************************************************)
(* Type correctness, VerifiedAddressWasProved, WritesAreOwn and            *)
(* MailboxesAreSingle of Accounts, and type correctness,                   *)
(* TextServesOneAccount and RefreshFollowsReset of Sessions, for any       *)
(* accounts, addresses, numbers, requests and lifetimes.                   *)
(*                                                                         *)
(* AccountsInv adds to the types a part for the rows (AccountsPart: a      *)
(* row was enrolled, an unverified address of its own, a normal one        *)
(* unless typed), one for the addresses of profile updates, one for the    *)
(* mailed codes (CodesPart) and one for the passwords (PasswordsPart: who  *)
(* set a password tells whose it is, and a change that has compared the    *)
(* old one knows the row until the row is disturbed).                      *)
(*                                                                         *)
(* SessionsInv adds what a request holds at its awaits (RequestsOK), that  *)
(* the code of one text was approved at most once (TextsOnce), and that a  *)
(* stored refresh token is of a login that followed every reset that was   *)
(* answered (Linked).                                                      *)
(***************************************************************************)
EXTENDS Accounts, Sessions, TLAPS

Kinds ==
    /\ rows \subseteq User
    /\ email \in [User -> Address \cup {Nothing}]
    /\ password \in [User -> Password \cup {Nothing}]
    /\ phone \in [User -> Phone]
    /\ admins \subseteq User
    /\ mark \in [User -> Address \cup {Nothing}]
    /\ code \in [Resend -> CodeState]
    /\ enrol \in [User -> EnrolState]
    /\ profile \in [Profile -> ProfileState]
    /\ moderate \in [Moderate -> ModerateState]
    /\ resend \in [Resend -> ResendState]
    /\ verify \in [Verify -> VerifyState]
    /\ change \in [Change -> ChangeState]
    /\ typed \subseteq User
    /\ doubted \subseteq User

\* The rows.
Unique ==
    /\ \A u, v \in rows : email[u] = email[v] /\ email[u] # Nothing => u = v
    /\ \A u, v \in rows : phone[u] = "seed" /\ phone[v] = "seed" => u = v

Enrolled == \A u \in rows : enrol[u].pc = "done"
Unmarked == \A u \in User : enrol[u].pc # "done" => mark[u] = Nothing
Marked == \A u \in rows \ doubted : mark[u] \in {Nothing, email[u]}
Normal == \A u \in rows \ typed : email[u] # Nothing => Lower[email[u]] = email[u]
Registering ==
    \A u \in User \ typed :
        enrol[u].pc \in {"recheck", "insert"} => Lower[enrol[u].address] = enrol[u].address
Addressed == \A u \in User : enrol[u].pc \in {"recheck", "insert"} => enrol[u].address \in Address
Seeding ==
    \A u \in User :
        /\ enrol[u].fit # "no"
        /\ enrol[u].pc = "attach" =>
               /\ enrol[u].found \in User /\ enrol[enrol[u].found].pc = "done"
               /\ enrol[u].fit = "yes" => Fit(enrol[u].found)

AccountsPart ==
    Unique /\ Enrolled /\ Unmarked /\ Marked /\ Normal /\ Registering /\ Addressed /\ Seeding

\* The profile updates.
ProfilesPart ==
    \A w \in Profile :
        profile[w].pc = "save" /\ profile[w].address # Nothing =>
            Lower[profile[w].address] = profile[w].address

\* The codes.
Mailed == \A k \in Resend : code[k].to # Nothing => resend[k].pc = "done"
Checked ==
    \A v \in Verify :
        verify[v].pc = "mark" =>
            /\ verify[v].code \in Resend
            /\ code[verify[v].code].to # Nothing
            /\ code[verify[v].code].address = verify[v].address

CodesPart == Mailed /\ Checked

\* The passwords: p, if somebody set it, was set for u.
SetFor(p, u) ==
    /\ p \in User => p = u
    /\ p \in Moderate => moderate[p].pc = "done" /\ moderate[p].user = u
    /\ p \in Change => change[p].pc = "done" /\ change[p].wrote = u

HasPassword == \A u \in rows : password[u] \in Password
Passwords == \A u \in rows : SetFor(password[u], u)
Moderating == \A m \in Moderate : moderate[m].password \in {m, Nothing}
Asked ==
    \A c \in Change :
        change[c].pc \in {"validate", "save"} =>
            /\ change[c].user \in User
            /\ change[c].old \in Password
            /\ SetFor(change[c].old, change[c].user)
Compared ==
    \A c \in Change :
        change[c].pc = "save" /\ ~change[c].disturbed =>
            /\ change[c].user \in rows
            /\ email[change[c].user] = change[c].address
            /\ password[change[c].user] = change[c].old

PasswordsPart ==
    HasPassword /\ Passwords /\ Moderating /\ Asked /\ Compared /\ PasswordChangesAreOwn

AccountsInv == Kinds /\ AccountsPart /\ ProfilesPart /\ CodesPart /\ PasswordsPart

------------------------------------------------------------------------------
(* Lemmas *)

LEMMA InitHolds == ASSUME AccountsInit PROVE AccountsInv
<1> USE AccountsAssumption DEF AccountsInit
<1>1. Kinds
  <2>1. enrol \in [User -> EnrolState] BY DEF EnrolState
  <2>2. profile \in [Profile -> ProfileState] BY DEF ProfileState
  <2>3. moderate \in [Moderate -> ModerateState] BY DEF ModerateState
  <2>4. resend \in [Resend -> ResendState] BY DEF ResendState
  <2>5. verify \in [Verify -> VerifyState] BY DEF VerifyState
  <2>6. change \in [Change -> ChangeState] BY DEF ChangeState
  <2>7. code \in [Resend -> CodeState] BY DEF CodeState
  <2>8. phone \in [User -> Phone] BY DEF Phone
  <2> QED BY <2>1, <2>2, <2>3, <2>4, <2>5, <2>6, <2>7, <2>8 DEF Kinds
<1>2. AccountsPart
  BY DEF AccountsPart, Unique, Enrolled, Unmarked, Marked, Normal, Registering, Addressed, Seeding
<1>3. ProfilesPart BY DEF ProfilesPart
<1>4. CodesPart BY DEF CodesPart, Mailed, Checked
<1>5. PasswordsPart
  BY DEF PasswordsPart, HasPassword, Passwords, Moderating, Asked, Compared,
         PasswordChangesAreOwn
<1> QED BY <1>1, <1>2, <1>3, <1>4, <1>5 DEF AccountsInv

\* Whoever sets a password sets it for one account.
LEMMA SetForOne ==
    ASSUME NEW p \in Password, NEW u, NEW v, SetFor(p, u), SetFor(p, v)
    PROVE  u = v
  BY DEF Password, SetFor

\* Each part depends on its variables only.
LEMMA KeepAccounts ==
    ASSUME AccountsInv, UNCHANGED <<rows, email, phone, admins, mark, enrol, typed, doubted>>
    PROVE  AccountsPart'
  BY DEF AccountsInv, AccountsPart, Unique, Enrolled, Unmarked, Marked, Normal, Registering, Addressed,
         Seeding, Fit

LEMMA KeepProfiles == ASSUME AccountsInv, UNCHANGED profile PROVE ProfilesPart'
  BY DEF AccountsInv, ProfilesPart

LEMMA KeepCodes == ASSUME AccountsInv, UNCHANGED <<code, resend, verify>> PROVE CodesPart'
  BY DEF AccountsInv, CodesPart, Mailed, Checked

LEMMA KeepPasswords ==
    ASSUME AccountsInv, UNCHANGED <<rows, email, password, moderate, change>>
    PROVE  PasswordsPart'
<1>1. \A p, u : SetFor(p, u)' <=> SetFor(p, u) BY DEF SetFor
<1>2. /\ HasPassword' /\ Passwords' /\ Moderating'
  BY <1>1 DEF AccountsInv, PasswordsPart, HasPassword, Passwords, Moderating
<1>3. Asked' BY <1>1 DEF AccountsInv, PasswordsPart, Asked
<1>4. Compared' BY DEF AccountsInv, PasswordsPart, Compared
<1>5. PasswordChangesAreOwn' BY DEF AccountsInv, PasswordsPart, PasswordChangesAreOwn
<1> QED BY <1>2, <1>3, <1>4, <1>5 DEF PasswordsPart

------------------------------------------------------------------------------
(* Registrations and seeds *)

\* A registration or a seed goes on, and writes no account.
LEMMA EnrolMoves ==
    ASSUME AccountsInv, NEW u \in User, NEW r \in EnrolState,
           enrol[u].pc # "done", r.pc # "done",
           enrol' = [enrol EXCEPT ![u] = r],
           typed' = typed \/ typed' = typed \cup {u},
           r.pc \in {"recheck", "insert"} =>
               r.address \in Address /\ (u \notin typed' => Lower[r.address] = r.address),
           r.fit # "no",
           r.pc = "attach" => /\ r.found \in User /\ enrol[r.found].pc = "done"
                              /\ r.fit = "yes" => Fit(r.found),
           UNCHANGED <<rows, email, password, mark, code, profile, moderate, resend, verify,
                       change, doubted, phone, admins>>
    PROVE  AccountsInv'
<1>1. enrol \in [User -> EnrolState] /\ typed \subseteq User BY DEF AccountsInv, Kinds
<1>2. /\ enrol' \in [User -> EnrolState]
      /\ enrol'[u] = r
      /\ \A v \in User : v # u => enrol'[v] = enrol[v]
      /\ typed' \subseteq User /\ typed \subseteq typed'
      /\ \A v \in User : v # u => (v \in typed' <=> v \in typed)
  BY <1>1
<1>3. Kinds' BY <1>2 DEF AccountsInv, Kinds
<1>4. AccountsPart'
  <2> USE DEF AccountsInv, AccountsPart
  <2>1. Unique' BY DEF Unique
  <2>2. Enrolled'
    <3>1. u \notin rows BY DEF Enrolled
    <3> QED BY <1>2, <3>1 DEF Enrolled, Kinds
  <2>3. Unmarked' BY <1>2 DEF Unmarked
  <2>4. Marked' BY DEF Marked
  <2>5. Normal' BY <1>2 DEF Normal
  <2>6. Registering' BY <1>2 DEF Registering
  <2>7. Addressed' BY <1>2 DEF Addressed
  <2>8. Seeding'
    <3>1. ASSUME NEW v \in User, v # u
          PROVE  /\ enrol'[v].fit # "no"
                 /\ enrol'[v].pc = "attach" =>
                        /\ enrol'[v].found \in User /\ enrol'[enrol'[v].found].pc = "done"
                        /\ enrol'[v].fit = "yes" => Fit(enrol[v].found)'
      BY <1>2, <3>1 DEF Seeding, Fit
    <3>2. r.pc = "attach" => enrol'[r.found].pc = "done" BY <1>2
    <3>3. \A v : Fit(v)' <=> Fit(v) BY DEF Fit
    <3> QED BY <1>2, <3>1, <3>2, <3>3 DEF Seeding
  <2> QED BY <2>1, <2>2, <2>3, <2>4, <2>5, <2>6, <2>7, <2>8
<1>5. ProfilesPart' /\ CodesPart' /\ PasswordsPart'
  BY KeepProfiles, KeepCodes, KeepPasswords
<1> QED BY <1>3, <1>4, <1>5 DEF AccountsInv

LEMMA RegisterCheckStep ==
    ASSUME AccountsInv, NEW u \in User, NEW e \in Address, NEW n \in {"own", "seed"},
           RegisterCheck(u, e, n)
    PROVE  AccountsInv'
<1> DEFINE r == [enrol[u] EXCEPT !.pc = "recheck", !.address = Lower[e], !.as = n]
<1>1. enrol[u] \in EnrolState BY DEF AccountsInv, Kinds
<1>2. Lower[e] \in Address /\ Lower[Lower[e]] = Lower[e] BY AccountsAssumption
<1>3. /\ r \in EnrolState /\ r.pc = "recheck" /\ r.address = Lower[e]
      /\ r.fit = enrol[u].fit
  BY <1>1, <1>2 DEF EnrolState
<1>4. enrol[u].fit # "no" BY DEF AccountsInv, AccountsPart, Seeding
<1>5. /\ enrol[u].pc = "idle" /\ enrol' = [enrol EXCEPT ![u] = r]
      /\ UNCHANGED <<rows, email, password, mark, code, profile, moderate, resend, verify,
                     change, typed, doubted, phone, admins>>
  BY DEF RegisterCheck
<1> HIDE DEF r
<1> QED BY <1>2, <1>3, <1>4, <1>5, EnrolMoves

LEMMA AdminCreateStep ==
    ASSUME AccountsInv, NEW u \in User, NEW e \in Address, NEW t \in {"user", "admin"},
           AdminCreate(u, e, t)
    PROVE  AccountsInv'
<1> DEFINE r == [enrol[u] EXCEPT !.pc = "recheck", !.address = e, !.as = t]
<1>1. enrol[u] \in EnrolState BY DEF AccountsInv, Kinds
<1>2. /\ r \in EnrolState /\ r.pc = "recheck" /\ r.address = e /\ r.fit = enrol[u].fit
  BY <1>1 DEF EnrolState
<1>3. enrol[u].fit # "no" BY DEF AccountsInv, AccountsPart, Seeding
<1>4. /\ enrol[u].pc = "idle" /\ enrol' = [enrol EXCEPT ![u] = r]
      /\ typed' = typed \cup {u}
      /\ UNCHANGED <<rows, email, password, mark, code, profile, moderate, resend, verify,
                     change, doubted, phone, admins>>
  BY DEF AdminCreate
<1> HIDE DEF r
<1>5. u \in typed' BY <1>4
<1> QED BY <1>2, <1>3, <1>4, <1>5, EnrolMoves

\* The same request at another pc.
LEMMA EnrolAt ==
    ASSUME AccountsInv, NEW u \in User, NEW pc \in {"insert", "failed"},
           enrol[u].pc # "done", pc = "insert" => enrol[u].pc = "recheck",
           enrol' = [enrol EXCEPT ![u].pc = pc],
           UNCHANGED <<rows, email, password, mark, code, profile, moderate, resend, verify,
                       change, typed, doubted, phone, admins>>
    PROVE  AccountsInv'
<1> DEFINE r == [enrol[u] EXCEPT !.pc = pc]
<1>1. enrol[u] \in EnrolState BY DEF AccountsInv, Kinds
<1>2. /\ r \in EnrolState /\ r.pc = pc /\ r.address = enrol[u].address
      /\ r.fit = enrol[u].fit
  BY <1>1 DEF EnrolState
<1>3. enrol[u].fit # "no" BY DEF AccountsInv, AccountsPart, Seeding
<1>4. enrol' = [enrol EXCEPT ![u] = r] OBVIOUS
<1> HIDE DEF r
<1>5. r.pc \in {"recheck", "insert"} =>
          /\ r.address \in Address
          /\ u \notin typed' => Lower[r.address] = r.address
  BY <1>2 DEF AccountsInv, AccountsPart, Registering, Addressed
<1> QED BY <1>2, <1>3, <1>4, <1>5, EnrolMoves

LEMMA CreateUserCheckStep ==
    ASSUME AccountsInv, NEW u \in User, CreateUserCheck(u) PROVE AccountsInv'
<1>1. PICK pc \in {"insert", "failed"} :
          /\ enrol[u].pc = "recheck" /\ enrol' = [enrol EXCEPT ![u].pc = pc]
          /\ UNCHANGED <<rows, email, password, mark, code, profile, moderate, resend, verify,
                         change, typed, doubted, phone, admins>>
  BY DEF CreateUserCheck
<1> QED BY <1>1, EnrolAt

LEMMA SeedFailsStep ==
    ASSUME AccountsInv, NEW u \in User, SeedFails(u) PROVE AccountsInv'
<1>1. /\ enrol[u].pc # "done" /\ enrol' = [enrol EXCEPT ![u].pc = "failed"]
      /\ UNCHANGED <<rows, email, password, mark, code, profile, moderate, resend, verify,
                     change, typed, doubted, phone, admins>>
  BY DEF SeedFails
<1> QED BY <1>1, EnrolAt

LEMMA SeedReadStep ==
    ASSUME AccountsInv, NEW u \in User, SeedRead(u) PROVE AccountsInv'
<1>1. PICK found :
          found = {v \in rows : phone[v] = "seed" \/ (email[v] = SeedAddress
                                                       /\ SeedAddress # Nothing)}
  OBVIOUS
<1>2. enrol[u].pc = "idle"
  BY DEF SeedRead
<1>3. UNCHANGED <<rows, email, password, mark, code, profile, moderate, resend, verify,
                  change, typed, doubted, phone, admins>>
  BY DEF SeedRead
<1>4. enrol[u] \in EnrolState /\ enrol[u].fit # "no"
  BY DEF AccountsInv, Kinds, AccountsPart, Seeding
<1>5. CASE enrol' = [enrol EXCEPT ![u] = [enrol[u] EXCEPT !.pc = "make", !.address = SeedAddress]]
  <2> DEFINE r == [enrol[u] EXCEPT !.pc = "make", !.address = SeedAddress]
  <2>1. r \in EnrolState /\ r.pc = "make" /\ r.fit = enrol[u].fit
    BY <1>4, AccountsAssumption DEF EnrolState
  <2>2. enrol' = [enrol EXCEPT ![u] = r] BY <1>5
  <2> HIDE DEF r
  <2> QED BY <1>2, <1>3, <1>4, <2>1, <2>2, EnrolMoves
<1>6. ASSUME NEW v \in found, Fit(v),
             enrol' = [enrol EXCEPT ![u] = [enrol[u] EXCEPT !.pc = "attach", !.found = v]]
      PROVE  AccountsInv'
  <2> DEFINE r == [enrol[u] EXCEPT !.pc = "attach", !.found = v]
  <2>1. v \in User /\ v \in rows BY <1>1 DEF AccountsInv, Kinds
  <2>2. r \in EnrolState /\ r.pc = "attach" /\ r.found = v /\ r.fit = enrol[u].fit
    BY <1>4, <2>1 DEF EnrolState
  <2>3. enrol' = [enrol EXCEPT ![u] = r] BY <1>6
  <2> HIDE DEF r
  <2>4. enrol[v].pc = "done" BY <2>1 DEF AccountsInv, AccountsPart, Enrolled
  <2> QED BY <1>2, <1>3, <1>4, <1>6, <2>1, <2>2, <2>3, <2>4, EnrolMoves
<1>7. CASE enrol' = [enrol EXCEPT ![u] = [enrol[u] EXCEPT !.pc = "failed"]]
  <2>1. enrol' = [enrol EXCEPT ![u].pc = "failed"] BY <1>7
  <2> QED BY <1>2, <1>3, <2>1, EnrolAt
<1>8. \/ enrol' = [enrol EXCEPT ![u] = [enrol[u] EXCEPT !.pc = "make", !.address = SeedAddress]]
      \/ \E v \in found :
            /\ found = {v} /\ Fit(v)
            /\ enrol' = [enrol EXCEPT ![u] = [enrol[u] EXCEPT !.pc = "attach",
                                                  !.found = CHOOSE w \in found : TRUE]]
      \/ enrol' = [enrol EXCEPT ![u] = [enrol[u] EXCEPT !.pc = "failed"]]
  BY <1>1 DEF SeedRead
<1>9. ASSUME NEW v \in found, found = {v} PROVE (CHOOSE w \in found : TRUE) = v
  BY <1>9
<1> QED BY <1>5, <1>6, <1>7, <1>8, <1>9

\* A row is added.
LEMMA RowAdded ==
    ASSUME AccountsInv, NEW u \in User, enrol[u].pc # "done",
           NEW e \in Address \cup {Nothing}, e # Nothing => Holders(e) = {},
           e # Nothing /\ u \notin typed => Lower[e] = e,
           NEW n \in Phone, NumberFree(n, u),
           NEW m \in {Nothing, e},
           rows' = rows \cup {u},
           email' = [email EXCEPT ![u] = e],
           password' = [password EXCEPT ![u] = u],
           phone' = [phone EXCEPT ![u] = n],
           mark' = [mark EXCEPT ![u] = m],
           admins \subseteq admins', admins' \subseteq User,
           enrol' = [enrol EXCEPT ![u].pc = "done"],
           UNCHANGED <<code, profile, moderate, resend, verify, change, typed, doubted>>
    PROVE  AccountsInv'
<1>1. /\ rows \subseteq User
      /\ email \in [User -> Address \cup {Nothing}]
      /\ password \in [User -> Password \cup {Nothing}]
      /\ phone \in [User -> Phone]
      /\ mark \in [User -> Address \cup {Nothing}]
      /\ enrol \in [User -> EnrolState]
  BY DEF AccountsInv, Kinds
<1>2. u \notin rows BY DEF AccountsInv, AccountsPart, Enrolled
<1>3. u \in Password BY DEF Password
<1>4. [enrol[u] EXCEPT !.pc = "done"] \in EnrolState BY <1>1 DEF EnrolState
<1>5. /\ rows' \subseteq User
      /\ email' \in [User -> Address \cup {Nothing}]
      /\ password' \in [User -> Password \cup {Nothing}]
      /\ phone' \in [User -> Phone]
      /\ mark' \in [User -> Address \cup {Nothing}]
      /\ enrol' \in [User -> EnrolState]
  BY <1>1, <1>3, <1>4
<1>6. /\ email'[u] = e /\ password'[u] = u /\ phone'[u] = n /\ mark'[u] = m
      /\ enrol'[u] = [enrol[u] EXCEPT !.pc = "done"]
      /\ \A v \in User : v # u => /\ email'[v] = email[v] /\ password'[v] = password[v]
                                  /\ phone'[v] = phone[v] /\ mark'[v] = mark[v]
                                  /\ enrol'[v] = enrol[v]
  BY <1>1
<1>7. enrol'[u].pc = "done" /\ enrol'[u].fit = enrol[u].fit
  BY <1>1, <1>6 DEF EnrolState
<1>8. Kinds' BY <1>5 DEF AccountsInv, Kinds
<1>9. AccountsPart'
  <2> USE DEF AccountsInv, AccountsPart
  <2>1. Unique'
    <3>1. \A v \in rows : e # Nothing => email[v] # e BY DEF Holders
    <3>2. \A v \in rows : n = "seed" => phone[v] # "seed" BY <1>2 DEF NumberFree
    <3>3. \A v \in rows : v \in User /\ v # u BY <1>1, <1>2
    <3>4. ASSUME NEW v \in rows', NEW w \in rows', email'[v] = email'[w], email'[v] # Nothing
          PROVE  v = w
      BY <1>6, <3>1, <3>3, <3>4 DEF Unique
    <3>5. ASSUME NEW v \in rows', NEW w \in rows', phone'[v] = "seed", phone'[w] = "seed"
          PROVE  v = w
      BY <1>6, <3>2, <3>3, <3>5 DEF Unique
    <3> QED BY <3>4, <3>5 DEF Unique
  <2>2. Enrolled' BY <1>1, <1>6, <1>7 DEF Enrolled
  <2>3. Unmarked' BY <1>6, <1>7 DEF Unmarked
  <2>4. Marked' BY <1>1, <1>6 DEF Marked
  <2>5. Normal' BY <1>1, <1>6 DEF Normal
  <2>6. Registering' BY <1>6, <1>7 DEF Registering
  <2>7. Addressed' BY <1>6, <1>7 DEF Addressed
  <2>8. Seeding'
    <3>1. ASSUME NEW v \in User
          PROVE  /\ enrol'[v].fit # "no"
                 /\ enrol'[v].pc = "attach" =>
                        /\ enrol'[v].found \in User /\ enrol'[enrol'[v].found].pc = "done"
                        /\ enrol'[v].fit = "yes" => Fit(enrol[v].found)'
      <4>1. CASE v = u BY <1>7, <4>1 DEF Seeding
      <4>2. CASE v # u
        <5>1. enrol'[v] = enrol[v] BY <1>6, <4>2
        <5>2. ASSUME enrol[v].pc = "attach"
              PROVE  /\ enrol[v].found \in User /\ enrol[v].found # u
                     /\ enrol[enrol[v].found].pc = "done"
                     /\ enrol[v].fit = "yes" => Fit(enrol[v].found)
          BY <5>2 DEF Seeding
        <5>3. ASSUME NEW w \in User, w # u, Fit(w) PROVE Fit(w)'
          BY <1>6, <5>3 DEF Fit
        <5>4. enrol[v].fit # "no" BY DEF Seeding
        <5> QED BY <1>6, <5>1, <5>2, <5>3, <5>4
      <4> QED BY <4>1, <4>2
    <3>2. ASSUME NEW v \in User, enrol'[v].pc = "attach" PROVE enrol'[v].found = enrol[v].found
      BY <1>6, <1>7, <3>2
    <3> QED BY <3>1, <3>2 DEF Seeding
  <2> QED BY <2>1, <2>2, <2>3, <2>4, <2>5, <2>6, <2>7, <2>8
<1>10. PasswordsPart'
  <2> USE DEF AccountsInv, PasswordsPart
  <2>1. \A p, v : SetFor(p, v)' <=> SetFor(p, v) BY DEF SetFor
  <2>2. SetFor(u, u) BY PasswordAssumption DEF SetFor
  <2>3. HasPassword' BY <1>1, <1>3, <1>6 DEF HasPassword
  <2>4. Passwords' BY <1>1, <1>6, <2>1, <2>2 DEF Passwords
  <2>5. Moderating' BY DEF Moderating
  <2>6. Asked' BY <2>1 DEF Asked
  <2>7. Compared' BY <1>1, <1>2, <1>6 DEF Compared
  <2>8. PasswordChangesAreOwn' BY DEF PasswordChangesAreOwn
  <2> QED BY <2>3, <2>4, <2>5, <2>6, <2>7, <2>8
<1>11. ProfilesPart' /\ CodesPart' BY KeepProfiles, KeepCodes
<1> QED BY <1>8, <1>9, <1>10, <1>11 DEF AccountsInv

LEMMA CreateUserInsertStep ==
    ASSUME AccountsInv, NEW u \in User, CreateUserInsert(u) PROVE AccountsInv'
<1>1. /\ enrol[u].pc = "insert"
      /\ UNCHANGED <<mark, code, profile, moderate, resend, verify, change, typed, doubted>>
  BY DEF CreateUserInsert
<1>2. CASE /\ enrol' = [enrol EXCEPT ![u].pc = "failed"]
           /\ UNCHANGED <<rows, email, password, phone, admins>>
  <2>1. UNCHANGED <<rows, email, password, mark, code, profile, moderate, resend, verify,
                    change, typed, doubted, phone, admins>>
    BY <1>1, <1>2
  <2> QED BY <1>1, <1>2, <2>1, EnrolAt
<1>3. CASE /\ Holders(enrol[u].address) = {} /\ NumberFree(enrol[u].as, u)
           /\ rows' = rows \cup {u}
           /\ email' = [email EXCEPT ![u] = enrol[u].address]
           /\ password' = [password EXCEPT ![u] = u]
           /\ phone' = [phone EXCEPT ![u] = Number(enrol[u].as)]
           /\ admins' = IF enrol[u].as = "admin" THEN admins \cup {u} ELSE admins
           /\ enrol' = [enrol EXCEPT ![u].pc = "done"]
  <2>1. PICK e \in Address : e = enrol[u].address
    BY <1>1 DEF AccountsInv, AccountsPart, Addressed
  <2>2. u \notin typed => Lower[e] = e
    BY <1>1, <2>1 DEF AccountsInv, AccountsPart, Registering
  <2>3. PICK n : n = Number(enrol[u].as) OBVIOUS
  <2>4. n \in Phone /\ NumberFree(n, u) BY <1>3, <2>3 DEF Number, NumberFree, Phone
  <2>5. mark \in [User -> Address \cup {Nothing}] /\ mark[u] = Nothing
    BY <1>1 DEF AccountsInv, Kinds, AccountsPart, Unmarked
  <2>6. mark' = [mark EXCEPT ![u] = Nothing] BY <1>1, <2>5
  <2>7. admins \subseteq admins' /\ admins' \subseteq User BY <1>3 DEF AccountsInv, Kinds
  <2>8. enrol[u].pc # "done" BY <1>1
  <2>9. UNCHANGED <<code, profile, moderate, resend, verify, change, typed, doubted>> BY <1>1
  <2>10. Holders(e) = {} /\ email' = [email EXCEPT ![u] = e] BY <1>3, <2>1
  <2>11. phone' = [phone EXCEPT ![u] = n] BY <1>3, <2>3
  <2> QED BY <1>3, <2>2, <2>4, <2>6, <2>7, <2>8, <2>9, <2>10, <2>11, RowAdded
<1> QED BY <1>2, <1>3 DEF CreateUserInsert

LEMMA SeedMakeStep ==
    ASSUME AccountsInv, NEW u \in User, SeedMake(u) PROVE AccountsInv'
<1>1. /\ enrol[u].pc # "done"
      /\ SeedAddress # Nothing => Holders(SeedAddress) = {}
      /\ NumberFree("seed", u)
      /\ rows' = rows \cup {u}
      /\ email' = [email EXCEPT ![u] = SeedAddress]
      /\ password' = [password EXCEPT ![u] = u]
      /\ phone' = [phone EXCEPT ![u] = "seed"]
      /\ admins' = admins \cup {u}
      /\ mark' = [mark EXCEPT ![u] = SeedAddress]
      /\ enrol' = [enrol EXCEPT ![u].pc = "done"]
      /\ UNCHANGED <<code, profile, moderate, resend, verify, change, typed, doubted>>
  BY DEF SeedMake
<1>2. SeedAddress \in Address \cup {Nothing} BY AccountsAssumption
<1>3. SeedAddress # Nothing => Lower[SeedAddress] = SeedAddress BY AccountsAssumption
<1>4. "seed" \in Phone BY DEF Phone
<1>5. admins \subseteq admins' /\ admins' \subseteq User BY <1>1 DEF AccountsInv, Kinds
<1> QED BY <1>1, <1>2, <1>3, <1>4, <1>5, RowAdded

LEMMA SeedAttachStep ==
    ASSUME AccountsInv, NEW u \in User, SeedAttach(u) PROVE AccountsInv'
<1>1. PICK v : v = enrol[u].found OBVIOUS
<1>2. /\ enrol[u].pc = "attach" /\ v \in rows /\ NumberFree("seed", v)
      /\ phone' = [phone EXCEPT ![v] = "seed"]
      /\ UNCHANGED <<rows, email, password, mark, code, profile, moderate, resend, verify,
                     change, typed, doubted, admins>>
  BY <1>1 DEF SeedAttach
<1>3. /\ v \in User /\ enrol[v].pc = "done" /\ enrol[u].fit # "no"
      /\ enrol[u].fit = "yes" => Fit(v)
  BY <1>1, <1>2 DEF AccountsInv, AccountsPart, Seeding
<1> DEFINE r == [enrol[u] EXCEPT !.pc = "done"]
<1>4. /\ enrol \in [User -> EnrolState]
      /\ phone \in [User -> Phone]
      /\ rows \subseteq User
  BY DEF AccountsInv, Kinds
<1>5. r \in EnrolState /\ r.pc = "done" /\ r.fit = enrol[u].fit
  BY <1>4 DEF EnrolState
<1>6. enrol' = [enrol EXCEPT ![u] = r]
  <2>1. (IF enrol[u].fit = "yes" /\ ~Fit(v) THEN "no" ELSE enrol[u].fit) = enrol[u].fit
    BY <1>3
  <2>2. [enrol[u] EXCEPT !.pc = "done", !.fit = enrol[u].fit] = r BY <1>4 DEF EnrolState
  <2>3. enrol' = [enrol EXCEPT ![u] =
            [enrol[u] EXCEPT !.pc = "done", !.fit = enrol[u].fit]]
    BY <1>1, <2>1 DEF SeedAttach
  <2> QED BY <2>2, <2>3
<1> HIDE DEF r
<1>7. /\ enrol' \in [User -> EnrolState] /\ enrol'[u] = r
      /\ \A w \in User : w # u => enrol'[w] = enrol[w]
  BY <1>4, <1>5, <1>6
<1>8. "seed" \in Phone BY DEF Phone
<1>9. /\ phone' \in [User -> Phone] /\ phone'[v] = "seed"
      /\ \A w \in User : w # v => phone'[w] = phone[w]
  BY <1>2, <1>3, <1>4, <1>8
<1>10. Kinds' BY <1>2, <1>7, <1>9 DEF AccountsInv, Kinds
<1>11. AccountsPart'
  <2> USE DEF AccountsInv, AccountsPart
  <2>1. Unique'
    <3>1. \A w \in rows : w # v => phone[w] # "seed" BY <1>2 DEF NumberFree
    <3>2. \A w \in rows : phone'[w] = "seed" => w = v BY <1>4, <1>9, <3>1
    <3> QED BY <1>2, <3>2 DEF Unique
  <2>2. Enrolled' BY <1>2, <1>4, <1>5, <1>7 DEF Enrolled
  <2>3. Unmarked' BY <1>2, <1>5, <1>7 DEF Unmarked
  <2>4. Marked' BY <1>2 DEF Marked
  <2>5. Normal' BY <1>2 DEF Normal
  <2>6. Registering' BY <1>2, <1>5, <1>7 DEF Registering
  <2>7. Addressed' BY <1>5, <1>7 DEF Addressed
  <2>8. Seeding'
    <3>1. ASSUME NEW w \in User, Fit(w) PROVE Fit(w)'
      BY <1>2, <1>9, <3>1 DEF Fit
    <3>2. ASSUME NEW w \in User, w # u, enrol'[w].pc = "attach"
          PROVE  /\ enrol[w].found \in User /\ enrol'[enrol[w].found].pc = "done"
                 /\ enrol[w].fit = "yes" => Fit(enrol[w].found)'
      BY <1>5, <1>7, <3>1, <3>2 DEF Seeding
    <3>3. \A w \in User : w # u => enrol'[w] = enrol[w] /\ enrol[w].fit # "no"
      BY <1>7 DEF Seeding
    <3> QED BY <1>3, <1>5, <1>7, <3>2, <3>3 DEF Seeding
  <2> QED BY <2>1, <2>2, <2>3, <2>4, <2>5, <2>6, <2>7, <2>8
<1>12. ProfilesPart' /\ CodesPart' /\ PasswordsPart'
  BY <1>2, KeepProfiles, KeepCodes, KeepPasswords
<1> QED BY <1>10, <1>11, <1>12 DEF AccountsInv

------------------------------------------------------------------------------
(* Writes that a password change does not expect *)

LEMMA DisturbIs ==
    ASSUME Kinds, NEW u, NEW D, D = Disturb(u)
    PROVE  /\ D \in [Change -> ChangeState]
           /\ \A c \in Change :
                /\ D[c].pc = change[c].pc /\ D[c].user = change[c].user
                /\ D[c].address = change[c].address /\ D[c].old = change[c].old
                /\ D[c].wrote = change[c].wrote
                /\ D[c].replaced = change[c].replaced
                /\ change[c].disturbed => D[c].disturbed
                /\ change[c].pc = "save" /\ change[c].user = u => D[c].disturbed
                /\ ~D[c].disturbed => ~change[c].disturbed
<1> DEFINE d(c) == change[c].disturbed \/ (change[c].pc = "save" /\ change[c].user = u)
<1>1. change \in [Change -> ChangeState] BY DEF Kinds
<1>2. ASSUME NEW c \in Change
      PROVE  /\ D[c] \in ChangeState
             /\ D[c].pc = change[c].pc /\ D[c].user = change[c].user
             /\ D[c].address = change[c].address /\ D[c].old = change[c].old
             /\ D[c].wrote = change[c].wrote
             /\ D[c].replaced = change[c].replaced
             /\ D[c].disturbed = d(c)
  <2>1. D[c] = [change[c] EXCEPT !.disturbed = d(c)]
    BY <1>1 DEF Disturb, ChangeState
  <2>2. d(c) \in BOOLEAN BY <1>1 DEF ChangeState
  <2> HIDE DEF d
  <2> QED BY <1>1, <2>1, <2>2 DEF ChangeState
<1>3. D \in [Change -> ChangeState]
  <2>1. D = [c \in Change |-> D[c]] BY DEF Disturb
  <2> QED BY <1>2, <2>1
<1> QED BY <1>2, <1>3

LEMMA DisturbKeeps ==
    ASSUME Kinds, NEW u, change' = Disturb(u)
    PROVE  /\ change' \in [Change -> ChangeState]
           /\ \A c \in Change :
                /\ change'[c].pc = change[c].pc /\ change'[c].user = change[c].user
                /\ change'[c].address = change[c].address /\ change'[c].old = change[c].old
                /\ change'[c].wrote = change[c].wrote
                /\ change'[c].replaced = change[c].replaced
                /\ change[c].disturbed => change'[c].disturbed
                /\ change[c].pc = "save" /\ change[c].user = u => change'[c].disturbed
                /\ ~change'[c].disturbed => ~change[c].disturbed
  BY DisturbIs

\* Such a write keeps what a change knows.
LEMMA Disturbed ==
    ASSUME AccountsInv, NEW u \in User, change' = Disturb(u),
           \A v \in User : v # u => /\ v \in rows => v \in rows'
                                    /\ email'[v] = email[v] /\ password'[v] = password[v],
           \A p, v : SetFor(p, v) => SetFor(p, v)',
           HasPassword', Passwords', Moderating'
    PROVE  PasswordsPart' /\ change' \in [Change -> ChangeState]
<1>1. /\ change' \in [Change -> ChangeState]
      /\ \A c \in Change :
           /\ change'[c].pc = change[c].pc /\ change'[c].user = change[c].user
           /\ change'[c].address = change[c].address /\ change'[c].old = change[c].old
           /\ change'[c].wrote = change[c].wrote
           /\ change'[c].replaced = change[c].replaced
           /\ change[c].pc = "save" /\ change[c].user = u => change'[c].disturbed
           /\ ~change'[c].disturbed => ~change[c].disturbed
  BY DisturbKeeps DEF AccountsInv
<1>2. Asked' BY <1>1 DEF AccountsInv, PasswordsPart, Asked
<1>3. Compared'
  <2> SUFFICES ASSUME NEW c \in Change, change'[c].pc = "save", ~change'[c].disturbed
               PROVE  /\ change'[c].user \in rows'
                      /\ email'[change'[c].user] = change'[c].address
                      /\ password'[change'[c].user] = change'[c].old
    BY DEF Compared
  <2>1. change[c].pc = "save" /\ ~change[c].disturbed /\ change[c].user # u BY <1>1
  <2>2. /\ change[c].user \in rows
        /\ email[change[c].user] = change[c].address
        /\ password[change[c].user] = change[c].old
    BY <2>1 DEF AccountsInv, PasswordsPart, Compared
  <2>3. change[c].user \in User BY <2>2 DEF AccountsInv, Kinds
  <2> QED BY <1>1, <2>1, <2>2, <2>3
<1>4. PasswordChangesAreOwn' BY <1>1 DEF AccountsInv, PasswordsPart, PasswordChangesAreOwn
<1> QED BY <1>1, <1>2, <1>3, <1>4 DEF PasswordsPart

\* Nobody's password is another's after it.
LEMMA SetForKept ==
    ASSUME AccountsInv, NEW u, change' = Disturb(u), UNCHANGED moderate
    PROVE  \A p, v : SetFor(p, v) => SetFor(p, v)'
  BY DisturbKeeps DEF AccountsInv, SetFor

\* A write of an account's type or number, as the seeds that have found it see it.
LEMMA WrittenIs ==
    ASSUME AccountsInv, NEW u, enrol' = Written(u)
    PROVE  /\ enrol' \in [User -> EnrolState]
           /\ \A v \in User :
                /\ enrol'[v].pc = enrol[v].pc /\ enrol'[v].address = enrol[v].address
                /\ enrol'[v].found = enrol[v].found
                /\ enrol'[v].fit \in {enrol[v].fit, "written"}
                /\ enrol[v].pc = "attach" /\ enrol[v].found = u => enrol'[v].fit = "written"
<1>1. enrol' = [v \in User |-> IF enrol[v].pc = "attach" /\ enrol[v].found = u
                                THEN [enrol[v] EXCEPT !.fit = "written"] ELSE enrol[v]]
  BY DEF Written
<1>2. ASSUME NEW v \in User
      PROVE  /\ enrol'[v] \in EnrolState
             /\ enrol'[v].pc = enrol[v].pc /\ enrol'[v].address = enrol[v].address
             /\ enrol'[v].found = enrol[v].found
             /\ enrol'[v].fit \in {enrol[v].fit, "written"}
             /\ enrol[v].pc = "attach" /\ enrol[v].found = u => enrol'[v].fit = "written"
  <2>1. enrol[v] \in EnrolState BY DEF AccountsInv, Kinds
  <2>2. CASE enrol[v].pc = "attach" /\ enrol[v].found = u
    <3>1. enrol'[v] = [enrol[v] EXCEPT !.fit = "written"] BY <1>1, <2>2
    <3> QED BY <2>1, <3>1 DEF EnrolState
  <2>3. CASE ~(enrol[v].pc = "attach" /\ enrol[v].found = u)
    <3>1. enrol'[v] = enrol[v] BY <1>1, <2>3
    <3> QED BY <2>1, <2>3, <3>1
  <2> QED BY <2>2, <2>3
<1>3. enrol' = [v \in User |-> enrol'[v]] BY <1>1
<1>4. enrol' \in [User -> EnrolState] BY <1>2, <1>3
<1> QED BY <1>2, <1>4

LEMMA DeleteUserStep ==
    ASSUME AccountsInv, NEW u \in User, DeleteUser(u) PROVE AccountsInv'
<1>1. /\ rows' = rows \ {u} /\ change' = Disturb(u)
      /\ UNCHANGED <<email, password, mark, code, enrol, profile, moderate, resend, verify,
                     typed, doubted, phone, admins>>
  BY DEF DeleteUser
<1>2. \A p, v : SetFor(p, v) => SetFor(p, v)' BY <1>1, SetForKept
<1>3. /\ HasPassword' /\ Passwords' /\ Moderating'
  BY <1>1, <1>2 DEF AccountsInv, PasswordsPart, HasPassword, Passwords, Moderating
<1>4. PasswordsPart' /\ change' \in [Change -> ChangeState]
  BY <1>1, <1>2, <1>3, Disturbed
<1>5. Kinds' BY <1>1, <1>4 DEF AccountsInv, Kinds
<1>6. AccountsPart'
  BY <1>1 DEF AccountsInv, AccountsPart, Unique, Enrolled, Unmarked, Marked, Normal, Registering,
              Addressed, Seeding, Fit
<1>7. ProfilesPart' /\ CodesPart' BY <1>1, KeepProfiles, KeepCodes
<1> QED BY <1>4, <1>5, <1>6, <1>7 DEF AccountsInv

------------------------------------------------------------------------------
(* Profile updates and the administrator's *)

LEMMA ProfileMoves ==
    ASSUME AccountsInv, NEW w \in Profile, NEW r \in ProfileState,
           profile' = [profile EXCEPT ![w] = r],
           r.pc = "save" /\ r.address # Nothing => Lower[r.address] = r.address
    PROVE  profile' \in [Profile -> ProfileState] /\ ProfilesPart'
<1>1. profile \in [Profile -> ProfileState] BY DEF AccountsInv, Kinds
<1>2. /\ profile' \in [Profile -> ProfileState] /\ profile'[w] = r
      /\ \A v \in Profile : v # w => profile'[v] = profile[v]
  BY <1>1
<1>3. ProfilesPart' BY <1>2 DEF AccountsInv, ProfilesPart
<1> QED BY <1>2, <1>3

LEMMA ProfileReadStep ==
    ASSUME AccountsInv, NEW w \in Profile, NEW u \in User, NEW e \in Address \cup {Nothing},
           NEW n \in {"own", "seed", Nothing}, ProfileRead(w, u, e, n)
    PROVE  AccountsInv'
<1> DEFINE a == IF e = Nothing THEN Nothing ELSE Lower[e]
           r == [pc |-> "save", user |-> u, address |-> a, current |-> email[u], number |-> n]
<1>1. a \in Address \cup {Nothing} /\ (a # Nothing => Lower[a] = a) BY AccountsAssumption
<1>2. email[u] \in Address \cup {Nothing} BY DEF AccountsInv, Kinds
<1>3. r \in ProfileState /\ r.address = a
  <2> HIDE DEF a
  <2> QED BY <1>1, <1>2 DEF ProfileState
<1>4. /\ profile' = [profile EXCEPT ![w] = r]
      /\ UNCHANGED <<rows, email, password, mark, code, enrol, moderate, resend, verify,
                     change, typed, doubted, phone, admins>>
  BY DEF ProfileRead
<1> HIDE DEF r, a
<1>5. profile' \in [Profile -> ProfileState] /\ ProfilesPart' BY <1>1, <1>3, <1>4, ProfileMoves
<1>6. AccountsPart' /\ CodesPart' /\ PasswordsPart'
  BY <1>4, KeepAccounts, KeepCodes, KeepPasswords
<1>7. Kinds' BY <1>4, <1>5 DEF AccountsInv, Kinds
<1> QED BY <1>5, <1>6, <1>7 DEF AccountsInv

LEMMA ProfileEnds ==
    ASSUME AccountsInv, NEW w \in Profile, NEW pc \in {"done", "failed"},
           profile' = [profile EXCEPT ![w].pc = pc]
    PROVE  profile' \in [Profile -> ProfileState] /\ ProfilesPart'
<1> DEFINE r == [profile[w] EXCEPT !.pc = pc]
<1>1. profile[w] \in ProfileState BY DEF AccountsInv, Kinds
<1>2. r \in ProfileState /\ r.pc = pc BY <1>1 DEF ProfileState
<1>3. profile' = [profile EXCEPT ![w] = r] OBVIOUS
<1> HIDE DEF r
<1> QED BY <1>2, <1>3, ProfileMoves

LEMMA ProfileFailsStep ==
    ASSUME AccountsInv, NEW w \in Profile, ProfileFails(w) PROVE AccountsInv'
<1>1. /\ profile' = [profile EXCEPT ![w].pc = "failed"]
      /\ UNCHANGED <<rows, email, password, mark, code, enrol, moderate, resend, verify,
                     change, typed, doubted, phone, admins>>
  BY DEF ProfileFails
<1>2. profile' \in [Profile -> ProfileState] /\ ProfilesPart' BY <1>1, ProfileEnds
<1>3. AccountsPart' /\ CodesPart' /\ PasswordsPart'
  BY <1>1, KeepAccounts, KeepCodes, KeepPasswords
<1>4. Kinds' BY <1>1, <1>2 DEF AccountsInv, Kinds
<1> QED BY <1>2, <1>3, <1>4 DEF AccountsInv

\* What a profile update writes, an address or none and a number or none.
LEMMA ProfileWrote ==
    ASSUME AccountsInv, NEW w \in Profile, ProfileWrites(w),
           NEW u, u = profile[w].user, NEW e, e = profile[w].address
    PROVE  /\ u \in rows /\ u \in User /\ e \in Address \cup {Nothing}
           /\ e # Nothing => Lower[e] = e /\ \A v \in rows : email[v] = e => v = u
           /\ email' \in [User -> Address \cup {Nothing}]
           /\ email'[u] = IF e # Nothing THEN e ELSE email[u]
           /\ \A v \in User : v # u => email'[v] = email[v]
           /\ phone' \in [User -> Phone]
           /\ \A v \in User : v # u => phone'[v] = phone[v]
           /\ phone'[u] = "seed" => phone[u] = "seed" \/ \A v \in rows : v # u => phone[v] # "seed"
           /\ (phone' = phone /\ enrol' = enrol) \/ enrol' = Written(u)
           /\ e = Nothing => change' = change /\ email' = email /\ typed' = typed
           /\ e # Nothing => change' = Disturb(u) /\ typed' = typed \ {u}
           /\ profile' \in [Profile -> ProfileState] /\ ProfilesPart'
           /\ UNCHANGED <<rows, password, code, moderate, resend, verify, admins>>
<1>1. PICK n : n = profile[w].number OBVIOUS
<1>2. /\ profile[w].pc = "save" /\ u \in rows /\ (e # Nothing => Free(e, u)) /\ NumberFree(n, u)
      /\ email' = [email EXCEPT ![u] = IF e # Nothing THEN e ELSE email[u]]
      /\ phone' = [phone EXCEPT ![u] = IF n # Nothing THEN n ELSE phone[u]]
      /\ profile' = [profile EXCEPT ![w].pc = "done"]
      /\ change' = IF e # Nothing THEN Disturb(u) ELSE change
      /\ enrol' = IF n # Nothing THEN Written(u) ELSE enrol
      /\ typed' = IF e # Nothing THEN typed \ {u} ELSE typed
      /\ UNCHANGED <<rows, password, code, moderate, resend, verify, admins>>
  BY <1>1 DEF ProfileWrites
<1>3. /\ rows \subseteq User /\ u \in User
      /\ email \in [User -> Address \cup {Nothing}]
      /\ phone \in [User -> Phone]
      /\ e \in Address \cup {Nothing} /\ n \in {"own", "seed", Nothing}
  <2>1. profile[w] \in ProfileState BY DEF AccountsInv, Kinds
  <2> QED BY <1>1, <1>2, <2>1 DEF AccountsInv, Kinds, ProfileState
<1>4. e # Nothing => Lower[e] = e BY <1>2 DEF AccountsInv, ProfilesPart
<1>5. e # Nothing => \A v \in rows : email[v] = e => v = u BY <1>2 DEF Free, Holders
<1>6. /\ email' \in [User -> Address \cup {Nothing}]
      /\ email'[u] = IF e # Nothing THEN e ELSE email[u]
      /\ \A v \in User : v # u => email'[v] = email[v]
      /\ e = Nothing => email' = email
  BY <1>2, <1>3
<1>7. /\ phone' \in [User -> Phone]
      /\ phone'[u] = IF n # Nothing THEN n ELSE phone[u]
      /\ \A v \in User : v # u => phone'[v] = phone[v]
      /\ n = Nothing => phone' = phone
  BY <1>2, <1>3 DEF Phone
<1>8. phone'[u] = "seed" => phone[u] = "seed" \/ \A v \in rows : v # u => phone[v] # "seed"
  BY <1>2, <1>7 DEF NumberFree
<1>9. profile' \in [Profile -> ProfileState] /\ ProfilesPart' BY <1>2, ProfileEnds
<1> QED BY <1>2, <1>3, <1>4, <1>5, <1>6, <1>7, <1>8, <1>9

LEMMA ProfileSaveStep ==
    ASSUME AccountsInv, NEW w \in Profile, ProfileSave(w) PROVE AccountsInv'
<1>1. PICK u, e, read : u = profile[w].user /\ e = profile[w].address /\ read = profile[w].current
  OBVIOUS
<1>2. /\ ProfileWrites(w)
      /\ mark' = [mark EXCEPT ![u] = IF e \notin {read, Nothing} THEN Nothing ELSE mark[u]]
      /\ doubted' = IF e # Nothing /\ e = read /\ email[u] # read THEN doubted \cup {u} ELSE doubted
  BY <1>1 DEF ProfileSave
<1>3. /\ u \in rows /\ u \in User /\ e \in Address \cup {Nothing}
      /\ e # Nothing => Lower[e] = e /\ \A v \in rows : email[v] = e => v = u
      /\ email' \in [User -> Address \cup {Nothing}]
      /\ email'[u] = IF e # Nothing THEN e ELSE email[u]
      /\ \A v \in User : v # u => email'[v] = email[v]
      /\ phone' \in [User -> Phone]
      /\ \A v \in User : v # u => phone'[v] = phone[v]
      /\ phone'[u] = "seed" => phone[u] = "seed" \/ \A v \in rows : v # u => phone[v] # "seed"
      /\ (phone' = phone /\ enrol' = enrol) \/ enrol' = Written(u)
      /\ e = Nothing => change' = change /\ email' = email /\ typed' = typed
      /\ e # Nothing => change' = Disturb(u) /\ typed' = typed \ {u}
      /\ profile' \in [Profile -> ProfileState] /\ ProfilesPart'
      /\ UNCHANGED <<rows, password, code, moderate, resend, verify, admins>>
  BY <1>1, <1>2, ProfileWrote
<1>4. /\ rows \subseteq User
      /\ mark \in [User -> Address \cup {Nothing}]
  BY DEF AccountsInv, Kinds
<1>5. /\ mark' \in [User -> Address \cup {Nothing}]
      /\ mark'[u] = IF e \notin {read, Nothing} THEN Nothing ELSE mark[u]
      /\ \A v \in User : v # u => mark'[v] = mark[v]
  BY <1>2, <1>3, <1>4
<1>6. PasswordsPart' /\ change' \in [Change -> ChangeState]
  <2>1. CASE e = Nothing BY <1>3, <2>1, KeepPasswords DEF AccountsInv, Kinds
  <2>2. CASE e # Nothing
    <3>1. \A p, v : SetFor(p, v) => SetFor(p, v)' BY <1>3, <2>2, SetForKept
    <3>2. HasPassword' /\ Passwords' /\ Moderating'
      BY <1>3, <3>1 DEF AccountsInv, PasswordsPart, HasPassword, Passwords, Moderating
    <3> QED BY <1>3, <1>4, <2>2, <3>1, <3>2, Disturbed
  <2> QED BY <2>1, <2>2
<1>7. /\ enrol' \in [User -> EnrolState]
      /\ \A v \in User :
            /\ enrol'[v].pc = enrol[v].pc /\ enrol'[v].address = enrol[v].address
            /\ enrol'[v].found = enrol[v].found
            /\ enrol'[v].fit \in {enrol[v].fit, "written"}
      /\ \/ phone' = phone
         \/ \A v \in User :
               enrol[v].pc = "attach" /\ enrol[v].found = u => enrol'[v].fit = "written"
  <2>1. CASE phone' = phone /\ enrol' = enrol BY <2>1 DEF AccountsInv, Kinds
  <2>2. CASE enrol' = Written(u) BY <1>3, <2>2, WrittenIs
  <2> QED BY <1>3, <2>1, <2>2
<1>8. Kinds' BY <1>2, <1>3, <1>4, <1>5, <1>6, <1>7 DEF AccountsInv, Kinds
<1>9. AccountsPart'
  <2> USE DEF AccountsInv, AccountsPart
  <2>1. Unique'
    <3>1. ASSUME NEW v \in rows, NEW x \in rows, email'[v] = email'[x], email'[v] # Nothing
          PROVE  v = x
      BY <1>3, <1>4, <3>1 DEF Unique
    <3>2. ASSUME NEW v \in rows, NEW x \in rows, phone'[v] = "seed", phone'[x] = "seed"
          PROVE  v = x
      BY <1>3, <1>4, <3>2 DEF Unique
    <3> QED BY <1>3, <3>1, <3>2 DEF Unique
  <2>2. Enrolled' BY <1>3, <1>4, <1>7 DEF Enrolled
  <2>3. Unmarked' BY <1>3, <1>4, <1>5, <1>7 DEF Unmarked, Enrolled
  <2>4. Marked'
    <3>1. ASSUME u \notin doubted' PROVE mark'[u] \in {Nothing, email'[u]}
      <4>1. CASE e \notin {read, Nothing} BY <1>5, <4>1
      <4>2. CASE e = Nothing
        <5>1. u \notin doubted BY <1>2, <3>1, <4>2
        <5>2. mark[u] \in {Nothing, email[u]} BY <1>3, <5>1 DEF Marked
        <5> QED BY <1>3, <1>5, <4>2, <5>2
      <4>3. CASE e # Nothing /\ e = read
        <5>1. email[u] = e /\ u \notin doubted BY <1>2, <3>1, <4>3
        <5>2. mark[u] \in {Nothing, email[u]} BY <1>3, <5>1 DEF Marked
        <5> QED BY <1>3, <1>5, <4>3, <5>1, <5>2
      <4> QED BY <4>1, <4>2, <4>3
    <3>2. ASSUME NEW v \in rows, v # u, v \notin doubted' PROVE mark'[v] \in {Nothing, email'[v]}
      <4>1. v \notin doubted BY <1>2, <3>2
      <4>2. mark[v] \in {Nothing, email[v]} BY <3>2, <4>1 DEF Marked
      <4> QED BY <1>3, <1>4, <1>5, <3>2, <4>2
    <3> QED BY <1>3, <3>1, <3>2 DEF Marked
  <2>5. Normal'
    <3>1. ASSUME NEW v \in rows, v \notin typed', email'[v] # Nothing
          PROVE  Lower[email'[v]] = email'[v]
      <4>1. CASE e = Nothing BY <1>3, <3>1, <4>1 DEF Normal
      <4>2. CASE e # Nothing BY <1>3, <1>4, <3>1, <4>2 DEF Normal
      <4> QED BY <4>1, <4>2
    <3> QED BY <1>3, <3>1 DEF Normal
  <2>6. Registering'
    <3>1. enrol[u].pc \notin {"recheck", "insert"} BY <1>3 DEF Enrolled
    <3>2. \A v \in User : v # u /\ v \notin typed' => v \notin typed BY <1>3
    <3> QED BY <1>7, <3>1, <3>2 DEF Registering
  <2>7. Addressed' BY <1>7 DEF Addressed
  <2>8. Seeding'
    <3>1. ASSUME NEW v \in User, v # u, Fit(v) PROVE Fit(v)'
      BY <1>3, <3>1 DEF Fit
    <3>2. ASSUME phone' = phone, NEW v, Fit(v) PROVE Fit(v)' BY <1>3, <3>2 DEF Fit
    <3>3. ASSUME NEW v \in User
          PROVE  /\ enrol'[v].fit # "no"
                 /\ enrol'[v].pc = "attach" =>
                      /\ enrol'[v].found \in User /\ enrol'[enrol'[v].found].pc = "done"
                      /\ enrol'[v].fit = "yes" => Fit(enrol[v].found)'
      <4>1. enrol'[v].fit # "no" BY <1>7 DEF Seeding
      <4>2. ASSUME enrol[v].pc = "attach"
            PROVE  /\ enrol[v].found \in User /\ enrol'[enrol[v].found].pc = "done"
                   /\ enrol'[v].fit = "yes" =>
                        (phone' = phone \/ enrol[v].found # u) /\ Fit(enrol[v].found)
        BY <1>7, <4>2 DEF Seeding
      <4> QED BY <1>7, <3>1, <3>2, <4>1, <4>2
    <3> QED BY <1>7, <3>3 DEF Seeding
  <2> QED BY <2>1, <2>2, <2>3, <2>4, <2>5, <2>6, <2>7, <2>8
<1>10. CodesPart' BY <1>3, KeepCodes
<1> QED BY <1>3, <1>6, <1>8, <1>9, <1>10 DEF AccountsInv

\* An update of the administrator's that writes no account.
LEMMA ModerateMoves ==
    ASSUME AccountsInv, NEW m \in Moderate, NEW r \in ModerateState,
           moderate' = [moderate EXCEPT ![m] = r], r.password \in {m, Nothing},
           moderate[m].pc # "done",
           UNCHANGED <<rows, email, password, mark, code, enrol, profile, resend, verify,
                       change, typed, doubted, phone, admins>>
    PROVE  AccountsInv'
<1>1. moderate \in [Moderate -> ModerateState] BY DEF AccountsInv, Kinds
<1>2. /\ moderate' \in [Moderate -> ModerateState] /\ moderate'[m] = r
      /\ \A n \in Moderate : n # m => moderate'[n] = moderate[n]
  BY <1>1
<1>3. \A p, v : SetFor(p, v) => SetFor(p, v)' BY <1>2 DEF SetFor
<1>4. PasswordsPart'
  <2> USE DEF AccountsInv, PasswordsPart
  <2>1. HasPassword' BY DEF HasPassword
  <2>2. Passwords' BY <1>3 DEF Passwords
  <2>3. Moderating' BY <1>2 DEF Moderating
  <2>4. Asked' BY <1>3 DEF Asked
  <2>5. Compared' BY DEF Compared
  <2>6. PasswordChangesAreOwn' BY DEF PasswordChangesAreOwn
  <2> QED BY <2>1, <2>2, <2>3, <2>4, <2>5, <2>6
<1>5. AccountsPart' /\ CodesPart' /\ ProfilesPart'
  BY KeepAccounts, KeepCodes, KeepProfiles
<1>6. Kinds' BY <1>2 DEF AccountsInv, Kinds
<1> QED BY <1>4, <1>5, <1>6 DEF AccountsInv

LEMMA ModerateCheckStep ==
    ASSUME AccountsInv, NEW m \in Moderate, NEW u \in User, NEW e \in Address \cup {Nothing},
           NEW p \in {m, Nothing}, NEW a \in BOOLEAN, ModerateCheck(m, u, e, p, a)
    PROVE  AccountsInv'
<1> DEFINE r == [pc |-> "save", user |-> u, address |-> e, password |-> p, admin |-> a]
<1>1. r \in ModerateState /\ r.password = p BY DEF ModerateState, Password
<1>2. /\ moderate' = [moderate EXCEPT ![m] = r] /\ moderate[m].pc = "idle"
      /\ UNCHANGED <<rows, email, password, mark, code, enrol, profile, resend, verify,
                     change, typed, doubted, phone, admins>>
  BY DEF ModerateCheck
<1> HIDE DEF r
<1> QED BY <1>1, <1>2, ModerateMoves

LEMMA ModerateFailsStep ==
    ASSUME AccountsInv, NEW m \in Moderate, ModerateFails(m) PROVE AccountsInv'
<1> DEFINE r == [moderate[m] EXCEPT !.pc = "failed"]
<1>1. moderate[m] \in ModerateState /\ moderate[m].password \in {m, Nothing}
  BY DEF AccountsInv, Kinds, PasswordsPart, Moderating
<1>2. r \in ModerateState /\ r.password = moderate[m].password
  BY <1>1 DEF ModerateState
<1>3. /\ moderate' = [moderate EXCEPT ![m] = r] /\ moderate[m].pc = "save"
      /\ UNCHANGED <<rows, email, password, mark, code, enrol, profile, resend, verify,
                     change, typed, doubted, phone, admins>>
  BY DEF ModerateFails
<1> HIDE DEF r
<1> QED BY <1>1, <1>2, <1>3, ModerateMoves

LEMMA ModerateSaveStep ==
    ASSUME AccountsInv, NEW m \in Moderate, ModerateSave(m) PROVE AccountsInv'
<1>1. PICK u, e, p : u = moderate[m].user /\ e = moderate[m].address /\ p = moderate[m].password
  OBVIOUS
<1>2. /\ moderate[m].pc = "save" /\ u \in rows /\ (e # Nothing => Free(e, u))
      /\ email' = [email EXCEPT ![u] = IF e # Nothing THEN e ELSE email[u]]
      /\ password' = [password EXCEPT ![u] = IF p # Nothing THEN p ELSE password[u]]
      /\ admins' = IF moderate[m].admin THEN admins \cup {u} ELSE admins \ {u}
      /\ moderate' = [moderate EXCEPT ![m].pc = "done"]
      /\ change' = Disturb(u)
      /\ typed' = IF e # Nothing THEN typed \cup {u} ELSE typed
      /\ doubted' = IF e # Nothing THEN doubted \cup {u} ELSE doubted
      /\ UNCHANGED <<rows, mark, code, profile, resend, verify, phone>>
  BY <1>1 DEF ModerateSave
<1>3. /\ rows \subseteq User /\ u \in User
      /\ email \in [User -> Address \cup {Nothing}]
      /\ password \in [User -> Password \cup {Nothing}]
      /\ moderate \in [Moderate -> ModerateState]
      /\ enrol \in [User -> EnrolState]
      /\ p \in {m, Nothing} /\ e \in Address \cup {Nothing}
      /\ admins \subseteq User
  BY <1>1, <1>2 DEF AccountsInv, Kinds, PasswordsPart, Moderating, ModerateState
<1>4. /\ email' \in [User -> Address \cup {Nothing}]
      /\ email'[u] = IF e # Nothing THEN e ELSE email[u]
      /\ \A v \in User : v # u => email'[v] = email[v]
  BY <1>2, <1>3
<1>5. m \in Password BY DEF Password
<1>6. /\ password' \in [User -> Password \cup {Nothing}]
      /\ password'[u] = IF p # Nothing THEN p ELSE password[u]
      /\ \A v \in User : v # u => password'[v] = password[v]
  BY <1>2, <1>3, <1>5
<1>7. /\ moderate' \in [Moderate -> ModerateState]
      /\ moderate'[m].pc = "done" /\ moderate'[m].user = u /\ moderate'[m].password = p
      /\ \A n \in Moderate : n # m => moderate'[n] = moderate[n]
  <2> DEFINE r == [moderate[m] EXCEPT !.pc = "done"]
  <2>1. r \in ModerateState /\ r.pc = "done" /\ r.user = u /\ r.password = p
    BY <1>1, <1>3 DEF ModerateState
  <2>2. moderate' = [moderate EXCEPT ![m] = r] BY <1>2
  <2> HIDE DEF r
  <2> QED BY <1>3, <2>1, <2>2
<1>8. /\ enrol' \in [User -> EnrolState]
      /\ \A v \in User :
            /\ enrol'[v].pc = enrol[v].pc /\ enrol'[v].address = enrol[v].address
            /\ enrol'[v].found = enrol[v].found
            /\ enrol'[v].fit \in {enrol[v].fit, "written"}
            /\ enrol[v].pc = "attach" /\ enrol[v].found = u => enrol'[v].fit = "written"
  <2>1. enrol' = Written(u) BY <1>1 DEF ModerateSave
  <2> QED BY <2>1, WrittenIs
<1>9. \A q, v : SetFor(q, v) => SetFor(q, v)'
  <2>1. \A c \in Change : change'[c].pc = change[c].pc /\ change'[c].wrote = change[c].wrote
    BY <1>2, DisturbKeeps DEF AccountsInv
  <2> QED BY <1>2, <1>7, <2>1 DEF SetFor
<1>10. SetFor(m, u)' BY <1>7, PasswordAssumption DEF SetFor
<1>11. HasPassword' BY <1>2, <1>3, <1>5, <1>6 DEF AccountsInv, PasswordsPart, HasPassword
<1>12. Passwords'
  BY <1>2, <1>3, <1>6, <1>9, <1>10 DEF AccountsInv, PasswordsPart, Passwords
<1>13. Moderating' BY <1>3, <1>7 DEF AccountsInv, PasswordsPart, Moderating
<1>14. PasswordsPart' /\ change' \in [Change -> ChangeState]
  BY <1>2, <1>3, <1>4, <1>6, <1>9, <1>11, <1>12, <1>13, Disturbed
<1>15. Kinds' BY <1>2, <1>3, <1>4, <1>6, <1>7, <1>8, <1>14 DEF AccountsInv, Kinds
<1>16. AccountsPart'
  <2> USE DEF AccountsInv, AccountsPart
  <2>1. Unique'
    <3>1. e # Nothing => \A v \in rows : email[v] = e => v = u BY <1>2 DEF Free, Holders
    <3>2. ASSUME NEW v \in rows, NEW w \in rows, email'[v] = email'[w], email'[v] # Nothing
          PROVE  v = w
      BY <1>3, <1>4, <3>1, <3>2 DEF Unique
    <3> QED BY <1>2, <3>2 DEF Unique
  <2>2. Enrolled' BY <1>2, <1>3, <1>8 DEF Enrolled
  <2>3. Unmarked' BY <1>2, <1>8 DEF Unmarked
  <2>4. Marked' BY <1>2, <1>3, <1>4 DEF Marked
  <2>5. Normal' BY <1>2, <1>3, <1>4 DEF Normal
  <2>6. Registering' BY <1>2, <1>8 DEF Registering
  <2>7. Addressed' BY <1>8 DEF Addressed
  <2>8. Seeding'
    <3>1. ASSUME NEW v \in User, v # u, Fit(v) PROVE Fit(v)'
      BY <1>2, <3>1 DEF Fit
    <3>2. ASSUME NEW v \in User
          PROVE  /\ enrol'[v].fit # "no"
                 /\ enrol'[v].pc = "attach" =>
                      /\ enrol'[v].found \in User /\ enrol'[enrol'[v].found].pc = "done"
                      /\ enrol'[v].fit = "yes" => Fit(enrol[v].found)'
      <4>1. enrol'[v].fit # "no" BY <1>8 DEF Seeding
      <4>2. ASSUME enrol[v].pc = "attach"
            PROVE  /\ enrol[v].found \in User /\ enrol'[enrol[v].found].pc = "done"
                   /\ enrol'[v].fit = "yes" => enrol[v].found # u /\ Fit(enrol[v].found)
        BY <1>8, <4>2 DEF Seeding
      <4> QED BY <1>8, <3>1, <4>1, <4>2
    <3> QED BY <1>8, <3>2 DEF Seeding
  <2> QED BY <2>1, <2>2, <2>3, <2>4, <2>5, <2>6, <2>7, <2>8
<1>17. CodesPart' /\ ProfilesPart' BY <1>2, KeepCodes, KeepProfiles
<1> QED BY <1>14, <1>15, <1>16, <1>17 DEF AccountsInv

------------------------------------------------------------------------------
(* The codes *)

\* A request for a code goes on, and has its code written if at all before it is done.
LEMMA ResendMoves ==
    ASSUME AccountsInv, NEW k \in Resend, NEW r \in ResendState, NEW x \in CodeState,
           resend[k].pc # "done", x.to # Nothing => r.pc = "done",
           resend' = [resend EXCEPT ![k] = r], code' = [code EXCEPT ![k] = x],
           UNCHANGED <<rows, email, password, mark, enrol, profile, moderate, verify, change,
                       typed, doubted, phone, admins>>
    PROVE  AccountsInv'
<1>1. resend \in [Resend -> ResendState] /\ code \in [Resend -> CodeState]
  BY DEF AccountsInv, Kinds
<1>2. /\ resend' \in [Resend -> ResendState] /\ resend'[k] = r
      /\ code' \in [Resend -> CodeState] /\ code'[k] = x
      /\ \A j \in Resend : j # k => resend'[j] = resend[j] /\ code'[j] = code[j]
  BY <1>1
<1>3. code[k].to = Nothing BY DEF AccountsInv, CodesPart, Mailed
<1>4. CodesPart'
  <2>1. Mailed' BY <1>2 DEF AccountsInv, CodesPart, Mailed
  <2>2. Checked' BY <1>2, <1>3 DEF AccountsInv, CodesPart, Checked
  <2> QED BY <2>1, <2>2 DEF CodesPart
<1>5. AccountsPart' /\ ProfilesPart' /\ PasswordsPart'
  BY KeepAccounts, KeepProfiles, KeepPasswords
<1>6. Kinds' BY <1>2 DEF AccountsInv, Kinds
<1> QED BY <1>4, <1>5, <1>6 DEF AccountsInv

\* The same without a word on the code.
LEMMA ResendOnly ==
    ASSUME AccountsInv, NEW k \in Resend, NEW r \in ResendState,
           resend[k].pc # "done", resend' = [resend EXCEPT ![k] = r],
           UNCHANGED <<rows, email, password, mark, code, enrol, profile, moderate, verify,
                       change, typed, doubted, phone, admins>>
    PROVE  AccountsInv'
<1>1. code \in [Resend -> CodeState] BY DEF AccountsInv, Kinds
<1>2. PICK x \in CodeState : x = code[k] BY <1>1
<1>3. code' = [code EXCEPT ![k] = x] BY <1>1, <1>2
<1>4. x.to = Nothing BY <1>2 DEF AccountsInv, CodesPart, Mailed
<1> QED BY <1>3, <1>4, ResendMoves

LEMMA ResendReadStep ==
    ASSUME AccountsInv, NEW k \in Resend, NEW e \in Address, ResendRead(k, e) PROVE AccountsInv'
<1>1. PICK u \in Holders(e) :
          resend' = [resend EXCEPT ![k] =
              [pc |-> "details", user |-> u, to |-> e, address |-> Nothing]]
  BY DEF ResendRead
<1>2. u \in User BY DEF Holders, AccountsInv, Kinds
<1>3. [pc |-> "details", user |-> u, to |-> e, address |-> Nothing] \in ResendState
  BY <1>2 DEF ResendState
<1>4. /\ resend[k].pc # "done"
      /\ UNCHANGED <<rows, email, password, mark, code, enrol, profile, moderate, verify,
                     change, typed, doubted, phone, admins>>
  BY DEF ResendRead
<1> QED BY <1>1, <1>3, <1>4, ResendOnly

LEMMA ResendDetailsStep ==
    ASSUME AccountsInv, NEW k \in Resend, ResendDetails(k) PROVE AccountsInv'
<1>1. resend[k] \in ResendState /\ rows \subseteq User
      /\ email \in [User -> Address \cup {Nothing}]
  BY DEF AccountsInv, Kinds
<1>2. PICK r \in ResendState : resend' = [resend EXCEPT ![k] = r]
  <2>1. CASE resend[k].user \in rows
    <3>1. email[resend[k].user] \in Address \cup {Nothing} BY <1>1, <2>1
    <3>2. [resend[k] EXCEPT !.pc = "insert", !.address = email[resend[k].user]] \in ResendState
      BY <1>1, <3>1 DEF ResendState
    <3> QED BY <2>1, <3>2 DEF ResendDetails
  <2>2. CASE resend[k].user \notin rows
    <3>1. [resend[k] EXCEPT !.pc = "done"] \in ResendState BY <1>1 DEF ResendState
    <3> QED BY <2>2, <3>1 DEF ResendDetails
  <2> QED BY <2>1, <2>2
<1>3. /\ resend[k].pc # "done"
      /\ UNCHANGED <<rows, email, password, mark, code, enrol, profile, moderate, verify,
                     change, typed, doubted, phone, admins>>
  BY DEF ResendDetails
<1> QED BY <1>2, <1>3, ResendOnly

LEMMA ResendFailsStep ==
    ASSUME AccountsInv, NEW k \in Resend, ResendFails(k) PROVE AccountsInv'
<1>1. resend[k] \in ResendState BY DEF AccountsInv, Kinds
<1>2. [resend[k] EXCEPT !.pc = "failed"] \in ResendState BY <1>1 DEF ResendState
<1>3. /\ resend[k].pc # "done"
      /\ resend' = [resend EXCEPT ![k] = [resend[k] EXCEPT !.pc = "failed"]]
      /\ UNCHANGED <<rows, email, password, mark, code, enrol, profile, moderate, verify,
                     change, typed, doubted, phone, admins>>
  BY DEF ResendFails
<1> QED BY <1>2, <1>3, ResendOnly

LEMMA ResendInsertStep ==
    ASSUME AccountsInv, NEW k \in Resend, ResendInsert(k) PROVE AccountsInv'
<1> DEFINE r == [resend[k] EXCEPT !.pc = "mail"]
           x == [address |-> resend[k].address, to |-> Nothing, live |-> TRUE]
<1>1. resend[k] \in ResendState BY DEF AccountsInv, Kinds
<1>2. r \in ResendState BY <1>1 DEF ResendState
<1>3. x \in CodeState /\ x.to = Nothing BY <1>1 DEF ResendState, CodeState
<1>4. /\ resend[k].pc # "done" /\ resend' = [resend EXCEPT ![k] = r]
      /\ code' = [code EXCEPT ![k] = x]
      /\ UNCHANGED <<rows, email, password, mark, enrol, profile, moderate, verify, change,
                     typed, doubted, phone, admins>>
  BY DEF ResendInsert
<1> HIDE DEF r, x
<1> QED BY <1>2, <1>3, <1>4, ResendMoves

LEMMA ResendMailStep ==
    ASSUME AccountsInv, NEW k \in Resend, ResendMail(k) PROVE AccountsInv'
<1> DEFINE r == [resend[k] EXCEPT !.pc = "done"]
           x == [code[k] EXCEPT !.to = resend[k].to]
<1>1. resend[k] \in ResendState /\ code[k] \in CodeState BY DEF AccountsInv, Kinds
<1>2. r \in ResendState /\ r.pc = "done" BY <1>1 DEF ResendState
<1>3. x \in CodeState BY <1>1 DEF ResendState, CodeState
<1>4. /\ resend[k].pc # "done" /\ resend' = [resend EXCEPT ![k] = r]
      /\ code' = [code EXCEPT ![k] = x]
      /\ UNCHANGED <<rows, email, password, mark, enrol, profile, moderate, verify, change,
                     typed, doubted, phone, admins>>
  BY DEF ResendMail
<1> HIDE DEF r, x
<1> QED BY <1>2, <1>3, <1>4, ResendMoves

LEMMA CodeExpiresStep ==
    ASSUME AccountsInv, NEW k \in Resend, CodeExpires(k) PROVE AccountsInv'
<1> DEFINE x == [code[k] EXCEPT !.live = FALSE]
<1>1. code \in [Resend -> CodeState] BY DEF AccountsInv, Kinds
<1>2. x \in CodeState /\ x.to = code[k].to /\ x.address = code[k].address
  BY <1>1 DEF CodeState
<1>3. /\ code' = [code EXCEPT ![k] = x]
      /\ UNCHANGED <<rows, email, password, mark, enrol, profile, moderate, resend, verify,
                     change, typed, doubted, phone, admins>>
  BY DEF CodeExpires
<1> HIDE DEF x
<1>4. /\ code' \in [Resend -> CodeState]
      /\ \A j \in Resend : code'[j].to = code[j].to /\ code'[j].address = code[j].address
  BY <1>1, <1>2, <1>3
<1>5. CodesPart' BY <1>3, <1>4 DEF AccountsInv, CodesPart, Mailed, Checked
<1>6. AccountsPart' /\ ProfilesPart' /\ PasswordsPart'
  BY <1>3, KeepAccounts, KeepProfiles, KeepPasswords
<1>7. Kinds' BY <1>3, <1>4 DEF AccountsInv, Kinds
<1> QED BY <1>5, <1>6, <1>7 DEF AccountsInv

LEMMA VerifyMoves ==
    ASSUME AccountsInv, NEW v \in Verify, NEW r \in VerifyState,
           verify' = [verify EXCEPT ![v] = r],
           r.pc = "mark" => /\ r.code \in Resend /\ code[r.code].to # Nothing
                            /\ code[r.code].address = r.address,
           UNCHANGED <<code, resend>>
    PROVE  verify' \in [Verify -> VerifyState] /\ CodesPart'
<1>1. verify \in [Verify -> VerifyState] BY DEF AccountsInv, Kinds
<1>2. /\ verify' \in [Verify -> VerifyState] /\ verify'[v] = r
      /\ \A w \in Verify : w # v => verify'[w] = verify[w]
  BY <1>1
<1>3. CodesPart' BY <1>2 DEF AccountsInv, CodesPart, Mailed, Checked
<1> QED BY <1>2, <1>3

\* A verification that marks nothing.
LEMMA VerifyOnly ==
    ASSUME AccountsInv, NEW v \in Verify, NEW r \in VerifyState,
           verify' = [verify EXCEPT ![v] = r],
           r.pc = "mark" => /\ r.code \in Resend /\ code[r.code].to # Nothing
                            /\ code[r.code].address = r.address,
           UNCHANGED <<rows, email, password, mark, code, enrol, profile, moderate, resend,
                       change, typed, doubted, phone, admins>>
    PROVE  AccountsInv'
<1>1. verify' \in [Verify -> VerifyState] /\ CodesPart' BY VerifyMoves
<1>2. AccountsPart' /\ ProfilesPart' /\ PasswordsPart'
  BY KeepAccounts, KeepProfiles, KeepPasswords
<1>3. Kinds' BY <1>1 DEF AccountsInv, Kinds
<1> QED BY <1>1, <1>2, <1>3 DEF AccountsInv

LEMMA VerifyReadStep ==
    ASSUME AccountsInv, NEW v \in Verify, NEW e \in Address, VerifyRead(v, e) PROVE AccountsInv'
<1>1. PICK u \in Holders(e) :
          verify' = [verify EXCEPT ![v] =
              [pc |-> "token", user |-> u, address |-> e, code |-> Nothing]]
  BY DEF VerifyRead
<1>2. u \in User BY DEF Holders, AccountsInv, Kinds
<1> DEFINE r == [pc |-> "token", user |-> u, address |-> e, code |-> Nothing]
<1>3. r \in VerifyState /\ r.pc = "token" BY <1>2 DEF VerifyState
<1>4. /\ verify' = [verify EXCEPT ![v] = r]
      /\ UNCHANGED <<rows, email, password, mark, code, enrol, profile, moderate, resend,
                     change, typed, doubted, phone, admins>>
  BY <1>1 DEF VerifyRead
<1> HIDE DEF r
<1> QED BY <1>3, <1>4, VerifyOnly

LEMMA VerifyTokenStep ==
    ASSUME AccountsInv, NEW v \in Verify, NEW k \in Resend, VerifyToken(v, k) PROVE AccountsInv'
<1>1. verify[v] \in VerifyState BY DEF AccountsInv, Kinds
<1>2. /\ code[k].to # Nothing
      /\ UNCHANGED <<rows, email, password, mark, code, enrol, profile, moderate, resend,
                     change, typed, doubted, phone, admins>>
  BY DEF VerifyToken
<1>3. CASE /\ code[k].address = verify[v].address
           /\ verify' = [verify EXCEPT ![v] = [verify[v] EXCEPT !.pc = "mark", !.code = k]]
  <2> DEFINE r == [verify[v] EXCEPT !.pc = "mark", !.code = k]
  <2>1. r \in VerifyState /\ r.code = k /\ r.address = verify[v].address
    BY <1>1 DEF VerifyState
  <2>2. verify' = [verify EXCEPT ![v] = r] BY <1>3
  <2> HIDE DEF r
  <2> QED BY <1>2, <1>3, <2>1, <2>2, VerifyOnly
<1>4. CASE verify' = [verify EXCEPT ![v] = [verify[v] EXCEPT !.pc = "failed"]]
  <2> DEFINE r == [verify[v] EXCEPT !.pc = "failed"]
  <2>1. r \in VerifyState /\ r.pc = "failed" BY <1>1 DEF VerifyState
  <2>2. verify' = [verify EXCEPT ![v] = r] BY <1>4
  <2> HIDE DEF r
  <2> QED BY <1>2, <2>1, <2>2, VerifyOnly
<1> QED BY <1>3, <1>4 DEF VerifyToken

LEMMA VerifyMarkStep ==
    ASSUME AccountsInv, NEW v \in Verify, VerifyMark(v) PROVE AccountsInv'
<1>1. PICK u, k : u = verify[v].user /\ k = verify[v].code OBVIOUS
<1>2. /\ verify[v].pc = "mark"
      /\ UNCHANGED <<rows, email, password, code, enrol, profile, moderate, resend, change,
                     typed, phone, admins>>
  BY DEF VerifyMark
<1>3. /\ k \in Resend /\ code[k].to # Nothing /\ code[k].address = verify[v].address
  BY <1>1, <1>2 DEF AccountsInv, CodesPart, Checked
<1>4. PICK pc \in {"done", "failed"} : verify' = [verify EXCEPT ![v].pc = pc]
  BY DEF VerifyMark
<1>5. verify' \in [Verify -> VerifyState] /\ CodesPart'
  <2> DEFINE r == [verify[v] EXCEPT !.pc = pc]
  <2>1. verify[v] \in VerifyState BY DEF AccountsInv, Kinds
  <2>2. r \in VerifyState /\ r.pc = pc BY <2>1 DEF VerifyState
  <2>3. verify' = [verify EXCEPT ![v] = r] BY <1>4
  <2> HIDE DEF r
  <2> QED BY <1>2, <2>2, <2>3, VerifyMoves
<1>6. ProfilesPart' /\ PasswordsPart' BY <1>2, KeepProfiles, KeepPasswords
<1>7. CASE UNCHANGED <<mark, doubted>>
  <2>1. AccountsPart' BY <1>2, <1>7, KeepAccounts
  <2>2. Kinds' BY <1>2, <1>5, <1>7 DEF AccountsInv, Kinds
  <2> QED BY <1>5, <1>6, <2>1, <2>2 DEF AccountsInv
<1>8. CASE /\ u \in rows
           /\ mark' = [mark EXCEPT ![u] = code[k].to]
           /\ doubted' = IF email[u] # verify[v].address \/ code[k].to # code[k].address
                         THEN doubted \cup {u} ELSE doubted
  <2>1. /\ u \in User /\ rows \subseteq User /\ doubted \subseteq User
        /\ mark \in [User -> Address \cup {Nothing}]
        /\ code[k].to \in Address \cup {Nothing}
    BY <1>3, <1>8 DEF AccountsInv, Kinds, CodeState
  <2>2. /\ mark' \in [User -> Address \cup {Nothing}] /\ mark'[u] = code[k].to
        /\ \A w \in User : w # u => mark'[w] = mark[w]
    BY <1>8, <2>1
  <2>3. doubted \subseteq doubted' /\ doubted' \subseteq User BY <1>8, <2>1
  <2>4. AccountsPart'
    <3> USE DEF AccountsInv, AccountsPart
    <3>1. Unique' BY <1>2 DEF Unique
    <3>2. Enrolled' BY <1>2 DEF Enrolled
    <3>3. Unmarked' BY <1>2, <1>8, <2>2 DEF Unmarked, Enrolled
    <3>4. Marked' BY <1>2, <1>3, <1>8, <2>1, <2>2, <2>3 DEF Marked
    <3>5. Normal' BY <1>2 DEF Normal
    <3>6. Registering' BY <1>2 DEF Registering
    <3>7. Addressed' BY <1>2 DEF Addressed
    <3>8. Seeding' BY <1>2 DEF Seeding, Fit
    <3> QED BY <3>1, <3>2, <3>3, <3>4, <3>5, <3>6, <3>7, <3>8
  <2>5. Kinds' BY <1>2, <1>5, <2>2, <2>3 DEF AccountsInv, Kinds
  <2> QED BY <1>5, <1>6, <2>4, <2>5 DEF AccountsInv
<1> QED BY <1>1, <1>7, <1>8 DEF VerifyMark

------------------------------------------------------------------------------
(* The change of a password *)

\* A change goes on, and writes no password.
LEMMA ChangeMoves ==
    ASSUME AccountsInv, NEW c \in Change, NEW r \in ChangeState,
           change' = [change EXCEPT ![c] = r],
           change[c].pc # "done", r.pc # "done",
           r.pc \in {"validate", "save"} =>
               r.user \in User /\ r.old \in Password /\ SetFor(r.old, r.user),
           r.pc = "save" /\ ~r.disturbed =>
               /\ r.user \in rows /\ email[r.user] = r.address
               /\ password[r.user] = r.old,
           UNCHANGED <<rows, email, password, mark, code, enrol, profile, moderate, resend,
                       verify, typed, doubted, phone, admins>>
    PROVE  AccountsInv'
<1>1. change \in [Change -> ChangeState] BY DEF AccountsInv, Kinds
<1>2. /\ change' \in [Change -> ChangeState] /\ change'[c] = r
      /\ \A d \in Change : d # c => change'[d] = change[d]
  BY <1>1
<1>3. \A p, v : SetFor(p, v) => SetFor(p, v)' BY <1>2 DEF SetFor
<1>4. PasswordsPart'
  <2> USE DEF AccountsInv, PasswordsPart
  <2>1. HasPassword' BY DEF HasPassword
  <2>2. Passwords' BY <1>3 DEF Passwords
  <2>3. Moderating' BY DEF Moderating
  <2>4. Asked' BY <1>2, <1>3 DEF Asked
  <2>5. Compared' BY <1>2 DEF Compared
  <2>6. PasswordChangesAreOwn' BY <1>2 DEF PasswordChangesAreOwn
  <2> QED BY <2>1, <2>2, <2>3, <2>4, <2>5, <2>6
<1>5. AccountsPart' /\ CodesPart' /\ ProfilesPart'
  BY KeepAccounts, KeepCodes, KeepProfiles
<1>6. Kinds' BY <1>2 DEF AccountsInv, Kinds
<1> QED BY <1>4, <1>5, <1>6 DEF AccountsInv

LEMMA ChangeReadStep ==
    ASSUME AccountsInv, NEW c \in Change, NEW u \in User, ChangeRead(c, u) PROVE AccountsInv'
<1>1. /\ change[c].pc = "idle" /\ u \in rows
      /\ UNCHANGED <<rows, email, password, mark, code, enrol, profile, moderate, resend,
                     verify, typed, doubted, phone, admins>>
  BY DEF ChangeRead
<1>2. /\ change[c] \in ChangeState
      /\ email[u] \in Address \cup {Nothing}
      /\ password[u] \in Password
      /\ SetFor(password[u], u)
  BY <1>1 DEF AccountsInv, Kinds, PasswordsPart, HasPassword, Passwords
<1> DEFINE r == [change[c] EXCEPT !.pc = "validate", !.user = u, !.address = email[u],
                                  !.old = password[u]]
<1>3. r \in ChangeState /\ r.pc = "validate" /\ r.user = u /\ r.old = password[u]
  BY <1>2 DEF ChangeState
<1>4. change' = [change EXCEPT ![c] = r] BY DEF ChangeRead
<1> HIDE DEF r
<1> QED BY <1>1, <1>2, <1>3, <1>4, ChangeMoves

LEMMA ChangeFailsStep ==
    ASSUME AccountsInv, NEW c \in Change, ChangeFails(c) PROVE AccountsInv'
<1> DEFINE r == [change[c] EXCEPT !.pc = "failed"]
<1>1. change[c] \in ChangeState BY DEF AccountsInv, Kinds
<1>2. r \in ChangeState /\ r.pc = "failed" BY <1>1 DEF ChangeState
<1>3. /\ change[c].pc # "done" /\ change' = [change EXCEPT ![c] = r]
      /\ UNCHANGED <<rows, email, password, mark, code, enrol, profile, moderate, resend,
                     verify, typed, doubted, phone, admins>>
  BY DEF ChangeFails
<1> HIDE DEF r
<1> QED BY <1>2, <1>3, ChangeMoves

LEMMA ChangeValidateStep ==
    ASSUME AccountsInv, NEW c \in Change, ChangeValidate(c) PROVE AccountsInv'
<1>1. /\ change[c].pc = "validate"
      /\ UNCHANGED <<rows, email, password, mark, code, enrol, profile, moderate, resend,
                     verify, typed, doubted, phone, admins>>
  BY DEF ChangeValidate
<1>2. /\ change[c] \in ChangeState
      /\ change[c].user \in User /\ change[c].old \in Password
      /\ SetFor(change[c].old, change[c].user)
  BY <1>1 DEF AccountsInv, Kinds, PasswordsPart, Asked
<1>3. CASE /\ \E u \in Holders(change[c].address) : password[u] = change[c].old
           /\ change' = [change EXCEPT ![c].pc = "save"]
  <2>1. PICK u \in rows : email[u] = change[c].address /\ password[u] = change[c].old
    BY <1>3 DEF Holders
  <2>2. SetFor(change[c].old, u) BY <2>1 DEF AccountsInv, PasswordsPart, Passwords
  <2>3. u = change[c].user BY <1>2, <2>2, SetForOne
  <2> DEFINE r == [change[c] EXCEPT !.pc = "save"]
  <2>4. /\ r \in ChangeState /\ r.pc = "save" /\ r.user = change[c].user
        /\ r.old = change[c].old /\ r.address = change[c].address
    BY <1>2 DEF ChangeState
  <2>5. change' = [change EXCEPT ![c] = r] BY <1>3
  <2> HIDE DEF r
  <2> QED BY <1>1, <1>2, <2>1, <2>3, <2>4, <2>5, ChangeMoves
<1>4. CASE change' = [change EXCEPT ![c].pc = "failed"]
  <2> DEFINE r == [change[c] EXCEPT !.pc = "failed"]
  <2>1. r \in ChangeState /\ r.pc = "failed" BY <1>2 DEF ChangeState
  <2>2. change' = [change EXCEPT ![c] = r] BY <1>4
  <2> HIDE DEF r
  <2> QED BY <1>1, <2>1, <2>2, ChangeMoves
<1> QED BY <1>3, <1>4 DEF ChangeValidate

LEMMA ChangeSaveStep ==
    ASSUME AccountsInv, NEW c \in Change, ChangeSave(c) PROVE AccountsInv'
<1>1. PICK u \in Holders(change[c].address) :
          /\ password' = [password EXCEPT ![u] = c]
          /\ change' = [Disturb(u) EXCEPT ![c] =
                 [change[c] EXCEPT !.pc = "done", !.wrote = u, !.replaced = password[u]]]
  BY DEF ChangeSave
<1>2. /\ change[c].pc = "save" /\ change[c].address # Nothing
      /\ UNCHANGED <<rows, email, mark, code, enrol, profile, moderate, resend, verify, typed,
                     doubted, phone, admins>>
  BY DEF ChangeSave
<1>3. /\ u \in rows /\ email[u] = change[c].address /\ u \in User /\ rows \subseteq User
      /\ password \in [User -> Password \cup {Nothing}]
      /\ change[c] \in ChangeState
  BY DEF Holders, AccountsInv, Kinds
<1>4. c \in Password BY DEF Password
<1>5. /\ password' \in [User -> Password \cup {Nothing}] /\ password'[u] = c
      /\ \A v \in User : v # u => password'[v] = password[v]
  BY <1>1, <1>3, <1>4
<1> DEFINE r == [change[c] EXCEPT !.pc = "done", !.wrote = u, !.replaced = password[u]]
<1>6. password[u] \in Password \cup {Nothing} BY <1>3
<1>7. /\ r \in ChangeState /\ r.pc = "done" /\ r.wrote = u /\ r.replaced = password[u]
      /\ r.user = change[c].user /\ r.old = change[c].old
      /\ r.disturbed = change[c].disturbed
  BY <1>3, <1>6 DEF ChangeState
<1>8. PICK D : D = Disturb(u) OBVIOUS
<1>9. /\ D \in [Change -> ChangeState]
      /\ \A d \in Change :
           /\ D[d].pc = change[d].pc /\ D[d].user = change[d].user
           /\ D[d].address = change[d].address /\ D[d].old = change[d].old
           /\ D[d].wrote = change[d].wrote
           /\ D[d].replaced = change[d].replaced
           /\ change[d].pc = "save" /\ change[d].user = u => D[d].disturbed
           /\ ~D[d].disturbed => ~change[d].disturbed
  BY <1>8, DisturbIs DEF AccountsInv
<1>10. change' = [D EXCEPT ![c] = r] BY <1>1, <1>8
<1> HIDE DEF r
<1>11. /\ change' \in [Change -> ChangeState] /\ change'[c] = r
       /\ \A d \in Change : d # c => change'[d] = D[d]
  BY <1>7, <1>9, <1>10
<1>12. \A p, v : SetFor(p, v) => SetFor(p, v)' BY <1>2, <1>9, <1>11 DEF SetFor
<1>13. SetFor(c, u)' BY <1>7, <1>11, PasswordAssumption DEF SetFor
<1>14. ~change[c].disturbed => u = change[c].user /\ password[u] = change[c].old
  BY <1>2, <1>3 DEF AccountsInv, AccountsPart, Unique, PasswordsPart, Compared
<1>15. PasswordsPart'
  <2> USE DEF AccountsInv, PasswordsPart
  <2>1. HasPassword' BY <1>2, <1>3, <1>4, <1>5 DEF HasPassword
  <2>2. Passwords' BY <1>2, <1>3, <1>5, <1>12, <1>13 DEF Passwords
  <2>3. Moderating' BY <1>2 DEF Moderating
  <2>4. Asked'
    <3> SUFFICES ASSUME NEW d \in Change, change'[d].pc \in {"validate", "save"}
                 PROVE  /\ change'[d].user \in User /\ change'[d].old \in Password
                        /\ SetFor(change[d].old, change[d].user)'
      BY DEF Asked
    <3>1. d # c BY <1>7, <1>11
    <3>2. /\ change[d].pc \in {"validate", "save"}
          /\ change'[d].user = change[d].user /\ change'[d].old = change[d].old
      BY <1>9, <1>11, <3>1
    <3> QED BY <1>12, <3>2 DEF Asked
  <2>5. Compared'
    <3> SUFFICES ASSUME NEW d \in Change, change'[d].pc = "save", ~change'[d].disturbed
                 PROVE  /\ change'[d].user \in rows'
                        /\ email'[change'[d].user] = change'[d].address
                        /\ password'[change'[d].user] = change'[d].old
      BY DEF Compared
    <3>1. d # c BY <1>7, <1>11
    <3>2. /\ change[d].pc = "save" /\ ~change[d].disturbed /\ change[d].user # u
          /\ change'[d].user = change[d].user /\ change'[d].old = change[d].old
          /\ change'[d].address = change[d].address
      BY <1>9, <1>11, <3>1
    <3> QED BY <1>2, <1>3, <1>5, <3>2 DEF Compared
  <2>6. PasswordChangesAreOwn'
    BY <1>7, <1>9, <1>11, <1>14 DEF PasswordChangesAreOwn
  <2> QED BY <2>1, <2>2, <2>3, <2>4, <2>5, <2>6
<1>16. AccountsPart' /\ CodesPart' /\ ProfilesPart'
  BY <1>2, KeepAccounts, KeepCodes, KeepProfiles
<1>17. Kinds' BY <1>2, <1>5, <1>11 DEF AccountsInv, Kinds
<1> QED BY <1>15, <1>16, <1>17 DEF AccountsInv

------------------------------------------------------------------------------
(* Theorems *)

LEMMA AccountsInductive == ASSUME AccountsInv, [AccountsNext]_accountsVars PROVE AccountsInv'
<1>1. CASE UNCHANGED accountsVars
  <2>1. UNCHANGED <<rows, email, password, phone, admins, mark, code, enrol, profile, moderate,
                    resend, verify, change, typed, doubted>>
    BY <1>1 DEF accountsVars
  <2>2. AccountsPart' /\ CodesPart' /\ ProfilesPart' /\ PasswordsPart'
    BY <2>1, KeepAccounts, KeepCodes, KeepProfiles, KeepPasswords
  <2>3. Kinds' BY <2>1 DEF AccountsInv, Kinds
  <2> QED BY <2>2, <2>3 DEF AccountsInv
<1>2. ASSUME NEW u \in User, EnrolNext(u) \/ SeedNext(u) \/ DeleteUser(u) PROVE AccountsInv'
  BY <1>2, RegisterCheckStep, AdminCreateStep, CreateUserCheckStep, CreateUserInsertStep,
     SeedReadStep, SeedMakeStep, SeedAttachStep, SeedFailsStep, DeleteUserStep
     DEF EnrolNext, SeedNext
<1>3. ASSUME NEW w \in Profile, ProfileNext(w) PROVE AccountsInv'
  BY <1>3, ProfileReadStep, ProfileSaveStep, ProfileFailsStep DEF ProfileNext
<1>4. ASSUME NEW m \in Moderate, ModerateNext(m) PROVE AccountsInv'
  BY <1>4, ModerateCheckStep, ModerateSaveStep, ModerateFailsStep DEF ModerateNext
<1>5. ASSUME NEW k \in Resend, ResendNext(k) \/ CodeExpires(k) PROVE AccountsInv'
  BY <1>5, ResendReadStep, ResendDetailsStep, ResendInsertStep, ResendMailStep,
     ResendFailsStep, CodeExpiresStep DEF ResendNext
<1>6. ASSUME NEW v \in Verify, VerifyNext(v) PROVE AccountsInv'
  BY <1>6, VerifyReadStep, VerifyTokenStep, VerifyMarkStep DEF VerifyNext
<1>7. ASSUME NEW c \in Change, ChangeNext(c) PROVE AccountsInv'
  BY <1>7, ChangeReadStep, ChangeValidateStep, ChangeSaveStep, ChangeFailsStep DEF ChangeNext
<1> QED BY <1>1, <1>2, <1>3, <1>4, <1>5, <1>6, <1>7 DEF AccountsNext

LEMMA InvHolds == AccountsSpec => []AccountsInv
<1>1. AccountsInit => AccountsInv BY InitHolds
<1>2. AccountsInv /\ [AccountsNext]_accountsVars => AccountsInv' BY AccountsInductive
<1> QED BY <1>1, <1>2, PTL DEF AccountsSpec

\* Every handler of an account keeps the columns and the requests of their kinds,
\* and no two rows get the same address or ADMIN_PHONE: each looks for a holder
\* before it writes, and the unique columns decide when two wrote at once.
THEOREM AccountsTypes == AccountsSpec => []AccountsTypeOK
<1>1. AccountsInv => AccountsTypeOK BY DEF AccountsInv, Kinds, AccountsPart, Unique, AccountsTypeOK
<1> QED BY <1>1, InvHolds, PTL

\* verifyEmail marks, by a row looked up and a code checked earlier, an address that
\* received the code, or the account is one of those the code base lets part from it.
THEOREM VerifiedWasProved == AccountsSpec => []VerifiedAddressWasProved
<1>1. AccountsInv => VerifiedAddressWasProved
  BY DEF AccountsInv, AccountsPart, Marked, VerifiedAddressWasProved
<1> QED BY <1>1, InvHolds, PTL

\* changePassword writes its asker's row and the password it compared, and a seed gives
\* its number to an admin who has no other, unless the row was written in the window
\* between: the row by anyone, the type by an administrator or the number by a profile
\* update.
THEOREM WritesOwn == AccountsSpec => []WritesAreOwn
<1>1. AccountsInv => WritesAreOwn
  BY DEF AccountsInv, PasswordsPart, AccountsPart, Seeding, SeedsSpareOthers, WritesAreOwn
<1> QED BY <1>1, InvHolds, PTL

\* Two accounts whose addresses differ in case only exist because an administrator
\* typed one: register and the profile update normalise before they look and write.
THEOREM MailboxesSingle == AccountsSpec => []MailboxesAreSingle
<1>1. AccountsInv => MailboxesAreSingle
  BY DEF AccountsInv, AccountsPart, Normal, Unique, MailboxesAreSingle
<1> QED BY <1>1, InvHolds, PTL

------------------------------------------------------------------------------
(* Sessions *)

\* What a request has read by the time it waits at a step, and when a token it
\* presents was made.
RequestsOK ==
    /\ \A a \in Ask : ask[a].pc = "send" => ask[a].line \in Line
    /\ \A c \in Check : check[c].pc \in {"twilio", "issued"} =>
           check[c].holder \in Holder /\ check[c].line \in Line
    /\ \A c \in Check : check[c].pc = "issued" =>
           check[c].exp \in Nat /\ check[c].exp <= clock + TokenLife
    /\ \A x \in Use : use[x].pc \in {"write", "revoke", "done", "failed"} =>
           /\ use[x].token \in Check
           /\ check[use[x].token].pc = "issued"
           /\ use[x].at \in Nat
           /\ use[x].at < check[use[x].token].exp
           /\ check[use[x].token].exp <= use[x].at + TokenLife
    /\ \A k \in Login : login[k].pc # "idle" => login[k].holder \in Holder
    /\ \A k \in Login : login[k].pc = "store" => login[k].second \in Second
    /\ \A o \in Logout : logout[o].pc = "del" => logout[o].holder \in Holder

\* A verification is open for one number at a time, and its code is approved once.
TextsOnce ==
    /\ \A p \in Line : open[p] # Absent => open[p] \in sent
    /\ \A p, q \in Line : open[p] # Absent /\ open[p] = open[q] => p = q
    /\ \A c \in Check : check[c].pc = "issued" =>
           check[c].text \in sent /\ \A p \in Line : open[p] # check[c].text
    /\ \A c, d \in Check : /\ check[c].pc = "issued" /\ check[d].pc = "issued"
                           /\ check[c].text = check[d].text
                           => c = d

\* A stored token is of a login of the account that followed its resets.
Follows(u, k) ==
    /\ login[k].pc \in {"touch", "done", "failed"}
    /\ login[k].holder = u
    /\ login[k].second = session[u].second
    /\ Answered(u) \subseteq login[k].after
Linked == \A u \in Holder : session[u] # Absent => Follows(u, session[u].by)

\* A refresh that is going to be granted had such a token.
RefreshesOK == \A f \in Refresh : refresh[f].pc \in {"details", "granted"} => ~refresh[f].lapsed

------------------------------------------------------------------------------
(* Types *)

\* Opening a verification keeps the types of both variables.
LEMMA OpensTypes ==
    ASSUME SessionsTypeOK, NEW p \in Line, Opens(p)
    PROVE  open' \in [Line -> Text \cup {Absent}] /\ sent' \subseteq Text
  BY DEF SessionsTypeOK, Opens

LEMMA InitTypes == ASSUME SessionsInit PROVE SessionsTypeOK /\ RequestsOK /\ TextsOnce
                                              /\ Linked /\ RefreshesOK
<1> USE SessionsAssumption DEF SessionsInit
<1>1. SessionsTypeOK
  <2>1. ask \in [Ask -> AskState] BY DEF AskState
  <2>2. check \in [Check -> CheckState] BY DEF CheckState, Never
  <2>3. use \in [Use -> UseState] BY DEF UseState, Never
  <2>4. login \in [Login -> LoginState] BY DEF LoginState, Never
  <2>5. refresh \in [Refresh -> RefreshState] BY DEF RefreshState
  <2>6. logout \in [Logout -> LogoutState] BY DEF LogoutState
  <2>7. held \in [Holder -> Row \cup {Absent}] OBVIOUS
  <2>8. clock \in Second /\ sent \subseteq Text BY DEF Second
  <2>9. open \in [Line -> Text \cup {Absent}] OBVIOUS
  <2>10. session \in [Holder -> Stored \cup {Absent}] OBVIOUS
  <2> QED
    BY <2>1, <2>2, <2>3, <2>4, <2>5, <2>6, <2>7, <2>8, <2>9, <2>10 DEF SessionsTypeOK
<1>2. RequestsOK BY DEF RequestsOK
<1>3. TextsOnce BY DEF TextsOnce
<1>4. Linked BY DEF Linked
<1>5. RefreshesOK BY DEF RefreshesOK
<1> QED BY <1>1, <1>2, <1>3, <1>4, <1>5

\* The requests of a reset by SMS keep the types.
LEMMA ResetTypes ==
    ASSUME SessionsTypeOK, RequestsOK,
           \/ \E a \in Ask : AskNext(a)
           \/ \E c \in Check : CheckNext(c)
           \/ \E x \in Use : UseNext(x)
    PROVE  SessionsTypeOK'
<1> USE SessionsAssumption
<1>1. ASSUME NEW a \in Ask, NEW t \in Typed, AskRead(a, t) PROVE SessionsTypeOK'
  <2>1. ask'[a] \in AskState
    <3>1. E164[t] \in Line \cup {Absent} OBVIOUS
    <3> QED BY <1>1, <3>1 DEF AskRead, AskState, SessionsTypeOK
  <2>2. ask' \in [Ask -> AskState] BY <1>1, <2>1 DEF AskRead, SessionsTypeOK
  <2> QED BY <1>1, <2>2 DEF AskRead, SessionsTypeOK
<1>2. ASSUME NEW a \in Ask, AskSend(a) PROVE SessionsTypeOK'
  <2>1. ask[a].line \in Line BY <1>2 DEF AskSend, RequestsOK
  <2>2. open' \in [Line -> Text \cup {Absent}] /\ sent' \subseteq Text
    BY <1>2, <2>1, OpensTypes DEF AskSend
  <2>3. ask' \in [Ask -> AskState] BY <1>2 DEF AskSend, SessionsTypeOK, AskState
  <2> QED BY <1>2, <2>2, <2>3 DEF AskSend, SessionsTypeOK
<1>3. ASSUME NEW a \in Ask, AskFails(a) PROVE SessionsTypeOK'
  BY <1>3 DEF AskFails, SessionsTypeOK, AskState
<1>4. ASSUME NEW c \in Check, NEW u \in Holder, CheckRead(c, u) PROVE SessionsTypeOK'
  <2>1. check'[c] \in CheckState
    <3>1. held[u] \in Row \cup {Absent} BY DEF SessionsTypeOK
    <3>2. check[c] \in CheckState BY DEF SessionsTypeOK
    <3>3. CASE held[u] = Absent
      BY <1>4, <3>2, <3>3 DEF CheckRead, CheckState, SessionsTypeOK
    <3>4. CASE held[u] # Absent /\ held[u].line = Absent
      BY <1>4, <3>2, <3>4 DEF CheckRead, CheckState, SessionsTypeOK
    <3>5. CASE held[u] # Absent /\ held[u].line # Absent
      <4>1. held[u].line \in Line BY <3>1, <3>5 DEF Row
      <4> QED BY <1>4, <3>2, <3>5, <4>1 DEF CheckRead, CheckState, SessionsTypeOK
    <3> QED BY <3>3, <3>4, <3>5
  <2>2. check' \in [Check -> CheckState] BY <1>4, <2>1 DEF CheckRead, SessionsTypeOK
  <2> QED BY <1>4, <2>2 DEF CheckRead, SessionsTypeOK
<1>5. ASSUME NEW c \in Check, CheckApproved(c) PROVE SessionsTypeOK'
  <2>1. check[c].line \in Line /\ check[c] \in CheckState
    BY <1>5 DEF CheckApproved, RequestsOK, SessionsTypeOK
  <2>2. open[check[c].line] \in Text BY <1>5, <2>1 DEF CheckApproved, SessionsTypeOK
  <2>3. clock + TokenLife \in Nat BY DEF SessionsTypeOK, Second
  <2>4. check' \in [Check -> CheckState]
    BY <1>5, <2>1, <2>2, <2>3 DEF CheckApproved, CheckState, SessionsTypeOK
  <2>5. open' \in [Line -> Text \cup {Absent}] BY <1>5 DEF CheckApproved, SessionsTypeOK
  <2> QED BY <1>5, <2>4, <2>5 DEF CheckApproved, SessionsTypeOK
<1>6. ASSUME NEW c \in Check, CheckRejected(c) PROVE SessionsTypeOK'
  <2>1. open' \in [Line -> Text \cup {Absent}] BY <1>6 DEF CheckRejected, SessionsTypeOK
  <2>2. check' \in [Check -> CheckState]
    BY <1>6 DEF CheckRejected, CheckState, SessionsTypeOK
  <2> QED BY <1>6, <2>1, <2>2 DEF CheckRejected, SessionsTypeOK
<1>7. ASSUME NEW x \in Use, NEW c \in Check, UseRead(x, c) PROVE SessionsTypeOK'
  BY <1>7 DEF UseRead, UseState, SessionsTypeOK
<1>8. ASSUME NEW x \in Use, UseWrite(x) PROVE SessionsTypeOK'
  BY <1>8 DEF UseWrite, UseState, SessionsTypeOK
<1>9. ASSUME NEW x \in Use, UseRevoke(x) PROVE SessionsTypeOK'
  BY <1>9 DEF UseRevoke, UseState, SessionsTypeOK
<1>10. ASSUME NEW x \in Use, UseFails(x) PROVE SessionsTypeOK'
  BY <1>10 DEF UseFails, UseState, SessionsTypeOK
<1> QED
  BY <1>1, <1>2, <1>3, <1>4, <1>5, <1>6, <1>7, <1>8, <1>9, <1>10 DEF AskNext, CheckNext, UseNext

\* So do the requests about refresh tokens.
LEMMA TokenTypes ==
    ASSUME SessionsTypeOK, RequestsOK,
           \/ \E k \in Login : LoginNext(k)
           \/ \E f \in Refresh : RefreshNext(f)
           \/ \E o \in Logout : LogoutNext(o)
    PROVE  SessionsTypeOK'
<1> USE SessionsAssumption
<1>1. ASSUME NEW k \in Login, NEW u \in Holder, LoginValidate(k, u) PROVE SessionsTypeOK'
  BY <1>1 DEF LoginValidate, LoginState, SessionsTypeOK
<1>2. ASSUME NEW k \in Login, LoginSign(k) PROVE SessionsTypeOK'
  <2>1. login[k] \in LoginState /\ clock \in Second BY DEF SessionsTypeOK
  <2>2. login'[k] \in LoginState
    BY <1>2, <2>1 DEF LoginSign, LoginState, SessionsTypeOK
  <2>3. login' \in [Login -> LoginState] BY <1>2, <2>2 DEF LoginSign, SessionsTypeOK
  <2> QED BY <1>2, <2>3 DEF LoginSign, SessionsTypeOK
<1>3. ASSUME NEW k \in Login, LoginStore(k) PROVE SessionsTypeOK'
  <2>1. Answered(login[k].holder) \subseteq Use BY DEF Answered
  <2>2. login' \in [Login -> LoginState]
    BY <1>3, <2>1 DEF LoginStore, LoginState, SessionsTypeOK
  <2>3. login[k].second \in Second BY <1>3 DEF LoginStore, RequestsOK
  <2>4. clock + SessionLife \in Nat BY DEF SessionsTypeOK, Second
  <2>5. [second |-> login[k].second, exp |-> clock + SessionLife, by |-> k] \in Stored
    BY <2>3, <2>4 DEF Stored
  <2>6. session' \in [Holder -> Stored \cup {Absent}]
    BY <1>3, <2>5 DEF LoginStore, SessionsTypeOK
  <2> QED BY <1>3, <2>2, <2>6 DEF LoginStore, SessionsTypeOK
<1>4. ASSUME NEW k \in Login, LoginTouch(k) PROVE SessionsTypeOK'
  BY <1>4 DEF LoginTouch, LoginState, SessionsTypeOK
<1>5. ASSUME NEW k \in Login, LoginFails(k) PROVE SessionsTypeOK'
  BY <1>5 DEF LoginFails, LoginState, SessionsTypeOK
<1>6. ASSUME NEW f \in Refresh, NEW k \in Login, RefreshRead(f, k) PROVE SessionsTypeOK'
  <2>1. Current(k) \in BOOLEAN BY DEF Current
  <2>2. refresh' \in [Refresh -> RefreshState]
    BY <1>6, <2>1 DEF RefreshRead, RefreshState, SessionsTypeOK
  <2> QED BY <1>6, <2>2 DEF RefreshRead, SessionsTypeOK
<1>7. ASSUME NEW f \in Refresh, RefreshDetails(f) PROVE SessionsTypeOK'
  BY <1>7 DEF RefreshDetails, RefreshState, SessionsTypeOK
<1>8. ASSUME NEW o \in Logout, NEW k \in Login, LogoutRead(o, k) PROVE SessionsTypeOK'
  <2>1. login[k].holder \in Holder \cup {Absent} BY DEF SessionsTypeOK, LoginState
  <2> QED BY <1>8, <2>1 DEF LogoutRead, LogoutState, SessionsTypeOK
<1>9. ASSUME NEW o \in Logout, LogoutDel(o) PROVE SessionsTypeOK'
  BY <1>9 DEF LogoutDel, LogoutState, SessionsTypeOK
<1> QED
  BY <1>1, <1>2, <1>3, <1>4, <1>5, <1>6, <1>7, <1>8, <1>9 DEF LoginNext, RefreshNext, LogoutNext

\* And so do the rest of the application, Twilio and the clock.
LEMMA OtherTypes ==
    ASSUME SessionsTypeOK,
           \/ \E u \in Holder : HolderNext(u)
           \/ \E p \in Line : Closes(p)
           \/ Passes
    PROVE  SessionsTypeOK'
<1> USE SessionsAssumption
<1>1. ASSUME NEW u \in Holder, OtherText(u) PROVE SessionsTypeOK'
  <2>1. held[u].line \in Line BY <1>1 DEF OtherText, SessionsTypeOK, Row
  <2>2. open' \in [Line -> Text \cup {Absent}] /\ sent' \subseteq Text
    BY <1>1, <2>1, OpensTypes DEF OtherText
  <2> QED BY <1>1, <2>2 DEF OtherText, SessionsTypeOK
<1>2. ASSUME NEW u \in Holder, MarkLine(u) PROVE SessionsTypeOK'
  BY <1>2 DEF MarkLine, SessionsTypeOK, Row
<1>3. ASSUME NEW u \in Holder, RemoveHolder(u) PROVE SessionsTypeOK'
  BY <1>3 DEF RemoveHolder, SessionsTypeOK
<1>4. ASSUME NEW u \in Holder, NEW p \in Line, MoveLine(u, p) PROVE SessionsTypeOK'
  BY <1>4 DEF MoveLine, SessionsTypeOK, Row
<1>5. ASSUME NEW p \in Line, Closes(p) PROVE SessionsTypeOK'
  BY <1>5 DEF Closes, SessionsTypeOK
<1>6. ASSUME Passes PROVE SessionsTypeOK'
  BY <1>6 DEF Passes, SessionsTypeOK, Second
<1> QED BY <1>1, <1>2, <1>3, <1>4, <1>5, <1>6 DEF HolderNext

------------------------------------------------------------------------------
(* What requests hold *)

\* A step of one login leaves the other logins alone.
LEMMA OthersWait ==
    ASSUME SessionsTypeOK, NEW k \in Login, LoginNext(k)
    PROVE  \A j \in Login : j # k => login'[j] = login[j]
<1>1. CASE \E u \in Holder : LoginValidate(k, u) BY <1>1 DEF LoginValidate, SessionsTypeOK
<1>2. CASE LoginSign(k) BY <1>2 DEF LoginSign, SessionsTypeOK
<1>3. CASE LoginStore(k) BY <1>3 DEF LoginStore, SessionsTypeOK
<1>4. CASE LoginTouch(k) BY <1>4 DEF LoginTouch, SessionsTypeOK
<1>5. CASE LoginFails(k) BY <1>5 DEF LoginFails, SessionsTypeOK
<1> QED BY <1>1, <1>2, <1>3, <1>4, <1>5 DEF LoginNext

\* No step makes a request forget what it has read, or a token longer-lived.
LEMMA RequestsStep ==
    ASSUME SessionsTypeOK, RequestsOK, SessionsNext
    PROVE  RequestsOK'
<1> USE SessionsAssumption
<1>1. ASSUME NEW a \in Ask, NEW t \in Typed, AskRead(a, t) PROVE RequestsOK'
  <2>1. ask'[a].pc = "send" => ask'[a].line \in Line
    <3>1. E164[t] \in Line \cup {Absent} OBVIOUS
    <3>2. ask'[a].pc = "send" => E164[t] # Absent
      BY <1>1 DEF AskRead, SessionsTypeOK
    <3> QED BY <1>1, <3>1, <3>2 DEF AskRead, SessionsTypeOK
  <2>2. \A b \in Ask : b # a => ask'[b] = ask[b] BY <1>1 DEF AskRead, SessionsTypeOK
  <2> QED BY <1>1, <2>1, <2>2 DEF AskRead, RequestsOK
<1>2. ASSUME NEW a \in Ask, AskSend(a) PROVE RequestsOK'
  BY <1>2 DEF AskSend, RequestsOK, SessionsTypeOK
<1>3. ASSUME NEW a \in Ask, AskFails(a) PROVE RequestsOK'
  BY <1>3 DEF AskFails, RequestsOK, SessionsTypeOK
<1>4. ASSUME NEW c \in Check, NEW u \in Holder, CheckRead(c, u) PROVE RequestsOK'
  <2>1. check'[c].pc # "issued"
    BY <1>4 DEF CheckRead, SessionsTypeOK, CheckState
  <2>2. check'[c].pc = "twilio" => check'[c].holder \in Holder /\ check'[c].line \in Line
    <3>1. CASE held[u] = Absent BY <1>4, <3>1 DEF CheckRead, SessionsTypeOK, CheckState
    <3>2. CASE held[u] # Absent
      <4>1. held[u].line \in Line \cup {Absent} BY <3>2 DEF SessionsTypeOK, Row
      <4> QED BY <1>4, <3>2, <4>1 DEF CheckRead, SessionsTypeOK, CheckState
    <3> QED BY <3>1, <3>2
  <2>3. \A d \in Check : d # c => check'[d] = check[d] BY <1>4 DEF CheckRead, SessionsTypeOK
  <2>4. \A x \in Use : use[x].token = c => use[x].pc \notin {"write", "revoke", "done", "failed"}
    BY <1>4 DEF CheckRead, RequestsOK
  <2>5. UNCHANGED <<clock, ask, use, login, logout>> BY <1>4 DEF CheckRead
  <2> QED BY <2>1, <2>2, <2>3, <2>4, <2>5 DEF RequestsOK
<1>5. ASSUME NEW c \in Check, CheckApproved(c) PROVE RequestsOK'
  <2>1. /\ check'[c].pc = "issued" /\ check'[c].exp = clock + TokenLife
        /\ check'[c].holder = check[c].holder /\ check'[c].line = check[c].line
    BY <1>5 DEF CheckApproved, SessionsTypeOK, CheckState
  <2>2. check[c].pc = "twilio" BY <1>5 DEF CheckApproved
  <2>3. clock \in Nat BY DEF SessionsTypeOK, Second
  <2>4. \A d \in Check : d # c => check'[d] = check[d] BY <1>5 DEF CheckApproved, SessionsTypeOK
  <2>5. \A x \in Use : use[x].token = c => use[x].pc \notin {"write", "revoke", "done", "failed"}
    BY <2>2 DEF RequestsOK
  <2>6. UNCHANGED <<clock, ask, use, login, logout>> BY <1>5 DEF CheckApproved
  <2> QED BY <2>1, <2>2, <2>3, <2>4, <2>5, <2>6 DEF RequestsOK
<1>6. ASSUME NEW c \in Check, CheckRejected(c) PROVE RequestsOK'
  <2>1. check'[c].pc = "rejected" BY <1>6 DEF CheckRejected, SessionsTypeOK, CheckState
  <2>2. check[c].pc = "twilio" BY <1>6 DEF CheckRejected
  <2>3. \A d \in Check : d # c => check'[d] = check[d] BY <1>6 DEF CheckRejected, SessionsTypeOK
  <2>4. \A x \in Use : use[x].token = c => use[x].pc \notin {"write", "revoke", "done", "failed"}
    BY <2>2 DEF RequestsOK
  <2>5. UNCHANGED <<clock, ask, use, login, logout>> BY <1>6 DEF CheckRejected
  <2> QED BY <2>1, <2>3, <2>4, <2>5 DEF RequestsOK
<1>7. ASSUME NEW x \in Use, NEW c \in Check, UseRead(x, c) PROVE RequestsOK'
  <2>1. use'[x].pc \in {"write", "revoke", "done", "failed"} => clock < check[c].exp
    BY <1>7 DEF UseRead, SessionsTypeOK
  <2>2. use'[x].token = c /\ use'[x].at = clock BY <1>7 DEF UseRead, SessionsTypeOK
  <2>3. check[c].pc = "issued" BY <1>7 DEF UseRead
  <2>4. check[c].exp <= clock + TokenLife /\ check[c].exp \in Nat BY <2>3 DEF RequestsOK
  <2>5. clock \in Nat BY DEF SessionsTypeOK, Second
  <2>6. \A y \in Use : y # x => use'[y] = use[y] BY <1>7 DEF UseRead, SessionsTypeOK
  <2>7. UNCHANGED <<clock, ask, check, login, logout>> BY <1>7 DEF UseRead
  <2> QED BY <2>1, <2>2, <2>3, <2>4, <2>5, <2>6, <2>7 DEF RequestsOK
<1>8. ASSUME NEW x \in Use, UseWrite(x) \/ UseRevoke(x) \/ UseFails(x) PROVE RequestsOK'
  <2>1. use[x].pc \in {"write", "revoke"}
    BY <1>8 DEF UseWrite, UseRevoke, UseFails
  <2>2. use'[x].token = use[x].token /\ use'[x].at = use[x].at
    BY <1>8 DEF UseWrite, UseRevoke, UseFails, SessionsTypeOK, UseState
  <2>3. \A y \in Use : y # x => use'[y] = use[y]
    BY <1>8 DEF UseWrite, UseRevoke, UseFails, SessionsTypeOK
  <2>4. UNCHANGED <<clock, ask, check, login, logout>>
    BY <1>8 DEF UseWrite, UseRevoke, UseFails
  <2> QED BY <2>1, <2>2, <2>3, <2>4 DEF RequestsOK
<1>9. ASSUME NEW k \in Login, LoginNext(k) PROVE RequestsOK'
  <2>1. login'[k].pc # "idle" => login'[k].holder \in Holder
    <3>1. CASE \E u \in Holder : LoginValidate(k, u)
      BY <3>1 DEF LoginValidate, SessionsTypeOK, LoginState
    <3>2. CASE LoginSign(k)
      <4>1. login[k] \in LoginState /\ login[k].holder \in Holder
        BY <3>2 DEF LoginSign, SessionsTypeOK, RequestsOK
      <4>2. login'[k].holder = login[k].holder
        BY <3>2, <4>1 DEF LoginSign, SessionsTypeOK, LoginState
      <4> QED BY <4>1, <4>2
    <3>3. CASE LoginStore(k) \/ LoginTouch(k) \/ LoginFails(k)
      <4>1. login[k] \in LoginState BY DEF SessionsTypeOK
      <4>2. login[k].holder \in Holder BY <3>3 DEF LoginStore, LoginTouch, LoginFails, RequestsOK
      <4>3. ASSUME LoginStore(k) PROVE login'[k].holder = login[k].holder
        BY <4>1, <4>3 DEF LoginStore, SessionsTypeOK, LoginState
      <4>4. ASSUME LoginTouch(k) \/ LoginFails(k) PROVE login'[k].holder = login[k].holder
        BY <4>1, <4>4 DEF LoginTouch, LoginFails, SessionsTypeOK, LoginState
      <4> QED BY <3>3, <4>2, <4>3, <4>4
    <3> QED BY <1>9, <3>1, <3>2, <3>3 DEF LoginNext
  <2>2. login'[k].pc = "store" => login'[k].second \in Second
    <3>1. CASE \E u \in Holder : LoginValidate(k, u)
      BY <3>1 DEF LoginValidate, SessionsTypeOK, LoginState
    <3>2. CASE LoginSign(k)
      <4>1. login[k] \in LoginState /\ clock \in Second BY DEF SessionsTypeOK
      <4>2. CASE held[login[k].holder] = Absent
        BY <3>2, <4>1, <4>2 DEF LoginSign, SessionsTypeOK, LoginState
      <4>3. CASE held[login[k].holder] # Absent
        BY <3>2, <4>1, <4>3 DEF LoginSign, SessionsTypeOK, LoginState
      <4> QED BY <4>2, <4>3
    <3>3. CASE LoginStore(k) \/ LoginTouch(k) \/ LoginFails(k)
      <4>1. login[k] \in LoginState BY DEF SessionsTypeOK
      <4>2. ASSUME LoginStore(k) PROVE login'[k].pc = "touch"
        BY <4>1, <4>2 DEF LoginStore, SessionsTypeOK, LoginState
      <4>3. ASSUME LoginTouch(k) PROVE login'[k].pc \in {"done", "failed"}
        BY <4>1, <4>3 DEF LoginTouch, SessionsTypeOK, LoginState
      <4>4. ASSUME LoginFails(k) PROVE login'[k].pc = "failed"
        BY <4>1, <4>4 DEF LoginFails, SessionsTypeOK, LoginState
      <4> QED BY <3>3, <4>2, <4>3, <4>4
    <3> QED BY <1>9, <3>1, <3>2, <3>3 DEF LoginNext
  <2>3. \A j \in Login : j # k => login'[j] = login[j] BY <1>9, OthersWait
  <2>4. UNCHANGED <<clock, ask, check, use, logout>>
    BY <1>9 DEF LoginNext, LoginValidate, LoginSign, LoginStore, LoginTouch, LoginFails
  <2> QED BY <2>1, <2>2, <2>3, <2>4 DEF RequestsOK
<1>10. ASSUME NEW f \in Refresh, RefreshNext(f) PROVE RequestsOK'
  BY <1>10 DEF RefreshNext, RefreshRead, RefreshDetails, RequestsOK
<1>11. ASSUME NEW o \in Logout, LogoutNext(o) PROVE RequestsOK'
  <2>1. logout'[o].pc = "del" => logout'[o].holder \in Holder
    <3>1. ASSUME NEW k \in Login, LogoutRead(o, k) PROVE logout'[o].holder \in Holder
      <4>1. login[k].holder \in Holder BY <3>1 DEF LogoutRead, RequestsOK
      <4> QED BY <3>1, <4>1 DEF LogoutRead, SessionsTypeOK
    <3>2. ASSUME LogoutDel(o) PROVE logout'[o].pc = "done"
      BY <3>2 DEF LogoutDel, SessionsTypeOK, LogoutState
    <3> QED BY <1>11, <3>1, <3>2 DEF LogoutNext
  <2>2. \A p \in Logout : p # o => logout'[p] = logout[p]
    BY <1>11 DEF LogoutNext, LogoutRead, LogoutDel, SessionsTypeOK
  <2>3. UNCHANGED <<clock, ask, check, use, login>>
    BY <1>11 DEF LogoutNext, LogoutRead, LogoutDel
  <2> QED BY <2>1, <2>2, <2>3 DEF RequestsOK
<1>12. ASSUME NEW u \in Holder, HolderNext(u) PROVE RequestsOK'
  BY <1>12 DEF HolderNext, OtherText, MarkLine, RemoveHolder, MoveLine, RequestsOK
<1>13. ASSUME NEW p \in Line, Closes(p) PROVE RequestsOK'
  BY <1>13 DEF Closes, RequestsOK
<1>14. ASSUME Passes PROVE RequestsOK'
  <2>1. clock \in Nat /\ clock' = clock + 1 BY <1>14 DEF Passes, SessionsTypeOK, Second
  <2> QED BY <1>14, <2>1 DEF Passes, RequestsOK
<1> QED
  BY <1>1, <1>2, <1>3, <1>4, <1>5, <1>6, <1>7, <1>8, <1>9, <1>10, <1>11, <1>12, <1>13, <1>14
  DEF SessionsNext, AskNext, CheckNext, UseNext

------------------------------------------------------------------------------
(* Texts *)

\* A step that opens a verification or none, and approves no code.
LEMMA OpensOnce ==
    ASSUME SessionsTypeOK, TextsOnce, NEW p \in Line, Opens(p), UNCHANGED check
    PROVE  TextsOnce'
<1>1. CASE UNCHANGED <<open, sent>> BY <1>1 DEF TextsOnce
<1>2. ASSUME NEW t \in Text \ sent, open' = [open EXCEPT ![p] = t], sent' = sent \cup {t}
      PROVE  TextsOnce'
  <2>1. \A q \in Line : open'[q] = IF q = p THEN t ELSE open[q] BY <1>2 DEF SessionsTypeOK
  <2> QED BY <1>2, <2>1 DEF TextsOnce
<1> QED BY <1>1, <1>2 DEF Opens

\* A step that at most closes a verification, and approves no code.
LEMMA ClosesOnce ==
    ASSUME SessionsTypeOK, TextsOnce, UNCHANGED sent,
           \A q \in Line : open'[q] \in {open[q], Absent},
           \A c \in Check : check'[c].pc = "issued" => check'[c] = check[c]
    PROVE  TextsOnce'
<1>1. \A c \in Check : check[c].pc = "issued" => check[c].text \in Text
  BY DEF TextsOnce, SessionsTypeOK
<1> QED BY <1>1, SessionsAssumption DEF TextsOnce

\* The code of one text is approved once.
LEMMA TextsStep ==
    ASSUME SessionsTypeOK, RequestsOK, TextsOnce, SessionsNext
    PROVE  TextsOnce'
<1>1. ASSUME NEW a \in Ask, AskSend(a) PROVE TextsOnce'
  <2>1. ask[a].line \in Line BY <1>1 DEF AskSend, RequestsOK
  <2> QED BY <1>1, <2>1, OpensOnce DEF AskSend
<1>2. ASSUME NEW u \in Holder, OtherText(u) PROVE TextsOnce'
  <2>1. held[u].line \in Line BY <1>2 DEF OtherText, SessionsTypeOK, Row
  <2> QED BY <1>2, <2>1, OpensOnce DEF OtherText
<1>3. ASSUME NEW p \in Line, Closes(p) PROVE TextsOnce'
  <2>1. \A q \in Line : open'[q] \in {open[q], Absent} BY <1>3 DEF Closes, SessionsTypeOK
  <2> QED BY <1>3, <2>1, ClosesOnce DEF Closes
<1>4. ASSUME NEW u \in Holder, MarkLine(u) PROVE TextsOnce'
  <2>1. \A q \in Line : open'[q] \in {open[q], Absent} BY <1>4 DEF MarkLine, SessionsTypeOK
  <2> QED BY <1>4, <2>1, ClosesOnce DEF MarkLine
<1>5. ASSUME NEW c \in Check, CheckRejected(c) PROVE TextsOnce'
  <2>1. \A q \in Line : open'[q] \in {open[q], Absent} BY <1>5 DEF CheckRejected, SessionsTypeOK
  <2>2. \A d \in Check : check'[d].pc = "issued" => check'[d] = check[d]
    BY <1>5 DEF CheckRejected, SessionsTypeOK, CheckState
  <2> QED BY <1>5, <2>1, <2>2, ClosesOnce DEF CheckRejected
<1>6. ASSUME NEW c \in Check, NEW u \in Holder, CheckRead(c, u) PROVE TextsOnce'
  <2>1. check'[c].pc # "issued" BY <1>6 DEF CheckRead, SessionsTypeOK, CheckState
  <2>2. \A d \in Check : d # c => check'[d] = check[d] BY <1>6 DEF CheckRead, SessionsTypeOK
  <2>3. UNCHANGED <<open, sent>> BY <1>6 DEF CheckRead
  <2> QED BY <2>1, <2>2, <2>3, ClosesOnce
<1>7. ASSUME NEW c \in Check, CheckApproved(c) PROVE TextsOnce'
  <2> DEFINE p == check[c].line
  <2>1. p \in Line /\ open[p] # Absent BY <1>7 DEF CheckApproved, RequestsOK
  <2>2. \A q \in Line : open'[q] = IF q = p THEN Absent ELSE open[q]
    BY <1>7 DEF CheckApproved, SessionsTypeOK
  <2>3. check'[c].text = open[p]
    BY <1>7 DEF CheckApproved, SessionsTypeOK, CheckState
  <2>4. \A d \in Check : d # c => check'[d] = check[d] BY <1>7 DEF CheckApproved, SessionsTypeOK
  <2>5. sent' = sent BY <1>7 DEF CheckApproved
  <2>6. \A q \in Line : open'[q] # check'[c].text BY <2>1, <2>2, <2>3 DEF TextsOnce
  <2>7. \A d \in Check : d # c /\ check'[d].pc = "issued" =>
            /\ check'[d].text # check'[c].text
            /\ check'[d].text \in sent
            /\ \A q \in Line : open'[q] # check'[d].text
    <3>1. Absent \notin sent BY SessionsAssumption DEF SessionsTypeOK
    <3> QED BY <2>1, <2>2, <2>3, <2>4, <3>1 DEF TextsOnce
  <2>8. check'[c].text \in sent BY <2>1, <2>3 DEF TextsOnce
  <2> QED BY <2>2, <2>4, <2>5, <2>6, <2>7, <2>8 DEF TextsOnce
<1>8. CASE UNCHANGED <<open, sent, check>> BY <1>8 DEF TextsOnce
<1>9. ASSUME NEW a \in Ask, (\E t \in Typed : AskRead(a, t)) \/ AskFails(a)
      PROVE  UNCHANGED <<open, sent, check>>
  BY <1>9 DEF AskRead, AskFails
<1>10. ASSUME NEW x \in Use, UseNext(x) PROVE UNCHANGED <<open, sent, check>>
  BY <1>10 DEF UseNext, UseRead, UseWrite, UseRevoke, UseFails
<1>11. ASSUME NEW k \in Login, LoginNext(k) PROVE UNCHANGED <<open, sent, check>>
  BY <1>11 DEF LoginNext, LoginValidate, LoginSign, LoginStore, LoginTouch, LoginFails
<1>12. ASSUME NEW f \in Refresh, RefreshNext(f) PROVE UNCHANGED <<open, sent, check>>
  BY <1>12 DEF RefreshNext, RefreshRead, RefreshDetails
<1>13. ASSUME NEW o \in Logout, LogoutNext(o) PROVE UNCHANGED <<open, sent, check>>
  BY <1>13 DEF LogoutNext, LogoutRead, LogoutDel
<1>14. ASSUME NEW u \in Holder, RemoveHolder(u) \/ \E p \in Line : MoveLine(u, p)
       PROVE  UNCHANGED <<open, sent, check>>
  BY <1>14 DEF RemoveHolder, MoveLine
<1>15. ASSUME Passes PROVE UNCHANGED <<open, sent, check>> BY <1>15 DEF Passes
<1> QED
  BY <1>1, <1>2, <1>3, <1>4, <1>5, <1>6, <1>7, <1>8, <1>9, <1>10, <1>11, <1>12, <1>13, <1>14, <1>15
  DEF SessionsNext, AskNext, CheckNext, HolderNext

------------------------------------------------------------------------------
(* Refresh tokens *)

\* A step that answers no reset, stores no token and leaves the logins that have
\* stored one as they are.
LEMMA LinkedKept ==
    ASSUME SessionsTypeOK, Linked,
           \A u \in Holder : session'[u] # Absent => session'[u] = session[u],
           \A u \in Holder : session'[u] # Absent => Answered(u)' \subseteq Answered(u),
           \A k \in Login : login[k].pc \in {"touch", "done", "failed"} =>
               /\ login'[k].pc \in {"touch", "done", "failed"}
               /\ login'[k].holder = login[k].holder
               /\ login'[k].second = login[k].second
               /\ login'[k].after = login[k].after
    PROVE  Linked'
<1> SUFFICES ASSUME NEW u \in Holder, session'[u] # Absent
             PROVE  Follows(u, session[u].by)'
  BY DEF Linked
<1>1. session'[u] = session[u] /\ session[u] # Absent OBVIOUS
<1>2. session[u].by \in Login BY <1>1 DEF SessionsTypeOK, Stored
<1>3. Follows(u, session[u].by) BY <1>1 DEF Linked
<1> QED BY <1>1, <1>2, <1>3 DEF Follows

\* A stored token is of a login that followed the resets of its account.
LEMMA LinkedStep ==
    ASSUME SessionsTypeOK, RequestsOK, Linked, SessionsNext
    PROVE  Linked'
<1>1. ASSUME NEW x \in Use, UseRevoke(x) PROVE Linked'
  <2>1. use[x].token \in Check /\ check[use[x].token].pc = "issued" BY <1>1 DEF UseRevoke, RequestsOK
  <2>2. PICK w \in Holder : w = ResetOf(x) BY <2>1 DEF ResetOf, RequestsOK
  <2>3. \A u \in Holder : session'[u] = IF u = w THEN Absent ELSE session[u]
    BY <1>1, <2>2 DEF UseRevoke, ResetOf, SessionsTypeOK
  <2>4. \A y \in Use : y # x => use'[y] = use[y] BY <1>1 DEF UseRevoke, SessionsTypeOK
  <2>5. use'[x].token = use[x].token BY <1>1 DEF UseRevoke, SessionsTypeOK, UseState
  <2>6. check' = check /\ login' = login BY <1>1 DEF UseRevoke
  <2>7. \A u \in Holder : u # w => Answered(u)' \subseteq Answered(u)
    BY <2>2, <2>4, <2>5, <2>6 DEF Answered, ResetOf
  <2> QED BY <2>3, <2>6, <2>7, LinkedKept
<1>2. ASSUME NEW k \in Login, LoginStore(k) PROVE Linked'
  <2>1. PICK w \in Holder : w = login[k].holder BY <1>2 DEF LoginStore, RequestsOK
  <2>2. session'[w] = [second |-> login[k].second, exp |-> clock + SessionLife, by |-> k]
    BY <1>2, <2>1 DEF LoginStore, SessionsTypeOK
  <2>3. \A u \in Holder : u # w => session'[u] = session[u]
    BY <1>2, <2>1 DEF LoginStore, SessionsTypeOK
  <2>4. /\ login'[k].pc = "touch" /\ login'[k].holder = w
        /\ login'[k].second = login[k].second /\ login'[k].after = Answered(w)
    BY <1>2, <2>1 DEF LoginStore, SessionsTypeOK, LoginState
  <2>5. \A j \in Login : j # k => login'[j] = login[j] BY <1>2 DEF LoginStore, SessionsTypeOK
  <2>6. UNCHANGED <<use, check>> BY <1>2 DEF LoginStore
  <2>7. \A u \in Holder : Answered(u)' = Answered(u) BY <2>6 DEF Answered, ResetOf
  <2>8. login[k].pc = "store" BY <1>2 DEF LoginStore
  <2>9. Follows(w, k)'
    BY <2>1, <2>2, <2>4, <2>7 DEF Follows
  <2>10. ASSUME NEW u \in Holder, u # w, session'[u] # Absent PROVE Follows(u, session[u].by)'
    <3>1. session'[u] = session[u] BY <2>3, <2>10
    <3>2. session[u].by \in Login BY <2>10, <3>1 DEF SessionsTypeOK, Stored
    <3>3. Follows(u, session[u].by) BY <2>10, <3>1 DEF Linked
    <3>4. session[u].by # k BY <2>8, <3>3 DEF Follows
    <3> QED BY <2>5, <2>7, <3>1, <3>2, <3>3, <3>4 DEF Follows
  <2> QED BY <2>1, <2>2, <2>9, <2>10 DEF Linked
<1>3. ASSUME NEW k \in Login, LoginNext(k), ~LoginStore(k) PROVE Linked'
  <2>1. UNCHANGED <<session, use, check>>
    BY <1>3 DEF LoginNext, LoginValidate, LoginSign, LoginTouch, LoginFails
  <2>2. \A j \in Login : login[j].pc \in {"touch", "done", "failed"} =>
            /\ login'[j].pc \in {"touch", "done", "failed"}
            /\ login'[j].holder = login[j].holder
            /\ login'[j].second = login[j].second
            /\ login'[j].after = login[j].after
    <3> SUFFICES ASSUME NEW j \in Login, login[j].pc \in {"touch", "done", "failed"}
                 PROVE  /\ login'[j].pc \in {"touch", "done", "failed"}
                        /\ login'[j].holder = login[j].holder
                        /\ login'[j].second = login[j].second
                        /\ login'[j].after = login[j].after
      OBVIOUS
    <3>1. CASE j # k BY <1>3, <3>1, OthersWait
    <3>2. CASE j = k
      <4>1. login[k] \in LoginState BY DEF SessionsTypeOK
      <4>2. LoginTouch(k) \/ LoginFails(k)
        BY <1>3, <3>2 DEF LoginNext, LoginValidate, LoginSign
      <4> QED BY <3>2, <4>1, <4>2 DEF LoginTouch, LoginFails, SessionsTypeOK, LoginState
    <3> QED BY <3>1, <3>2
  <2>3. \A u \in Holder : Answered(u)' = Answered(u) BY <2>1 DEF Answered, ResetOf
  <2> QED BY <2>1, <2>2, <2>3, LinkedKept
<1>4. ASSUME NEW o \in Logout, LogoutNext(o) PROVE Linked'
  <2>1. UNCHANGED <<login, use, check>> BY <1>4 DEF LogoutNext, LogoutRead, LogoutDel
  <2>2. \A u \in Holder : session'[u] # Absent => session'[u] = session[u]
    BY <1>4 DEF LogoutNext, LogoutRead, LogoutDel, SessionsTypeOK
  <2>3. \A u \in Holder : Answered(u)' = Answered(u) BY <2>1 DEF Answered, ResetOf
  <2> QED BY <2>1, <2>2, <2>3, LinkedKept
<1>5. ASSUME NEW x \in Use, UseNext(x), ~UseRevoke(x) PROVE Linked'
  <2>1. UNCHANGED <<session, login, check>> BY <1>5 DEF UseNext, UseRead, UseWrite, UseFails
  <2>2. \A y \in Use : use'[y].pc = "done" => use'[y] = use[y]
    BY <1>5 DEF UseNext, UseRead, UseWrite, UseFails, SessionsTypeOK, UseState
  <2>3. \A u \in Holder : Answered(u)' \subseteq Answered(u)
    BY <2>1, <2>2 DEF Answered, ResetOf
  <2> QED BY <2>1, <2>3, LinkedKept
<1>6. ASSUME NEW c \in Check, CheckNext(c) PROVE Linked'
  <2>1. UNCHANGED <<session, login, use>>
    BY <1>6 DEF CheckNext, CheckRead, CheckApproved, CheckRejected
  <2>2. \A d \in Check : check[d].pc = "issued" => check'[d] = check[d]
    BY <1>6 DEF CheckNext, CheckRead, CheckApproved, CheckRejected, SessionsTypeOK
  <2>3. \A x \in Use : use[x].pc = "done" => check'[use[x].token] = check[use[x].token]
    BY <2>2 DEF RequestsOK
  <2>4. \A u \in Holder : Answered(u)' \subseteq Answered(u)
    BY <2>1, <2>3 DEF Answered, ResetOf
  <2> QED BY <2>1, <2>4, LinkedKept
<1>7. CASE UNCHANGED <<session, login, use, check>>
  <2>1. \A u \in Holder : Answered(u)' = Answered(u) BY <1>7 DEF Answered, ResetOf
  <2> QED BY <1>7, <2>1, LinkedKept
<1>8. ASSUME NEW a \in Ask, AskNext(a) PROVE UNCHANGED <<session, login, use, check>>
  BY <1>8 DEF AskNext, AskRead, AskSend, AskFails
<1>9. ASSUME NEW f \in Refresh, RefreshNext(f) PROVE UNCHANGED <<session, login, use, check>>
  BY <1>9 DEF RefreshNext, RefreshRead, RefreshDetails
<1>10. ASSUME NEW u \in Holder, HolderNext(u) PROVE UNCHANGED <<session, login, use, check>>
  BY <1>10 DEF HolderNext, OtherText, MarkLine, RemoveHolder, MoveLine
<1>11. ASSUME NEW p \in Line, Closes(p) PROVE UNCHANGED <<session, login, use, check>>
  BY <1>11 DEF Closes
<1>12. ASSUME Passes PROVE UNCHANGED <<session, login, use, check>> BY <1>12 DEF Passes
<1> QED
  BY <1>1, <1>2, <1>3, <1>4, <1>5, <1>6, <1>7, <1>8, <1>9, <1>10, <1>11, <1>12 DEF SessionsNext

\* A refresh goes on only with a token of a login that followed every reset.
LEMMA RefreshesStep ==
    ASSUME SessionsTypeOK, RequestsOK, Linked, RefreshesOK, SessionsNext
    PROVE  RefreshesOK'
<1>1. ASSUME NEW f \in Refresh, NEW k \in Login, RefreshRead(f, k) PROVE RefreshesOK'
  <2> DEFINE u == login[k].holder
  <2>1. u \in Holder BY <1>1 DEF RefreshRead, RequestsOK
  <2>2. refresh'[f].pc = "details" => Kept(u) /\ session[u].second = login[k].second
    BY <1>1 DEF RefreshRead, SessionsTypeOK
  <2>3. Kept(u) /\ session[u].second = login[k].second => Current(k)
    <3> SUFFICES ASSUME Kept(u), session[u].second = login[k].second PROVE Current(k) OBVIOUS
    <3>1. session[u] # Absent BY DEF Kept
    <3>2. session[u].by \in Login BY <2>1, <3>1 DEF SessionsTypeOK, Stored
    <3>3. Follows(u, session[u].by) BY <2>1, <3>1 DEF Linked
    <3> QED BY <3>2, <3>3 DEF Follows, Current
  <2>4. refresh'[f].pc \in {"details", "refused"} /\ refresh'[f].lapsed = ~Current(k)
    BY <1>1 DEF RefreshRead, SessionsTypeOK
  <2>5. \A g \in Refresh : g # f => refresh'[g] = refresh[g] BY <1>1 DEF RefreshRead, SessionsTypeOK
  <2> QED BY <2>2, <2>3, <2>4, <2>5 DEF RefreshesOK
<1>2. ASSUME NEW f \in Refresh, RefreshDetails(f) PROVE RefreshesOK'
  <2>1. refresh[f].pc = "details" BY <1>2 DEF RefreshDetails
  <2>2. refresh'[f].lapsed = refresh[f].lapsed BY <1>2 DEF RefreshDetails, SessionsTypeOK, RefreshState
  <2>3. \A g \in Refresh : g # f => refresh'[g] = refresh[g] BY <1>2 DEF RefreshDetails, SessionsTypeOK
  <2> QED BY <2>1, <2>2, <2>3 DEF RefreshesOK
<1>3. CASE UNCHANGED refresh BY <1>3 DEF RefreshesOK
<1>4. ASSUME NEW a \in Ask, AskNext(a) PROVE UNCHANGED refresh
  BY <1>4 DEF AskNext, AskRead, AskSend, AskFails
<1>5. ASSUME NEW c \in Check, CheckNext(c) PROVE UNCHANGED refresh
  BY <1>5 DEF CheckNext, CheckRead, CheckApproved, CheckRejected
<1>6. ASSUME NEW x \in Use, UseNext(x) PROVE UNCHANGED refresh
  BY <1>6 DEF UseNext, UseRead, UseWrite, UseRevoke, UseFails
<1>7. ASSUME NEW k \in Login, LoginNext(k) PROVE UNCHANGED refresh
  BY <1>7 DEF LoginNext, LoginValidate, LoginSign, LoginStore, LoginTouch, LoginFails
<1>8. ASSUME NEW o \in Logout, LogoutNext(o) PROVE UNCHANGED refresh
  BY <1>8 DEF LogoutNext, LogoutRead, LogoutDel
<1>9. ASSUME NEW u \in Holder, HolderNext(u) PROVE UNCHANGED refresh
  BY <1>9 DEF HolderNext, OtherText, MarkLine, RemoveHolder, MoveLine
<1>10. ASSUME NEW p \in Line, Closes(p) PROVE UNCHANGED refresh BY <1>10 DEF Closes
<1>11. ASSUME Passes PROVE UNCHANGED refresh BY <1>11 DEF Passes
<1> QED
  BY <1>1, <1>2, <1>3, <1>4, <1>5, <1>6, <1>7, <1>8, <1>9, <1>10, <1>11
  DEF SessionsNext, RefreshNext

------------------------------------------------------------------------------
(* Theorems *)

SessionsInv == SessionsTypeOK /\ RequestsOK /\ TextsOnce /\ Linked /\ RefreshesOK

\* The invariant is inductive.
LEMMA SessionsInductive == SessionsSpec => []SessionsInv
<1>1. SessionsInit => SessionsInv BY InitTypes DEF SessionsInv
<1>2. SessionsInv /\ [SessionsNext]_sessionsVars => SessionsInv'
  <2> SUFFICES ASSUME SessionsInv, [SessionsNext]_sessionsVars PROVE SessionsInv' OBVIOUS
  <2>1. CASE SessionsNext
    <3>1. SessionsTypeOK'
      BY <2>1, ResetTypes, TokenTypes, OtherTypes DEF SessionsInv, SessionsNext
    <3> QED BY <2>1, <3>1, RequestsStep, TextsStep, LinkedStep, RefreshesStep DEF SessionsInv
  <2>2. CASE UNCHANGED sessionsVars
    BY <2>2 DEF SessionsInv, sessionsVars, SessionsTypeOK, RequestsOK, TextsOnce, Linked, Follows,
                Answered, ResetOf, RefreshesOK
  <2> QED BY <2>1, <2>2
<1> QED BY <1>1, <1>2, PTL DEF SessionsSpec

\* Every variable of Sessions holds a value of its kind.
THEOREM SessionsTypes == SessionsSpec => []SessionsTypeOK
<1>1. SessionsInv => SessionsTypeOK BY DEF SessionsInv
<1> QED BY <1>1, SessionsInductive, PTL

\* What one text buys, and what a reset by SMS ends (resetPassword, refreshToken):
\* both halves of SessionsAreEarned.
THEOREM SessionsEarned == SessionsSpec => []SessionsAreEarned
<1>1. SessionsInv => TextServesOneAccount
  <2> SUFFICES ASSUME SessionsInv, NEW x \in Use, NEW y \in Use, WroteBy(x), WroteBy(y),
                      check[use[x].token].text = check[use[y].token].text
               PROVE  ResetOf(x) = ResetOf(y) /\ use[x].at - use[y].at < TokenLife
    BY DEF TextServesOneAccount
  <2>1. use[x].token \in Check /\ use[y].token \in Check
    BY DEF WroteBy, SessionsInv, RequestsOK
  <2>2. check[use[x].token].pc = "issued" /\ check[use[y].token].pc = "issued"
    BY DEF WroteBy, SessionsInv, RequestsOK
  <2>3. use[x].token = use[y].token BY <2>1, <2>2 DEF SessionsInv, TextsOnce
  <2>4. /\ use[x].at \in Nat /\ use[x].at < check[use[x].token].exp
        /\ use[y].at \in Nat /\ check[use[y].token].exp <= use[y].at + TokenLife
    BY DEF WroteBy, SessionsInv, RequestsOK
  <2>5. check[use[x].token].exp \in Nat BY <2>1, <2>2 DEF SessionsInv, RequestsOK
  <2>6. use[x].at - use[y].at < TokenLife BY <2>3, <2>4, <2>5, SessionsAssumption
  <2> QED BY <2>3, <2>6 DEF ResetOf
<1>2. SessionsInv => RefreshFollowsReset BY DEF SessionsInv, RefreshesOK, RefreshFollowsReset
<1> QED BY <1>1, <1>2, SessionsInductive, PTL DEF SessionsAreEarned

=============================================================================
