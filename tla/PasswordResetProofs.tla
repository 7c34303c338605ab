------------------------- MODULE PasswordResetProofs -------------------------
(***************************************************************************)
(* Theorems about PasswordReset for every set of accounts, addresses and   *)
(* requests and every lifetime and attempt limit.                          *)
(***************************************************************************)
EXTENDS PasswordReset, FiniteSetTheorems, TLAPS

\* A request past its first sections has the locals they set.
Locals ==
    /\ \A f \in Forgot :
         /\ forgot[f].pc \notin {"idle", "refused"} => forgot[f].email \in Email
         /\ forgot[f].pc \in {"store", "mail", "cleanup", "done", "failed"}
              => forgot[f].user \in User
    /\ \A v \in Verify :
         verify[v].pc \in {"recheck", "store", "issued"}
           => verify[v].email \in Email /\ verify[v].user \in User
    /\ \A r \in Reset :
         /\ reset[r].pc # "idle" => reset[r].user \in User
         /\ reset[r].pc = "consume" => reset[r].token \in Verify
    /\ \A l \in Login : login[l].pc # "idle" => login[l].user \in User

TypeInv == TypeOK /\ Locals

\* TypeOK is inductive once the locals are known to be there.
THEOREM TypeInvariant == Spec => []TypeInv
<1>1. Init => TypeInv
  BY TTLAssumption DEF TTLAssumption, Init, TypeInv, TypeOK, Locals, Time, NoTime, Password, UserRow, Challenge,
         Token, ForgotState, VerifyState, PhoneState, ResetState, LoginState, Rewrite
<1>2. TypeInv /\ [Next]_vars => TypeInv'
  <2> SUFFICES ASSUME TypeOK, Locals, [Next]_vars PROVE TypeOK' /\ Locals'
    BY DEF TypeInv
  <2>0. now \in Nat /\ \A t \in Nat : now + t \in Nat
    BY TTLAssumption DEF TTLAssumption, TypeOK, Time
  <2>a. CooldownTTL \in Nat /\ ChallengeTTL \in Nat /\ TokenTTL \in Nat
    BY TTLAssumption DEF TTLAssumption
  <2>1. ASSUME NEW f \in Forgot, NEW e \in Email,
               ForgotClaim(f, e) \/ ForgotRefused(f, e)
        PROVE TypeOK' /\ Locals'
    <3>1. /\ [forgot[f] EXCEPT !.pc = "lookup", !.email = e, !.claimedAt = now] \in ForgotState
          /\ [forgot[f] EXCEPT !.pc = "refused", !.email = e] \in ForgotState
      BY DEF TypeOK, ForgotState
    <3>2. TypeOK'
      BY <2>0, <2>a, <2>1, <3>1 DEF TypeOK, ForgotClaim, ForgotRefused
    <3>3. Locals'
      <4>1. CASE ForgotClaim(f, e)
        BY <4>1 DEF TypeOK, Locals, ForgotClaim, ForgotState
      <4>2. CASE ForgotRefused(f, e)
        BY <4>2 DEF TypeOK, Locals, ForgotRefused, ForgotState
      <4>3. QED BY <2>1, <4>1, <4>2
    <3>4. QED BY <3>2, <3>3
  <2>2. ASSUME NEW f \in Forgot, ForgotLookup(f) PROVE TypeOK' /\ Locals'
    <3>1. /\ \A u \in User : [forgot[f] EXCEPT !.pc = "store", !.user = u] \in ForgotState
          /\ [forgot[f] EXCEPT !.pc = "refused"] \in ForgotState
      BY DEF TypeOK, ForgotState
    <3>2. TypeOK'
      BY <2>2, <3>1 DEF TypeOK, ForgotLookup
    <3>3. forgot[f].email \in Email
      BY <2>2 DEF Locals, ForgotLookup
    <3>4. \/ \E u \in User : forgot' = [forgot EXCEPT ![f] =
                                [@ EXCEPT !.pc = "store", !.user = u]]
          \/ forgot' = [forgot EXCEPT ![f].pc = "refused"]
      BY <2>2 DEF ForgotLookup
    <3>5. Locals'
      <4>1. ASSUME NEW u \in User,
                   forgot' = [forgot EXCEPT ![f] = [@ EXCEPT !.pc = "store", !.user = u]]
            PROVE  Locals'
        BY <2>2, <3>3, <4>1 DEF TypeOK, Locals, ForgotLookup, ForgotState
      <4>2. CASE forgot' = [forgot EXCEPT ![f].pc = "refused"]
        BY <2>2, <4>2 DEF TypeOK, Locals, ForgotLookup, ForgotState
      <4>3. QED BY <3>4, <4>1, <4>2
    <3>6. QED BY <3>2, <3>5
  <2>3. ASSUME NEW f \in Forgot, ForgotStore(f) PROVE TypeOK' /\ Locals'
    <3>1. [forgot[f] EXCEPT !.pc = "mail", !.storedAt = now] \in ForgotState
      BY DEF TypeOK, ForgotState
    <3>2. \A c \in Code : [forgot |-> f, code |-> c, user |-> forgot[f].user,
                           attempts |-> 0, exp |-> now + ChallengeTTL] \in Challenge
      BY <2>0, <2>a, <2>3, TTLAssumption DEF TTLAssumption, TypeOK, Locals, ForgotStore, Challenge
    <3>3. TypeOK'
      BY <2>3, <3>1, <3>2 DEF TypeOK, ForgotStore
    <3>4. Locals'
      BY <2>3 DEF TypeOK, Locals, ForgotStore, ForgotState
    <3>5. QED BY <3>3, <3>4
  <2>4. ASSUME NEW f \in Forgot, ForgotQueued(f) \/ ForgotQueueFails(f) \/ ForgotCleanup(f)
        PROVE TypeOK' /\ Locals'
    <3>1. \A p \in {"done", "cleanup", "failed"} :
             [forgot[f] EXCEPT !.pc = p] \in ForgotState
      BY DEF TypeOK, ForgotState
    <3>2. TypeOK'
      BY <2>4, <3>1 DEF TypeOK, ForgotQueued, ForgotQueueFails, ForgotCleanup
    <3>3. Locals'
      BY <2>4 DEF TypeOK, Locals, ForgotQueued, ForgotQueueFails, ForgotCleanup, ForgotState
    <3>4. QED BY <3>2, <3>3
  <2>5. ASSUME NEW v \in Verify, NEW e \in Email, VerifyNoChallenge(v, e)
        PROVE TypeOK' /\ Locals'
    <3>1. [verify[v] EXCEPT !.pc = "rejected", !.email = e] \in VerifyState
      BY DEF TypeOK, VerifyState
    <3>2. TypeOK'
      BY <2>5, <3>1 DEF TypeOK, VerifyNoChallenge
    <3>3. Locals'
      BY <2>5 DEF TypeOK, Locals, VerifyNoChallenge, VerifyState
    <3>4. QED BY <3>2, <3>3
  <2>6. ASSUME NEW v \in Verify, NEW e \in Email, NEW c \in Code, VerifyMatches(v, e, c)
        PROVE TypeOK' /\ Locals'
    <3>1. challenge[e] \in Challenge
      BY <2>6 DEF TypeOK, VerifyMatches, Served
    <3>2. challenge[e].user \in User /\ challenge[e].forgot \in Forgot
      BY <3>1 DEF Challenge
    <3>3. [verify[v] EXCEPT !.pc = "recheck", !.email = e, !.user = challenge[e].user,
             !.challenge = challenge[e].forgot, !.matchedAt = now] \in VerifyState
      BY <3>2 DEF TypeOK, VerifyState
    <3>4. TypeOK'
      BY <2>6, <3>3 DEF TypeOK, VerifyMatches
    <3>5. Locals'
      BY <2>6, <3>2 DEF TypeOK, Locals, VerifyMatches, VerifyState
    <3>6. QED BY <3>4, <3>5
  <2>7. ASSUME NEW v \in Verify, NEW e \in Email, NEW c \in Code, VerifyWrongCode(v, e, c)
        PROVE TypeOK' /\ Locals'
    <3>1. challenge[e] \in Challenge
      BY <2>7 DEF TypeOK, VerifyWrongCode, Served
    <3>2. challenge[e].forgot \in Forgot
      BY <3>1 DEF Challenge
    <3>3. [verify[v] EXCEPT !.pc = "rejected", !.email = e,
             !.challenge = challenge[e].forgot] \in VerifyState
      BY <3>2 DEF TypeOK, VerifyState
    <3>4. AfterWrongCode(challenge[e]) \in Challenge \cup {None}
      <4> DEFINE ch == challenge[e]
      <4>1. /\ ch.attempts \in Nat /\ ch.exp \in Nat /\ now \in Nat /\ MaxAttempts \in Nat
            /\ now + (ch.exp - now) = ch.exp
        BY <2>0, <3>1, TTLAssumption DEF TTLAssumption, Challenge
      <4>2. CASE ch.attempts + 1 < MaxAttempts
        <5>1. ch.attempts + 1 \in 0..MaxAttempts - 1
          BY <4>1, <4>2
        <5>2. [ch EXCEPT !.attempts = @ + 1, !.exp = now + (ch.exp - now)] \in Challenge
          BY <3>1, <4>1, <5>1 DEF Challenge
        <5>3. QED BY <5>2 DEF AfterWrongCode
      <4>3. CASE ~(ch.attempts + 1 < MaxAttempts)
        BY <4>1, <4>3 DEF AfterWrongCode
      <4>4. QED BY <4>2, <4>3
    <3>5. TypeOK'
      BY <2>7, <3>3, <3>4 DEF TypeOK, VerifyWrongCode
    <3>6. Locals'
      BY <2>7 DEF TypeOK, Locals, VerifyWrongCode, VerifyState
    <3>7. QED BY <3>5, <3>6
  <2>8. ASSUME NEW v \in Verify, VerifyRecheck(v) PROVE TypeOK' /\ Locals'
    <3>1. /\ [verify[v] EXCEPT !.pc = "store", !.jwtExp = now + TokenTTL] \in VerifyState
          /\ [verify[v] EXCEPT !.pc = "rejected"] \in VerifyState
      BY <2>0, <2>a DEF TypeOK, VerifyState
    <3>2. TypeOK'
      BY <2>8, <3>1 DEF TypeOK, VerifyRecheck
    <3>3. Locals'
      <4>1. CASE verify' = [verify EXCEPT ![v] =
                   [@ EXCEPT !.pc = "store", !.jwtExp = now + TokenTTL]]
        BY <2>8, <4>1 DEF TypeOK, Locals, VerifyRecheck, VerifyState
      <4>2. CASE verify' = [verify EXCEPT ![v].pc = "rejected"]
        BY <2>8, <4>2 DEF TypeOK, Locals, VerifyRecheck, VerifyState
      <4>3. QED BY <2>8, <4>1, <4>2 DEF VerifyRecheck
    <3>4. QED BY <3>2, <3>3
  <2>9. ASSUME NEW v \in Verify, VerifyStore(v) PROVE TypeOK' /\ Locals'
    <3>1. [verify[v] EXCEPT !.pc = "issued"] \in VerifyState
      BY DEF TypeOK, VerifyState
    <3>2. [user |-> verify[v].user, exp |-> now + TokenTTL] \in Token
      BY <2>0, <2>a, <2>9 DEF TypeOK, Locals, VerifyStore, Token
    <3>3. TypeOK'
      BY <2>9, <3>1, <3>2 DEF TypeOK, VerifyStore
    <3>4. Locals'
      BY <2>9 DEF TypeOK, Locals, VerifyStore, VerifyState
    <3>5. QED BY <3>3, <3>4
  <2>10. ASSUME NEW p \in PhoneVerify, NEW u \in User, PhoneIssue(p, u)
         PROVE TypeOK' /\ Locals'
    BY <2>0, <2>a, <2>10 DEF TypeOK, Locals, PhoneIssue, PhoneState
  <2>11. ASSUME NEW r \in Reset, NEW v \in Verify, ResetCheckEmail(r, v)
         PROVE TypeOK' /\ Locals'
    <3>1. verify[v].user \in User
      BY <2>11 DEF Locals, ResetCheckEmail
    <3>2. [pc |-> "consume", token |-> v, user |-> verify[v].user] \in ResetState
      BY <3>1 DEF ResetState
    <3>3. TypeOK'
      BY <2>11, <3>2 DEF TypeOK, ResetCheckEmail
    <3>4. Locals'
      BY <2>11, <3>1 DEF TypeOK, Locals, ResetCheckEmail
    <3>5. QED BY <3>3, <3>4
  <2>12. ASSUME NEW r \in Reset, NEW p \in PhoneVerify, ResetCheckPhone(r, p)
         PROVE TypeOK' /\ Locals'
    <3>1. phone[p].user \in User
      BY <2>12 DEF TypeOK, PhoneState, ResetCheckPhone
    <3>2. [pc |-> "update", token |-> p, user |-> phone[p].user] \in ResetState
      BY <3>1 DEF ResetState
    <3>3. TypeOK'
      BY <2>12, <3>2 DEF TypeOK, ResetCheckPhone
    <3>4. Locals'
      BY <2>12, <3>1 DEF TypeOK, Locals, ResetCheckPhone
    <3>5. QED BY <3>3, <3>4
  <2>13. ASSUME NEW r \in Reset,
                \/ ResetConsume(r) \/ ResetUpdate(r) \/ ResetUpdateFails(r)
                \/ ResetRevoke(r) \/ ResetRevokeFails(r)
         PROVE TypeOK' /\ Locals'
    <3>1. \A p \in {"update", "refused", "revoke", "updateFailed", "done", "revokeFailed"} :
             [reset[r] EXCEPT !.pc = p] \in ResetState
      BY DEF TypeOK, ResetState
    <3>2. Locals'
      <4>1. /\ reset[r].pc # "idle"
            /\ UNCHANGED <<forgot, verify, login>>
            /\ \E p \in {"update", "refused", "revoke", "updateFailed", "done",
                         "revokeFailed"} : reset' = [reset EXCEPT ![r].pc = p]
        BY <2>13 DEF ResetConsume, ResetUpdate, ResetUpdateFails, ResetRevoke,
                     ResetRevokeFails
      <4>2. PICK p \in {"update", "refused", "revoke", "updateFailed", "done",
                        "revokeFailed"} : reset' = [reset EXCEPT ![r].pc = p]
        BY <4>1
      <4>3. /\ reset'[r].user = reset[r].user /\ reset'[r].pc # "consume"
            /\ \A q \in Reset : q # r => reset'[q] = reset[q]
        BY <4>2 DEF TypeOK, ResetState
      <4>4. \A q \in Reset : /\ reset'[q].pc # "idle" => reset'[q].user \in User
                             /\ reset'[q].pc = "consume" => reset'[q].token \in Verify
        BY <4>1, <4>3 DEF Locals
      <4>5. QED BY <4>1, <4>4 DEF Locals
    <3>3. CASE ResetConsume(r)
      <4>1. TypeOK'
        BY <3>1, <3>3 DEF TypeOK, ResetConsume
      <4>2. QED BY <4>1, <3>2
    <3>4. CASE ResetUpdate(r)
      <4>1. [users[reset[r].user] EXCEPT !.password = r] \in UserRow
        BY <3>4 DEF TypeOK, Locals, ResetUpdate, UserRow, Password
      <4>2. TypeOK'
        BY <3>1, <3>4, <4>1 DEF TypeOK, ResetUpdate
      <4>3. QED BY <4>2, <3>2
    <3>5. CASE ResetUpdateFails(r) \/ ResetRevoke(r) \/ ResetRevokeFails(r)
      <4>1. TypeOK'
        BY <3>1, <3>5 DEF TypeOK, ResetUpdateFails, ResetRevoke, ResetRevokeFails
      <4>2. QED BY <4>1, <3>2
    <3>6. QED BY <2>13, <3>3, <3>4, <3>5
  <2>14. ASSUME NEW l \in Login, NEW u \in User, LoginValidate(l, u)
         PROVE TypeOK' /\ Locals'
    <3>1. users[u].password \in Password
      BY <2>14 DEF TypeOK, LoginValidate, UserRow
    <3>2. [login[l] EXCEPT !.pc = "details", !.user = u, !.password = users[u].password]
             \in LoginState
      BY <3>1 DEF TypeOK, LoginState
    <3>3. TypeOK'
      BY <2>14, <3>2 DEF TypeOK, LoginValidate
    <3>4. Locals'
      BY <2>14 DEF TypeOK, Locals, LoginValidate, LoginState
    <3>5. QED BY <3>3, <3>4
  <2>15. ASSUME NEW l \in Login, LoginDetails(l) PROVE TypeOK' /\ Locals'
    <3>1. \A p \in {"store", "refused"} : [login[l] EXCEPT !.pc = p] \in LoginState
      BY DEF TypeOK, LoginState
    <3>2. TypeOK'
      BY <2>15, <3>1 DEF TypeOK, LoginDetails
    <3>3. Locals'
      BY <2>15 DEF TypeOK, Locals, LoginDetails, LoginState
    <3>4. QED BY <3>2, <3>3
  <2>16. ASSUME NEW l \in Login, LoginStore(l) PROVE TypeOK' /\ Locals'
    <3>1. \A b \in BOOLEAN : [login[l] EXCEPT !.pc = "done", !.stale = b] \in LoginState
      BY DEF TypeOK, LoginState
    <3>2. TypeOK'
      BY <2>16, <3>1 DEF TypeOK, LoginStore
    <3>3. Locals'
      BY <2>16 DEF TypeOK, Locals, LoginStore, LoginState
    <3>4. QED BY <3>2, <3>3
  <2>17. ASSUME NEW u \in User, NEW e \in Email, ChangeEmail(u, e) PROVE TypeOK' /\ Locals'
    <3>1. [users[u] EXCEPT !.email = e] \in UserRow
      BY <2>17 DEF TypeOK, ChangeEmail, UserRow
    <3>2. QED BY <2>17, <3>1 DEF TypeOK, Locals, ChangeEmail
  <2>22. ASSUME NEW x \in Rewrite, NEW u \in User, NEW e \in Email,
                ChangePassword(x, u, e) \/ AdminUpdate(x, u, e)
         PROVE TypeOK' /\ Locals'
    <3>1. /\ x \in Password /\ users[u] \in UserRow
          /\ \A l \in Login : [login[l] EXCEPT !.kept = TRUE] \in LoginState
      <4>1. users[u] # None
        BY <2>22 DEF ChangePassword, AdminUpdate, HoldsEmail
      <4>2. x \in Password
        BY DEF Password
      <4>3. users[u] \in UserRow
        BY <4>1 DEF TypeOK
      <4>4. \A l \in Login : [login[l] EXCEPT !.kept = TRUE] \in LoginState
        BY DEF TypeOK, LoginState
      <4>5. QED BY <4>2, <4>3, <4>4
    <3>2. /\ [users[u] EXCEPT !.password = x] \in UserRow
          /\ [email |-> e, password |-> x] \in UserRow
      BY <3>1 DEF UserRow
    <3>3. session[u] # None => session[u] \in Login
      BY DEF TypeOK
    <3>4. /\ login' \in [Login -> LoginState]
          /\ \A l \in Login : login'[l].pc = login[l].pc /\ login'[l].user = login[l].user
      <4>1. login' = Keep(u)
        BY <2>22 DEF ChangePassword, AdminUpdate
      <4>2. CASE session[u] = None
        BY <4>1, <4>2 DEF Keep, TypeOK
      <4>3. CASE session[u] # None
        <5>1. login' = [login EXCEPT ![session[u]] = [@ EXCEPT !.kept = TRUE]]
          BY <4>1, <4>3 DEF Keep
        <5>2. QED BY <3>1, <3>3, <4>3, <5>1 DEF TypeOK, LoginState
      <4>4. QED BY <4>2, <4>3
    <3>5. TypeOK'
      BY <2>22, <3>2, <3>4 DEF TypeOK, ChangePassword, AdminUpdate
    <3>6. Locals'
      BY <2>22, <3>4 DEF Locals, ChangePassword, AdminUpdate
    <3>7. QED BY <3>5, <3>6
  <2>18. ASSUME NEW u \in User, RemoveUser(u) PROVE TypeOK' /\ Locals'
    BY <2>18 DEF TypeOK, Locals, RemoveUser
  <2>19. CASE Tick
    BY <2>19, TTLAssumption DEF TTLAssumption, TypeOK, Locals, Tick, Time
  <2>20. CASE UNCHANGED vars
    BY <2>20 DEF TypeOK, Locals, vars
  <2>21. QED
    BY <2>1, <2>2, <2>3, <2>4, <2>5, <2>6, <2>7, <2>8, <2>9, <2>10, <2>11, <2>12,
       <2>13, <2>14, <2>15, <2>16, <2>17, <2>18, <2>19, <2>20, <2>22
       DEF Next, ForgotNext, VerifyNext, ResetNext, LoginNext
<1>3. QED
  BY <1>1, <1>2, PTL DEF Spec

\* Every reachable state has the types TypeOK gives: at most MaxAttempts - 1
\* attempts are ever recorded in a challenge, and every key, row and local is a
\* value the handlers put there.
THEOREM TypeCorrect == Spec => []TypeOK
  BY TypeInvariant, PTL DEF TypeInv

------------------------------------------------------------------------------

\* A verification whose code matched.
Matched(v) == verify[v].matchedAt # NoTime

\* A request has stored its challenge exactly when it is past that section.
StoredInv ==
    \A f \in Forgot :
        forgot[f].storedAt # NoTime
          <=> forgot[f].pc \in {"mail", "cleanup", "done", "failed"}

\* A challenge in Redis is that of the request that stored it under its
\* address, has the lifetime it was given then, and nobody has matched it.
ChallengeInv ==
    \A e \in Email :
        challenge[e] # None =>
            /\ forgot[challenge[e].forgot].storedAt # NoTime
            /\ forgot[challenge[e].forgot].email = e
            /\ forgot[challenge[e].forgot].user = challenge[e].user
            /\ challenge[e].exp = forgot[challenge[e].forgot].storedAt + ChallengeTTL
            /\ \A v \in Verify : Matched(v) => verify[v].challenge # challenge[e].forgot

\* A verification met a stored challenge or none; one that matched did so in
\* time and took over the address and the account of the challenge.
VerifyInv ==
    \A v \in Verify :
        /\ verify[v].pc = "idle" => verify[v].challenge = None /\ ~Matched(v)
        /\ verify[v].challenge # None => forgot[verify[v].challenge].storedAt # NoTime
        /\ verify[v].pc \in {"recheck", "store", "issued"} => Matched(v)
        /\ Matched(v) =>
             /\ verify[v].challenge # None
             /\ forgot[verify[v].challenge].email = verify[v].email
             /\ forgot[verify[v].challenge].user = verify[v].user
             /\ verify[v].matchedAt <= forgot[verify[v].challenge].storedAt + ChallengeTTL

\* No two verifications match the same challenge.
MatchInv ==
    \A v, w \in Verify :
        Matched(v) /\ Matched(w) /\ verify[v].challenge = verify[w].challenge => v = w

Lifecycle == StoredInv /\ ChallengeInv /\ VerifyInv /\ MatchInv

\* A reset request past GETDEL.
Consumed(r) == reset[r].pc \in {"update", "revoke", "done", "updateFailed", "revokeFailed"}

\* A token exists only for a verification that responded, a reset holds only
\* such a token, and a consumed token is gone and belongs to one reset.
SingleUse ==
    /\ \A v \in Verify : token[v] # None => verify[v].pc = "issued"
    /\ \A r \in Reset :
         reset[r].token \in Verify =>
            /\ verify[reset[r].token].pc = "issued"
            /\ Consumed(r) => token[reset[r].token] = None
    /\ \A r, s \in Reset :
         /\ Consumed(r) /\ reset[r].token \in Verify
         /\ Consumed(s) /\ reset[s].token = reset[r].token
         => r = s

\* A stored refresh token names a finished login of its account.
SessionInv ==
    \A u \in User :
        session[u] # None => login[session[u]].pc = "done" /\ login[session[u]].user = u

\* A step that keeps what stored requests, challenges and verifications say
\* keeps the lifecycle.
LEMMA LifecycleFrame ==
    ASSUME TypeInv, Lifecycle, StoredInv',
           challenge' = challenge, verify' = verify,
           \A f \in Forgot : forgot'[f].storedAt = forgot[f].storedAt,
           \A f \in Forgot : forgot[f].storedAt # NoTime =>
              forgot'[f].email = forgot[f].email /\ forgot'[f].user = forgot[f].user
    PROVE  Lifecycle'
<1>1. \A e \in Email : challenge[e] # None => challenge[e].forgot \in Forgot
  BY DEF TypeInv, TypeOK, Challenge
<1>2. \A v \in Verify : verify[v].challenge # None => verify[v].challenge \in Forgot
  BY DEF TypeInv, TypeOK, VerifyState
<1>3. ChallengeInv'
  BY <1>1 DEF Lifecycle, ChallengeInv, Matched
<1>4. VerifyInv'
  BY <1>2 DEF Lifecycle, VerifyInv, Matched
<1>5. MatchInv'
  BY DEF Lifecycle, MatchInv, Matched
<1>6. QED BY <1>3, <1>4, <1>5 DEF Lifecycle

\* The life of a challenge, from the request that stored it to the one
\* verification that may match it.
THEOREM LifecycleInvariant == Spec => []Lifecycle
<1>1. Init => Lifecycle
  BY DEF Init, Lifecycle, StoredInv, ChallengeInv, VerifyInv, MatchInv, Matched, NoTime
<1>2. TypeInv /\ Lifecycle /\ [Next]_vars => Lifecycle'
  <2> SUFFICES ASSUME TypeInv, Lifecycle, [Next]_vars PROVE Lifecycle'
    OBVIOUS
  <2>0. /\ now \in Nat /\ now # NoTime
        /\ \A e \in Email : challenge[e] # None => challenge[e] \in Challenge
        /\ \A f \in Forgot : forgot[f] \in ForgotState
        /\ \A v \in Verify : verify[v] \in VerifyState
    BY DEF TypeInv, TypeOK, Time, NoTime
  <2>1. ASSUME NEW f \in Forgot,
               \/ \E e \in Email : ForgotClaim(f, e) \/ ForgotRefused(f, e)
               \/ ForgotLookup(f) \/ ForgotQueued(f) \/ ForgotQueueFails(f)
        PROVE  Lifecycle'
    <3>1. challenge' = challenge /\ verify' = verify
      BY <2>1 DEF ForgotClaim, ForgotRefused, ForgotLookup, ForgotQueued, ForgotQueueFails
    <3>2. \A g \in Forgot : g # f => forgot'[g] = forgot[g]
      BY <2>1 DEF TypeInv, TypeOK, ForgotClaim, ForgotRefused, ForgotLookup, ForgotQueued,
                  ForgotQueueFails
    <3>3. /\ forgot'[f].storedAt = forgot[f].storedAt
          /\ \/ /\ forgot[f].pc = "mail" /\ forgot'[f].pc \in {"done", "cleanup"}
                /\ forgot'[f].email = forgot[f].email /\ forgot'[f].user = forgot[f].user
             \/ /\ forgot[f].pc \in {"idle", "lookup"}
                /\ forgot'[f].pc \in {"lookup", "refused", "store"}
      <4>1. ASSUME NEW e \in Email, ForgotClaim(f, e) PROVE <3>3!:
        BY <2>0, <4>1 DEF TypeInv, TypeOK, ForgotState, ForgotClaim
      <4>2. ASSUME NEW e \in Email, ForgotRefused(f, e) PROVE <3>3!:
        BY <2>0, <4>2 DEF TypeInv, TypeOK, ForgotState, ForgotRefused
      <4>3. CASE ForgotLookup(f)
        <5>1. forgot[f].pc = "lookup"
          BY <4>3 DEF ForgotLookup
        <5>2. ASSUME NEW u \in User,
                     forgot' = [forgot EXCEPT ![f] = [@ EXCEPT !.pc = "store", !.user = u]]
              PROVE  <3>3!:
          BY <2>0, <5>1, <5>2 DEF TypeInv, TypeOK, ForgotState
        <5>3. CASE forgot' = [forgot EXCEPT ![f].pc = "refused"]
          BY <2>0, <5>1, <5>3 DEF TypeInv, TypeOK, ForgotState
        <5>4. QED BY <4>3, <5>2, <5>3 DEF ForgotLookup
      <4>4. CASE ForgotQueued(f) \/ ForgotQueueFails(f)
        BY <2>0, <4>4 DEF TypeInv, TypeOK, ForgotState, ForgotQueued, ForgotQueueFails
      <4>5. QED BY <2>1, <4>1, <4>2, <4>3, <4>4
    <3>4. CASE forgot[f].pc = "mail"
      <4>1. /\ forgot'[f].pc \in {"done", "cleanup"}
            /\ forgot'[f].email = forgot[f].email /\ forgot'[f].user = forgot[f].user
        BY <3>3, <3>4
      <4>2. StoredInv'
        BY <3>2, <3>3, <3>4, <4>1 DEF Lifecycle, StoredInv
      <4>3. QED BY <3>1, <3>2, <3>3, <4>1, <4>2, LifecycleFrame
    <3>5. CASE forgot[f].pc # "mail"
      <4>1. /\ forgot[f].pc \in {"idle", "lookup"}
            /\ forgot'[f].pc \in {"lookup", "refused", "store"}
        BY <3>3, <3>5
      <4>2. forgot[f].storedAt = NoTime
        BY <4>1 DEF Lifecycle, StoredInv
      <4>3. StoredInv'
        BY <3>2, <3>3, <4>1, <4>2 DEF Lifecycle, StoredInv
      <4>4. QED BY <3>1, <3>2, <3>3, <4>2, <4>3, LifecycleFrame
    <3>6. QED BY <3>4, <3>5
  <2>2. ASSUME NEW f \in Forgot, ForgotStore(f) PROVE Lifecycle'
    <3>1. /\ forgot[f].pc = "store" /\ forgot[f].storedAt = NoTime
          /\ forgot[f].email \in Email /\ verify' = verify
      BY <2>2 DEF ForgotStore, Lifecycle, StoredInv, TypeInv, Locals
    <3>2. forgot' = [forgot EXCEPT ![f] = [@ EXCEPT !.pc = "mail", !.storedAt = now]]
      BY <2>2 DEF ForgotStore
    <3>3. /\ \A g \in Forgot \ {f} : forgot'[g] = forgot[g]
          /\ forgot'[f].pc = "mail" /\ forgot'[f].storedAt = now
          /\ forgot'[f].email = forgot[f].email /\ forgot'[f].user = forgot[f].user
      BY <2>0, <3>2 DEF TypeInv, TypeOK, ForgotState
    <3>4. PICK c \in Code : challenge' = [challenge EXCEPT ![forgot[f].email] =
             [forgot |-> f, code |-> c, user |-> forgot[f].user,
              attempts |-> 0, exp |-> now + ChallengeTTL]]
      BY <2>2 DEF ForgotStore
    <3>5. StoredInv'
      BY <2>0, <3>1, <3>3 DEF Lifecycle, StoredInv
    <3>6. \A v \in Verify : verify[v].challenge # f
      BY <3>1, NoneAssumption DEF Lifecycle, VerifyInv, NoneAssumption
    <3>7. \A e \in Email : challenge[e] # None => challenge[e].forgot \in Forgot \ {f}
      BY <2>0, <3>1 DEF Lifecycle, ChallengeInv, Challenge
    <3>8. ChallengeInv'
      <4> SUFFICES ASSUME NEW e \in Email, challenge'[e] # None
                   PROVE  /\ forgot'[challenge'[e].forgot].storedAt # NoTime
                          /\ forgot'[challenge'[e].forgot].email = e
                          /\ forgot'[challenge'[e].forgot].user = challenge'[e].user
                          /\ challenge'[e].exp
                               = forgot'[challenge'[e].forgot].storedAt + ChallengeTTL
                          /\ \A v \in Verify : Matched(v)'
                                => verify'[v].challenge # challenge'[e].forgot
        BY DEF ChallengeInv
      <4>1. CASE e = forgot[f].email
        <5>1. challenge'[e] = [forgot |-> f, code |-> c, user |-> forgot[f].user,
                               attempts |-> 0, exp |-> now + ChallengeTTL]
          BY <3>4, <4>1 DEF TypeInv, TypeOK
        <5>2. QED BY <2>0, <3>1, <3>3, <3>6, <4>1, <5>1
      <4>2. CASE e # forgot[f].email
        <5>1. challenge'[e] = challenge[e]
          BY <3>4, <4>2 DEF TypeInv, TypeOK
        <5>2. QED BY <3>1, <3>3, <3>7, <5>1 DEF Lifecycle, ChallengeInv, Matched
      <4>3. QED BY <4>1, <4>2
    <3>9. VerifyInv'
      <4>1. \A v \in Verify : verify[v].challenge # None
                                 => verify[v].challenge \in Forgot \ {f}
        BY <2>0, <3>6 DEF VerifyState
      <4>2. QED BY <3>1, <3>3, <4>1 DEF Lifecycle, VerifyInv, Matched
    <3>10. MatchInv'
      BY <3>1 DEF Lifecycle, MatchInv, Matched
    <3>11. QED BY <3>5, <3>8, <3>9, <3>10 DEF Lifecycle
  <2>3. ASSUME NEW f \in Forgot, ForgotCleanup(f) PROVE Lifecycle'
    <3>1. /\ verify' = verify /\ forgot[f].pc = "cleanup"
          /\ forgot' = [forgot EXCEPT ![f].pc = "failed"]
          /\ challenge' = [challenge EXCEPT ![forgot[f].email] = None]
      BY <2>3 DEF ForgotCleanup
    <3>2. /\ \A g \in Forgot : /\ forgot'[g].storedAt = forgot[g].storedAt
                               /\ forgot'[g].email = forgot[g].email
                               /\ forgot'[g].user = forgot[g].user
          /\ \A g \in Forgot \ {f} : forgot'[g].pc = forgot[g].pc
          /\ forgot'[f].pc = "failed"
      BY <2>0, <3>1 DEF TypeInv, TypeOK, ForgotState
    <3>3. StoredInv'
      BY <3>1, <3>2 DEF Lifecycle, StoredInv
    <3>4. \A e \in Email : challenge'[e] # None
                               => challenge'[e] = challenge[e] /\ challenge[e] # None
      BY <3>1 DEF TypeInv, TypeOK
    <3>5. ChallengeInv'
      <4>1. \A e \in Email : challenge[e] # None => challenge[e].forgot \in Forgot
        BY <2>0 DEF Challenge
      <4>2. QED BY <3>1, <3>2, <3>4, <4>1 DEF Lifecycle, ChallengeInv, Matched
    <3>6. VerifyInv'
      <4>1. \A v \in Verify : verify[v].challenge # None => verify[v].challenge \in Forgot
        BY <2>0 DEF VerifyState
      <4>2. QED BY <3>1, <3>2, <4>1 DEF Lifecycle, VerifyInv, Matched
    <3>7. MatchInv'
      BY <3>1 DEF Lifecycle, MatchInv, Matched
    <3>8. QED BY <3>3, <3>5, <3>6, <3>7 DEF Lifecycle
  <2>4. ASSUME NEW v \in Verify, NEW e \in Email, NEW c \in Code, VerifyMatches(v, e, c)
        PROVE  Lifecycle'
    <3> DEFINE f == challenge[e].forgot
    <3>1. /\ challenge[e] # None /\ challenge[e] \in Challenge /\ f \in Forgot
          /\ now <= challenge[e].exp /\ forgot' = forgot /\ verify[v].pc = "idle"
      BY <2>0, <2>4 DEF VerifyMatches, Served, Live, Challenge
    <3>2. /\ \A w \in Verify \ {v} : verify'[w] = verify[w]
          /\ verify'[v].pc = "recheck" /\ verify'[v].email = e
          /\ verify'[v].user = challenge[e].user /\ verify'[v].challenge = f
          /\ verify'[v].matchedAt = now
      BY <2>0, <2>4 DEF VerifyMatches, TypeInv, TypeOK, VerifyState
    <3>3. /\ challenge'[e] = None
          /\ \A d \in Email \ {e} : challenge'[d] = challenge[d]
      BY <2>4 DEF VerifyMatches, TypeInv, TypeOK
    <3>4. /\ forgot[f].storedAt # NoTime /\ forgot[f].email = e
          /\ forgot[f].user = challenge[e].user
          /\ challenge[e].exp = forgot[f].storedAt + ChallengeTTL
          /\ \A w \in Verify : Matched(w) => verify[w].challenge # f
      BY <3>1 DEF Lifecycle, ChallengeInv
    <3>5. f # None
      BY <3>1, NoneAssumption DEF NoneAssumption
    <3>6. StoredInv'
      BY <3>1 DEF Lifecycle, StoredInv
    <3>7. ChallengeInv'
      <4>1. \A d \in Email \ {e} : challenge[d] # None => challenge[d].forgot # f
        BY <3>4 DEF Lifecycle, ChallengeInv
      <4>2. QED BY <3>1, <3>2, <3>3, <4>1 DEF Lifecycle, ChallengeInv, Matched
    <3>8. VerifyInv'
      BY <2>0, <3>1, <3>2, <3>4, <3>5 DEF Lifecycle, VerifyInv, Matched
    <3>9. MatchInv'
      BY <3>2, <3>4 DEF Lifecycle, MatchInv, Matched
    <3>10. QED BY <3>6, <3>7, <3>8, <3>9 DEF Lifecycle
  <2>5. ASSUME NEW v \in Verify, NEW e \in Email, NEW c \in Code, VerifyWrongCode(v, e, c)
        PROVE  Lifecycle'
    <3> DEFINE f == challenge[e].forgot
    <3>1. /\ challenge[e] # None /\ challenge[e] \in Challenge /\ f \in Forgot
          /\ forgot' = forgot /\ verify[v].pc = "idle"
      BY <2>0, <2>5 DEF VerifyWrongCode, Served, Challenge
    <3>2. /\ \A w \in Verify \ {v} : verify'[w] = verify[w]
          /\ verify'[v].pc = "rejected" /\ verify'[v].challenge = f
          /\ verify'[v].matchedAt = verify[v].matchedAt
      BY <2>0, <2>5 DEF VerifyWrongCode, TypeInv, TypeOK, VerifyState
    <3>3. /\ challenge'[e] = AfterWrongCode(challenge[e])
          /\ \A d \in Email \ {e} : challenge'[d] = challenge[d]
      BY <2>5 DEF VerifyWrongCode, TypeInv, TypeOK
    <3>4. challenge'[e] # None =>
             /\ challenge'[e].forgot = f
             /\ challenge'[e].user = challenge[e].user
             /\ challenge'[e].exp = challenge[e].exp
      BY <2>0, <3>1, <3>3 DEF AfterWrongCode, Challenge
    <3>5. ~Matched(v) /\ ~Matched(v)'
      BY <3>1, <3>2 DEF Lifecycle, VerifyInv, Matched
    <3>6. forgot[f].storedAt # NoTime
      BY <3>1 DEF Lifecycle, ChallengeInv
    <3>7. StoredInv'
      BY <3>1 DEF Lifecycle, StoredInv
    <3>8. ChallengeInv'
      BY <3>1, <3>2, <3>3, <3>4, <3>5 DEF Lifecycle, ChallengeInv, Matched
    <3>9. VerifyInv'
      BY <3>1, <3>2, <3>5, <3>6 DEF Lifecycle, VerifyInv, Matched
    <3>10. MatchInv'
      BY <3>2, <3>5 DEF Lifecycle, MatchInv, Matched
    <3>11. QED BY <3>7, <3>8, <3>9, <3>10 DEF Lifecycle
  <2>6. ASSUME NEW v \in Verify,
               \/ \E e \in Email : VerifyNoChallenge(v, e)
               \/ VerifyRecheck(v) \/ VerifyStore(v)
        PROVE  Lifecycle'
    <3>1. forgot' = forgot /\ challenge' = challenge
      BY <2>6 DEF VerifyNoChallenge, VerifyRecheck, VerifyStore
    <3>2. /\ \A w \in Verify \ {v} : verify'[w] = verify[w]
          /\ verify'[v].challenge = verify[v].challenge
          /\ verify'[v].matchedAt = verify[v].matchedAt
          /\ verify[v].pc # "idle" => verify'[v].email = verify[v].email
          /\ verify'[v].user = verify[v].user
          /\ verify'[v].pc # "idle"
          /\ verify[v].pc = "idle" => verify'[v].pc = "rejected"
      <4>1. CASE \E e \in Email : VerifyNoChallenge(v, e)
        BY <2>0, <4>1 DEF VerifyNoChallenge, TypeInv, TypeOK, VerifyState
      <4>2. CASE VerifyRecheck(v)
        <5>1. verify[v].pc = "recheck"
          BY <4>2 DEF VerifyRecheck
        <5>2. CASE verify' = [verify EXCEPT ![v] =
                     [@ EXCEPT !.pc = "store", !.jwtExp = now + TokenTTL]]
          BY <2>0, <5>1, <5>2 DEF TypeInv, TypeOK, VerifyState
        <5>3. CASE verify' = [verify EXCEPT ![v].pc = "rejected"]
          BY <2>0, <5>1, <5>3 DEF TypeInv, TypeOK, VerifyState
        <5>4. QED BY <4>2, <5>2, <5>3 DEF VerifyRecheck
      <4>3. CASE VerifyStore(v)
        BY <2>0, <4>3 DEF VerifyStore, TypeInv, TypeOK, VerifyState
      <4>4. QED BY <2>6, <4>1, <4>2, <4>3
    <3>3. \A w \in Verify : Matched(w)' = Matched(w) /\ verify'[w].challenge = verify[w].challenge
      BY <3>2 DEF Matched
    <3>4. verify'[v].pc \in {"recheck", "store", "issued"} => Matched(v)
      BY <2>0, <2>6, <3>2 DEF Lifecycle, VerifyInv, VerifyNoChallenge, VerifyRecheck, VerifyStore
    <3>5. StoredInv' /\ ChallengeInv' /\ MatchInv'
      BY <3>1, <3>3 DEF Lifecycle, StoredInv, ChallengeInv, MatchInv
    <3>6. VerifyInv'
      BY <3>1, <3>2, <3>3, <3>4 DEF Lifecycle, VerifyInv, Matched
    <3>7. QED BY <3>5, <3>6 DEF Lifecycle
  <2>7. CASE UNCHANGED <<forgot, verify, challenge>>
    BY <2>7 DEF Lifecycle, StoredInv, ChallengeInv, VerifyInv, MatchInv, Matched
  <2>8. ASSUME NEW r \in Reset, ResetNext(r) PROVE UNCHANGED <<forgot, verify, challenge>>
    BY <2>8 DEF ResetNext, ResetCheckEmail, ResetCheckPhone, ResetConsume, ResetUpdate,
                ResetUpdateFails, ResetRevoke, ResetRevokeFails
  <2>9. ASSUME NEW l \in Login, LoginNext(l) PROVE UNCHANGED <<forgot, verify, challenge>>
    BY <2>9 DEF LoginNext, LoginValidate, LoginDetails, LoginStore
  <2>10. ASSUME NEW f \in Forgot, ForgotNext(f) PROVE Lifecycle'
    BY <2>1, <2>2, <2>3, <2>10 DEF ForgotNext
  <2>11. ASSUME NEW v \in Verify, VerifyNext(v) PROVE Lifecycle'
    BY <2>4, <2>5, <2>6, <2>11 DEF VerifyNext
  <2>12. QED
    BY <2>7, <2>8, <2>9, <2>10, <2>11
       DEF Next, vars, PhoneIssue, ChangeEmail, ChangePassword, AdminUpdate, RemoveUser, Tick
<1>3. QED
  BY <1>1, <1>2, TypeInvariant, PTL DEF Spec

\* A code opens the door only during ChallengeTTL after it was stored: wrong
\* attempts in between do not prolong its life (PSETEX with the rest of it).
THEOREM HonouredInTime == Spec => []CodeHonouredInTime
<1>1. Lifecycle => CodeHonouredInTime
  BY DEF Lifecycle, VerifyInv, CodeHonouredInTime, Matched
<1>2. QED BY <1>1, LifecycleInvariant, PTL

\* GETDEL hands each token to one reset request.
THEOREM SingleUseInvariant == Spec => []SingleUse
<1>1. Init => SingleUse
  BY NoneAssumption DEF NoneAssumption, Init, SingleUse, Consumed
<1>2. TypeInv /\ Lifecycle /\ SingleUse /\ [Next]_vars => SingleUse'
  <2> SUFFICES ASSUME TypeInv, SingleUse, [Next]_vars PROVE SingleUse'
    OBVIOUS
  <2>0. /\ \A v \in Verify : verify[v] \in VerifyState
        /\ \A r \in Reset : reset[r] \in ResetState
    BY DEF TypeInv, TypeOK
  <2>1. ASSUME NEW v \in Verify, VerifyNext(v) PROVE SingleUse'
    <3>1. reset' = reset /\ \A w \in Verify \ {v} : verify'[w] = verify[w] /\ token'[w] = token[w]
      BY <2>1 DEF VerifyNext, VerifyNoChallenge, VerifyMatches, VerifyWrongCode,
                  VerifyRecheck, VerifyStore, TypeInv, TypeOK
    <3>2. verify[v].pc # "issued"
      BY <2>1 DEF VerifyNext, VerifyNoChallenge, VerifyMatches, VerifyWrongCode,
                  VerifyRecheck, VerifyStore
    <3>3. \A r \in Reset : reset[r].token # v
      BY <3>2 DEF SingleUse
    <3>4. token[v] = None
      BY <3>2 DEF SingleUse
    <3>5. token'[v] # None => verify'[v].pc = "issued"
      <4>1. CASE VerifyStore(v)
        BY <2>0, <4>1 DEF VerifyStore, TypeInv, TypeOK, VerifyState
      <4>2. CASE ~VerifyStore(v)
        BY <2>1, <3>4, <4>2 DEF VerifyNext, VerifyNoChallenge, VerifyMatches,
                                VerifyWrongCode, VerifyRecheck
      <4>3. QED BY <4>1, <4>2
    <3>6. QED
      BY <3>1, <3>3, <3>5 DEF SingleUse, Consumed
  <2>2. ASSUME NEW r \in Reset, NEW v \in Verify, ResetCheckEmail(r, v) PROVE SingleUse'
    <3>1. /\ verify' = verify /\ token' = token /\ verify[v].pc = "issued"
          /\ reset'[r].pc = "consume" /\ reset'[r].token = v
          /\ \A s \in Reset \ {r} : reset'[s] = reset[s]
      BY <2>2 DEF ResetCheckEmail, TypeInv, TypeOK
    <3>2. QED BY <3>1 DEF SingleUse, Consumed
  <2>3. ASSUME NEW r \in Reset, NEW p \in PhoneVerify, ResetCheckPhone(r, p) PROVE SingleUse'
    <3>1. /\ verify' = verify /\ token' = token /\ reset'[r].token = p
          /\ \A s \in Reset \ {r} : reset'[s] = reset[s]
      BY <2>3 DEF ResetCheckPhone, TypeInv, TypeOK
    <3>2. p \notin Verify
      BY RouteAssumption DEF RouteAssumption
    <3>3. QED BY <3>1, <3>2 DEF SingleUse, Consumed
  <2>4. ASSUME NEW r \in Reset, ResetConsume(r) PROVE SingleUse'
    <3> DEFINE v == reset[r].token
    <3>1. v \in Verify /\ verify' = verify
      BY <2>4 DEF ResetConsume, TypeInv, Locals
    <3>2. /\ token'[v] = None
          /\ \A w \in Verify : token'[w] # None => token'[w] = token[w]
      BY <2>4, <3>1 DEF ResetConsume, TypeInv, TypeOK
    <3>3. /\ \A s \in Reset : reset'[s].token = reset[s].token
          /\ \A s \in Reset \ {r} : Consumed(s)' = Consumed(s)
          /\ Consumed(r)' => token[v] # None
      BY <2>0, <2>4 DEF ResetConsume, TypeInv, TypeOK, ResetState, Consumed
    <3>4. \A s \in Reset \ {r} : Consumed(s) /\ reset[s].token \in Verify
                                   => token'[reset[s].token] = None
      BY <3>2 DEF SingleUse
    <3>5. \A s \in Reset \ {r} : Consumed(r)' /\ Consumed(s) => reset[s].token # v
      BY <3>1, <3>3 DEF SingleUse
    <3>6. QED
      BY <3>1, <3>2, <3>3, <3>4, <3>5 DEF SingleUse
  <2>5. ASSUME NEW r \in Reset,
               ResetUpdate(r) \/ ResetUpdateFails(r) \/ ResetRevoke(r) \/ ResetRevokeFails(r)
        PROVE  SingleUse'
    <3>1. /\ verify' = verify /\ token' = token
          /\ \A s \in Reset : reset'[s].token = reset[s].token /\ Consumed(s)' = Consumed(s)
      BY <2>0, <2>5 DEF ResetUpdate, ResetUpdateFails, ResetRevoke, ResetRevokeFails,
                        TypeInv, TypeOK, ResetState, Consumed
    <3>2. QED BY <3>1 DEF SingleUse
  <2>6. CASE UNCHANGED <<verify, token, reset>>
    BY <2>6 DEF SingleUse, Consumed
  <2>7. ASSUME NEW f \in Forgot, ForgotNext(f) PROVE UNCHANGED <<verify, token, reset>>
    BY <2>7 DEF ForgotNext, ForgotClaim, ForgotRefused, ForgotLookup, ForgotStore,
                ForgotQueued, ForgotQueueFails, ForgotCleanup
  <2>8. ASSUME NEW l \in Login, LoginNext(l) PROVE UNCHANGED <<verify, token, reset>>
    BY <2>8 DEF LoginNext, LoginValidate, LoginDetails, LoginStore
  <2>9. QED
    BY <2>1, <2>2, <2>3, <2>4, <2>5, <2>6, <2>7, <2>8
       DEF Next, ResetNext, vars, PhoneIssue, ChangeEmail, ChangePassword, AdminUpdate,
           RemoveUser, Tick
<1>3. QED
  BY <1>1, <1>2, TypeInvariant, LifecycleInvariant, PTL DEF Spec

\* One mailed code changes at most one password, once: the script consumes the
\* challenge, GETDEL consumes the token it bought.
THEOREM ChangesPasswordOnce == Spec => []CodeChangesPasswordOnce
<1>1. Lifecycle /\ SingleUse => CodeChangesPasswordOnce
  BY DEF Lifecycle, VerifyInv, MatchInv, SingleUse, Consumed, Wrote, CodeChangesPasswordOnce
<1>2. QED BY <1>1, LifecycleInvariant, SingleUseInvariant, PTL

\* A token is signed only for the account that holds the address the code was
\* mailed to, and that held it when the code was made.
THEOREM MailboxHolder == Spec => TokenOnlyForMailboxHolder
<1>1. TypeInv /\ Lifecycle /\ [Next]_vars =>
        [\A v \in Verify :
           verify'[v].jwtExp # verify[v].jwtExp =>
              LET f == verify[v].challenge
              IN  /\ verify[v].user = forgot[f].user
                  /\ users[forgot[f].user] # None
                  /\ users[forgot[f].user].email = forgot[f].email]_vars
  <2> SUFFICES ASSUME TypeInv, Lifecycle, [Next]_vars,
                      NEW v \in Verify, verify'[v].jwtExp # verify[v].jwtExp
               PROVE  /\ verify[v].user = forgot[verify[v].challenge].user
                      /\ users[forgot[verify[v].challenge].user] # None
                      /\ users[forgot[verify[v].challenge].user].email
                           = forgot[verify[v].challenge].email
    OBVIOUS
  <2>1. \A w \in Verify : verify[w] \in VerifyState
    BY DEF TypeInv, TypeOK
  <2>2. verify' # verify
    OBVIOUS
  <2>3. PICK w \in Verify : VerifyNext(w)
    <3>1. ASSUME NEW f \in Forgot, ForgotNext(f) PROVE verify' = verify
      BY <3>1 DEF ForgotNext, ForgotClaim, ForgotRefused, ForgotLookup, ForgotStore,
                  ForgotQueued, ForgotQueueFails, ForgotCleanup
    <3>2. ASSUME NEW r \in Reset, ResetNext(r) PROVE verify' = verify
      BY <3>2 DEF ResetNext, ResetCheckEmail, ResetCheckPhone, ResetConsume, ResetUpdate,
                  ResetUpdateFails, ResetRevoke, ResetRevokeFails
    <3>3. ASSUME NEW l \in Login, LoginNext(l) PROVE verify' = verify
      BY <3>3 DEF LoginNext, LoginValidate, LoginDetails, LoginStore
    <3>4. QED
      BY <2>2, <3>1, <3>2, <3>3
         DEF Next, vars, PhoneIssue, ChangeEmail, ChangePassword, AdminUpdate, RemoveUser, Tick
  <2>4. CASE VerifyRecheck(w) /\ Eligible(w)
    <3>1. v = w /\ verify[v].pc = "recheck"
      BY <2>4 DEF VerifyRecheck, TypeInv, TypeOK
    <3>2. users[verify[v].user] # None /\ users[verify[v].user].email = verify[v].email
      BY <2>4, <3>1 DEF Eligible, HoldsEmail
    <3>3. /\ forgot[verify[v].challenge].user = verify[v].user
          /\ forgot[verify[v].challenge].email = verify[v].email
      BY <3>1 DEF Lifecycle, VerifyInv
    <3>4. QED BY <3>2, <3>3
  <2>5. CASE ~(VerifyRecheck(w) /\ Eligible(w))
    <3>1. \A x \in Verify : verify'[x].jwtExp = verify[x].jwtExp
      <4>1. CASE VerifyRecheck(w)
        <5>1. verify' = [verify EXCEPT ![w].pc = "rejected"]
          BY <2>5, <4>1 DEF VerifyRecheck
        <5>2. QED BY <2>1, <5>1 DEF TypeInv, TypeOK, VerifyState
      <4>2. ASSUME NEW e \in Email, VerifyNoChallenge(w, e)
            PROVE \A x \in Verify : verify'[x].jwtExp = verify[x].jwtExp
        BY <2>1, <4>2 DEF VerifyNoChallenge, TypeInv, TypeOK, VerifyState
      <4>3. ASSUME NEW e \in Email, NEW c \in Code, VerifyMatches(w, e, c)
            PROVE \A x \in Verify : verify'[x].jwtExp = verify[x].jwtExp
        BY <2>1, <4>3 DEF VerifyMatches, TypeInv, TypeOK, VerifyState
      <4>4. ASSUME NEW e \in Email, NEW c \in Code, VerifyWrongCode(w, e, c)
            PROVE \A x \in Verify : verify'[x].jwtExp = verify[x].jwtExp
        BY <2>1, <4>4 DEF VerifyWrongCode, TypeInv, TypeOK, VerifyState
      <4>5. CASE VerifyStore(w)
        BY <2>1, <4>5 DEF VerifyStore, TypeInv, TypeOK, VerifyState
      <4>6. QED BY <2>3, <4>1, <4>2, <4>3, <4>4, <4>5 DEF VerifyNext
    <3>2. QED BY <3>1
  <2>6. QED BY <2>4, <2>5
<1>2. QED
  BY <1>1, TypeInvariant, LifecycleInvariant, PTL DEF Spec, TokenOnlyForMailboxHolder

\* A stored refresh token names a finished login of its account, made with the
\* account's password unless a new password overtook that login, a reset is
\* about to delete the token or could not, or the holder or an administrator
\* replaced the password while the token was there.
THEOREM SurvivingSession == Spec => [](SessionInv /\ SurvivingSessionIsCurrent)
<1> DEFINE Sess == SessionInv /\ SurvivingSessionIsCurrent
<1>1. Init => Sess
  BY DEF Init, SessionInv, SurvivingSessionIsCurrent
<1>2. TypeInv /\ Sess /\ [Next]_vars => Sess'
  <2> SUFFICES ASSUME TypeInv, SessionInv, SurvivingSessionIsCurrent, [Next]_vars
               PROVE  SessionInv' /\ SurvivingSessionIsCurrent'
    OBVIOUS
  <2>0. /\ \A l \in Login : login[l] \in LoginState
        /\ \A r \in Reset : reset[r] \in ResetState
        /\ \A u \in User : session[u] # None => session[u] \in Login
    BY DEF TypeInv, TypeOK
  <2>1. ASSUME NEW l \in Login, LoginNext(l) PROVE SessionInv' /\ SurvivingSessionIsCurrent'
    <3>1. users' = users /\ reset' = reset
          /\ \A m \in Login \ {l} : login'[m] = login[m]
      BY <2>1 DEF LoginNext, LoginValidate, LoginDetails, LoginStore, TypeInv, TypeOK
    <3>2. login[l].pc # "done"
      BY <2>1 DEF LoginNext, LoginValidate, LoginDetails, LoginStore
    <3>3. \A u \in User : session[u] # l
      BY <2>0, <3>2, NoneAssumption DEF SessionInv, NoneAssumption
    <3>4. CASE session' = session
      BY <2>0, <3>1, <3>3, <3>4 DEF SessionInv, SurvivingSessionIsCurrent, Unrevoked
    <3>5. CASE LoginStore(l)
      <4> DEFINE u == login[l].user
      <4>1. u \in User
        BY <3>5 DEF LoginStore, TypeInv, Locals
      <4>2. /\ session'[u] = l /\ \A w \in User \ {u} : session'[w] = session[w]
            /\ login'[l].pc = "done" /\ login'[l].user = u
            /\ login'[l].password = login[l].password
            /\ login'[l].stale = (users[u] # None /\ users[u].password # login[l].password)
        BY <2>0, <3>5, <4>1 DEF LoginStore, TypeInv, TypeOK, LoginState
      <4>3. SessionInv'
        BY <2>0, <3>1, <3>3, <4>1, <4>2 DEF SessionInv
      <4>4. ASSUME NEW w \in User, users[w] # None, session'[w] # None,
                   ~login'[session'[w]].stale, ~login'[session'[w]].kept, ~Unrevoked(w)
            PROVE  login'[session'[w]].password = users[w].password
        <5>1. CASE w = u
          BY <4>2, <4>4, <5>1
        <5>2. CASE w # u
          <6>1. session'[w] = session[w] /\ session[w] \in Login \ {l}
            BY <2>0, <3>3, <4>2, <4>4, <5>2
          <6>2. login'[session[w]] = login[session[w]]
            BY <3>1, <6>1
          <6>3. QED BY <4>4, <6>1, <6>2 DEF SurvivingSessionIsCurrent
        <5>3. QED BY <5>1, <5>2
      <4>6. SurvivingSessionIsCurrent'
        BY <3>1, <4>4 DEF SurvivingSessionIsCurrent, Unrevoked
      <4>7. QED BY <4>3, <4>6
    <3>6. QED
      BY <2>1, <3>4, <3>5 DEF LoginNext, LoginValidate, LoginDetails
  <2>2. ASSUME NEW r \in Reset, ResetUpdate(r) PROVE SessionInv' /\ SurvivingSessionIsCurrent'
    <3>1. /\ session' = session /\ login' = login /\ reset[r].user \in User
          /\ \A u \in User \ {reset[r].user} : users'[u] = users[u]
      BY <2>2 DEF ResetUpdate, TypeInv, TypeOK, Locals
    <3>2. /\ reset'[r].pc = "revoke" /\ reset'[r].user = reset[r].user
          /\ \A s \in Reset \ {r} : reset'[s] = reset[s]
          /\ reset[r].pc = "update"
      BY <2>0, <2>2 DEF ResetUpdate, TypeInv, TypeOK, ResetState
    <3>3. \A u \in User : u = reset[r].user => Unrevoked(u)'
      BY <3>2 DEF Unrevoked
    <3>4. \A u \in User : Unrevoked(u) => Unrevoked(u)'
      BY <3>2 DEF Unrevoked
    <3>5. SessionInv'
      BY <3>1 DEF SessionInv
    <3>6. ASSUME NEW w \in User, users'[w] # None, session'[w] # None,
                 ~login'[session'[w]].stale, ~login'[session'[w]].kept, ~Unrevoked(w)'
          PROVE  login'[session'[w]].password = users'[w].password
      <4>1. w # reset[r].user /\ ~Unrevoked(w)
        BY <3>3, <3>4, <3>6
      <4>2. users'[w] = users[w]
        BY <3>1, <4>1
      <4>3. QED BY <3>1, <3>6, <4>1, <4>2 DEF SurvivingSessionIsCurrent
    <3>7. QED BY <3>5, <3>6 DEF SurvivingSessionIsCurrent
  <2>3. ASSUME NEW r \in Reset, ResetRevoke(r) PROVE SessionInv' /\ SurvivingSessionIsCurrent'
    <3>1. /\ login' = login /\ users' = users /\ reset[r].user \in User
          /\ session'[reset[r].user] = None
          /\ \A u \in User \ {reset[r].user} : session'[u] = session[u]
      BY <2>3 DEF ResetRevoke, TypeInv, TypeOK, Locals
    <3>2. \A s \in Reset \ {r} : reset'[s] = reset[s]
      BY <2>3 DEF ResetRevoke, TypeInv, TypeOK
    <3>3. \A u \in User \ {reset[r].user} : Unrevoked(u) => Unrevoked(u)'
      BY <3>2 DEF Unrevoked
    <3>4. QED BY <3>1, <3>3 DEF SessionInv, SurvivingSessionIsCurrent
  <2>4. ASSUME NEW r \in Reset,
               \/ \E v \in Verify : ResetCheckEmail(r, v)
               \/ \E p \in PhoneVerify : ResetCheckPhone(r, p)
               \/ ResetConsume(r) \/ ResetUpdateFails(r) \/ ResetRevokeFails(r)
        PROVE  SessionInv' /\ SurvivingSessionIsCurrent'
    <3>1. /\ session' = session /\ login' = login /\ users' = users
          /\ \A s \in Reset \ {r} : reset'[s] = reset[s]
      BY <2>4 DEF ResetCheckEmail, ResetCheckPhone, ResetConsume, ResetUpdateFails,
                  ResetRevokeFails, TypeInv, TypeOK
    <3>2. reset[r].pc \in {"revoke", "revokeFailed"}
            => reset'[r].pc \in {"revoke", "revokeFailed"} /\ reset'[r].user = reset[r].user
      BY <2>0, <2>4 DEF ResetCheckEmail, ResetCheckPhone, ResetConsume, ResetUpdateFails,
                  ResetRevokeFails, TypeInv, TypeOK, ResetState
    <3>3. \A u \in User : Unrevoked(u) => Unrevoked(u)'
      BY <3>1, <3>2 DEF Unrevoked
    <3>4. QED BY <3>1, <3>3 DEF SessionInv, SurvivingSessionIsCurrent
  <2>5. ASSUME NEW u \in User, (\E e \in Email : ChangeEmail(u, e)) \/ RemoveUser(u)
        PROVE  SessionInv' /\ SurvivingSessionIsCurrent'
    <3>1. session' = session /\ login' = login /\ reset' = reset
      BY <2>5 DEF ChangeEmail, RemoveUser
    <3>2. \A w \in User : users'[w] # None
             => users[w] # None /\ users'[w].password = users[w].password
      <4>1. ASSUME NEW e \in Email, ChangeEmail(u, e) PROVE <3>2!:
        <5>1. users[u] \in UserRow
          BY <4>1 DEF ChangeEmail, TypeInv, TypeOK
        <5>2. QED BY <4>1, <5>1 DEF ChangeEmail, TypeInv, TypeOK, UserRow
      <4>2. CASE RemoveUser(u)
        BY <4>2 DEF RemoveUser, TypeInv, TypeOK
      <4>3. QED BY <2>5, <4>1, <4>2
    <3>3. QED BY <3>1, <3>2 DEF SessionInv, SurvivingSessionIsCurrent, Unrevoked
  <2>11. ASSUME NEW x \in Rewrite, NEW u \in User, NEW e \in Email,
                ChangePassword(x, u, e) \/ AdminUpdate(x, u, e)
         PROVE  SessionInv' /\ SurvivingSessionIsCurrent'
    <3>1. /\ session' = session /\ reset' = reset /\ login' = Keep(u)
          /\ \A w \in User \ {u} : users'[w] = users[w]
      BY <2>11 DEF ChangePassword, AdminUpdate, TypeInv, TypeOK
    <3>2. CASE session[u] = None
      <4>1. login' = login
        BY <3>1, <3>2 DEF Keep
      <4>2. QED BY <3>1, <3>2, <4>1 DEF SessionInv, SurvivingSessionIsCurrent, Unrevoked
    <3>3. CASE session[u] # None
      <4>1. login' = [login EXCEPT ![session[u]] = [@ EXCEPT !.kept = TRUE]]
        BY <3>1, <3>3 DEF Keep
      <4>2. /\ login'[session[u]].kept
            /\ \A l \in Login : /\ login'[l].pc = login[l].pc
                                /\ login'[l].user = login[l].user
                                /\ login'[l].password = login[l].password
                                /\ login'[l].stale = login[l].stale
                                /\ l # session[u] => login'[l] = login[l]
        <5>1. session[u] \in Login /\ login[session[u]] \in LoginState
          BY <2>0, <3>3
        <5>2. login'[session[u]] = [login[session[u]] EXCEPT !.kept = TRUE]
          BY <4>1, <5>1 DEF TypeInv, TypeOK
        <5>3. /\ login'[session[u]].kept
              /\ login'[session[u]].pc = login[session[u]].pc
              /\ login'[session[u]].user = login[session[u]].user
              /\ login'[session[u]].password = login[session[u]].password
              /\ login'[session[u]].stale = login[session[u]].stale
          BY <5>1, <5>2 DEF LoginState
        <5>4. \A l \in Login : l # session[u] => login'[l] = login[l]
          BY <4>1 DEF TypeInv, TypeOK
        <5>5. QED BY <5>3, <5>4
      <4>3. \A w \in User \ {u} : session[w] # None => session[w] # session[u]
        BY <3>3 DEF SessionInv
      <4>4. SessionInv'
        <5> SUFFICES ASSUME NEW w \in User, session[w] # None
                     PROVE  login'[session[w]].pc = "done" /\ login'[session[w]].user = w
          BY <3>1 DEF SessionInv
        <5>1. session[w] \in Login
          BY <2>0
        <5>2. /\ login'[session[w]].pc = login[session[w]].pc
              /\ login'[session[w]].user = login[session[w]].user
          BY <4>2, <5>1
        <5>3. QED BY <5>2 DEF SessionInv
      <4>5. \A w \in User \ {u} : session[w] # None => login'[session[w]] = login[session[w]]
        <5> SUFFICES ASSUME NEW w \in User \ {u}, session[w] # None
                     PROVE  login'[session[w]] = login[session[w]]
          OBVIOUS
        <5>1. session[w] \in Login /\ session[w] # session[u]
          BY <2>0, <4>3
        <5>2. QED BY <4>2, <5>1
      <4>7. SurvivingSessionIsCurrent'
        BY <3>1, <4>2, <4>5 DEF SurvivingSessionIsCurrent, Unrevoked
      <4>6. QED BY <4>4, <4>7
    <3>4. QED BY <3>2, <3>3
  <2>6. CASE UNCHANGED <<users, session, login, reset>>
    BY <2>6 DEF SessionInv, SurvivingSessionIsCurrent, Unrevoked
  <2>7. ASSUME NEW f \in Forgot, ForgotNext(f) PROVE UNCHANGED <<users, session, login, reset>>
    BY <2>7 DEF ForgotNext, ForgotClaim, ForgotRefused, ForgotLookup, ForgotStore,
                ForgotQueued, ForgotQueueFails, ForgotCleanup
  <2>8. ASSUME NEW v \in Verify, VerifyNext(v) PROVE UNCHANGED <<users, session, login, reset>>
    BY <2>8 DEF VerifyNext, VerifyNoChallenge, VerifyMatches, VerifyWrongCode,
                VerifyRecheck, VerifyStore
  <2>9. ASSUME NEW r \in Reset, ResetNext(r) PROVE SessionInv' /\ SurvivingSessionIsCurrent'
    BY <2>2, <2>3, <2>4, <2>9 DEF ResetNext
  <2>10. QED
    BY <2>1, <2>5, <2>6, <2>7, <2>8, <2>9, <2>11 DEF Next, vars, PhoneIssue, Tick
<1>3. QED
  BY <1>1, <1>2, TypeInvariant, PTL DEF Spec

\* The verifications that compared a code with a challenge.
Tried(vs, f) == {v \in Verify : vs[v].challenge = f}

\* The attempts a challenge records are the codes it was compared with.
AttemptInv ==
    /\ \A f \in Forgot : IsFiniteSet(Tried(verify, f)) /\ Cardinality(Tried(verify, f)) <= MaxAttempts
    /\ \A e \in Email : challenge[e] # None
          => Cardinality(Tried(verify, challenge[e].forgot)) = challenge[e].attempts

\* The code of one challenge is compared with what a user typed at most
\* MaxAttempts times, the match included, however the verifications of an
\* address interleave and whenever its challenge is replaced.
THEOREM Attempts == Spec => []AttemptsBounded
<1>0. MaxAttempts \in Nat /\ MaxAttempts > 0
  BY TTLAssumption DEF TTLAssumption
<1>1. Init => AttemptInv
  <2> SUFFICES ASSUME Init PROVE AttemptInv
    OBVIOUS
  <2>1. \A f \in Forgot : Tried(verify, f) = {}
    BY NoneAssumption DEF Init, Tried, NoneAssumption
  <2>2. IsFiniteSet({}) /\ Cardinality({}) = 0
    BY FS_EmptySet
  <2>3. \A e \in Email : challenge[e] = None
    BY DEF Init
  <2>4. QED BY <1>0, <2>1, <2>2, <2>3 DEF AttemptInv
<1>2. TypeInv /\ Lifecycle /\ AttemptInv /\ [Next]_vars => AttemptInv'
  <2> SUFFICES ASSUME TypeInv, Lifecycle, AttemptInv, [Next]_vars PROVE AttemptInv'
    OBVIOUS
  <2>0. /\ \A v \in Verify : verify[v] \in VerifyState
        /\ \A e \in Email : challenge[e] # None
              => challenge[e] \in Challenge /\ challenge[e].forgot \in Forgot
                 /\ challenge[e].attempts \in 0..MaxAttempts - 1
    BY DEF TypeInv, TypeOK, Challenge
  <2>1. ASSUME \A f \in Forgot : Tried(verify', f) = Tried(verify, f),
               \A e \in Email : challenge'[e] # None => challenge[e] # None
                                   /\ challenge'[e] = challenge[e]
        PROVE  AttemptInv'
    <3>1. \A e \in Email : challenge'[e] # None => challenge'[e].forgot \in Forgot
      BY <2>0, <2>1
    <3>2. QED BY <2>1, <3>1 DEF AttemptInv
  <2>2. ASSUME NEW f \in Forgot, ForgotStore(f) PROVE AttemptInv'
    <3>1. /\ verify' = verify /\ forgot[f].storedAt = NoTime /\ forgot[f].email \in Email
      BY <2>2 DEF ForgotStore, Lifecycle, StoredInv, TypeInv, Locals
    <3>2. \A g \in Forgot : Tried(verify', g) = Tried(verify, g)
      BY <3>1 DEF Tried
    <3>3. Tried(verify, f) = {}
      BY <3>1, NoneAssumption DEF Tried, Lifecycle, VerifyInv, NoneAssumption
    <3>4. Cardinality(Tried(verify, f)) = 0
      BY <3>3, FS_EmptySet
    <3>5. ASSUME NEW e \in Email, challenge'[e] # None
          PROVE  Cardinality(Tried(verify', challenge'[e].forgot)) = challenge'[e].attempts
      <4>1. CASE e = forgot[f].email
        <5>1. challenge'[e].forgot = f /\ challenge'[e].attempts = 0
          BY <2>2, <4>1 DEF ForgotStore, TypeInv, TypeOK
        <5>2. QED BY <3>2, <3>4, <5>1
      <4>2. CASE e # forgot[f].email
        <5>1. challenge'[e] = challenge[e]
          BY <2>2, <4>2 DEF ForgotStore, TypeInv, TypeOK
        <5>2. challenge[e] # None /\ challenge[e].forgot \in Forgot
          BY <2>0, <3>5, <5>1
        <5>3. QED BY <3>2, <5>1, <5>2 DEF AttemptInv
      <4>3. QED BY <4>1, <4>2
    <3>6. QED BY <3>2, <3>5 DEF AttemptInv
  <2>3. ASSUME NEW v \in Verify, NEW e \in Email, NEW c \in Code,
               VerifyMatches(v, e, c) \/ VerifyWrongCode(v, e, c)
        PROVE  AttemptInv'
    <3> DEFINE f == challenge[e].forgot
               n == challenge[e].attempts
    <3>1. /\ challenge[e] # None /\ f \in Forgot /\ n \in 0..MaxAttempts - 1
          /\ verify[v].pc = "idle"
      BY <2>0, <2>3 DEF VerifyMatches, VerifyWrongCode, Served
    <3>2. verify[v].challenge = None
      BY <3>1 DEF Lifecycle, VerifyInv
    <3>3. /\ verify'[v].challenge = f
          /\ \A w \in Verify \ {v} : verify'[w] = verify[w]
      BY <2>0, <2>3 DEF VerifyMatches, VerifyWrongCode, TypeInv, TypeOK, VerifyState
    <3>4. \A g \in Forgot \ {f} : Tried(verify', g) = Tried(verify, g)
      BY <3>2, <3>3, NoneAssumption DEF Tried, NoneAssumption
    <3>5. Tried(verify', f) = Tried(verify, f) \cup {v} /\ v \notin Tried(verify, f)
      BY <3>1, <3>2, <3>3, NoneAssumption DEF Tried, NoneAssumption
    <3>6. IsFiniteSet(Tried(verify, f)) /\ Cardinality(Tried(verify, f)) = n
      BY <3>1 DEF AttemptInv
    <3>7. IsFiniteSet(Tried(verify', f)) /\ Cardinality(Tried(verify', f)) = n + 1
      BY <3>5, <3>6, FS_AddElement
    <3>8. \A d \in Email \ {e} : /\ challenge'[d] = challenge[d]
                                 /\ challenge[d] # None => challenge[d].forgot # f
      BY <2>3, <3>1 DEF VerifyMatches, VerifyWrongCode, TypeInv, TypeOK, Lifecycle, ChallengeInv
    <3>9. challenge'[e] # None => challenge'[e].forgot = f /\ challenge'[e].attempts = n + 1
      <4>1. CASE VerifyMatches(v, e, c)
        BY <4>1 DEF VerifyMatches, TypeInv, TypeOK
      <4>2. CASE VerifyWrongCode(v, e, c)
        <5>1. challenge'[e] = AfterWrongCode(challenge[e])
          BY <4>2 DEF VerifyWrongCode, TypeInv, TypeOK
        <5>2. challenge[e] \in Challenge
          BY <2>0, <3>1
        <5>3. QED BY <5>1, <5>2 DEF AfterWrongCode, Challenge
      <4>3. QED BY <2>3, <4>1, <4>2
    <3>10. \A g \in Forgot : IsFiniteSet(Tried(verify', g)) /\ Cardinality(Tried(verify', g)) <= MaxAttempts
      BY <1>0, <3>1, <3>4, <3>7 DEF AttemptInv
    <3>11. ASSUME NEW d \in Email, challenge'[d] # None
           PROVE  Cardinality(Tried(verify', challenge'[d].forgot)) = challenge'[d].attempts
      <4>1. CASE d = e
        BY <3>7, <3>9, <3>11, <4>1
      <4>2. CASE d # e
        <5>1. challenge'[d] = challenge[d] /\ challenge[d].forgot \in Forgot \ {f}
          BY <2>0, <3>8, <3>11, <4>2
        <5>2. Tried(verify', challenge[d].forgot) = Tried(verify, challenge[d].forgot)
          BY <3>4, <3>8, <4>2, <5>1
        <5>3. QED BY <3>11, <5>1, <5>2 DEF AttemptInv
      <4>3. QED BY <4>1, <4>2
    <3>12. QED BY <3>10, <3>11 DEF AttemptInv
  <2>4. ASSUME NEW v \in Verify,
               \/ \E e \in Email : VerifyNoChallenge(v, e)
               \/ VerifyRecheck(v) \/ VerifyStore(v)
        PROVE  AttemptInv'
    <3>1. challenge' = challenge
      BY <2>4 DEF VerifyNoChallenge, VerifyRecheck, VerifyStore
    <3>2. \A w \in Verify : verify'[w].challenge = verify[w].challenge
      <4>1. CASE \E e \in Email : VerifyNoChallenge(v, e)
        BY <2>0, <4>1 DEF VerifyNoChallenge, TypeInv, TypeOK, VerifyState
      <4>2. CASE VerifyRecheck(v)
        <5>1. \/ verify' = [verify EXCEPT ![v] =
                              [@ EXCEPT !.pc = "store", !.jwtExp = now + TokenTTL]]
              \/ verify' = [verify EXCEPT ![v].pc = "rejected"]
          BY <4>2 DEF VerifyRecheck
        <5>2. CASE verify' = [verify EXCEPT ![v] =
                                [@ EXCEPT !.pc = "store", !.jwtExp = now + TokenTTL]]
          BY <2>0, <5>2 DEF TypeInv, TypeOK, VerifyState
        <5>3. CASE verify' = [verify EXCEPT ![v].pc = "rejected"]
          BY <2>0, <5>3 DEF TypeInv, TypeOK, VerifyState
        <5>4. QED BY <5>1, <5>2, <5>3
      <4>3. CASE VerifyStore(v)
        BY <2>0, <4>3 DEF VerifyStore, TypeInv, TypeOK, VerifyState
      <4>4. QED BY <2>4, <4>1, <4>2, <4>3
    <3>3. \A f \in Forgot : Tried(verify', f) = Tried(verify, f)
      BY <3>2 DEF Tried
    <3>4. QED BY <2>1, <3>1, <3>3
  <2>5. CASE verify' = verify /\ \A e \in Email : challenge'[e] # None
                                   => challenge[e] # None /\ challenge'[e] = challenge[e]
    BY <2>1, <2>5 DEF Tried
  <2>6. ASSUME NEW f \in Forgot, ForgotNext(f), ~ForgotStore(f)
        PROVE  verify' = verify /\ \A e \in Email : challenge'[e] # None
                                   => challenge[e] # None /\ challenge'[e] = challenge[e]
    BY <2>6 DEF ForgotNext, ForgotClaim, ForgotRefused, ForgotLookup,
                ForgotQueued, ForgotQueueFails, ForgotCleanup, TypeInv, TypeOK
  <2>7. ASSUME NEW r \in Reset, ResetNext(r) PROVE verify' = verify /\ challenge' = challenge
    BY <2>7 DEF ResetNext, ResetCheckEmail, ResetCheckPhone, ResetConsume, ResetUpdate,
                ResetUpdateFails, ResetRevoke, ResetRevokeFails
  <2>8. ASSUME NEW l \in Login, LoginNext(l) PROVE verify' = verify /\ challenge' = challenge
    BY <2>8 DEF LoginNext, LoginValidate, LoginDetails, LoginStore
  <2>9. ASSUME NEW f \in Forgot, ForgotNext(f) PROVE AttemptInv'
    BY <2>2, <2>5, <2>6, <2>9
  <2>10. ASSUME NEW v \in Verify, VerifyNext(v) PROVE AttemptInv'
    BY <2>3, <2>4, <2>10 DEF VerifyNext
  <2>11. QED
    BY <2>5, <2>7, <2>8, <2>9, <2>10
       DEF Next, vars, PhoneIssue, ChangeEmail, ChangePassword, AdminUpdate, RemoveUser, Tick
<1>3. AttemptInv => AttemptsBounded
  BY DEF AttemptInv, AttemptsBounded, Tried
<1>4. QED
  BY <1>1, <1>2, <1>3, TypeInvariant, LifecycleInvariant, PTL DEF Spec

------------------------------------------------------------------------------
(* The cooldown *)

Claimed(f) == forgot[f].pc \in {"lookup", "store", "mail", "cleanup", "done"}
Broken(e) == \E h \in Forgot : forgot[h].pc = "failed" /\ forgot[h].email = e

\* The slot of an address outlasts the window of whoever took it.
Slots(e) ==
    \A f \in Forgot :
        Claimed(f) /\ forgot[f].email = e =>
            /\ forgot[f].claimedAt \in 0..now
            /\ forgot[f].claimedAt + CooldownTTL <= cooldown[e]
Spaced(e) ==
    \A f, g \in Forgot :
        /\ f # g /\ Claimed(f) /\ Claimed(g)
        /\ forgot[f].email = e /\ forgot[g].email = e
        /\ forgot[f].claimedAt <= forgot[g].claimedAt
        => forgot[f].claimedAt + CooldownTTL < forgot[g].claimedAt

Spacing ==
    /\ \A f \in Forgot : Claimed(f) => forgot[f].email \in Email
    /\ \A e \in Email : Broken(e) \/ (Slots(e) /\ Spaced(e))

LEMMA SpacingKept ==
    ASSUME TypeOK, TypeOK', Spacing, [Next]_vars PROVE Spacing'
\* Only the requests for a code touch the cooldown, and only Tick the clock.
<1>0. ASSUME Next, ~(\E f \in Forgot : ForgotNext(f))
      PROVE  UNCHANGED <<cooldown, forgot>> /\ now' \in {now, now + 1}
  <2>1. ASSUME NEW v \in Verify, VerifyNext(v) PROVE UNCHANGED <<cooldown, forgot, now>>
    BY <2>1 DEF VerifyNext, VerifyNoChallenge, VerifyMatches, VerifyWrongCode,
       VerifyRecheck, VerifyStore
  <2>2. ASSUME NEW r \in Reset, ResetNext(r) PROVE UNCHANGED <<cooldown, forgot, now>>
    BY <2>2 DEF ResetNext, ResetCheckEmail, ResetCheckPhone, ResetConsume, ResetUpdate,
       ResetUpdateFails, ResetRevoke, ResetRevokeFails
  <2>3. ASSUME NEW l \in Login, LoginNext(l) PROVE UNCHANGED <<cooldown, forgot, now>>
    BY <2>3 DEF LoginNext, LoginValidate, LoginDetails, LoginStore
  <2>4. ASSUME NEW u \in User, NEW e \in Email, ChangeEmail(u, e)
        PROVE  UNCHANGED <<cooldown, forgot, now>>
    BY <2>4 DEF ChangeEmail
  <2>5. ASSUME NEW u \in User, RemoveUser(u) PROVE UNCHANGED <<cooldown, forgot, now>>
    BY <2>5 DEF RemoveUser
  <2>6. ASSUME NEW p \in PhoneVerify, NEW u \in User, PhoneIssue(p, u)
        PROVE  UNCHANGED <<cooldown, forgot, now>>
    BY <2>6 DEF PhoneIssue
  <2>7. ASSUME Tick PROVE UNCHANGED <<cooldown, forgot>> /\ now' = now + 1
    BY <2>7 DEF Tick
  <2>8. ASSUME NEW x \in Rewrite, NEW u \in User, NEW e \in Email,
               ChangePassword(x, u, e) \/ AdminUpdate(x, u, e)
        PROVE  UNCHANGED <<cooldown, forgot, now>>
    BY <2>8 DEF ChangePassword, AdminUpdate
  <2> QED BY <1>0, <2>1, <2>2, <2>3, <2>4, <2>5, <2>6, <2>7, <2>8 DEF Next
<1>1. /\ now \in Nat /\ CooldownTTL \in Nat /\ now <= now' /\ now' \in Nat
      /\ forgot \in [Forgot -> ForgotState]
      /\ cooldown \in [Email -> Nat \cup {NoTime}]
  <2>1. ASSUME NEW f \in Forgot, ForgotNext(f) PROVE now' = now
    BY <2>1 DEF ForgotNext, ForgotClaim, ForgotRefused, ForgotLookup, ForgotStore,
       ForgotQueued, ForgotQueueFails, ForgotCleanup
  <2>2. CASE Next /\ ~(\E f \in Forgot : ForgotNext(f))
    BY <1>0, <2>2, TTLAssumption DEF TypeOK, Time
  <2>3. now <= now'
    BY <2>1, <2>2, TTLAssumption DEF TypeOK, Time, vars
  <2> QED BY <2>3, TTLAssumption DEF TypeOK, Time
\* A step of f that claims nothing and leaves the slot.
<1>2. ASSUME NEW f \in Forgot, UNCHANGED cooldown,
             \A g \in Forgot \ {f} : forgot'[g] = forgot[g],
             forgot[f].pc # "failed",
             Claimed(f)' => /\ Claimed(f) /\ forgot'[f].email = forgot[f].email
                            /\ forgot'[f].claimedAt = forgot[f].claimedAt
      PROVE  Spacing'
  <2>1. \A g \in Forgot :
            /\ forgot[g].pc = "failed" => forgot'[g] = forgot[g]
            /\ Claimed(g)' => /\ Claimed(g) /\ forgot'[g].email = forgot[g].email
                              /\ forgot'[g].claimedAt = forgot[g].claimedAt
    BY <1>2 DEF Claimed
  <2>2. \A e \in Email : Broken(e) => Broken(e)' BY <2>1 DEF Broken
  <2>3. \A e \in Email : Slots(e) => Slots(e)' BY <1>1, <1>2, <2>1 DEF Slots
  <2>4. \A e \in Email : Spaced(e) => Spaced(e)' BY <2>1 DEF Spaced
  <2> QED BY <2>1, <2>2, <2>3, <2>4 DEF Spacing
<1>3. CASE UNCHANGED <<cooldown, forgot>>
  <2>1. \A e \in Email : Broken(e) => Broken(e)' BY <1>3 DEF Broken
  <2>2. \A e \in Email : Slots(e) => Slots(e)' BY <1>1, <1>3 DEF Slots, Claimed
  <2>3. \A e \in Email : Spaced(e) => Spaced(e)' BY <1>3 DEF Spaced, Claimed
  <2> QED BY <1>3, <2>1, <2>2, <2>3 DEF Spacing, Claimed
<1>4. ASSUME NEW f \in Forgot, NEW e \in Email, ForgotClaim(f, e) PROVE Spacing'
  <2>1. /\ forgot[f].pc = "idle" /\ now' = now
        /\ \A g \in Forgot \ {f} : forgot'[g] = forgot[g]
        /\ Claimed(f)' /\ forgot'[f].email = e /\ forgot'[f].claimedAt = now
        /\ cooldown'[e] = now + CooldownTTL
        /\ \A d \in Email \ {e} : cooldown'[d] = cooldown[d]
        /\ now > cooldown[e]
    <3>1. /\ forgot[f].pc = "idle" /\ now' = now /\ ~(now <= cooldown[e])
          /\ cooldown' = [cooldown EXCEPT ![e] = now + CooldownTTL]
          /\ forgot' = [forgot EXCEPT ![f] =
                 [@ EXCEPT !.pc = "lookup", !.email = e, !.claimedAt = now]]
      BY <1>4 DEF ForgotClaim, Live
    <3>2. now > cooldown[e] BY <1>1, <3>1 DEF NoTime
    <3>3. /\ cooldown'[e] = now + CooldownTTL
          /\ \A d \in Email \ {e} : cooldown'[d] = cooldown[d]
      BY <1>1, <3>1
    <3>4. /\ forgot'[f] = [forgot[f] EXCEPT !.pc = "lookup", !.email = e, !.claimedAt = now]
          /\ \A g \in Forgot \ {f} : forgot'[g] = forgot[g]
      BY <1>1, <3>1
    <3>5. forgot[f] \in ForgotState BY <1>1
    <3>6. /\ forgot'[f].pc = "lookup" /\ forgot'[f].email = e
          /\ forgot'[f].claimedAt = now
      BY <3>4, <3>5 DEF ForgotState
    <3> QED BY <3>1, <3>2, <3>3, <3>4, <3>6 DEF Claimed
  <2>2. \A d \in Email : Broken(d) => Broken(d)' BY <2>1 DEF Broken
  <2>3. ASSUME NEW d \in Email, d # e, Slots(d), Spaced(d) PROVE Slots(d)' /\ Spaced(d)'
    <3>1. Slots(d)' BY <2>1, <2>3 DEF Slots, Claimed
    <3>2. Spaced(d)' BY <2>1, <2>3 DEF Spaced, Claimed
    <3> QED BY <3>1, <3>2
  <2>4. ASSUME Slots(e), Spaced(e) PROVE Slots(e)' /\ Spaced(e)'
    <3>1. ASSUME NEW g \in Forgot, g # f, Claimed(g)', forgot'[g].email = e
          PROVE  /\ Claimed(g) /\ forgot[g].email = e
                 /\ forgot'[g].claimedAt = forgot[g].claimedAt
                 /\ forgot[g].claimedAt \in 0..now
                 /\ forgot[g].claimedAt + CooldownTTL < now
      <4>1. Claimed(g) /\ forgot[g].email = e /\ forgot'[g] = forgot[g]
        BY <2>1, <3>1 DEF Claimed
      <4>2. /\ forgot[g].claimedAt \in 0..now
            /\ forgot[g].claimedAt + CooldownTTL <= cooldown[e]
        BY <2>4, <4>1 DEF Slots
      <4>3. cooldown[e] \in Nat \cup {NoTime} BY <1>1
      <4> QED BY <1>1, <2>1, <4>1, <4>2, <4>3 DEF NoTime
    <3>2. Slots(e)' BY <1>1, <2>1, <3>1 DEF Slots
    <3>3. ASSUME NEW g \in Forgot, NEW h \in Forgot, g # h, Claimed(g)', Claimed(h)',
                 forgot'[g].email = e, forgot'[h].email = e,
                 forgot'[g].claimedAt <= forgot'[h].claimedAt
          PROVE  forgot'[g].claimedAt + CooldownTTL < forgot'[h].claimedAt
      <4>1. CASE h = f BY <2>1, <3>1, <3>3, <4>1
      <4>2. CASE g = f
        <5>1. forgot'[h].claimedAt \in 0..now /\ forgot'[h].claimedAt + CooldownTTL < now
          BY <3>1, <3>3, <4>2
        <5> QED BY <1>1, <2>1, <3>3, <4>2, <5>1
      <4>3. CASE g # f /\ h # f BY <2>4, <3>1, <3>3, <4>3 DEF Spaced
      <4> QED BY <4>1, <4>2, <4>3
    <3> QED BY <3>2, <3>3 DEF Spaced
  <2>5. \A g \in Forgot : Claimed(g)' => forgot'[g].email \in Email
    BY <2>1 DEF Spacing, Claimed
  <2> QED BY <2>2, <2>3, <2>4, <2>5 DEF Spacing
<1>5. ASSUME NEW f \in Forgot, ForgotCleanup(f) PROVE Spacing'
  <2>1. PICK e : e = forgot[f].email OBVIOUS
  <2>2. /\ forgot[f].pc = "cleanup" /\ now' = now
        /\ \A g \in Forgot \ {f} : forgot'[g] = forgot[g]
        /\ forgot'[f].pc = "failed" /\ forgot'[f].email = e
        /\ \A d \in Email \ {e} : cooldown'[d] = cooldown[d]
    BY <1>1, <1>5, <2>1 DEF ForgotCleanup, ForgotState
  <2>3. Broken(e)' BY <2>2 DEF Broken
  <2>4. \A d \in Email : Broken(d) => Broken(d)' BY <2>2 DEF Broken
  <2>5. ASSUME NEW d \in Email, d # e, Slots(d), Spaced(d) PROVE Slots(d)' /\ Spaced(d)'
    <3>1. Slots(d)' BY <2>2, <2>5 DEF Slots, Claimed
    <3>2. Spaced(d)' BY <2>2, <2>5 DEF Spaced, Claimed
    <3> QED BY <3>1, <3>2
  <2>6. \A g \in Forgot : Claimed(g)' => forgot'[g].email \in Email
    BY <2>2 DEF Spacing, Claimed
  <2> QED BY <2>3, <2>4, <2>5, <2>6 DEF Spacing
<1>6. ASSUME NEW f \in Forgot, NEW e \in Email, ForgotRefused(f, e) PROVE Spacing'
  <2>1. /\ UNCHANGED cooldown /\ forgot[f].pc = "idle" /\ ~Claimed(f)'
        /\ \A g \in Forgot \ {f} : forgot'[g] = forgot[g]
    BY <1>1, <1>6 DEF ForgotRefused, ForgotState, Claimed
  <2> QED BY <1>2, <2>1
<1>7. ASSUME NEW f \in Forgot,
             ForgotLookup(f) \/ ForgotStore(f) \/ ForgotQueued(f) \/ ForgotQueueFails(f)
      PROVE  Spacing'
  <2>1. /\ UNCHANGED cooldown /\ Claimed(f)
        /\ \A g \in Forgot \ {f} : forgot'[g] = forgot[g]
        /\ forgot'[f].email = forgot[f].email
        /\ forgot'[f].claimedAt = forgot[f].claimedAt
    <3>1. CASE ForgotLookup(f) BY <1>1, <3>1 DEF ForgotLookup, ForgotState, Claimed
    <3>2. CASE ForgotStore(f)
      <4>1. /\ UNCHANGED cooldown /\ forgot[f].pc = "store"
            /\ forgot' = [forgot EXCEPT ![f] = [@ EXCEPT !.pc = "mail", !.storedAt = now]]
        BY <3>2 DEF ForgotStore
      <4> QED BY <1>1, <4>1 DEF ForgotState, Claimed
    <3>3. CASE ForgotQueued(f) BY <1>1, <3>3 DEF ForgotQueued, ForgotState, Claimed
    <3>4. CASE ForgotQueueFails(f) BY <1>1, <3>4 DEF ForgotQueueFails, ForgotState, Claimed
    <3> QED BY <1>7, <3>1, <3>2, <3>3, <3>4
  <2> QED BY <1>2, <2>1 DEF Claimed
<1>8. ASSUME NEW f \in Forgot, ForgotNext(f) PROVE Spacing'
  BY <1>4, <1>5, <1>6, <1>7, <1>8 DEF ForgotNext
<1>9. CASE Next /\ ~(\E f \in Forgot : ForgotNext(f))
  <2>1. UNCHANGED <<cooldown, forgot>> BY <1>0, <1>9
  <2> QED BY <1>3, <2>1
<1> QED BY <1>3, <1>8, <1>9 DEF vars

\* Two codes queued for an address were asked for more than the thirty seconds of
\* its cooldown key apart (SET NX EX 30 in forgotPasswordByEmail), unless the
\* catch block of a request gave the slot back.
THEOREM CooldownSpaces == Spec => []CooldownSpacesMails
<1>1. Init => Spacing BY DEF Init, Spacing, Claimed, Slots, Spaced
<1>2. TypeOK /\ TypeOK' /\ Spacing /\ [Next]_vars => Spacing' BY SpacingKept
<1>3. TypeOK /\ Spacing => CooldownSpacesMails
  <2> SUFFICES ASSUME TypeOK, Spacing, NEW f \in Forgot, NEW g \in Forgot, f # g,
                      forgot[f].pc = "done", forgot[g].pc = "done",
                      forgot[f].email = forgot[g].email,
                      forgot[f].claimedAt <= forgot[g].claimedAt,
                      forgot[g].claimedAt <= forgot[f].claimedAt + CooldownTTL,
                      ~Broken(forgot[f].email)
               PROVE  FALSE
    BY DEF CooldownSpacesMails, Broken
  <2>1. PICK e \in Email : e = forgot[f].email BY DEF Spacing, Claimed
  <2>2. Slots(e) /\ Spaced(e) BY <2>1 DEF Spacing
  <2>3. /\ forgot[f].claimedAt + CooldownTTL < forgot[g].claimedAt
        /\ forgot[f].claimedAt \in 0..now /\ forgot[g].claimedAt \in 0..now
    BY <2>1, <2>2 DEF Slots, Spaced, Claimed
  <2>4. now \in Nat BY TTLAssumption DEF TypeOK, Time
  <2> QED BY <2>3, <2>4, TTLAssumption
<1> QED BY <1>1, <1>2, <1>3, TypeCorrect, PTL DEF Spec

------------------------------------------------------------------------------
(* The refinement of OneTimeCode *)

\* What Grant asks of a request.
IsStored(f) == forgot[f].storedAt # NoTime
IsOpen(f) == \E e \in Email : challenge[e] # None /\ challenge[e].forgot = f
IsSpent(f) == \E r \in Reset : /\ Wrote(r) /\ reset[r].token \in Verify
                               /\ verify[reset[r].token].challenge = f
IsClaimed(f) == \E v \in Verify : verify[v].challenge = f /\ verify[v].matchedAt # NoTime

LifeInv == TypeInv /\ Lifecycle /\ SingleUse

\* A code is in one of these states at a time: an open one is not claimed, and a
\* spent one has been.
LEMMA Exclusive ==
    ASSUME LifeInv, NEW f \in Forgot
    PROVE  /\ IsOpen(f) => IsStored(f) /\ ~IsClaimed(f)
           /\ IsSpent(f) => IsClaimed(f)
           /\ IsClaimed(f) => IsStored(f)
<1>1. IsOpen(f) => IsStored(f) /\ ~IsClaimed(f)
  BY DEF LifeInv, Lifecycle, ChallengeInv, Matched, IsOpen, IsStored, IsClaimed
<1>2. IsSpent(f) => IsClaimed(f)
  BY DEF LifeInv, SingleUse, Lifecycle, VerifyInv, Matched, IsSpent, IsClaimed
<1>3. IsClaimed(f) => IsStored(f)
  BY NoneAssumption DEF LifeInv, Lifecycle, VerifyInv, Matched, IsClaimed, IsStored
<1> QED BY <1>1, <1>2, <1>3

\* The four answers determine the state.
LEMMA GrantOf ==
    /\ Grant \in [Forgot -> Abstract!States]
    /\ \A f \in Forgot :
         Grant[f] = IF ~IsStored(f) THEN "unissued" ELSE IF IsOpen(f) THEN "open"
                    ELSE IF IsSpent(f) THEN "spent" ELSE IF IsClaimed(f) THEN "claimed"
                    ELSE "void"
<1>1. Grant = [f \in Forgot |->
                 IF ~IsStored(f) THEN "unissued" ELSE IF IsOpen(f) THEN "open"
                 ELSE IF IsSpent(f) THEN "spent" ELSE IF IsClaimed(f) THEN "claimed"
                 ELSE "void"]
  BY DEF Grant, IsStored, IsOpen, IsSpent, IsClaimed
<1> QED BY <1>1 DEF Abstract!States

LEMMA GrantOfNext ==
    /\ Grant' \in [Forgot -> Abstract!States]
    /\ \A f \in Forgot :
         Grant'[f] = IF ~IsStored(f)' THEN "unissued" ELSE IF IsOpen(f)' THEN "open"
                     ELSE IF IsSpent(f)' THEN "spent" ELSE IF IsClaimed(f)' THEN "claimed"
                     ELSE "void"
<1>1. Grant' = [f \in Forgot |->
                 IF ~IsStored(f)' THEN "unissued" ELSE IF IsOpen(f)' THEN "open"
                 ELSE IF IsSpent(f)' THEN "spent" ELSE IF IsClaimed(f)' THEN "claimed"
                 ELSE "void"]
  BY DEF Grant, IsStored, IsOpen, IsSpent, IsClaimed
<1> QED BY <1>1 DEF Abstract!States

\* A step that changes none of the answers is a stutter; one that changes those of
\* g alone changes Grant at g alone.
LEMMA GrantKept ==
    ASSUME NEW f \in Forgot, IsStored(f)' = IsStored(f), IsOpen(f)' = IsOpen(f),
           IsSpent(f)' = IsSpent(f), IsClaimed(f)' = IsClaimed(f)
    PROVE  Grant'[f] = Grant[f]
BY GrantOf, GrantOfNext

\* Storing the challenge of f opens its code, and voids the one of the address.
LEMMA StoreIssues ==
    ASSUME LifeInv, NEW f \in Forgot, ForgotStore(f) PROVE Abstract!Issue(f)
<1> DEFINE e == forgot[f].email
<1>0. /\ forgot[f] \in ForgotState /\ forgot[f].pc = "store" /\ e \in Email
      /\ ~IsStored(f) /\ verify' = verify /\ reset' = reset
      /\ challenge[e] \in Challenge \cup {None} /\ now \in Nat
  BY TTLAssumption
     DEF LifeInv, TypeInv, TypeOK, Locals, Lifecycle, StoredInv, ForgotStore, IsStored, Time
<1>1. /\ challenge'[e] # None /\ challenge'[e].forgot = f
      /\ \A d \in Email \ {e} : challenge'[d] = challenge[d]
  <2>1. PICK c \in Code :
           challenge' = [challenge EXCEPT ![e] =
              [forgot |-> f, code |-> c, user |-> forgot[f].user,
               attempts |-> 0, exp |-> now + ChallengeTTL]]
    BY DEF ForgotStore
  <2> DEFINE ch == [forgot |-> f, code |-> c, user |-> forgot[f].user,
                    attempts |-> 0, exp |-> now + ChallengeTTL]
  <2>2. challenge \in [Email -> Challenge \cup {None}] BY DEF LifeInv, TypeInv, TypeOK
  <2>3. ch.forgot = f /\ ch \in Challenge
    <3>1. forgot[f].user \in User BY <1>0 DEF LifeInv, TypeInv, Locals
    <3>2. 0 \in 0..MaxAttempts - 1 /\ now + ChallengeTTL \in Nat BY <1>0, TTLAssumption
    <3> QED BY <2>1, <3>1, <3>2 DEF Challenge
  <2>4. challenge'[e] = ch /\ \A d \in Email \ {e} : challenge'[d] = challenge[d]
    BY <1>0, <2>1, <2>2
  <2> HIDE DEF ch
  <2> QED BY <2>3, <2>4, NoneIsNoKey
<1>2. IsStored(f)' /\ \A g \in Forgot \ {f} : IsStored(g)' = IsStored(g)
  BY <1>0, TTLAssumption DEF ForgotStore, ForgotState, IsStored, NoTime, LifeInv, TypeInv, TypeOK
<1>3. \A g \in Forgot : IsSpent(g)' = IsSpent(g) /\ IsClaimed(g)' = IsClaimed(g)
  BY <1>0 DEF IsSpent, IsClaimed, Wrote
<1>4. IsOpen(f)' BY <1>0, <1>1 DEF IsOpen
<1>5. \A g \in Forgot \ {f} :
         /\ challenge[e] # None /\ challenge[e].forgot = g => IsOpen(g) /\ ~IsOpen(g)'
         /\ ~(challenge[e] # None /\ challenge[e].forgot = g) => IsOpen(g)' = IsOpen(g)
  <2> SUFFICES ASSUME NEW g \in Forgot, g # f
               PROVE  /\ challenge[e] # None /\ challenge[e].forgot = g => IsOpen(g) /\ ~IsOpen(g)'
                      /\ ~(challenge[e] # None /\ challenge[e].forgot = g) => IsOpen(g)' = IsOpen(g)
    OBVIOUS
  <2>1. \A d \in Email \ {e} : ~(challenge[e] # None /\ challenge[e].forgot = g
                                  /\ challenge[d] # None /\ challenge[d].forgot = g)
    BY <1>0 DEF LifeInv, Lifecycle, ChallengeInv
  <2> QED BY <1>0, <1>1, <2>1 DEF IsOpen
<1>6. Grant[f] = "unissued" /\ Grant'[f] = "open"
  BY <1>0, <1>2, <1>4, GrantOf, GrantOfNext
<1> DEFINE S == {g \in Forgot : challenge[e] # None /\ challenge[e].forgot = g}
<1>7. S \in {{}} \cup {{g} : g \in Forgot} /\ f \notin S
  <2>1. f \notin S
    BY <1>0 DEF LifeInv, Lifecycle, ChallengeInv, IsStored
  <2>2. CASE challenge[e] = None
    <3>1. S = {} BY <2>2
    <3> QED BY <2>1, <3>1
  <2>3. CASE challenge[e] # None
    <3>1. challenge[e].forgot \in Forgot BY <1>0, <2>3 DEF Challenge
    <3>2. S = {challenge[e].forgot} BY <2>3, <3>1
    <3>3. S \in {{g} : g \in Forgot} BY <3>1, <3>2
    <3> QED BY <2>1, <3>3
  <2> QED BY <2>2, <2>3
<1>8. \A g \in S : Grant[g] = "open" /\ Grant'[g] = "void"
  <2> SUFFICES ASSUME NEW g \in S PROVE Grant[g] = "open" /\ Grant'[g] = "void"
    OBVIOUS
  <2>1. g \in Forgot \ {f} /\ IsOpen(g) /\ ~IsOpen(g)' BY <1>5, <1>7
  <2>2. IsStored(g) /\ ~IsClaimed(g) /\ ~IsSpent(g) BY <2>1, Exclusive
  <2> QED BY <1>2, <1>3, <2>1, <2>2, GrantOf, GrantOfNext
<1>9. \A g \in Forgot \ {f} : g \notin S => Grant'[g] = Grant[g]
  <2> SUFFICES ASSUME NEW g \in Forgot \ {f}, g \notin S PROVE Grant'[g] = Grant[g]
    OBVIOUS
  <2> QED BY <1>2, <1>3, <1>5, GrantKept
<1> HIDE DEF S
<1>10. Grant' = [g \in Forgot |-> IF g = f THEN "open" ELSE IF g \in S THEN "void" ELSE Grant[g]]
  BY <1>6, <1>7, <1>8, <1>9, GrantOfNext
<1> QED BY <1>6, <1>7, <1>8, <1>10 DEF Abstract!Issue

\* A code that leaves Redis unmatched is revoked: the challenge of d is gone, and
\* nothing was matched.
LEMMA DropRevokes ==
    ASSUME LifeInv, NEW d \in Email, challenge[d] # None, challenge'[d] = None,
           \A e \in Email \ {d} : challenge'[e] = challenge[e],
           \A f \in Forgot : /\ IsStored(f)' = IsStored(f)
                             /\ IsSpent(f)' = IsSpent(f) /\ IsClaimed(f)' = IsClaimed(f)
    PROVE  \E f \in Forgot : Abstract!Revoke(f)
<1>1. PICK f \in Forgot : f = challenge[d].forgot
  BY DEF LifeInv, TypeInv, TypeOK, Challenge
<1>2. IsOpen(f) /\ ~IsOpen(f)'
  BY <1>1 DEF LifeInv, Lifecycle, ChallengeInv, IsOpen
<1>3. \A g \in Forgot \ {f} : IsOpen(g)' = IsOpen(g) BY <1>1 DEF IsOpen
<1>4. IsStored(f) /\ ~IsClaimed(f) /\ ~IsSpent(f) BY <1>2, Exclusive
<1>5. Grant[f] = "open" /\ Grant'[f] = "void" BY <1>2, <1>4, GrantOf, GrantOfNext
<1>6. \A g \in Forgot \ {f} : Grant'[g] = Grant[g]
  <2> SUFFICES ASSUME NEW g \in Forgot \ {f} PROVE Grant'[g] = Grant[g]
    OBVIOUS
  <2> QED BY <1>3, GrantKept
<1>7. Grant' = [Grant EXCEPT ![f] = "void"] BY <1>5, <1>6, GrantOf, GrantOfNext
<1> QED BY <1>5, <1>7 DEF Abstract!Revoke

\* The match claims the code.
LEMMA MatchClaims ==
    ASSUME LifeInv, NEW v \in Verify, NEW e \in Email, NEW c \in Code, VerifyMatches(v, e, c)
    PROVE  \E f \in Forgot : Abstract!Claim(f)
<1>1. /\ challenge[e] # None /\ challenge'[e] = None
      /\ \A d \in Email \ {e} : challenge'[d] = challenge[d]
      /\ verify[v].pc = "idle" /\ forgot' = forgot /\ reset' = reset
      /\ \A w \in Verify \ {v} : verify'[w] = verify[w]
  BY DEF VerifyMatches, Served, LifeInv, TypeInv, TypeOK
<1>2. PICK f \in Forgot : f = challenge[e].forgot
  BY <1>1 DEF LifeInv, TypeInv, TypeOK, Challenge
<1>3. verify'[v].challenge = f /\ verify'[v].matchedAt # NoTime
  <2>1. verify' = [verify EXCEPT ![v] =
           [@ EXCEPT !.pc = "recheck", !.email = e, !.user = challenge[e].user,
                     !.challenge = challenge[e].forgot, !.matchedAt = now]]
    BY DEF VerifyMatches
  <2>2. verify[v] \in VerifyState /\ verify \in [Verify -> VerifyState] /\ now \in Nat
    BY TTLAssumption DEF LifeInv, TypeInv, TypeOK, Time
  <2> QED BY <1>2, <2>1, <2>2 DEF VerifyState, NoTime
<1>4. IsOpen(f) /\ ~IsOpen(f)'
  BY <1>1, <1>2 DEF LifeInv, Lifecycle, ChallengeInv, IsOpen
<1>5. IsStored(f) /\ IsStored(f)' /\ ~IsClaimed(f) /\ ~IsSpent(f) /\ IsClaimed(f)'
  BY <1>1, <1>3, <1>4, Exclusive DEF IsStored, IsClaimed
<1>6. \A g \in Forgot : IsSpent(g)' = IsSpent(g)
  BY <1>1 DEF LifeInv, SingleUse, IsSpent, Wrote
<1>7. \A g \in Forgot \ {f} : /\ IsStored(g)' = IsStored(g) /\ IsOpen(g)' = IsOpen(g)
                              /\ IsClaimed(g)' = IsClaimed(g)
  <2> SUFFICES ASSUME NEW g \in Forgot, g # f
               PROVE  /\ IsStored(g)' = IsStored(g) /\ IsOpen(g)' = IsOpen(g)
                      /\ IsClaimed(g)' = IsClaimed(g)
    OBVIOUS
  <2>1. verify[v].matchedAt = NoTime
    BY <1>1 DEF LifeInv, Lifecycle, VerifyInv, Matched
  <2> QED BY <1>1, <1>2, <1>3, <2>1 DEF IsStored, IsOpen, IsClaimed
<1>8. Grant[f] = "open" /\ Grant'[f] = "claimed"
  BY <1>4, <1>5, <1>6, GrantOf, GrantOfNext
<1>9. \A g \in Forgot \ {f} : Grant'[g] = Grant[g]
  <2> SUFFICES ASSUME NEW g \in Forgot \ {f} PROVE Grant'[g] = Grant[g]
    OBVIOUS
  <2> QED BY <1>6, <1>7, GrantKept
<1>10. Grant' = [Grant EXCEPT ![f] = "claimed"] BY <1>8, <1>9, GrantOf, GrantOfNext
<1> QED BY <1>8, <1>10 DEF Abstract!Claim

\* A verification that matches nothing leaves what is spent and what is claimed.
LEMMA MissKeeps ==
    ASSUME LifeInv, NEW v \in Verify, UNCHANGED <<forgot, reset>>,
           \A w \in Verify \ {v} : verify'[w] = verify[w],
           \/ verify[v].pc = "idle" /\ verify'[v].matchedAt = NoTime
           \/ /\ verify'[v].challenge = verify[v].challenge
              /\ verify'[v].matchedAt = verify[v].matchedAt
    PROVE  \A f \in Forgot : /\ IsStored(f)' = IsStored(f)
                             /\ IsSpent(f)' = IsSpent(f) /\ IsClaimed(f)' = IsClaimed(f)
<1>1. \A f \in Forgot : IsStored(f)' = IsStored(f) BY DEF IsStored
<1>2. verify[v].pc = "idle" =>
         verify[v].matchedAt = NoTime /\ \A r \in Reset : reset[r].token # v
  BY DEF LifeInv, Lifecycle, VerifyInv, Matched, SingleUse
<1>3. \A f \in Forgot : IsSpent(f)' = IsSpent(f) BY <1>2 DEF IsSpent, Wrote
<1>4. \A f \in Forgot : IsClaimed(f)' = IsClaimed(f) BY <1>2 DEF IsClaimed
<1> QED BY <1>1, <1>3, <1>4

\* A wrong code revokes the one it was compared with, or nothing.
LEMMA MissRevokes ==
    ASSUME LifeInv, NEW v \in Verify, NEW e \in Email, NEW c \in Code, VerifyWrongCode(v, e, c)
    PROVE  (\E f \in Forgot : Abstract!Revoke(f)) \/ Grant' = Grant
<1>1. /\ challenge[e] # None /\ challenge'[e] = AfterWrongCode(challenge[e])
      /\ \A d \in Email \ {e} : challenge'[d] = challenge[d]
      /\ verify[v].pc = "idle" /\ UNCHANGED <<forgot, reset>>
      /\ \A w \in Verify \ {v} : verify'[w] = verify[w]
  BY DEF VerifyWrongCode, Served, LifeInv, TypeInv, TypeOK
<1>2. verify'[v].matchedAt = NoTime
  <2>1. verify'[v] = [verify[v] EXCEPT !.pc = "rejected", !.email = e,
                                       !.challenge = challenge[e].forgot]
    BY DEF VerifyWrongCode, LifeInv, TypeInv, TypeOK
  <2>2. verify[v] \in VerifyState BY DEF LifeInv, TypeInv, TypeOK
  <2>3. verify[v].matchedAt = NoTime BY <1>1 DEF LifeInv, Lifecycle, VerifyInv, Matched
  <2> QED BY <2>1, <2>2, <2>3 DEF VerifyState
<1>3. \A f \in Forgot : /\ IsStored(f)' = IsStored(f)
                        /\ IsSpent(f)' = IsSpent(f) /\ IsClaimed(f)' = IsClaimed(f)
  BY <1>1, <1>2, MissKeeps
<1>4. CASE challenge'[e] = None BY <1>1, <1>3, <1>4, DropRevokes
<1>5. CASE challenge'[e] # None
  <2>1. challenge[e] \in Challenge BY <1>1 DEF LifeInv, TypeInv, TypeOK
  <2>2. challenge'[e].forgot = challenge[e].forgot
    BY <1>1, <1>5, <2>1 DEF AfterWrongCode, Challenge
  <2>3. \A f \in Forgot : IsOpen(f)' = IsOpen(f) BY <1>1, <1>5, <2>2 DEF IsOpen
  <2>4. \A f \in Forgot : Grant'[f] = Grant[f]
    <3> SUFFICES ASSUME NEW f \in Forgot PROVE Grant'[f] = Grant[f]
      OBVIOUS
    <3> QED BY <1>3, <2>3, GrantKept
  <2> QED BY <2>4, GrantOf, GrantOfNext
<1> QED BY <1>4, <1>5

\* A new password spends the code its token was bought with; one bought by SMS
\* spends none.
LEMMA UpdateSpends ==
    ASSUME LifeInv, NEW r \in Reset, ResetUpdate(r)
    PROVE  (\E f \in Forgot : Abstract!Spend(f)) \/ Grant' = Grant
<1>1. /\ reset[r].pc = "update" /\ reset'[r].pc = "revoke" /\ reset'[r].token = reset[r].token
      /\ \A q \in Reset \ {r} : reset'[q] = reset[q]
      /\ UNCHANGED <<forgot, verify, challenge>>
  BY DEF ResetUpdate, ResetState, LifeInv, TypeInv, TypeOK
<1>2. \A f \in Forgot : /\ IsStored(f)' = IsStored(f) /\ IsOpen(f)' = IsOpen(f)
                        /\ IsClaimed(f)' = IsClaimed(f)
  BY <1>1 DEF IsStored, IsOpen, IsClaimed
<1>3. CASE reset[r].token \notin Verify
  <2>1. \A f \in Forgot : IsSpent(f)' = IsSpent(f) BY <1>1, <1>3 DEF IsSpent, Wrote
  <2>2. \A f \in Forgot : Grant'[f] = Grant[f]
    <3> SUFFICES ASSUME NEW f \in Forgot PROVE Grant'[f] = Grant[f]
      OBVIOUS
    <3> QED BY <1>2, <2>1, GrantKept
  <2> QED BY <2>2, GrantOf, GrantOfNext
<1>4. CASE reset[r].token \in Verify
  <2> DEFINE v == reset[r].token
  <2>1. verify[v].pc = "issued" /\ verify[v].matchedAt # NoTime /\ verify[v].challenge # None
    BY <1>4 DEF LifeInv, SingleUse, Lifecycle, VerifyInv, Matched
  <2>2. PICK f \in Forgot : f = verify[v].challenge
    BY <1>4, <2>1 DEF LifeInv, TypeInv, TypeOK, VerifyState
  <2>3. IsClaimed(f) /\ IsSpent(f)' BY <1>1, <1>4, <2>1, <2>2 DEF IsClaimed, IsSpent, Wrote
  <2>4. ~IsSpent(f)
    <3> SUFFICES ASSUME NEW q \in Reset, Wrote(q), reset[q].token \in Verify,
                        verify[reset[q].token].challenge = f
                 PROVE  FALSE
      BY DEF IsSpent
    <3>1. Matched(v) /\ Matched(reset[q].token)
      BY <2>1 DEF LifeInv, SingleUse, Lifecycle, VerifyInv, Matched
    <3>2. reset[q].token = v BY <1>4, <2>2, <3>1 DEF LifeInv, Lifecycle, MatchInv
    <3>3. q = r BY <1>1, <1>4, <3>2 DEF LifeInv, SingleUse, Consumed, Wrote
    <3> QED BY <1>1, <3>3 DEF Wrote
  <2>5. IsStored(f) /\ ~IsOpen(f) BY <2>3, Exclusive
  <2>6. Grant[f] = "claimed" /\ Grant'[f] = "spent"
    BY <1>2, <2>3, <2>4, <2>5, GrantOf, GrantOfNext
  <2>7. \A g \in Forgot \ {f} : IsSpent(g)' = IsSpent(g)
    BY <1>1, <2>2 DEF IsSpent, Wrote
  <2>8. \A g \in Forgot \ {f} : Grant'[g] = Grant[g]
    <3> SUFFICES ASSUME NEW g \in Forgot \ {f} PROVE Grant'[g] = Grant[g]
      OBVIOUS
    <3> QED BY <1>2, <2>7, GrantKept
  <2>9. Grant' = [Grant EXCEPT ![f] = "spent"] BY <2>6, <2>8, GrantOf, GrantOfNext
  <2> QED BY <2>6, <2>9 DEF Abstract!Spend
<1> QED BY <1>3, <1>4

\* What leaves the challenges, the matches and the passwords written alone is a stutter.
LEMMA StepStutters ==
    ASSUME LifeInv, UNCHANGED challenge,
           \A f \in Forgot : forgot'[f].storedAt = forgot[f].storedAt,
           \A v \in Verify : /\ verify'[v].challenge = verify[v].challenge
                             /\ verify'[v].matchedAt = verify[v].matchedAt,
           \A r \in Reset : /\ Wrote(r)' = Wrote(r)
                            /\ Wrote(r) => reset'[r].token = reset[r].token
    PROVE  Grant' = Grant
<1>1. \A f \in Forgot : Grant'[f] = Grant[f]
  <2> SUFFICES ASSUME NEW f \in Forgot PROVE Grant'[f] = Grant[f]
    OBVIOUS
  <2>1. IsStored(f)' = IsStored(f) /\ IsOpen(f)' = IsOpen(f) BY DEF IsStored, IsOpen
  <2>2. IsClaimed(f)' = IsClaimed(f) BY DEF IsClaimed
  <2>3. IsSpent(f)' = IsSpent(f) BY DEF IsSpent
  <2> QED BY <2>1, <2>2, <2>3, GrantKept
<1> QED BY <1>1, GrantOf, GrantOfNext

\* Every step is one of the abstract life or a stutter.
LEMMA StepSimulates ==
    ASSUME LifeInv, [Next]_vars PROVE [Abstract!Next]_Grant
<1>0. /\ forgot \in [Forgot -> ForgotState] /\ verify \in [Verify -> VerifyState]
      /\ reset \in [Reset -> ResetState] /\ challenge \in [Email -> Challenge \cup {None}]
  BY DEF LifeInv, TypeInv, TypeOK
<1>1. ASSUME NEW f \in Forgot, ForgotStore(f) PROVE Abstract!Next
  BY <1>1, StoreIssues DEF Abstract!Next
<1>2. ASSUME NEW f \in Forgot, ForgotCleanup(f) PROVE [Abstract!Next]_Grant
  <2> DEFINE e == forgot[f].email
  <2>1. /\ e \in Email /\ challenge'[e] = None
        /\ \A d \in Email \ {e} : challenge'[d] = challenge[d]
        /\ challenge[e] = None => challenge' = challenge
        /\ UNCHANGED <<verify, reset>>
    BY <1>0, <1>2 DEF ForgotCleanup, LifeInv, TypeInv, Locals
  <2>2. \A g \in Forgot : forgot'[g].storedAt = forgot[g].storedAt
    BY <1>0, <1>2 DEF ForgotCleanup, ForgotState
  <2>3. CASE challenge[e] = None
    BY <2>1, <2>2, <2>3, StepStutters DEF Wrote
  <2>4. CASE challenge[e] # None
    <3>1. \A g \in Forgot : /\ IsStored(g)' = IsStored(g)
                            /\ IsSpent(g)' = IsSpent(g) /\ IsClaimed(g)' = IsClaimed(g)
      BY <2>1, <2>2 DEF IsStored, IsSpent, IsClaimed, Wrote
    <3> QED BY <2>1, <2>4, <3>1, DropRevokes DEF Abstract!Next
  <2> QED BY <2>3, <2>4
<1>3. ASSUME NEW f \in Forgot,
             \/ \E e \in Email : ForgotClaim(f, e) \/ ForgotRefused(f, e)
             \/ ForgotLookup(f) \/ ForgotQueued(f) \/ ForgotQueueFails(f)
      PROVE  Grant' = Grant
  <2>1. UNCHANGED <<challenge, verify, reset>>
    BY <1>3 DEF ForgotClaim, ForgotRefused, ForgotLookup, ForgotQueued, ForgotQueueFails
  <2>2. \A g \in Forgot : forgot'[g].storedAt = forgot[g].storedAt
    <3>1. CASE \E e \in Email : ForgotClaim(f, e)
      BY <1>0, <3>1 DEF ForgotClaim, ForgotState
    <3>2. CASE \E e \in Email : ForgotRefused(f, e)
      BY <1>0, <3>2 DEF ForgotRefused, ForgotState
    <3>3. CASE ForgotLookup(f)
      <4>1. \/ forgot' = [forgot EXCEPT ![f].pc = "refused"]
            \/ \E u \in User : forgot' = [forgot EXCEPT ![f] =
                                             [@ EXCEPT !.pc = "store", !.user = u]]
        BY <3>3 DEF ForgotLookup
      <4>2. CASE forgot' = [forgot EXCEPT ![f].pc = "refused"]
        BY <1>0, <4>2 DEF ForgotState
      <4>3. CASE \E u \in User : forgot' = [forgot EXCEPT ![f] =
                                               [@ EXCEPT !.pc = "store", !.user = u]]
        BY <1>0, <4>3 DEF ForgotState
      <4> QED BY <4>1, <4>2, <4>3
    <3>4. CASE ForgotQueued(f) BY <1>0, <3>4 DEF ForgotQueued, ForgotState
    <3>5. CASE ForgotQueueFails(f) BY <1>0, <3>5 DEF ForgotQueueFails, ForgotState
    <3> QED BY <1>3, <3>1, <3>2, <3>3, <3>4, <3>5
  <2> QED BY <2>1, <2>2, StepStutters DEF Wrote
<1>4. ASSUME NEW v \in Verify, NEW e \in Email, NEW c \in Code, VerifyMatches(v, e, c)
      PROVE  Abstract!Next
  BY <1>4, MatchClaims DEF Abstract!Next
<1>5. ASSUME NEW v \in Verify, NEW e \in Email, NEW c \in Code, VerifyWrongCode(v, e, c)
      PROVE  [Abstract!Next]_Grant
  BY <1>5, MissRevokes DEF Abstract!Next
<1>6. ASSUME NEW v \in Verify,
             (\E e \in Email : VerifyNoChallenge(v, e)) \/ VerifyRecheck(v) \/ VerifyStore(v)
      PROVE  Grant' = Grant
  <2>1. UNCHANGED <<challenge, forgot, reset>>
    BY <1>6 DEF VerifyNoChallenge, VerifyRecheck, VerifyStore
  <2>2. \A w \in Verify : /\ verify'[w].challenge = verify[w].challenge
                          /\ verify'[w].matchedAt = verify[w].matchedAt
    <3>1. CASE \E e \in Email : VerifyNoChallenge(v, e)
      BY <1>0, <3>1 DEF VerifyNoChallenge, VerifyState
    <3>2. CASE VerifyRecheck(v)
      <4>1. \/ verify' = [verify EXCEPT ![v] =
                            [@ EXCEPT !.pc = "store", !.jwtExp = now + TokenTTL]]
            \/ verify' = [verify EXCEPT ![v].pc = "rejected"]
        BY <3>2 DEF VerifyRecheck
      <4>2. CASE verify' = [verify EXCEPT ![v] =
                              [@ EXCEPT !.pc = "store", !.jwtExp = now + TokenTTL]]
        BY <1>0, <4>2 DEF VerifyState
      <4>3. CASE verify' = [verify EXCEPT ![v].pc = "rejected"]
        BY <1>0, <4>3 DEF VerifyState
      <4> QED BY <4>1, <4>2, <4>3
    <3>3. CASE VerifyStore(v) BY <1>0, <3>3 DEF VerifyStore, VerifyState
    <3> QED BY <1>6, <3>1, <3>2, <3>3
  <2> QED BY <2>1, <2>2, StepStutters DEF Wrote
<1>7. ASSUME NEW r \in Reset, ResetUpdate(r) PROVE [Abstract!Next]_Grant
  BY <1>7, UpdateSpends DEF Abstract!Next
<1>8. ASSUME NEW r \in Reset,
             \/ \E v \in Verify : ResetCheckEmail(r, v)
             \/ \E p \in PhoneVerify : ResetCheckPhone(r, p)
             \/ ResetConsume(r) \/ ResetUpdateFails(r) \/ ResetRevoke(r) \/ ResetRevokeFails(r)
      PROVE  Grant' = Grant
  <2>1. UNCHANGED <<challenge, forgot, verify>>
    BY <1>8 DEF ResetCheckEmail, ResetCheckPhone, ResetConsume, ResetUpdateFails, ResetRevoke,
                ResetRevokeFails
  <2>2. \A q \in Reset : /\ Wrote(q)' = Wrote(q)
                         /\ Wrote(q) => reset'[q].token = reset[q].token
    <3>1. CASE \E v \in Verify : ResetCheckEmail(r, v)
      BY <1>0, <3>1 DEF ResetCheckEmail, Wrote
    <3>2. CASE \E p \in PhoneVerify : ResetCheckPhone(r, p)
      BY <1>0, <3>2 DEF ResetCheckPhone, Wrote
    <3>3. CASE ResetConsume(r) BY <1>0, <3>3 DEF ResetConsume, ResetState, Wrote
    <3>4. CASE ResetUpdateFails(r) BY <1>0, <3>4 DEF ResetUpdateFails, ResetState, Wrote
    <3>5. CASE ResetRevoke(r) BY <1>0, <3>5 DEF ResetRevoke, ResetState, Wrote
    <3>6. CASE ResetRevokeFails(r) BY <1>0, <3>6 DEF ResetRevokeFails, ResetState, Wrote
    <3> QED BY <1>8, <3>1, <3>2, <3>3, <3>4, <3>5, <3>6
  <2> QED BY <2>1, <2>2, StepStutters
<1>9. CASE UNCHANGED <<challenge, forgot, verify, reset>>
  BY <1>9, StepStutters DEF Wrote
<1>10. ASSUME NEW l \in Login, LoginNext(l) PROVE UNCHANGED <<challenge, forgot, verify, reset>>
  BY <1>10 DEF LoginNext, LoginValidate, LoginDetails, LoginStore
<1>11. ASSUME NEW f \in Forgot, ForgotNext(f) PROVE [Abstract!Next]_Grant
  BY <1>1, <1>2, <1>3, <1>11 DEF ForgotNext
<1>12. ASSUME NEW v \in Verify, VerifyNext(v) PROVE [Abstract!Next]_Grant
  BY <1>4, <1>5, <1>6, <1>12 DEF VerifyNext
<1>13. ASSUME NEW r \in Reset, ResetNext(r) PROVE [Abstract!Next]_Grant
  BY <1>7, <1>8, <1>13 DEF ResetNext
<1>14. ASSUME \/ \E p \in PhoneVerify, u \in User : PhoneIssue(p, u)
              \/ \E u \in User, e \in Email : ChangeEmail(u, e)
              \/ \E x \in Rewrite, u \in User, e \in Email :
                   ChangePassword(x, u, e) \/ AdminUpdate(x, u, e)
              \/ \E u \in User : RemoveUser(u)
              \/ Tick \/ UNCHANGED vars
       PROVE  UNCHANGED <<challenge, forgot, verify, reset>>
  BY <1>14 DEF PhoneIssue, ChangeEmail, ChangePassword, AdminUpdate, RemoveUser, Tick, vars
<1> QED BY <1>9, <1>10, <1>11, <1>12, <1>13, <1>14 DEF Next

\* The handlers of the forgotten-password flow keep the promise of OneTimeCode: a
\* mailed code is issued once, claimed at most once by the Lua script, and spent at
\* most once through GETDEL.
THEOREM FlowImplements == Spec => ImplementsOneTimeCode
<1>1. Init => Abstract!Init
  <2> SUFFICES ASSUME Init PROVE Grant = [f \in Forgot |-> "unissued"]
    BY DEF Abstract!Init
  <2>1. \A f \in Forgot : ~IsStored(f) BY DEF Init, IsStored
  <2> QED BY <2>1, GrantOf
<1>2. LifeInv /\ [Next]_vars => [Abstract!Next]_Grant BY StepSimulates
<1> QED
  BY <1>1, <1>2, TypeInvariant, LifecycleInvariant, SingleUseInvariant, PTL
     DEF Spec, LifeInv, ImplementsOneTimeCode, Abstract!Spec

==============================================================================
