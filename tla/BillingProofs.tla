----------------------------- MODULE BillingProofs -----------------------------
(***************************************************************************)
(* Type correctness, EndIsPaid, PaymentsRecordedOnce and                   *)
(* OrderlyAccountsAgree of Billing, for any accounts, plans,               *)
(* subscriptions, requests, periods and numbers of events.                 *)
(*                                                                         *)
(* The inductive invariant adds to the types: the end Stripe keeps is that *)
(* of an event, and so is what an invoice says of a period (StripeOK), a   *)
(* row names a subscription of its account and has an end that was paid or *)
(* has passed (RowsOK), and so have the requests that are about to write   *)
(* one (DeliveriesOK, ChangesOK).  PayInv adds what the payments rest on:  *)
(* which event each delivery is at (Staged, Logged), that the checkout of  *)
(* the subscription a row names is charged (Named), and what orderly       *)
(* accounts may rely on (Ordered).  OriginInv traces an end that Stripe    *)
(* did not report to the delivery that made it up.  AgreeInv adds what the *)
(* agreement of a row with Stripe rests on: the last event has the end     *)
(* Stripe keeps (Ends), an invoice other than that of a change of plan     *)
(* says nothing else (Dated), the requests of an orderly account are one   *)
(* at a time (Alone) and about the subscription its row names (Bound), a   *)
(* subscription keeps the plan of its checkout until then (Fresh), and a   *)
(* row has the plan, and once the invoices are in the end, that Stripe has *)
(* or that a request is about to save (Agrees).                            *)
(***************************************************************************)
EXTENDS Billing, FiniteSetTheorems, TLAPS

\* The end of some event of b.
Granted(b, end) == \E i \in 1..Len(log[b]) : end = log[b][i].end

\* An invoice of b had no period, and the end has passed.
Overdue(b, end) == (\E i \in 1..Len(log[b]) : log[b][i].line = NoTime) /\ end <= now

Paid(u, end) ==
    \/ \E b \in Buy : /\ stripe[b] # None /\ stripe[b].user = u
                      /\ Granted(b, end) \/ Overdue(b, end)
    \/ ~Reports /\ end <= now + Fallback

\* The line of an invoice ends with a period of its subscription, if it has one.
LinesOK(b) ==
    \A i \in 1..Len(log[b]) : log[b][i].line = NoTime \/ Granted(b, log[b][i].line)

StripeOK ==
    \A b \in Buy : /\ stripe[b] # None => Granted(b, stripe[b].end)
                   /\ stripe[b] = None => log[b] = <<>>
                   /\ LinesOK(b)

RowOK(u) ==
    sub[u] # None =>
        \E b \in Buy, end \in Nat :
            /\ sub[u].stripeSub = b /\ stripe[b] # None /\ stripe[b].user = u
            /\ sub[u].end = end /\ Paid(u, end)
RowsOK == \A u \in User : RowOK(u)

DeliveryOK(d) ==
    DeliveryPending(d) =>
        \E b \in Buy, u \in User :
            /\ delivery[d].buy = b /\ stripe[b] # None /\ stripe[b].user = u
            /\ delivery[d].index \in 1..Len(log[b])
            /\ delivery[d].pc = "upsert" =>
                   \E end \in Nat : delivery[d].end = end /\ Paid(u, end)
            /\ delivery[d].pc = "update" => sub[u] # None
DeliveriesOK == \A d \in Delivery : DeliveryOK(d)

ChangeOK(h) ==
    ChangePending(h) =>
        \E b \in Buy, u \in User :
            /\ change[h].buy = b /\ stripe[b] # None /\ stripe[b].user = u
            /\ change[h].user = u /\ sub[u] # None
            /\ change[h].plan \in Plan
            /\ change[h].pc = "save" /\ change[h].end # NoTime =>
                   \E end \in Nat : change[h].end = end /\ Paid(u, end)
ChangesOK == \A h \in Change : ChangeOK(h)

IInv == TypeOK /\ StripeOK /\ RowsOK /\ DeliveriesOK /\ ChangesOK

------------------------------------------------------------------------------
(* Lemmas *)

LEMMA InitHolds == ASSUME Init PROVE IInv
<1> USE NumberAssumption, NoneAssumption DEF Init
<1>1. TypeOK
  <2>1. delivery \in [Delivery -> DeliveryState] BY DEF DeliveryState, NoTime
  <2>2. change \in [Change -> ChangeState] BY DEF ChangeState, NoTime
  <2>3. log \in [Buy -> Seq(Event)] OBVIOUS
  <2>4. orderly \in [User -> BOOLEAN] OBVIOUS
  <2>5. now \in 0..MaxTime OBVIOUS
  <2> QED BY <2>1, <2>2, <2>3, <2>4, <2>5 DEF TypeOK
<1>2. StripeOK BY DEF StripeOK, LinesOK
<1>3. RowsOK BY DEF RowsOK, RowOK
<1>4. DeliveriesOK BY DEF DeliveriesOK, DeliveryOK, DeliveryPending
<1>5. ChangesOK BY DEF ChangesOK, ChangeOK, ChangePending
<1> QED BY <1>1, <1>2, <1>3, <1>4, <1>5 DEF IInv

\* What an account has paid stays paid: subscriptions stay with their accounts,
\* Stripe adds events and takes none back, and time passes.
Grows ==
    /\ \A b \in Buy : stripe[b] # None =>
           /\ stripe'[b] # None
           /\ stripe'[b].user = stripe[b].user
           /\ \A i \in 1..Len(log[b]) : i \in 1..Len(log'[b]) /\ log'[b][i] = log[b][i]
    /\ now' \in Nat /\ now <= now'

LEMMA Later ==
    ASSUME NEW from \in Nat, NEW to \in Nat, NEW d \in Nat, NEW end \in Nat,
           from <= to, end <= from + d
    PROVE  end <= to + d
  OBVIOUS

LEMMA PaidKept ==
    ASSUME TypeOK, Grows, NEW u, NEW end \in Nat, Paid(u, end)
    PROVE  Paid(u, end)'
<1>1. now \in Nat /\ now' \in Nat /\ now <= now' /\ Fallback \in Nat
  BY NumberAssumption DEF TypeOK, Grows
<1>2. CASE ~Reports /\ end <= now + Fallback
  <2>1. end <= now' + Fallback BY <1>1, <1>2, Later
  <2> QED BY <1>2, <2>1 DEF Paid
<1>4. ASSUME NEW b \in Buy, stripe[b] # None, stripe[b].user = u, Overdue(b, end)
      PROVE  Paid(u, end)'
  <2>1. stripe'[b] # None /\ stripe'[b].user = u BY <1>4 DEF Grows
  <2>2. PICK i \in 1..Len(log[b]) : log[b][i].line = NoTime BY <1>4 DEF Overdue
  <2>3. i \in 1..Len(log'[b]) /\ log'[b][i] = log[b][i] BY <1>4 DEF Grows
  <2>4. end <= now' BY <1>1, <1>4 DEF Overdue
  <2> QED BY <2>1, <2>2, <2>3, <2>4 DEF Paid, Overdue
<1>3. ASSUME NEW b \in Buy, stripe[b] # None, stripe[b].user = u, Granted(b, end)
      PROVE  Paid(u, end)'
  <2>1. stripe'[b] # None /\ stripe'[b].user = u BY <1>3 DEF Grows
  <2>2. PICK i \in 1..Len(log[b]) : end = log[b][i].end BY <1>3 DEF Granted
  <2>3. i \in 1..Len(log'[b]) /\ log'[b][i] = log[b][i] BY <1>3 DEF Grows
  <2> QED BY <2>1, <2>2, <2>3 DEF Paid, Granted
<1> QED BY <1>2, <1>3, <1>4 DEF Paid

\* Steps in which Stripe does nothing.
LEMMA Quiet ==
    ASSUME TypeOK, UNCHANGED <<stripe, log>>, now' \in 0..MaxTime, now <= now'
    PROVE  Grows
  BY NumberAssumption DEF TypeOK, Grows

\* What Stripe appends.
LEMMA Emitted ==
    ASSUME TypeOK, NEW b \in Buy, NEW type \in {"changed", "renewed", "deleted"},
           NEW plan \in Plan, NEW end \in Nat, NEW line \in Nat \cup {NoTime},
           Emit(b, type, plan, end, line)
    PROVE  /\ log' \in [Buy -> Seq(Event)]
           /\ \A c \in Buy : c # b => log'[c] = log[c]
           /\ \A i \in 1..Len(log[b]) : i \in 1..Len(log'[b]) /\ log'[b][i] = log[b][i]
           /\ Granted(b, end)'
           /\ log'[b] # <<>>
           /\ LinesOK(b) /\ (line \in {end, NoTime} \/ Granted(b, line)) => LinesOK(b)'
<1> DEFINE e == [type |-> type, plan |-> plan, end |-> end, line |-> line]
<1>1. e \in Event BY DEF Event
<1>2. log[b] \in Seq(Event) BY DEF TypeOK
<1>3. log' = [log EXCEPT ![b] = Append(log[b], e)] BY DEF Emit
<1>4. e.end = end /\ e.line = line OBVIOUS
<1> HIDE DEF e
<1>5. /\ Append(log[b], e) \in Seq(Event)
      /\ Len(Append(log[b], e)) = Len(log[b]) + 1
      /\ \A i \in 1..Len(log[b]) : Append(log[b], e)[i] = log[b][i]
      /\ Append(log[b], e)[Len(log[b]) + 1] = e
      /\ Len(log[b]) \in Nat
  BY <1>1, <1>2
<1>6. log'[b] = Append(log[b], e) BY <1>3 DEF TypeOK
<1>7. log' \in [Buy -> Seq(Event)] BY <1>3, <1>5 DEF TypeOK
<1>8. \A c \in Buy : c # b => log'[c] = log[c] BY <1>3 DEF TypeOK
<1>9. \A i \in 1..Len(log[b]) : i \in 1..Len(log'[b]) /\ log'[b][i] = log[b][i]
  BY <1>5, <1>6
<1>10. Granted(b, end)'
  <2>1. Len(log[b]) + 1 \in 1..Len(log'[b]) /\ end = log'[b][Len(log[b]) + 1].end
    BY <1>4, <1>5, <1>6
  <2> QED BY <2>1 DEF Granted
<1>11. log'[b] # <<>> BY <1>5, <1>6
<1>12. \A t : Granted(b, t) => Granted(b, t)' BY <1>9 DEF Granted
<1>13. ASSUME LinesOK(b), line \in {end, NoTime} \/ Granted(b, line) PROVE LinesOK(b)'
  <2>1. line = NoTime \/ Granted(b, line)' BY <1>10, <1>12, <1>13
  <2>2. ASSUME NEW i \in 1..Len(log'[b]), NEW t, t = log'[b][i].line
        PROVE  t = NoTime \/ Granted(b, t)'
    <3>1. CASE i \in 1..Len(log[b])
      <4>1. t = log[b][i].line BY <1>9, <2>2, <3>1
      <4>2. t = NoTime \/ Granted(b, t) BY <1>13, <3>1, <4>1 DEF LinesOK
      <4> QED BY <1>12, <4>2
    <3>2. CASE i = Len(log[b]) + 1
      <4>1. t = line BY <1>4, <1>5, <1>6, <2>2, <3>2
      <4> QED BY <2>1, <4>1
    <3> QED BY <1>5, <1>6, <3>1, <3>2
  <2> QED BY <2>2 DEF LinesOK, Granted
<1> QED BY <1>7, <1>8, <1>9, <1>10, <1>11, <1>13

\* The history of a request that begins.
LEMMA BeginTypes ==
    ASSUME TypeOK, NEW u \in User, NEW inOrder, Begin(u, inOrder)
    PROVE  orderly' \in [User -> BOOLEAN]
<1>1. orderly \in [User -> BOOLEAN] BY DEF TypeOK
<1>2. (orderly[u] /\ ~Busy(u) /\ inOrder) \in BOOLEAN OBVIOUS
<1>3. orderly' = [orderly EXCEPT ![u] = (orderly[u] /\ ~Busy(u) /\ inOrder)] BY DEF Begin
<1> QED BY <1>1, <1>2, <1>3

\* What a step does not touch, it keeps.
LEMMA Kept ==
    ASSUME IInv, Grows, \A u \in User : sub[u] # None => sub'[u] # None
    PROVE  /\ \A u \in User : sub'[u] = sub[u] => RowOK(u)'
           /\ \A d \in Delivery : delivery'[d] = delivery[d] => DeliveryOK(d)'
           /\ \A h \in Change : change'[h] = change[h] => ChangeOK(h)'
<1>1. \A u \in User, end \in Nat : Paid(u, end) => Paid(u, end)' BY PaidKept DEF IInv
<1>2. ASSUME NEW u \in User, sub'[u] = sub[u] PROVE RowOK(u)'
  <2>1. RowOK(u) BY DEF IInv, RowsOK
  <2> QED BY <1>1, <1>2, <2>1 DEF RowOK, Grows
<1>3. ASSUME NEW d \in Delivery, delivery'[d] = delivery[d], DeliveryPending(d)
      PROVE  DeliveryOK(d)'
  <2>1. PICK b \in Buy, u \in User :
            /\ delivery[d].buy = b /\ stripe[b] # None /\ stripe[b].user = u
            /\ delivery[d].index \in 1..Len(log[b])
            /\ delivery[d].pc = "upsert" =>
                   \E end \in Nat : delivery[d].end = end /\ Paid(u, end)
            /\ delivery[d].pc = "update" => sub[u] # None
    BY <1>3 DEF IInv, DeliveriesOK, DeliveryOK
  <2>2. /\ stripe'[b] # None /\ stripe'[b].user = u
        /\ delivery'[d].index \in 1..Len(log'[b])
    BY <1>3, <2>1 DEF Grows
  <2>3. delivery'[d].pc = "upsert" =>
            \E end \in Nat : delivery'[d].end = end /\ Paid(u, end)'
    BY <1>1, <1>3, <2>1
  <2> QED BY <1>3, <2>1, <2>2, <2>3 DEF DeliveryOK
<1>4. ASSUME NEW h \in Change, change'[h] = change[h], ChangePending(h) PROVE ChangeOK(h)'
  <2>1. PICK b \in Buy, u \in User :
            /\ change[h].buy = b /\ stripe[b] # None /\ stripe[b].user = u
            /\ change[h].user = u /\ sub[u] # None
            /\ change[h].plan \in Plan
            /\ change[h].pc = "save" /\ change[h].end # NoTime =>
                   \E end \in Nat : change[h].end = end /\ Paid(u, end)
    BY <1>4 DEF IInv, ChangesOK, ChangeOK
  <2>2. stripe'[b] # None /\ stripe'[b].user = u BY <2>1 DEF Grows
  <2>3. change'[h].pc = "save" /\ change'[h].end # NoTime =>
            \E end \in Nat : change'[h].end = end /\ Paid(u, end)'
    BY <1>1, <1>4, <2>1
  <2> QED BY <1>4, <2>1, <2>2, <2>3 DEF ChangeOK
<1>5. ASSUME NEW d \in Delivery, delivery'[d] = delivery[d], ~DeliveryPending(d)
      PROVE  DeliveryOK(d)'
  BY <1>5 DEF DeliveryOK, DeliveryPending
<1>6. ASSUME NEW h \in Change, change'[h] = change[h], ~ChangePending(h) PROVE ChangeOK(h)'
  BY <1>6 DEF ChangeOK, ChangePending
<1> QED BY <1>2, <1>3, <1>4, <1>5, <1>6

------------------------------------------------------------------------------
(* Steps of the requests: Stripe and the clock stand still *)

\* Such a step keeps the invariant when every row and every request is as
\* before or is right again.
LEMMA Touch ==
    ASSUME IInv, UNCHANGED <<now, stripe, log>>, catalog' \subseteq Plan,
           orderly' \in [User -> BOOLEAN],
           sub' \in [User -> Row \cup {None}],
           delivery' \in [Delivery -> DeliveryState],
           change' \in [Change -> ChangeState],
           \A u \in User : sub[u] # None => sub'[u] # None,
           \A u \in User : sub'[u] = sub[u] \/ RowOK(u)',
           \A d \in Delivery : delivery'[d] = delivery[d] \/ DeliveryOK(d)',
           \A h \in Change : change'[h] = change[h] \/ ChangeOK(h)'
    PROVE  IInv'
<1>1. TypeOK' BY DEF IInv, TypeOK
<1>2. now' \in 0..MaxTime /\ now <= now' BY NumberAssumption DEF IInv, TypeOK
<1>3. Grows BY <1>2, Quiet DEF IInv
<1>4. StripeOK' BY DEF IInv, StripeOK, LinesOK, Granted
<1>5. /\ \A u \in User : sub'[u] = sub[u] => RowOK(u)'
      /\ \A d \in Delivery : delivery'[d] = delivery[d] => DeliveryOK(d)'
      /\ \A h \in Change : change'[h] = change[h] => ChangeOK(h)'
  BY <1>3, Kept
<1>6. RowsOK' BY <1>5 DEF RowsOK
<1>7. DeliveriesOK' BY <1>5 DEF DeliveriesOK
<1>8. ChangesOK' BY <1>5 DEF ChangesOK
<1> QED BY <1>1, <1>4, <1>6, <1>7, <1>8 DEF IInv

\* A delivery alone moves.
LEMMA TouchDelivery ==
    ASSUME IInv, NEW d \in Delivery, NEW r \in DeliveryState,
           delivery' = [delivery EXCEPT ![d] = r], DeliveryOK(d)',
           orderly' \in [User -> BOOLEAN],
           UNCHANGED <<now, catalog, sub, stripe, log, change>>
    PROVE  IInv'
<1>1. TypeOK BY DEF IInv
<1>2. /\ catalog' \subseteq Plan
      /\ sub' \in [User -> Row \cup {None}]
      /\ change' \in [Change -> ChangeState]
  BY <1>1 DEF TypeOK
<1>3. delivery \in [Delivery -> DeliveryState] BY <1>1 DEF TypeOK
<1>4. /\ delivery' \in [Delivery -> DeliveryState]
      /\ \A c \in Delivery : c # d => delivery'[c] = delivery[c]
  BY <1>3
<1> QED BY <1>2, <1>4, Touch

\* A change of plan alone moves.
LEMMA TouchChange ==
    ASSUME IInv, NEW h \in Change, NEW r \in ChangeState,
           change' = [change EXCEPT ![h] = r], ChangeOK(h)',
           orderly' \in [User -> BOOLEAN],
           UNCHANGED <<now, catalog, sub, stripe, log, delivery>>
    PROVE  IInv'
<1>1. TypeOK BY DEF IInv
<1>2. /\ catalog' \subseteq Plan
      /\ sub' \in [User -> Row \cup {None}]
      /\ delivery' \in [Delivery -> DeliveryState]
  BY <1>1 DEF TypeOK
<1>3. change \in [Change -> ChangeState] BY <1>1 DEF TypeOK
<1>4. /\ change' \in [Change -> ChangeState]
      /\ \A c \in Change : c # h => change'[c] = change[c]
  BY <1>3
<1> QED BY <1>2, <1>4, Touch

\* What a pending delivery is about.
LEMMA Subject ==
    ASSUME IInv, NEW d \in Delivery, DeliveryPending(d)
    PROVE  \E b \in Buy, u \in User, e \in Event :
               /\ delivery[d].buy = b /\ stripe[b] # None /\ stripe[b].user = u
               /\ delivery[d].index \in 1..Len(log[b])
               /\ log[b][delivery[d].index] = e
               /\ delivery[d].pc = "upsert" =>
                      \E end \in Nat : delivery[d].end = end /\ Paid(u, end)
               /\ delivery[d].pc = "update" => sub[u] # None
<1>1. PICK b \in Buy, u \in User :
          /\ delivery[d].buy = b /\ stripe[b] # None /\ stripe[b].user = u
          /\ delivery[d].index \in 1..Len(log[b])
          /\ delivery[d].pc = "upsert" =>
                 \E end \in Nat : delivery[d].end = end /\ Paid(u, end)
          /\ delivery[d].pc = "update" => sub[u] # None
  BY DEF IInv, DeliveriesOK, DeliveryOK
<1>2. log[b] \in Seq(Event) BY DEF IInv, TypeOK
<1>3. log[b][delivery[d].index] \in Event BY <1>1, <1>2
<1> QED BY <1>1, <1>3

\* A delivery that goes on with the same event and is about to write no row.
LEMMA GoesOn ==
    ASSUME IInv, NEW d \in Delivery, DeliveryPending(d), UNCHANGED <<stripe, log>>,
           delivery'[d].buy = delivery[d].buy, delivery'[d].index = delivery[d].index,
           delivery'[d].pc \notin {"upsert", "update"}
    PROVE  DeliveryOK(d)'
  BY Subject DEF DeliveryOK

LEMMA Ended ==
    ASSUME NEW d, delivery'[d].pc \in {"done", "failed"}
    PROVE  DeliveryOK(d)'
  BY DEF DeliveryOK, DeliveryPending

LEMMA ChangeEnded ==
    ASSUME NEW h, change'[h].pc \in {"done", "failed"}
    PROVE  ChangeOK(h)'
  BY DEF ChangeOK, ChangePending

LEMMA Facts ==
    ASSUME TypeOK
    PROVE  /\ now \in Nat /\ now + Fallback \in Nat /\ catalog \subseteq Plan
           /\ sub \in [User -> Row \cup {None}]
           /\ stripe \in [Buy -> StripeSub \cup {None}]
           /\ log \in [Buy -> Seq(Event)]
           /\ delivery \in [Delivery -> DeliveryState]
           /\ change \in [Change -> ChangeState]
           /\ orderly \in [User -> BOOLEAN]
  BY NumberAssumption DEF TypeOK

\* Delivery d goes to a pc at which it writes no row.
LEMMA MovesTo ==
    ASSUME IInv, NEW d \in Delivery, DeliveryPending(d),
           NEW pc \in {"retrieve", "record", "find", "delete", "done", "failed"},
           delivery' = [delivery EXCEPT ![d].pc = pc],
           UNCHANGED <<stripe, log>>
    PROVE  /\ DeliveryOK(d)'
           /\ delivery' \in [Delivery -> DeliveryState]
           /\ \A c \in Delivery : c # d => delivery'[c] = delivery[c]
           /\ \E r \in DeliveryState : delivery' = [delivery EXCEPT ![d] = r]
<1> DEFINE r == [delivery[d] EXCEPT !.pc = pc]
<1>1. delivery \in [Delivery -> DeliveryState] BY Facts DEF IInv
<1>2. r \in DeliveryState BY <1>1 DEF DeliveryState
<1>3. delivery' = [delivery EXCEPT ![d] = r] OBVIOUS
<1>4. /\ r.pc = pc /\ r.buy = delivery[d].buy /\ r.index = delivery[d].index
  BY <1>1 DEF DeliveryState
<1> HIDE DEF r
<1>5. /\ delivery' \in [Delivery -> DeliveryState]
      /\ delivery'[d] = r
      /\ \A c \in Delivery : c # d => delivery'[c] = delivery[c]
  BY <1>1, <1>2, <1>3
<1>6. DeliveryOK(d)' BY <1>4, <1>5, GoesOn
<1> QED BY <1>2, <1>3, <1>5, <1>6

LEMMA ReceiveStep ==
    ASSUME IInv, NEW d \in Delivery, NEW b \in Buy, NEW i \in 1..MaxEvents,
           Receive(d, b, i)
    PROVE  IInv'
<1> USE DEF IInv
<1>1. delivery[d] \in DeliveryState BY Facts
<1>2. i \in 1..Len(log[b]) /\ log[b] \in Seq(Event) BY Facts DEF Receive
<1>3. log[b][i] \in Event BY <1>2
<1>4. PICK pc : pc = First[log[b][i].type] OBVIOUS
<1>5. pc \in {"retrieve", "find", "delete"} BY <1>3, <1>4 DEF First, Event
<1> DEFINE r == [delivery[d] EXCEPT !.pc = pc, !.buy = b, !.index = i]
<1>6. r \in DeliveryState
  <2>1. i \in Nat BY NumberAssumption
  <2>2. pc \in {"idle", "retrieve", "upsert", "record", "find", "update", "delete",
                "done", "failed"}
    BY <1>5
  <2> HIDE DEF IInv
  <2> QED BY <1>1, <2>1, <2>2 DEF DeliveryState
<1>7. r.pc = pc /\ r.buy = b /\ r.index = i BY <1>1 DEF DeliveryState
<1>8. delivery' = [delivery EXCEPT ![d] = r] BY <1>4 DEF Receive
<1> HIDE DEF r
<1>9. delivery'[d] = r BY <1>6, <1>8, Facts
<1>10. stripe[b] # None BY <1>2 DEF StripeOK
<1>11. stripe[b].user \in User BY <1>10, Facts DEF StripeSub
<1>12. UNCHANGED <<now, catalog, sub, stripe, log, change>> BY DEF Receive
<1>13. DeliveryOK(d)'
  BY <1>2, <1>5, <1>7, <1>9, <1>10, <1>11, <1>12 DEF DeliveryOK
<1>14. orderly' \in [User -> BOOLEAN] BY <1>11, BeginTypes DEF Receive
<1> HIDE DEF IInv
<1> QED BY <1>6, <1>8, <1>12, <1>13, <1>14, TouchDelivery

LEMMA PlanMissingStep ==
    ASSUME IInv, NEW d \in Delivery, PlanMissing(d) PROVE IInv'
<1>1. /\ DeliveryPending(d) /\ delivery' = [delivery EXCEPT ![d].pc = "done"]
      /\ UNCHANGED <<now, catalog, sub, stripe, log, change, orderly>>
  BY DEF PlanMissing, DeliveryPending
<1>2. orderly' \in [User -> BOOLEAN] BY <1>1, Facts DEF IInv
<1> QED BY <1>1, <1>2, MovesTo, TouchDelivery

LEMMA DeliveryFailsStep ==
    ASSUME IInv, NEW d \in Delivery, DeliveryFails(d) PROVE IInv'
<1>1. /\ DeliveryPending(d) /\ delivery' = [delivery EXCEPT ![d].pc = "failed"]
      /\ UNCHANGED <<now, catalog, sub, stripe, log, change, orderly>>
  BY DEF DeliveryFails
<1>2. orderly' \in [User -> BOOLEAN] BY <1>1, Facts DEF IInv
<1> QED BY <1>1, <1>2, MovesTo, TouchDelivery

LEMMA RetrieveStep ==
    ASSUME IInv, NEW d \in Delivery, Retrieve(d) PROVE IInv'
<1>1. DeliveryPending(d) BY DEF Retrieve, DeliveryPending
<1>2. PICK b \in Buy, u \in User :
          /\ delivery[d].buy = b /\ stripe[b] # None /\ stripe[b].user = u
          /\ delivery[d].index \in 1..Len(log[b])
  BY <1>1, Subject
<1>3. PICK end : end = IF Reports THEN stripe[b].end ELSE now + Fallback OBVIOUS
<1>4. Granted(b, stripe[b].end) BY <1>2 DEF IInv, StripeOK
<1>5. stripe[b].end \in Nat /\ now + Fallback \in Nat BY <1>2, Facts DEF IInv, StripeSub
<1>6. end \in Nat /\ Paid(u, end) BY <1>2, <1>3, <1>4, <1>5 DEF Paid
<1> DEFINE r == [delivery[d] EXCEPT !.pc = "upsert", !.end = end]
<1>7. delivery[d] \in DeliveryState BY Facts DEF IInv
<1>8. /\ r \in DeliveryState
      /\ r.pc = "upsert" /\ r.end = end
      /\ r.buy = delivery[d].buy /\ r.index = delivery[d].index
  BY <1>6, <1>7 DEF DeliveryState
<1>9. delivery' = [delivery EXCEPT ![d] = r]
  <2>1. (IF Reported(stripe[b].end) = NoTime THEN now + Fallback ELSE Reported(stripe[b].end))
            = end
    BY <1>3, <1>5, ReportsAssumption DEF Reported, NoTime
  <2> QED BY <1>2, <2>1 DEF Retrieve
<1> HIDE DEF r
<1>10. delivery'[d] = r BY <1>9, Facts DEF IInv
<1>11. UNCHANGED <<now, catalog, sub, stripe, log, change, orderly>> BY DEF Retrieve
<1>12. Paid(u, end)' BY <1>6, <1>11 DEF Paid, Granted, Overdue
<1>13. DeliveryOK(d)' BY <1>2, <1>6, <1>8, <1>10, <1>11, <1>12 DEF DeliveryOK
<1>14. orderly' \in [User -> BOOLEAN] BY <1>11, Facts DEF IInv
<1> QED BY <1>8, <1>9, <1>11, <1>13, <1>14, TouchDelivery

\* A row that keeps its subscription, and gets an end that was paid.
LEMMA RowWritten ==
    ASSUME IInv, NEW u \in User, NEW b \in Buy, NEW end \in Nat,
           UNCHANGED <<now, stripe, log>>,
           sub'[u] # None, sub'[u].stripeSub = b, sub'[u].end = end,
           stripe[b] # None, stripe[b].user = u, Paid(u, end)
    PROVE  RowOK(u)'
<1>1. Paid(u, end)' BY DEF Paid, Granted, Overdue
<1> QED BY <1>1 DEF RowOK

\* The row of u is replaced, and delivery d goes on.
LEMMA TouchRow ==
    ASSUME IInv, NEW u \in User, NEW row \in Row,
           sub' = [sub EXCEPT ![u] = row], RowOK(u)',
           delivery' \in [Delivery -> DeliveryState],
           \A d \in Delivery : delivery'[d] = delivery[d] \/ DeliveryOK(d)',
           change' \in [Change -> ChangeState],
           \A h \in Change : change'[h] = change[h] \/ ChangeOK(h)',
           UNCHANGED <<now, catalog, stripe, log, orderly>>
    PROVE  IInv'
<1>1. /\ catalog \subseteq Plan
      /\ orderly \in [User -> BOOLEAN]
      /\ sub \in [User -> Row \cup {None}]
  BY Facts DEF IInv
<1>2. /\ sub' \in [User -> Row \cup {None}]
      /\ \A v \in User : v # u => sub'[v] = sub[v]
      /\ sub'[u] = row
  BY <1>1
<1>3. row # None BY NoneIsNoRecord
<1>4. \A v \in User : sub[v] # None => sub'[v] # None BY <1>2, <1>3
<1> QED BY <1>1, <1>2, <1>4, Touch

LEMMA UpsertStep ==
    ASSUME IInv, NEW d \in Delivery, Upsert(d) PROVE IInv'
<1>1. DeliveryPending(d) BY DEF Upsert, DeliveryPending
<1>2. PICK b \in Buy, u \in User, e \in Event :
          /\ delivery[d].buy = b /\ stripe[b] # None /\ stripe[b].user = u
          /\ log[b][delivery[d].index] = e
          /\ delivery[d].pc = "upsert" =>
                 \E end \in Nat : delivery[d].end = end /\ Paid(u, end)
  BY <1>1, Subject
<1>3. PICK end \in Nat : delivery[d].end = end /\ Paid(u, end) BY <1>2 DEF Upsert
<1>4. PICK p \in Plan : p = e.plan BY DEF Event
<1> DEFINE row == [stripeSub |-> b, plan |-> p, status |-> "active", end |-> end]
<1>5. row \in Row BY DEF Row, Status
<1>6. row.stripeSub = b /\ row.end = end OBVIOUS
<1>7. sub' = [sub EXCEPT ![u] = row] BY <1>2, <1>3, <1>4 DEF Upsert
<1> HIDE DEF row
<1>8. sub'[u] = row BY <1>7, Facts DEF IInv
<1>9. /\ UNCHANGED <<now, catalog, stripe, log, change, orderly>>
      /\ delivery' = [delivery EXCEPT ![d].pc = "record"]
  BY DEF Upsert
<1>10. RowOK(u)' BY <1>2, <1>3, <1>5, <1>6, <1>8, <1>9, NoneIsNoRecord, RowWritten
<1>11. /\ delivery' \in [Delivery -> DeliveryState]
       /\ \A c \in Delivery : delivery'[c] = delivery[c] \/ DeliveryOK(c)'
  BY <1>1, <1>9, MovesTo
<1>12. change' \in [Change -> ChangeState] BY <1>9, Facts DEF IInv
<1> QED BY <1>5, <1>7, <1>9, <1>10, <1>11, <1>12, TouchRow

LEMMA FindStep ==
    ASSUME IInv, NEW d \in Delivery, Find(d) PROVE IInv'
<1>1. DeliveryPending(d) BY DEF Find, DeliveryPending
<1>2. PICK b \in Buy, u \in User :
          /\ delivery[d].buy = b /\ stripe[b] # None /\ stripe[b].user = u
          /\ delivery[d].index \in 1..Len(log[b])
  BY <1>1, Subject
<1>3. UNCHANGED <<now, catalog, sub, stripe, log, change, orderly>> BY DEF Find
<1>4. orderly' \in [User -> BOOLEAN] BY <1>3, Facts DEF IInv
<1>5. CASE delivery' = [delivery EXCEPT ![d].pc = "done"]
  BY <1>1, <1>3, <1>4, <1>5, MovesTo, TouchDelivery
<1>6. CASE delivery' = [delivery EXCEPT ![d].pc = "update"] /\ sub[u] # None
  <2> DEFINE r == [delivery[d] EXCEPT !.pc = "update"]
  <2>1. delivery[d] \in DeliveryState BY Facts DEF IInv
  <2>2. /\ r \in DeliveryState /\ r.pc = "update"
        /\ r.buy = delivery[d].buy /\ r.index = delivery[d].index
    BY <2>1 DEF DeliveryState
  <2>3. delivery' = [delivery EXCEPT ![d] = r] BY <1>6
  <2> HIDE DEF r
  <2>4. delivery'[d] = r BY <2>3, Facts DEF IInv
  <2>5. DeliveryOK(d)' BY <1>2, <1>3, <1>6, <2>2, <2>4 DEF DeliveryOK
  <2> QED BY <1>3, <1>4, <2>2, <2>3, <2>5, TouchDelivery
<1>7. \/ delivery' = [delivery EXCEPT ![d].pc = "done"]
      \/ delivery' = [delivery EXCEPT ![d].pc = "update"] /\ sub[u] # None
  BY <1>2 DEF Find
<1> QED BY <1>5, <1>6, <1>7

\* What the handler makes of an invoice is a date, and the account was granted it
\* or it has passed.
LEMMA InvoiceEnds ==
    ASSUME IInv, NEW e \in Event
    PROVE  InvoiceEnd(e) \in Nat
  BY Facts DEF IInv, Event, InvoiceEnd

LEMMA InvoicePays ==
    ASSUME IInv, NEW b \in Buy, NEW i \in 1..Len(log[b])
    PROVE  LET end == InvoiceEnd(log[b][i]) IN Granted(b, end) \/ Overdue(b, end)
<1>1. LinesOK(b) BY DEF IInv, StripeOK
<1>2. CASE log[b][i].line = NoTime
  <2>1. now <= now BY Facts DEF IInv
  <2> QED BY <1>2, <2>1 DEF Overdue, InvoiceEnd
<1>3. CASE log[b][i].line # NoTime BY <1>1, <1>3 DEF LinesOK, InvoiceEnd
<1> QED BY <1>2, <1>3

LEMMA UpdateRowStep ==
    ASSUME IInv, NEW d \in Delivery, UpdateRow(d) PROVE IInv'
<1>1. DeliveryPending(d) BY DEF UpdateRow, DeliveryPending
<1>2. PICK b \in Buy, u \in User, e \in Event :
          /\ delivery[d].buy = b /\ stripe[b] # None /\ stripe[b].user = u
          /\ delivery[d].index \in 1..Len(log[b])
          /\ log[b][delivery[d].index] = e
          /\ delivery[d].pc = "update" => sub[u] # None
  BY <1>1, Subject
<1>3. PICK end \in Nat : end = InvoiceEnd(e) BY InvoiceEnds
<1>4. Paid(u, end) BY <1>2, <1>3, InvoicePays DEF Paid
<1>5. sub[u] # None BY <1>2 DEF UpdateRow
<1>6. PICK c \in Buy : sub[u].stripeSub = c /\ stripe[c] # None /\ stripe[c].user = u
  BY <1>5 DEF IInv, RowsOK, RowOK
<1> DEFINE row == [sub[u] EXCEPT !.status = "active", !.end = end]
<1>7. sub[u] \in Row BY <1>5, Facts DEF IInv
<1>8. row \in Row /\ row.stripeSub = c /\ row.end = end
  BY <1>6, <1>7 DEF Row, Status
<1>9. sub' = [sub EXCEPT ![u] = row] BY <1>2, <1>3 DEF UpdateRow
<1> HIDE DEF row
<1>10. sub'[u] = row BY <1>9, Facts DEF IInv
<1>11. PICK pc \in {"record", "done"} :
           /\ UNCHANGED <<now, catalog, stripe, log, change, orderly>>
           /\ delivery' = [delivery EXCEPT ![d].pc = pc]
  BY DEF UpdateRow
<1>12. RowOK(u)' BY <1>4, <1>6, <1>8, <1>10, <1>11, NoneIsNoRecord, RowWritten
<1>13. /\ delivery' \in [Delivery -> DeliveryState]
       /\ \A k \in Delivery : delivery'[k] = delivery[k] \/ DeliveryOK(k)'
  BY <1>1, <1>11, MovesTo
<1>14. change' \in [Change -> ChangeState] BY <1>11, Facts DEF IInv
<1> QED BY <1>8, <1>9, <1>11, <1>12, <1>13, <1>14, TouchRow

LEMMA RecordStep ==
    ASSUME IInv, NEW d \in Delivery, Record(d) PROVE IInv'
<1> DEFINE r == [delivery[d] EXCEPT !.pc = "done", !.recorded = TRUE]
<1>1. delivery[d] \in DeliveryState BY Facts DEF IInv
<1>2. r \in DeliveryState /\ r.pc = "done" BY <1>1 DEF DeliveryState
<1>3. /\ delivery' = [delivery EXCEPT ![d] = r]
      /\ UNCHANGED <<now, catalog, sub, stripe, log, change, orderly>>
  BY DEF Record
<1> HIDE DEF r
<1>4. delivery'[d] = r BY <1>3, Facts DEF IInv
<1>5. DeliveryOK(d)' BY <1>2, <1>4, Ended
<1>6. orderly' \in [User -> BOOLEAN] BY <1>3, Facts DEF IInv
<1> QED BY <1>2, <1>3, <1>5, <1>6, TouchDelivery

\* A row whose status alone changes.
LEMMA StatusWritten ==
    ASSUME IInv, NEW u \in User, sub[u] # None, NEW status \in Status,
           UNCHANGED <<now, stripe, log>>,
           sub'[u] = [sub[u] EXCEPT !.status = status]
    PROVE  sub'[u] \in Row /\ RowOK(u)'
<1>1. PICK b \in Buy, end \in Nat :
          /\ sub[u].stripeSub = b /\ stripe[b] # None /\ stripe[b].user = u
          /\ sub[u].end = end /\ Paid(u, end)
  BY DEF IInv, RowsOK, RowOK
<1>2. sub[u] \in Row BY Facts DEF IInv
<1>3. sub'[u] \in Row /\ sub'[u].stripeSub = b /\ sub'[u].end = end
  BY <1>1, <1>2 DEF Row
<1> QED BY <1>1, <1>3, NoneIsNoRecord, RowWritten

LEMMA DeleteRowStep ==
    ASSUME IInv, NEW d \in Delivery, DeleteRow(d) PROVE IInv'
<1>1. DeliveryPending(d) BY DEF DeleteRow, DeliveryPending
<1>2. PICK b \in Buy, u \in User :
          delivery[d].buy = b /\ stripe[b] # None /\ stripe[b].user = u
  BY <1>1, Subject
<1>3. /\ UNCHANGED <<now, catalog, stripe, log, change, orderly>>
      /\ delivery' = [delivery EXCEPT ![d].pc = "done"]
  BY DEF DeleteRow
<1>4. CASE sub' = sub
  <2>1. orderly' \in [User -> BOOLEAN] BY <1>3, Facts DEF IInv
  <2> QED BY <1>1, <1>3, <1>4, <2>1, MovesTo, TouchDelivery
<1>5. CASE sub[u] # None /\ sub' = [sub EXCEPT ![u].status = "canceled"]
  <2>1. sub'[u] = [sub[u] EXCEPT !.status = "canceled"] BY <1>5, Facts DEF IInv
  <2>2. sub'[u] \in Row /\ RowOK(u)' BY <1>3, <1>5, <2>1, StatusWritten DEF Status
  <2>3. PICK row \in Row : sub' = [sub EXCEPT ![u] = row]
    BY <1>5, <2>1, <2>2
  <2>4. /\ delivery' \in [Delivery -> DeliveryState]
        /\ \A c \in Delivery : delivery'[c] = delivery[c] \/ DeliveryOK(c)'
    BY <1>1, <1>3, MovesTo
  <2>5. change' \in [Change -> ChangeState] BY <1>3, Facts DEF IInv
  <2> QED BY <1>3, <2>2, <2>3, <2>4, <2>5, TouchRow
<1>6. \/ sub' = sub
      \/ sub[u] # None /\ sub' = [sub EXCEPT ![u].status = "canceled"]
  BY <1>2 DEF DeleteRow
<1> QED BY <1>4, <1>5, <1>6

LEMMA CancelStep ==
    ASSUME IInv, NEW u \in User, Cancel(u) PROVE IInv'
<1>1. /\ sub[u] # None /\ sub' = [sub EXCEPT ![u].status = "canceled"]
      /\ UNCHANGED <<now, catalog, stripe, log, delivery, change, orderly>>
  BY DEF Cancel
<1>2. sub'[u] = [sub[u] EXCEPT !.status = "canceled"] BY <1>1, Facts DEF IInv
<1>3. sub'[u] \in Row /\ RowOK(u)' BY <1>1, <1>2, StatusWritten DEF Status
<1>4. PICK row \in Row : sub' = [sub EXCEPT ![u] = row] BY <1>1, <1>2, <1>3
<1>5. /\ delivery' \in [Delivery -> DeliveryState]
      /\ change' \in [Change -> ChangeState]
  BY <1>1, Facts DEF IInv
<1> QED BY <1>1, <1>3, <1>4, <1>5, TouchRow

\* Every past row at once.
LEMMA ExpireStep == ASSUME IInv, Expire PROVE IInv'
<1>1. UNCHANGED <<now, catalog, stripe, log, delivery, change, orderly>> BY DEF Expire
<1>2. /\ catalog' \subseteq Plan
      /\ orderly' \in [User -> BOOLEAN]
      /\ delivery' \in [Delivery -> DeliveryState]
      /\ change' \in [Change -> ChangeState]
      /\ sub \in [User -> Row \cup {None}]
  BY <1>1, Facts DEF IInv
<1>3. ASSUME NEW u \in User PROVE sub'[u] = sub[u] \/ (sub'[u] \in Row /\ RowOK(u)')
  <2>1. CASE PastDue(u)
    <3>1. sub'[u] = [sub[u] EXCEPT !.status = "expired"] BY <2>1 DEF Expire
    <3>2. sub[u] # None /\ "expired" \in Status BY <2>1 DEF PastDue, Status
    <3>3. UNCHANGED <<now, stripe, log>> BY <1>1
    <3> QED BY <3>1, <3>2, <3>3, StatusWritten
  <2>2. CASE ~PastDue(u) BY <2>2 DEF Expire
  <2> QED BY <2>1, <2>2
<1>4. sub' \in [User -> Row \cup {None}]
  <2>1. sub' = [u \in User |->
            IF PastDue(u) THEN [sub[u] EXCEPT !.status = "expired"] ELSE sub[u]]
    BY DEF Expire
  <2>2. \A u \in User : sub'[u] \in Row \cup {None} BY <1>2, <1>3
  <2>3. sub' = [u \in User |-> sub'[u]] BY <2>1
  <2> QED BY <2>2, <2>3
<1>5. \A u \in User : sub[u] # None => sub'[u] # None BY <1>3, NoneIsNoRecord
<1> QED BY <1>1, <1>2, <1>3, <1>4, <1>5, Touch

LEMMA RemovePlanStep ==
    ASSUME IInv, NEW p \in Removable, RemovePlan(p) PROVE IInv'
<1>1. /\ catalog' = catalog \ {p}
      /\ UNCHANGED <<now, sub, stripe, log, delivery, change, orderly>>
  BY DEF RemovePlan
<1>2. /\ catalog' \subseteq Plan
      /\ orderly' \in [User -> BOOLEAN]
      /\ sub' \in [User -> Row \cup {None}]
      /\ delivery' \in [Delivery -> DeliveryState]
      /\ change' \in [Change -> ChangeState]
  BY <1>1, Facts DEF IInv
<1> QED BY <1>1, <1>2, Touch

LEMMA ChangeReadStep ==
    ASSUME IInv, NEW h \in Change, NEW u \in User, NEW p \in Plan, ChangeRead(h, u, p)
    PROVE  IInv'
<1>1. sub[u] # None /\ Begin(u, TRUE) BY DEF ChangeRead
<1>2. PICK b \in Buy : sub[u].stripeSub = b /\ stripe[b] # None /\ stripe[b].user = u
  BY <1>1 DEF IInv, RowsOK, RowOK
<1> DEFINE r == [change[h] EXCEPT !.pc = "stripe", !.user = u, !.plan = p, !.buy = b]
<1>3. change[h] \in ChangeState BY Facts DEF IInv
<1>4. /\ r \in ChangeState
      /\ r.pc = "stripe" /\ r.user = u /\ r.plan = p /\ r.buy = b
  BY <1>3 DEF ChangeState
<1>5. /\ change' = [change EXCEPT ![h] = r]
      /\ UNCHANGED <<now, catalog, sub, stripe, log, delivery>>
  BY <1>2 DEF ChangeRead
<1> HIDE DEF r
<1>6. change'[h] = r BY <1>5, Facts DEF IInv
<1>7. ChangeOK(h)' BY <1>1, <1>2, <1>4, <1>5, <1>6 DEF ChangeOK
<1>8. orderly' \in [User -> BOOLEAN] BY <1>1, BeginTypes DEF IInv
<1> QED BY <1>4, <1>5, <1>7, <1>8, TouchChange

\* A change of plan that ends.
LEMMA ChangeMoved ==
    ASSUME IInv, NEW h \in Change, NEW pc \in {"done", "failed"},
           change' = [change EXCEPT ![h].pc = pc]
    PROVE  /\ change' \in [Change -> ChangeState]
           /\ \A k \in Change : change'[k] = change[k] \/ ChangeOK(k)'
           /\ ChangeOK(h)'
           /\ \E r \in ChangeState : change' = [change EXCEPT ![h] = r]
<1> DEFINE r == [change[h] EXCEPT !.pc = pc]
<1>1. change \in [Change -> ChangeState] BY Facts DEF IInv
<1>2. r \in ChangeState /\ r.pc = pc BY <1>1 DEF ChangeState
<1>3. change' = [change EXCEPT ![h] = r] OBVIOUS
<1> HIDE DEF r
<1>4. /\ change' \in [Change -> ChangeState]
      /\ change'[h] = r
      /\ \A k \in Change : k # h => change'[k] = change[k]
  BY <1>1, <1>2, <1>3
<1>5. ChangeOK(h)' BY <1>2, <1>4, ChangeEnded
<1> QED BY <1>2, <1>3, <1>4, <1>5

LEMMA ChangeFailsStep ==
    ASSUME IInv, NEW h \in Change, ChangeFails(h) PROVE IInv'
<1>1. /\ change' = [change EXCEPT ![h].pc = "failed"]
      /\ UNCHANGED <<now, catalog, sub, stripe, log, delivery, orderly>>
  BY DEF ChangeFails
<1>2. orderly' \in [User -> BOOLEAN] BY <1>1, Facts DEF IInv
<1>3. ChangeOK(h)' /\ \E r \in ChangeState : change' = [change EXCEPT ![h] = r]
  BY <1>1, ChangeMoved
<1> QED BY <1>1, <1>2, <1>3, TouchChange

LEMMA ChangeSaveStep ==
    ASSUME IInv, NEW h \in Change, ChangeSave(h) PROVE IInv'
<1>1. /\ change' = [change EXCEPT ![h].pc = "done"]
      /\ change[h].pc = "save" /\ change[h].end # NoTime
      /\ UNCHANGED <<now, catalog, stripe, log, delivery, orderly>>
  BY DEF ChangeSave
<1>2. PICK u \in User, p \in Plan, end \in Nat :
          /\ change[h].user = u /\ sub[u] # None /\ change[h].plan = p
          /\ change[h].end = end /\ Paid(u, end)
  BY <1>1 DEF IInv, ChangesOK, ChangeOK, ChangePending
<1>3. PICK b \in Buy : sub[u].stripeSub = b /\ stripe[b] # None /\ stripe[b].user = u
  BY <1>2 DEF IInv, RowsOK, RowOK
<1> DEFINE row == [sub[u] EXCEPT !.plan = p, !.end = end]
<1>4. sub[u] \in Row BY <1>2, Facts DEF IInv
<1>5. row \in Row /\ row.stripeSub = b /\ row.end = end BY <1>3, <1>4 DEF Row
<1>6. sub' = [sub EXCEPT ![u] = row] BY <1>2 DEF ChangeSave
<1> HIDE DEF row
<1>7. sub'[u] = row BY <1>6, Facts DEF IInv
<1>8. RowOK(u)' BY <1>1, <1>2, <1>3, <1>5, <1>7, NoneIsNoRecord, RowWritten
<1>9. /\ change' \in [Change -> ChangeState]
      /\ \A k \in Change : change'[k] = change[k] \/ ChangeOK(k)'
  BY <1>1, ChangeMoved
<1>10. delivery' \in [Delivery -> DeliveryState] BY <1>1, Facts DEF IInv
<1> QED BY <1>1, <1>5, <1>6, <1>8, <1>9, <1>10, TouchRow

------------------------------------------------------------------------------
(* Steps of Stripe and of the clock *)

\* What Stripe does keeps the invariant when its own part is right.
LEMMA TouchStripe ==
    ASSUME IInv, Grows, StripeOK',
           stripe' \in [Buy -> StripeSub \cup {None}],
           log' \in [Buy -> Seq(Event)],
           now' \in 0..MaxTime,
           change' \in [Change -> ChangeState],
           \A h \in Change : change'[h] = change[h] \/ ChangeOK(h)',
           UNCHANGED <<catalog, sub, delivery, orderly>>
    PROVE  IInv'
<1>1. TypeOK' BY DEF IInv, TypeOK
<1>2. /\ \A u \in User : RowOK(u)'
      /\ \A d \in Delivery : DeliveryOK(d)'
      /\ \A h \in Change : change'[h] = change[h] => ChangeOK(h)'
  BY Kept
<1> QED BY <1>1, <1>2 DEF IInv, RowsOK, DeliveriesOK, ChangesOK

\* Stripe's subscription b is replaced by another of the same account, whose
\* end is that of an event.
LEMMA StripeMoves ==
    ASSUME IInv, NEW b \in Buy, NEW s \in StripeSub, stripe[b] # None,
           stripe' = [stripe EXCEPT ![b] = s], s.user = stripe[b].user,
           log' \in [Buy -> Seq(Event)],
           \A c \in Buy : c # b => log'[c] = log[c],
           \A i \in 1..Len(log[b]) : i \in 1..Len(log'[b]) /\ log'[b][i] = log[b][i],
           Granted(b, s.end)', LinesOK(b)',
           UNCHANGED now
    PROVE  Grows /\ StripeOK' /\ stripe' \in [Buy -> StripeSub \cup {None}]
<1>1. stripe \in [Buy -> StripeSub \cup {None}] /\ now \in Nat BY Facts DEF IInv
<1>2. /\ stripe' \in [Buy -> StripeSub \cup {None}]
      /\ stripe'[b] = s
      /\ \A c \in Buy : c # b => stripe'[c] = stripe[c]
  BY <1>1
<1>3. s # None BY NoneIsNoRecord
<1>4. Grows BY <1>1, <1>2, <1>3 DEF Grows
<1>5. ASSUME NEW c \in Buy, c # b
      PROVE  /\ stripe'[c] # None => Granted(c, stripe[c].end)'
             /\ stripe'[c] = None => log'[c] = <<>>
             /\ LinesOK(c)'
  <2>1. stripe'[c] = stripe[c] /\ log'[c] = log[c] BY <1>2, <1>5
  <2>2. LinesOK(c) BY DEF IInv, StripeOK
  <2>3. LinesOK(c)' BY <2>1, <2>2 DEF LinesOK, Granted
  <2> QED BY <2>1, <2>3 DEF IInv, StripeOK, Granted
<1>6. StripeOK' BY <1>2, <1>3, <1>5 DEF StripeOK
<1> QED BY <1>2, <1>4, <1>6

LEMMA StripePurchaseStep ==
    ASSUME IInv, NEW b \in Buy, NEW u \in User, NEW p \in Plan, StripePurchase(b, u, p)
    PROVE  IInv'
<1>1. /\ stripe[b] = None
      /\ UNCHANGED <<now, catalog, sub, delivery, change, orderly>>
  BY DEF StripePurchase
<1>2. PICK end \in Nat : end = now + Trial BY NumberAssumption, Facts DEF IInv
<1>a. PICK line \in Nat \cup {NoTime} :
          /\ line \in {end, NoTime}
          /\ log' = [log EXCEPT ![b] =
                 << [type |-> "completed", plan |-> p, end |-> end, line |-> end],
                    [type |-> "created", plan |-> p, end |-> end, line |-> line] >>]
  BY <1>2 DEF StripePurchase, Lines
<1> DEFINE s == [user |-> u, plan |-> p, live |-> TRUE, end |-> end]
           first == [type |-> "completed", plan |-> p, end |-> end, line |-> end]
           second == [type |-> "created", plan |-> p, end |-> end, line |-> line]
<1>3. s \in StripeSub /\ s.end = end BY DEF StripeSub
<1>4. /\ first \in Event /\ second \in Event
      /\ first.end = end /\ first.line = end /\ second.line = line
  BY DEF Event
<1>5. /\ stripe' = [stripe EXCEPT ![b] = s]
      /\ log' = [log EXCEPT ![b] = <<first, second>>]
  BY <1>2, <1>a DEF StripePurchase
<1> HIDE DEF s, first, second
<1>6. /\ stripe \in [Buy -> StripeSub \cup {None}]
      /\ log \in [Buy -> Seq(Event)]
      /\ now \in Nat /\ now \in 0..MaxTime
      /\ change \in [Change -> ChangeState]
  BY Facts DEF IInv, TypeOK
<1>7. /\ stripe' \in [Buy -> StripeSub \cup {None}]
      /\ stripe'[b] = s
      /\ \A c \in Buy : c # b => stripe'[c] = stripe[c]
  BY <1>3, <1>5, <1>6
<1>8. <<first, second>> \in Seq(Event) BY <1>4
<1>9. /\ log' \in [Buy -> Seq(Event)]
      /\ log'[b] = <<first, second>>
      /\ \A c \in Buy : c # b => log'[c] = log[c]
  BY <1>5, <1>6, <1>8
<1>10. Granted(b, s.end)'
  <2>1. Len(log'[b]) = 2 /\ log'[b][1] = first BY <1>9
  <2>2. 1 \in 1..Len(log'[b]) /\ s.end = log'[b][1].end BY <1>3, <1>4, <2>1
  <2> QED BY <2>2 DEF Granted
<1>15. LinesOK(b)'
  <2>1. \A i \in 1..Len(log'[b]) : log'[b][i].line \in {end, NoTime}
    BY <1>a, <1>4, <1>9
  <2> QED BY <1>3, <1>10, <2>1 DEF LinesOK
<1>11. Grows
  <2>1. ASSUME NEW c \in Buy, stripe[c] # None
        PROVE  stripe'[c] = stripe[c] /\ log'[c] = log[c]
    <3>1. c # b BY <1>1, <2>1
    <3> QED BY <1>7, <1>9, <3>1
  <2>2. now' = now /\ now \in Nat BY <1>1, <1>6
  <2> QED BY <2>1, <2>2 DEF Grows
<1>12. s # None BY <1>3, NoneIsNoRecord
<1>13. ASSUME NEW c \in Buy, c # b
      PROVE  /\ stripe'[c] # None => Granted(c, stripe[c].end)'
             /\ stripe'[c] = None => log'[c] = <<>>
             /\ LinesOK(c)'
  <2>1. stripe'[c] = stripe[c] /\ log'[c] = log[c] BY <1>7, <1>9, <1>13
  <2>2. LinesOK(c) BY DEF IInv, StripeOK
  <2>3. LinesOK(c)' BY <2>1, <2>2 DEF LinesOK, Granted
  <2> QED BY <2>1, <2>3 DEF IInv, StripeOK, Granted
<1>14. StripeOK' BY <1>7, <1>10, <1>12, <1>13, <1>15 DEF StripeOK
<1> QED BY <1>1, <1>6, <1>7, <1>9, <1>11, <1>14, TouchStripe

\* Stripe changes b and emits the event that says so.
LEMMA StripeEmits ==
    ASSUME IInv, NEW b \in Buy, stripe[b] # None, NEW s \in StripeSub,
           stripe' = [stripe EXCEPT ![b] = s], s.user = stripe[b].user,
           NEW type \in {"changed", "renewed", "deleted"}, NEW plan \in Plan,
           NEW line \in {stripe[b].end, s.end, NoTime},
           Emit(b, type, plan, s.end, line), UNCHANGED now
    PROVE  /\ Grows /\ StripeOK'
           /\ stripe' \in [Buy -> StripeSub \cup {None}]
           /\ log' \in [Buy -> Seq(Event)]
           /\ Granted(b, s.end)'
<1>1. s.end \in Nat /\ line \in Nat \cup {NoTime} BY Facts DEF IInv, StripeSub
<1>3. /\ Granted(b, stripe[b].end) /\ LinesOK(b) BY DEF IInv, StripeOK
<1>2. /\ log' \in [Buy -> Seq(Event)]
      /\ \A c \in Buy : c # b => log'[c] = log[c]
      /\ \A i \in 1..Len(log[b]) : i \in 1..Len(log'[b]) /\ log'[b][i] = log[b][i]
      /\ Granted(b, s.end)' /\ LinesOK(b)'
  BY <1>1, <1>3, Emitted DEF IInv
<1> QED BY <1>2, StripeMoves

LEMMA StripeRenewStep ==
    ASSUME IInv, NEW b \in Buy, StripeRenew(b) PROVE IInv'
<1>1. /\ stripe[b] # None
      /\ UNCHANGED <<now, catalog, sub, delivery, change, orderly>>
  BY DEF StripeRenew
<1>2. stripe[b] \in StripeSub BY <1>1, Facts DEF IInv
<1>3. PICK end \in Nat : end = stripe[b].end + Period
  BY <1>2, NumberAssumption DEF StripeSub
<1> DEFINE s == [stripe[b] EXCEPT !.end = end]
<1>4. /\ s \in StripeSub /\ s.user = stripe[b].user /\ s.end = end
      /\ stripe[b].plan \in Plan
  BY <1>2 DEF StripeSub
<1>5. stripe' = [stripe EXCEPT ![b] = s] BY <1>3 DEF StripeRenew
<1>6. PICK line \in {s.end, NoTime} : Emit(b, "renewed", stripe[b].plan, s.end, line)
  BY <1>3, <1>4 DEF StripeRenew, Lines
<1> HIDE DEF s
<1>7. /\ Grows /\ StripeOK'
      /\ stripe' \in [Buy -> StripeSub \cup {None}]
      /\ log' \in [Buy -> Seq(Event)]
  BY <1>1, <1>4, <1>5, <1>6, StripeEmits
<1>8. now' \in 0..MaxTime /\ change' \in [Change -> ChangeState]
  BY <1>1 DEF IInv, TypeOK
<1> QED BY <1>1, <1>7, <1>8, TouchStripe

LEMMA StripeDeleteStep ==
    ASSUME IInv, NEW b \in Buy, StripeDelete(b) PROVE IInv'
<1>1. /\ stripe[b] # None
      /\ UNCHANGED <<now, catalog, sub, delivery, change, orderly>>
  BY DEF StripeDelete
<1>2. stripe[b] \in StripeSub BY <1>1, Facts DEF IInv
<1> DEFINE s == [stripe[b] EXCEPT !.live = FALSE]
<1>3. /\ s \in StripeSub /\ s.user = stripe[b].user /\ s.end = stripe[b].end
      /\ stripe[b].plan \in Plan
  BY <1>2 DEF StripeSub
<1>4. stripe' = [stripe EXCEPT ![b] = s] BY DEF StripeDelete
<1>5. Emit(b, "deleted", stripe[b].plan, s.end, s.end) BY <1>3 DEF StripeDelete
<1> HIDE DEF s
<1>6. /\ Grows /\ StripeOK'
      /\ stripe' \in [Buy -> StripeSub \cup {None}]
      /\ log' \in [Buy -> Seq(Event)]
  BY <1>1, <1>3, <1>4, <1>5, StripeEmits
<1>7. now' \in 0..MaxTime /\ change' \in [Change -> ChangeState]
  BY <1>1 DEF IInv, TypeOK
<1> QED BY <1>1, <1>6, <1>7, TouchStripe

LEMMA ChangeStripeStep ==
    ASSUME IInv, NEW h \in Change, ChangeStripe(h) PROVE IInv'
<1>1. /\ change[h].pc = "stripe"
      /\ UNCHANGED <<now, catalog, sub, delivery, orderly>>
  BY DEF ChangeStripe
<1>2. PICK b \in Buy, u \in User, p \in Plan :
          /\ change[h].buy = b /\ stripe[b] # None /\ stripe[b].user = u
          /\ change[h].user = u /\ sub[u] # None /\ change[h].plan = p
  BY <1>1 DEF IInv, ChangesOK, ChangeOK, ChangePending
<1>3. /\ stripe[b] \in StripeSub /\ now \in Nat
      /\ stripe \in [Buy -> StripeSub \cup {None}]
      /\ change \in [Change -> ChangeState]
  BY <1>2, Facts DEF IInv
<1>4. CASE /\ change' = [change EXCEPT ![h].pc = "failed"]
           /\ UNCHANGED <<stripe, log>>
  <2>1. orderly' \in [User -> BOOLEAN] BY <1>1, Facts DEF IInv
  <2>2. ChangeOK(h)' /\ \E r \in ChangeState : change' = [change EXCEPT ![h] = r]
    BY <1>4, ChangeMoved
  <2> QED BY <1>1, <1>4, <2>1, <2>2, TouchChange
<1>5. ASSUME NEW end \in {stripe[b].end, now + Period},
             stripe' = [stripe EXCEPT ![b].plan = p, ![b].end = end],
             change' = [change EXCEPT ![h] = [@ EXCEPT !.pc = "save", !.end = Reported(end)]],
             \/ end = stripe[b].end /\ UNCHANGED log
             \/ \E line \in {stripe[b].end, end, NoTime} : Emit(b, "changed", p, end, line)
      PROVE  IInv'
  <2>1. end \in Nat BY <1>3, NumberAssumption DEF StripeSub
  <2>2. PICK s : /\ s \in StripeSub /\ s.user = stripe[b].user /\ s.end = end
                 /\ stripe' = [stripe EXCEPT ![b] = s]
    <3> DEFINE r == [stripe[b] EXCEPT !.plan = p, !.end = end]
    <3>1. r \in StripeSub /\ r.user = stripe[b].user /\ r.end = end
      BY <1>3, <2>1 DEF StripeSub
    <3>2. stripe' = [stripe EXCEPT ![b] = r] BY <1>3, <1>5
    <3> QED BY <3>1, <3>2
  <2>3. stripe' = [stripe EXCEPT ![b] = s] BY <2>2
  <2>4. now' = now BY <1>1
  <2>5. /\ Grows /\ StripeOK'
        /\ stripe' \in [Buy -> StripeSub \cup {None}]
        /\ log' \in [Buy -> Seq(Event)]
        /\ Granted(b, end)'
    <3>1. ASSUME NEW line \in {stripe[b].end, end, NoTime}, Emit(b, "changed", p, end, line)
          PROVE  /\ Grows /\ StripeOK'
                 /\ stripe' \in [Buy -> StripeSub \cup {None}]
                 /\ log' \in [Buy -> Seq(Event)]
                 /\ Granted(b, end)'
      <4>1. Emit(b, "changed", p, s.end, line) BY <2>2, <3>1
      <4>2. line \in {stripe[b].end, s.end, NoTime} BY <2>2
      <4>3. /\ Grows /\ StripeOK'
            /\ stripe' \in [Buy -> StripeSub \cup {None}]
            /\ log' \in [Buy -> Seq(Event)]
            /\ Granted(b, s.end)'
        <5>1. stripe[b] # None /\ s \in StripeSub /\ s.user = stripe[b].user BY <1>2, <2>2
        <5>2. "changed" \in {"changed", "renewed", "deleted"} OBVIOUS
        <5> QED BY <2>3, <2>4, <4>1, <4>2, <5>1, <5>2, StripeEmits
      <4> QED BY <2>2, <4>3 DEF Granted
    <3>2. CASE end = stripe[b].end /\ UNCHANGED log
      <4>1. Granted(b, stripe[b].end) BY <1>2 DEF IInv, StripeOK
      <4>2. Granted(b, end)' BY <3>2, <4>1 DEF Granted
      <4>3. log' \in [Buy -> Seq(Event)] BY <3>2, Facts DEF IInv
      <4>5. LinesOK(b)' BY <3>2 DEF IInv, StripeOK, LinesOK, Granted
      <4>4. /\ \A c \in Buy : c # b => log'[c] = log[c]
            /\ \A i \in 1..Len(log[b]) : i \in 1..Len(log'[b]) /\ log'[b][i] = log[b][i]
        BY <3>2
      <4> QED BY <1>2, <2>2, <2>3, <2>4, <4>2, <4>3, <4>4, <4>5, StripeMoves
    <3> QED BY <1>5, <3>1, <3>2
  <2> DEFINE r == [change[h] EXCEPT !.pc = "save", !.end = Reported(end)]
  <2>6. Reported(end) \in Nat \cup {NoTime} BY <2>1 DEF Reported
  <2>7. /\ r \in ChangeState /\ r.pc = "save" /\ r.end = Reported(end)
        /\ r.buy = b /\ r.user = u /\ r.plan = p
    BY <1>2, <1>3, <2>6 DEF ChangeState
  <2>8. change' = [change EXCEPT ![h] = r] BY <1>5
  <2> HIDE DEF r
  <2>9. /\ change' \in [Change -> ChangeState]
        /\ change'[h] = r
        /\ \A k \in Change : k # h => change'[k] = change[k]
    BY <1>3, <2>7, <2>8
  <2>10. stripe'[b] # None /\ stripe'[b].user = u BY <1>2, <2>5 DEF Grows
  <2>11. Paid(u, end)' BY <2>5, <2>10 DEF Paid
  <2>12. ChangeOK(h)'
    <3>1. change'[h].end # NoTime => change'[h].end = end
      BY <2>7, <2>9 DEF Reported
    <3>2. sub'[u] # None BY <1>1, <1>2
    <3> QED BY <2>1, <2>7, <2>9, <2>10, <2>11, <3>1, <3>2 DEF ChangeOK
  <2>13. now' \in 0..MaxTime BY <1>1 DEF IInv, TypeOK
  <2> QED BY <1>1, <2>5, <2>9, <2>12, <2>13, TouchStripe
<1> QED BY <1>2, <1>4, <1>5 DEF ChangeStripe, Lines

LEMMA TickStep == ASSUME IInv, Tick PROVE IInv'
<1>1. /\ now < MaxTime /\ now' = now + 1
      /\ UNCHANGED <<catalog, sub, stripe, log, delivery, change, orderly>>
  BY DEF Tick
<1>2. /\ now \in 0..MaxTime
      /\ stripe' \in [Buy -> StripeSub \cup {None}]
      /\ log' \in [Buy -> Seq(Event)]
      /\ change' \in [Change -> ChangeState]
  BY <1>1 DEF IInv, TypeOK
<1>3. now' \in 0..MaxTime /\ now <= now' BY <1>1, <1>2, NumberAssumption
<1>4. Grows BY <1>1, <1>3, Quiet DEF IInv
<1>5. StripeOK' BY <1>1 DEF IInv, StripeOK, LinesOK, Granted
<1>6. \A h \in Change : change'[h] = change[h] BY <1>1
<1> QED BY <1>1, <1>2, <1>3, <1>4, <1>5, <1>6, TouchStripe

LEMMA StutterStep == ASSUME IInv, UNCHANGED vars PROVE IInv'
<1>1. UNCHANGED <<now, catalog, sub, stripe, log, delivery, change, orderly>> BY DEF vars
<1>2. /\ catalog' \subseteq Plan
      /\ orderly' \in [User -> BOOLEAN]
      /\ sub' \in [User -> Row \cup {None}]
      /\ delivery' \in [Delivery -> DeliveryState]
      /\ change' \in [Change -> ChangeState]
  BY <1>1, Facts DEF IInv
<1> QED BY <1>1, <1>2, Touch

------------------------------------------------------------------------------
(* Theorems *)

LEMMA Inductive == ASSUME IInv, [Next]_vars PROVE IInv'
<1>1. ASSUME NEW b \in Buy, StripeNext(b) PROVE IInv'
  BY <1>1, StripePurchaseStep, StripeRenewStep, StripeDeleteStep DEF StripeNext
<1>2. ASSUME NEW d \in Delivery, DeliveryNext(d) PROVE IInv'
  BY <1>2, ReceiveStep, PlanMissingStep, RetrieveStep, UpsertStep, FindStep,
     UpdateRowStep, RecordStep, DeleteRowStep, DeliveryFailsStep DEF DeliveryNext
<1>3. ASSUME NEW h \in Change, ChangeNext(h) PROVE IInv'
  BY <1>3, ChangeReadStep, ChangeStripeStep, ChangeSaveStep, ChangeFailsStep
     DEF ChangeNext
<1>4. ASSUME Next PROVE IInv'
  BY <1>1, <1>2, <1>3, <1>4, CancelStep, RemovePlanStep, ExpireStep, TickStep DEF Next
<1> QED BY <1>4, StutterStep

LEMMA InvHolds == Spec => []IInv
<1>1. Init => IInv BY InitHolds
<1>2. IInv /\ [Next]_vars => IInv' BY Inductive
<1> QED BY <1>1, <1>2, PTL DEF Spec

\* The webhook, the requests and the cron keep rows, subscriptions, events and
\* requests of their kinds; in particular a pending request never writes an end
\* it has not read (the date of the invoice, of retrieve, or the thirty days).
THEOREM BillingTypes == Spec => []TypeOK
<1>1. IInv => TypeOK BY DEF IInv
<1> QED BY <1>1, InvHolds, PTL

------------------------------------------------------------------------------
(* The payments *)

Names(u, b) == sub[u] # None /\ sub[u].stripeSub = b
About(d, b, i) == delivery[d].buy = b /\ delivery[d].index = i
Charged == {"completed", "renewed"}

\* Where a delivery is tells of which event it is; the first event of a
\* subscription is its checkout.
StageOK(d) ==
    /\ delivery[d].pc = "idle" => delivery[d].buy = None
    /\ delivery[d].recorded => delivery[d].pc = "done"
    /\ delivery[d].pc # "idle" =>
         \E b \in Buy : \E i \in 1..Len(log[b]) :
            /\ About(d, b, i) /\ stripe[b] # None
            /\ delivery[d].pc \in {"retrieve", "upsert"} => i = 1
            /\ delivery[d].pc \in {"find", "update"} => i # 1
            /\ delivery[d].pc = "delete" => log[b][i].type = "deleted"
            /\ delivery[d].pc = "record" \/ delivery[d].recorded => log[b][i].type \in Charged
Staged == \A d \in Delivery : StageOK(d)
Logged ==
    \A b \in Buy : \A i \in 1..Len(log[b]) :
        log[b][i].type = "completed" <=> i = 1

\* The delivery recorded its payment, or is about to, or stopped.
Charging(d) == delivery[d].recorded \/ delivery[d].pc \in {"record", "failed"}
Named ==
    \A u \in User, b \in Buy : Names(u, b) => \E d \in Delivery : About(d, b, 1) /\ Charging(d)

\* What orderly promises: an event has one delivery, after those before it; and a
\* payment of the subscription the row names is recorded once its delivery is done.
Once(b) ==
    \A d, e \in Delivery : \A i \in 1..Len(log[b]) : About(d, b, i) /\ About(e, b, i) => d = e
InOrder(b) ==
    \A d \in Delivery : \A i \in 1..Len(log[b]) : About(d, b, i) =>
        \A j \in 1..i - 1 : \E e \in Delivery : About(e, b, j) /\ delivery[e].pc = "done"
Paying(b) ==
    \A d \in Delivery : \A i \in 1..Len(log[b]) :
        About(d, b, i) /\ Names(stripe[b].user, b) =>
            /\ delivery[d].pc \notin {"retrieve", "upsert"}
            /\ delivery[d].pc = "done" /\ log[b][i].type \in Charged => delivery[d].recorded
Ordered ==
    \A b \in Buy : stripe[b] # None /\ orderly[stripe[b].user] =>
        Once(b) /\ InOrder(b) /\ Paying(b)

PayInv == Staged /\ Logged /\ Named /\ Ordered

LEMMA Placed ==
    ASSUME IInv, PayInv, NEW d \in Delivery, NEW b \in Buy, NEW i, About(d, b, i)
    PROVE  /\ i \in 1..Len(log[b]) /\ stripe[b] # None /\ stripe[b].user \in User
           /\ delivery[d].pc # "idle"
<1>1. delivery[d].pc # "idle"
  BY NoneAssumption DEF PayInv, Staged, StageOK, About
<1>2. PICK c \in Buy : \E k \in 1..Len(log[c]) : About(d, c, k) /\ stripe[c] # None
  BY <1>1 DEF PayInv, Staged, StageOK
<1>3. c = b /\ i \in 1..Len(log[b]) BY <1>2 DEF About
<1>4. stripe[b] \in StripeSub BY <1>2, <1>3, Facts DEF IInv
<1> QED BY <1>1, <1>2, <1>3, <1>4 DEF StripeSub

\* A delivery that stays where it is.
LEMMA StageKept ==
    ASSUME IInv, PayInv, Grows, NEW d \in Delivery, delivery'[d] = delivery[d]
    PROVE  StageOK(d)'
<1>1. StageOK(d) BY DEF PayInv, Staged
<1>2. CASE delivery[d].pc = "idle" BY <1>1, <1>2 DEF StageOK
<1>3. CASE delivery[d].pc # "idle"
  <2>1. PICK b \in Buy : \E i \in 1..Len(log[b]) :
          /\ About(d, b, i) /\ stripe[b] # None
          /\ delivery[d].pc \in {"retrieve", "upsert"} => i = 1
          /\ delivery[d].pc \in {"find", "update"} => i # 1
          /\ delivery[d].pc = "delete" => log[b][i].type = "deleted"
          /\ delivery[d].pc = "record" \/ delivery[d].recorded => log[b][i].type \in Charged
    BY <1>1, <1>3 DEF StageOK
  <2>2. PICK i \in 1..Len(log[b]) :
          /\ About(d, b, i) /\ stripe[b] # None
          /\ delivery[d].pc \in {"retrieve", "upsert"} => i = 1
          /\ delivery[d].pc \in {"find", "update"} => i # 1
          /\ delivery[d].pc = "delete" => log[b][i].type = "deleted"
          /\ delivery[d].pc = "record" \/ delivery[d].recorded => log[b][i].type \in Charged
    BY <2>1
  <2>3. stripe'[b] # None /\ i \in 1..Len(log'[b]) /\ log'[b][i] = log[b][i]
    BY <2>2 DEF Grows
  <2> QED BY <1>1, <1>3, <2>2, <2>3 DEF StageOK, About, Charged
<1> QED BY <1>2, <1>3

\* A step of Stripe, of the clock or of a row that goes on naming its subscription.
LEMMA PayKept ==
    ASSUME IInv, PayInv, Grows, Logged', UNCHANGED delivery,
           \A u \in User : orderly'[u] => orderly[u],
           \A u \in User, b \in Buy : Names(u, b)' => Names(u, b)
    PROVE  PayInv'
<1>1. Staged' BY StageKept DEF Staged
<1>2. Named' BY DEF PayInv, Named, About, Charging
<1>3. ASSUME NEW b \in Buy, stripe'[b] # None, orderly'[stripe'[b].user]
      PROVE  Once(b)' /\ InOrder(b)' /\ Paying(b)'
  <2>1. ASSUME NEW d \in Delivery, NEW i \in 1..Len(log'[b]), About(d, b, i)
        PROVE  /\ stripe[b] # None /\ stripe'[b].user = stripe[b].user /\ stripe[b].user \in User
               /\ i \in 1..Len(log[b]) /\ log'[b][i] = log[b][i]
    BY <2>1, Placed DEF Grows
  <2>2. ASSUME NEW d \in Delivery, NEW i \in 1..Len(log'[b]), About(d, b, i)
        PROVE  Once(b) /\ InOrder(b) /\ Paying(b)
    BY <1>3, <2>1, <2>2 DEF PayInv, Ordered
  <2>3. Once(b)' BY <2>1, <2>2 DEF Once, About
  <2>4. InOrder(b)' BY <2>1, <2>2 DEF InOrder, About
  <2>5. Paying(b)' BY <2>1, <2>2 DEF Paying, About
  <2> QED BY <2>3, <2>4, <2>5
<1> QED BY <1>1, <1>2, <1>3 DEF PayInv, Ordered

\* Stripe changes subscription b and says so.
LEMMA EmitLogs ==
    ASSUME IInv, Logged, NEW b \in Buy, stripe[b] # None,
           NEW type \in {"changed", "renewed", "deleted"}, NEW plan \in Plan, NEW end \in Nat,
           NEW line \in Nat \cup {NoTime}, Emit(b, type, plan, end, line), UNCHANGED now,
           stripe'[b] # None, stripe'[b].user = stripe[b].user,
           \A c \in Buy : c # b => stripe'[c] = stripe[c]
    PROVE  Grows /\ Logged'
<1>1. /\ \A c \in Buy : c # b => log'[c] = log[c]
      /\ \A i \in 1..Len(log[b]) : i \in 1..Len(log'[b]) /\ log'[b][i] = log[b][i]
  BY Emitted DEF IInv
<1>2. now \in Nat BY Facts DEF IInv
<1>3. Grows BY <1>1, <1>2 DEF Grows
<1> DEFINE e == [type |-> type, plan |-> plan, end |-> end, line |-> line]
<1>4. e \in Event /\ e.type # "completed" BY DEF Event
<1>5. log' = [log EXCEPT ![b] = Append(log[b], e)] BY DEF Emit
<1> HIDE DEF e
<1>6. log \in [Buy -> Seq(Event)] BY Facts DEF IInv
<1>7. log[b] \in Seq(Event) BY <1>6
<1>8. log'[b] = Append(log[b], e) BY <1>5, <1>6
<1>9. /\ Len(log'[b]) = Len(log[b]) + 1 /\ log'[b][Len(log[b]) + 1] = e
      /\ Len(log[b]) \in Nat
  BY <1>4, <1>7, <1>8
<1>10. Len(log[b]) # 0 BY <1>9 DEF IInv, StripeOK, Granted
<1>11. ASSUME NEW i \in 1..Len(log'[b]) PROVE log'[b][i].type = "completed" <=> i = 1
  <2>1. CASE i \in 1..Len(log[b]) BY <1>1, <2>1 DEF Logged
  <2>2. CASE i = Len(log[b]) + 1 BY <1>4, <1>9, <1>10, <2>2
  <2> QED BY <1>9, <2>1, <2>2
<1>12. Logged' BY <1>1, <1>11 DEF Logged
<1> QED BY <1>3, <1>12

LEMMA PurchaseLogs ==
    ASSUME IInv, Logged, NEW b \in Buy, NEW u \in User, NEW p \in Plan, StripePurchase(b, u, p)
    PROVE  Grows /\ Logged'
<1>a. PICK line : log' = [log EXCEPT ![b] =
          << [type |-> "completed", plan |-> p, end |-> now + Trial, line |-> now + Trial],
             [type |-> "created", plan |-> p, end |-> now + Trial, line |-> line] >>]
  BY DEF StripePurchase
<1> DEFINE first == [type |-> "completed", plan |-> p, end |-> now + Trial,
                     line |-> now + Trial]
           second == [type |-> "created", plan |-> p, end |-> now + Trial, line |-> line]
<1>1. /\ stripe[b] = None /\ UNCHANGED now
      /\ log' = [log EXCEPT ![b] = <<first, second>>]
      /\ \A c \in Buy : c # b => stripe'[c] = stripe[c]
  BY <1>a, Facts DEF IInv, StripePurchase
<1>2. first.type = "completed" /\ second.type # "completed" OBVIOUS
<1> HIDE DEF first, second
<1>3. /\ log'[b] = <<first, second>>
      /\ \A c \in Buy : c # b => log'[c] = log[c]
  BY <1>1, Facts DEF IInv
<1>4. now \in Nat BY Facts DEF IInv
<1>5. Grows BY <1>1, <1>3, <1>4 DEF Grows
<1>6. \A i \in 1..Len(log'[b]) : log'[b][i].type = "completed" <=> i = 1
  BY <1>2, <1>3
<1>7. Logged' BY <1>3, <1>6 DEF Logged
<1> QED BY <1>5, <1>7

LEMMA StripeLogs ==
    ASSUME IInv, Logged, NEW b \in Buy, StripeRenew(b) \/ StripeDelete(b)
    PROVE  Grows /\ Logged'
<1>1. stripe \in [Buy -> StripeSub \cup {None}] BY Facts DEF IInv
<1>2. stripe[b] # None /\ stripe[b] \in StripeSub BY <1>1 DEF StripeRenew, StripeDelete
<1>3. stripe[b].plan \in Plan /\ stripe[b].end \in Nat /\ stripe[b].end + Period \in Nat
  BY <1>2, NumberAssumption DEF StripeSub
<1>4. CASE StripeRenew(b)
  <2> DEFINE s == [stripe[b] EXCEPT !.end = @ + Period]
  <2>1. s \in StripeSub /\ s.user = stripe[b].user BY <1>2, <1>3 DEF StripeSub
  <2>2. stripe' = [stripe EXCEPT ![b] = s] BY <1>4 DEF StripeRenew
  <2> HIDE DEF s
  <2>3. stripe'[b] = s /\ s # None /\ \A c \in Buy : c # b => stripe'[c] = stripe[c]
    BY <1>1, <2>1, <2>2, NoneIsNoRecord
  <2>4. PICK line \in Nat \cup {NoTime} :
            Emit(b, "renewed", stripe[b].plan, stripe[b].end + Period, line) /\ UNCHANGED now
    BY <1>3, <1>4 DEF StripeRenew, Lines
  <2> QED BY <1>2, <1>3, <2>1, <2>3, <2>4, EmitLogs
<1>5. CASE StripeDelete(b)
  <2> DEFINE s == [stripe[b] EXCEPT !.live = FALSE]
  <2>1. s \in StripeSub /\ s.user = stripe[b].user BY <1>2 DEF StripeSub
  <2>2. stripe' = [stripe EXCEPT ![b] = s] BY <1>5 DEF StripeDelete
  <2> HIDE DEF s
  <2>3. stripe'[b] = s /\ s # None /\ \A c \in Buy : c # b => stripe'[c] = stripe[c]
    BY <1>1, <2>1, <2>2, NoneIsNoRecord
  <2>4. Emit(b, "deleted", stripe[b].plan, stripe[b].end, stripe[b].end) /\ UNCHANGED now
    BY <1>5 DEF StripeDelete
  <2> QED BY <1>2, <1>3, <2>1, <2>3, <2>4, EmitLogs
<1> QED BY <1>4, <1>5

LEMMA ChangeLogs ==
    ASSUME IInv, Logged, NEW h \in Change, ChangeStripe(h)
    PROVE  Grows /\ Logged'
<1>1. UNCHANGED now /\ now' \in 0..MaxTime /\ now <= now'
  BY Facts DEF ChangeStripe, IInv, TypeOK
<1>2. PICK b \in Buy, u \in User, p \in Plan :
          /\ change[h].buy = b /\ stripe[b] # None /\ change[h].plan = p
  BY DEF ChangeStripe, ChangePending, IInv, ChangesOK, ChangeOK
<1>3. stripe \in [Buy -> StripeSub \cup {None}] BY Facts DEF IInv
<1>4. stripe[b] \in StripeSub BY <1>2, <1>3
<1>5. CASE UNCHANGED <<stripe, log>> BY <1>1, <1>5, Quiet DEF IInv, Logged
<1>6. ASSUME NEW end \in {stripe[b].end, now + Period},
             stripe' = [stripe EXCEPT ![b].plan = p, ![b].end = end],
             \/ UNCHANGED log
             \/ \E line \in {stripe[b].end, end, NoTime} : Emit(b, "changed", p, end, line)
      PROVE  Grows /\ Logged'
  <2>1. end \in Nat BY <1>4, NumberAssumption, Facts DEF IInv, StripeSub
  <2> DEFINE s == [stripe[b] EXCEPT !.plan = p, !.end = end]
  <2>2. s \in StripeSub /\ s.user = stripe[b].user BY <1>4, <2>1 DEF StripeSub
  <2>3. stripe' = [stripe EXCEPT ![b] = s] BY <1>3, <1>6
  <2> HIDE DEF s
  <2>4. stripe'[b] = s /\ s # None /\ \A c \in Buy : c # b => stripe'[c] = stripe[c]
    BY <1>3, <2>2, <2>3, NoneIsNoRecord
  <2>5. ASSUME NEW line \in {stripe[b].end, end, NoTime}, Emit(b, "changed", p, end, line)
        PROVE  Grows /\ Logged'
    <3>1. line \in Nat \cup {NoTime} BY <1>4, <2>1 DEF StripeSub
    <3> QED BY <1>1, <1>2, <2>1, <2>2, <2>4, <2>5, <3>1, EmitLogs
  <2>6. CASE UNCHANGED log
    <3>1. now \in Nat BY Facts DEF IInv
    <3> QED BY <1>1, <2>2, <2>4, <2>6, <3>1 DEF Grows, Logged
  <2> QED BY <1>6, <2>5, <2>6
<1> QED BY <1>2, <1>5, <1>6 DEF ChangeStripe, Lines

\* Delivery d goes on with its event.  If the row names the subscription, d does
\* not go to write it again, and is not done with a payment it has not recorded.
LEMMA PayMoves ==
    ASSUME IInv, PayInv, NEW d \in Delivery, DeliveryPending(d), StageOK(d)',
           \A c \in Delivery : c # d => delivery'[c] = delivery[c],
           delivery'[d].buy = delivery[d].buy, delivery'[d].index = delivery[d].index,
           UNCHANGED <<now, stripe, log, orderly>>,
           delivery[d].pc = "record" => Charging(d)',
           \A u \in User, b \in Buy : Names(u, b)' <=> Names(u, b),
           \A b \in Buy, i \in Nat :
               About(d, b, i) /\ Names(stripe[b].user, b) /\ orderly[stripe[b].user] =>
               /\ delivery'[d].pc \notin {"retrieve", "upsert"}
               /\ delivery'[d].pc = "done" /\ log[b][i].type \in Charged
                      => delivery'[d].recorded
    PROVE  PayInv'
<1>1. now' \in 0..MaxTime /\ now <= now' BY Facts DEF IInv, TypeOK
<1>2. Grows BY <1>1, Quiet DEF IInv
<1>3. Staged' BY <1>2, StageKept DEF Staged
<1>4. \A c \in Delivery : \A b, i : About(c, b, i)' <=> About(c, b, i)
  BY DEF About
<1>5. \A c \in Delivery : delivery[c].pc = "done" => delivery'[c].pc = "done"
  BY DEF DeliveryPending
<1>6. Logged' BY DEF PayInv, Logged
<1>7. Named'
  <2>1. ~delivery[d].recorded /\ delivery[d].pc # "failed"
    BY DEF DeliveryPending, PayInv, Staged, StageOK
  <2>2. \A c \in Delivery : Charging(c) => Charging(c)' BY <2>1 DEF Charging
  <2> QED BY <1>4, <2>2 DEF PayInv, Named
<1>8. ASSUME NEW b \in Buy, stripe'[b] # None, orderly'[stripe'[b].user]
      PROVE  Once(b)' /\ InOrder(b)' /\ Paying(b)'
  <2>1. /\ stripe[b] # None /\ stripe'[b] = stripe[b] /\ log'[b] = log[b]
        /\ stripe[b].user \in User
        /\ Once(b) /\ InOrder(b) /\ Paying(b)
    <3>1. stripe[b] # None /\ stripe[b] \in StripeSub BY <1>8, Facts DEF IInv
    <3> QED BY <1>8, <3>1 DEF PayInv, Ordered, StripeSub
  <2>2. Once(b)' BY <1>4, <2>1 DEF Once
  <2>3. InOrder(b)' BY <1>4, <1>5, <2>1 DEF InOrder
  <2>4. ASSUME NEW c \in Delivery, NEW i \in 1..Len(log'[b]), About(c, b, i)',
               Names(stripe[b].user, b)', orderly[stripe[b].user]
        PROVE  /\ delivery'[c].pc \notin {"retrieve", "upsert"}
               /\ delivery'[c].pc = "done" /\ log[b][i].type \in Charged
                      => delivery'[c].recorded
    <3>1. About(c, b, i) /\ Names(stripe[b].user, b) BY <1>4, <2>1, <2>4
    <3>2. CASE c = d BY <2>4, <3>1, <3>2
    <3>3. CASE c # d BY <2>1, <3>1, <3>3 DEF Paying
    <3> QED BY <3>2, <3>3
  <2>5. Paying(b)' BY <1>8, <2>1, <2>4 DEF Paying
  <2> QED BY <2>2, <2>3, <2>5
<1> QED BY <1>3, <1>6, <1>7, <1>8 DEF PayInv, Ordered

\* Where delivery d is, under its event.
LEMMA StageOf ==
    ASSUME IInv, PayInv, NEW d \in Delivery, DeliveryPending(d)
    PROVE  \E b \in Buy, i \in Nat, e \in Event :
            /\ About(d, b, i) /\ stripe[b] # None /\ stripe[b].user \in User
            /\ i \in 1..Len(log[b]) /\ log[b][i] = e
            /\ delivery[d].pc \in {"retrieve", "upsert"} => i = 1
            /\ delivery[d].pc \in {"find", "update"} => i # 1
            /\ delivery[d].pc = "delete" => e.type = "deleted"
            /\ delivery[d].pc = "record" => e.type \in Charged
            /\ e.type = "completed" <=> i = 1
<1>1. delivery[d].pc # "idle" BY DEF DeliveryPending
<1>2. StageOK(d) BY DEF PayInv, Staged
<1>3. PICK b \in Buy : \E i \in 1..Len(log[b]) :
        /\ About(d, b, i) /\ stripe[b] # None
        /\ delivery[d].pc \in {"retrieve", "upsert"} => i = 1
        /\ delivery[d].pc \in {"find", "update"} => i # 1
        /\ delivery[d].pc = "delete" => log[b][i].type = "deleted"
        /\ delivery[d].pc = "record" \/ delivery[d].recorded => log[b][i].type \in Charged
  BY <1>1, <1>2 DEF StageOK
<1>4. PICK i \in 1..Len(log[b]) :
        /\ About(d, b, i) /\ stripe[b] # None
        /\ delivery[d].pc \in {"retrieve", "upsert"} => i = 1
        /\ delivery[d].pc \in {"find", "update"} => i # 1
        /\ delivery[d].pc = "delete" => log[b][i].type = "deleted"
        /\ delivery[d].pc = "record" \/ delivery[d].recorded => log[b][i].type \in Charged
  BY <1>3
<1>5. log[b] \in Seq(Event) /\ stripe[b] \in StripeSub BY <1>4, Facts DEF IInv
<1>6. log[b][i] \in Event /\ i \in Nat BY <1>5
<1>7. log[b][i].type = "completed" <=> i = 1 BY DEF PayInv, Logged
<1> QED BY <1>4, <1>5, <1>6, <1>7 DEF StripeSub

\* A delivery that is about no other event than b's i-th is well staged.
LEMMA Staging ==
    ASSUME NEW d \in Delivery, NEW b \in Buy, NEW i \in 1..Len(log[b]), stripe[b] # None,
           UNCHANGED <<stripe, log>>, About(d, b, i)',
           delivery'[d].pc # "idle",
           delivery'[d].recorded => delivery'[d].pc = "done",
           delivery'[d].pc \in {"retrieve", "upsert"} => i = 1,
           delivery'[d].pc \in {"find", "update"} => i # 1,
           delivery'[d].pc = "delete" => log[b][i].type = "deleted",
           delivery'[d].pc = "record" \/ delivery'[d].recorded => log[b][i].type \in Charged
    PROVE  StageOK(d)'
  BY DEF StageOK, About, Charged

\* A row that is written goes on naming its subscription.
LEMMA RowRenamed ==
    ASSUME NEW u \in User, NEW r \in Row, sub \in [User -> Row \cup {None}],
           sub' = [sub EXCEPT ![u] = r], sub[u] # None, r.stripeSub = sub[u].stripeSub
    PROVE  \A v \in User, c \in Buy : Names(v, c)' <=> Names(v, c)
<1>1. r # None BY NoneIsNoRecord
<1> QED BY <1>1 DEF Names

\* The steps of a delivery that write no row but its own.
LEMMA DeliveryPays ==
    ASSUME IInv, PayInv, NEW d \in Delivery,
           \/ PlanMissing(d) \/ Retrieve(d) \/ Find(d) \/ UpdateRow(d) \/ Record(d)
           \/ DeleteRow(d) \/ DeliveryFails(d)
    PROVE  PayInv'
<1>1. DeliveryPending(d)
  BY DEF DeliveryPending, PlanMissing, Retrieve, Find, UpdateRow, Record, DeleteRow,
         DeliveryFails
<1>2. UNCHANGED <<now, stripe, log, orderly>>
  BY DEF PlanMissing, Retrieve, Find, UpdateRow, Record, DeleteRow, DeliveryFails
<1>3. PICK b \in Buy, i \in Nat, e \in Event :
        /\ About(d, b, i) /\ stripe[b] # None /\ stripe[b].user \in User
        /\ i \in 1..Len(log[b]) /\ log[b][i] = e
        /\ delivery[d].pc \in {"retrieve", "upsert"} => i = 1
        /\ delivery[d].pc \in {"find", "update"} => i # 1
        /\ delivery[d].pc = "delete" => e.type = "deleted"
        /\ delivery[d].pc = "record" => e.type \in Charged
        /\ e.type = "completed" <=> i = 1
  BY <1>1, StageOf
<1> DEFINE u == stripe[b].user
<1>4. ~delivery[d].recorded BY <1>1 DEF DeliveryPending, PayInv, Staged, StageOK
<1>5. delivery \in [Delivery -> DeliveryState] /\ sub \in [User -> Row \cup {None}]
  BY Facts DEF IInv
<1>6. delivery[d] \in DeliveryState BY <1>5
<1> DEFINE Moved ==
        /\ \A c \in Delivery : c # d => delivery'[c] = delivery[c]
        /\ delivery'[d].buy = delivery[d].buy /\ delivery'[d].index = delivery[d].index
<1>7. /\ Moved
      /\ \/ /\ delivery[d].pc = "retrieve" /\ delivery'[d].pc \in {"done", "upsert"}
            /\ ~delivery'[d].recorded
         \/ /\ delivery[d].pc = "find" /\ ~delivery'[d].recorded
            /\ delivery'[d].pc = IF Names(u, b) THEN "update" ELSE "done"
         \/ /\ delivery[d].pc = "update" /\ ~delivery'[d].recorded
            /\ delivery'[d].pc = IF e.type = "renewed" THEN "record" ELSE "done"
         \/ delivery[d].pc = "record" /\ delivery'[d].pc = "done" /\ delivery'[d].recorded
         \/ delivery[d].pc = "delete" /\ delivery'[d].pc = "done" /\ ~delivery'[d].recorded
         \/ delivery'[d].pc = "failed" /\ ~delivery'[d].recorded
  <2>1. CASE PlanMissing(d) BY <1>4, <1>5, <1>6, <2>1 DEF DeliveryState, PlanMissing
  <2>2. CASE Retrieve(d) BY <1>4, <1>5, <1>6, <2>2 DEF DeliveryState, Retrieve
  <2>3. CASE Find(d) BY <1>3, <1>4, <1>5, <1>6, <2>3 DEF DeliveryState, Find, Names, About
  <2>4. CASE UpdateRow(d) BY <1>3, <1>4, <1>5, <1>6, <2>4 DEF DeliveryState, UpdateRow, About
  <2>5. CASE Record(d) BY <1>5, <1>6, <2>5 DEF DeliveryState, Record
  <2>6. CASE DeleteRow(d) BY <1>4, <1>5, <1>6, <2>6 DEF DeliveryState, DeleteRow
  <2>7. CASE DeliveryFails(d) BY <1>4, <1>5, <1>6, <2>7 DEF DeliveryState, DeliveryFails
  <2> QED BY <2>1, <2>2, <2>3, <2>4, <2>5, <2>6, <2>7
<1>8. \A v \in User, c \in Buy : Names(v, c)' <=> Names(v, c)
  <2>1. CASE UNCHANGED sub BY <2>1 DEF Names
  <2>2. CASE UpdateRow(d)
    <3>1. sub[u] # None BY <1>1, <1>3, <2>2, Subject DEF UpdateRow, About
    <3>2. PICK end \in Nat : end = InvoiceEnd(e) BY InvoiceEnds
    <3>7. sub[u] \in Row BY <1>3, <1>5, <3>1
    <3>3. sub' = [sub EXCEPT ![u] = [sub[u] EXCEPT !.status = "active", !.end = end]]
      BY <1>3, <2>2, <3>2 DEF UpdateRow, About
    <3> DEFINE r == [sub[u] EXCEPT !.status = "active", !.end = end]
    <3>4. r \in Row /\ r.stripeSub = sub[u].stripeSub BY <3>7 DEF Row, Status
    <3>5. sub' = [sub EXCEPT ![u] = r] BY <3>3
    <3> HIDE DEF r
    <3>6. stripe[b].user \in User /\ sub \in [User -> Row \cup {None}] BY <1>3, <1>5
    <3> QED BY <3>1, <3>4, <3>5, <3>6, RowRenamed
  <2>3. CASE DeleteRow(d)
    <3>1. CASE sub[u] # None /\ sub[u].stripeSub = b
      <4>1. sub[u] \in Row BY <1>3, <1>5, <3>1
      <4>2. sub' = [sub EXCEPT ![u] = [sub[u] EXCEPT !.status = "canceled"]]
        BY <1>3, <2>3, <3>1 DEF DeleteRow, About
      <4> DEFINE r == [sub[u] EXCEPT !.status = "canceled"]
      <4>3. r \in Row /\ r.stripeSub = sub[u].stripeSub BY <4>1 DEF Row, Status
      <4>4. sub' = [sub EXCEPT ![u] = r] BY <4>2
      <4> HIDE DEF r
      <4>5. stripe[b].user \in User /\ sub \in [User -> Row \cup {None}] BY <1>3, <1>5
      <4> QED BY <3>1, <4>3, <4>4, <4>5, RowRenamed
    <3>2. CASE ~(sub[u] # None /\ sub[u].stripeSub = b)
      BY <1>3, <2>3, <3>2 DEF DeleteRow, About, Names
    <3> QED BY <3>1, <3>2
  <2> QED BY <2>1, <2>2, <2>3 DEF PlanMissing, Retrieve, Find, Record, DeliveryFails
<1>9. About(d, b, i)' BY <1>3, <1>7 DEF About
<1>10. e.type \in {"completed", "created", "changed", "renewed", "deleted"} BY DEF Event
<1>11. StageOK(d)'
  BY <1>2, <1>3, <1>7, <1>9, <1>10, Staging DEF Charged
<1>12. Names(u, b) /\ orderly[u] =>
           /\ delivery'[d].pc \notin {"retrieve", "upsert"}
           /\ delivery'[d].pc = "done" /\ e.type \in Charged => delivery'[d].recorded
  <2>1. Names(u, b) /\ orderly[u] => delivery[d].pc # "retrieve"
    BY <1>3 DEF PayInv, Ordered, Paying
  <2> QED BY <1>3, <1>7, <1>10, <2>1 DEF Charged
<1>13. ASSUME NEW c \in Buy, NEW k \in Nat, About(d, c, k) PROVE c = b /\ k = i
  BY <1>3, <1>13 DEF About
<1>14. delivery[d].pc = "record" => Charging(d)' BY <1>7 DEF Charging
<1> QED BY <1>1, <1>2, <1>3, <1>7, <1>8, <1>11, <1>12, <1>13, <1>14, PayMoves

\* An event that arrives: it is in order when the row names the subscription or a
\* delivery of it is under way, and then it is its first delivery.
LEMMA ReceivePays ==
    ASSUME IInv, PayInv, NEW d \in Delivery, NEW b \in Buy, NEW i \in 1..MaxEvents,
           Receive(d, b, i)
    PROVE  PayInv'
<1> DEFINE u == stripe[b].user
<1>1. UNCHANGED <<now, sub, stripe, log>> /\ i \in 1..Len(log[b]) /\ i \in Nat
  BY DEF Receive
<1>2. log[b] \in Seq(Event) /\ log[b][i] \in Event BY <1>1, Facts DEF IInv
<1>3. stripe[b] # None /\ u \in User
  BY <1>1, Facts DEF IInv, StripeOK, StripeSub
<1>4. delivery \in [Delivery -> DeliveryState] /\ delivery[d] \in DeliveryState
      /\ orderly \in [User -> BOOLEAN]
  BY Facts DEF IInv
<1>5. delivery[d].pc = "idle" /\ delivery[d].buy = None /\ ~delivery[d].recorded
  BY DEF Receive, PayInv, Staged, StageOK
<1>6. /\ \A c \in Delivery : c # d => delivery'[c] = delivery[c]
      /\ delivery'[d].pc = First[log[b][i].type] /\ delivery'[d].buy = b
      /\ delivery'[d].index = i /\ delivery'[d].recorded = delivery[d].recorded
  BY <1>4 DEF Receive, DeliveryState
<1>7. log[b][i].type = "completed" <=> i = 1 BY <1>1 DEF PayInv, Logged
<1>8. /\ delivery'[d].pc \in {"retrieve", "find", "delete"}
      /\ delivery'[d].pc = "retrieve" <=> i = 1
      /\ delivery'[d].pc = "delete" => log[b][i].type = "deleted"
  BY <1>2, <1>6, <1>7 DEF First, Event
<1>9. now' \in 0..MaxTime /\ now <= now' BY <1>1, Facts DEF IInv, TypeOK
<1>10. Grows BY <1>1, <1>9, Quiet DEF IInv
<1>11. About(d, b, i)' BY <1>6 DEF About
<1>12. StageOK(d)'
  BY <1>1, <1>3, <1>5, <1>6, <1>8, <1>11, Staging
<1>13. Staged' BY <1>6, <1>10, <1>12, StageKept DEF Staged
<1>14. Logged' BY <1>1 DEF PayInv, Logged
<1>15. \A c \in Delivery : \A a, k :
          About(c, a, k)' <=> IF c = d THEN a = b /\ k = i ELSE About(c, a, k)
  BY <1>6 DEF About
<1>16. \A c \in Delivery, a \in Buy : \A k : About(c, a, k) => c # d
  BY <1>5, NoneAssumption DEF About
<1>17. Named' BY <1>1, <1>6, <1>15, <1>16 DEF PayInv, Named, Names, Charging
<1>18. \A v \in User : /\ orderly'[v] => orderly[v]
                       /\ orderly'[u] => NextInOrder(b, i)
  BY <1>3, <1>4 DEF Receive, Begin
<1>19. NextInOrder(b, i) =>
           /\ \A c \in Delivery : ~About(c, b, i)
           /\ \A j \in 1..i - 1 : \E c \in Delivery : About(c, b, j) /\ delivery[c].pc = "done"
  <2>1. SUFFICES ASSUME NextInOrder(b, i)
                 PROVE  /\ \A c \in Delivery : ~About(c, b, i)
                        /\ \A j \in 1..i - 1 : \E c \in Delivery :
                               About(c, b, j) /\ delivery[c].pc = "done"
    OBVIOUS
  <2>2. \A c \in Delivery : ~About(c, b, i)
    <3>1. i \in 1..i BY <1>1
    <3>2. {c \in Delivery : delivery[c].buy = b /\ delivery[c].index = i} = {}
      BY <2>1, <3>1 DEF NextInOrder
    <3> QED BY <3>2 DEF About
  <2>3. ASSUME NEW j \in 1..i - 1
        PROVE  \E c \in Delivery : About(c, b, j) /\ delivery[c].pc = "done"
    <3>1. j \in 1..i /\ j # i BY <1>1
    <3>2. \E c \in {c \in Delivery : delivery[c].buy = b /\ delivery[c].index = j} :
              delivery[c].pc = "done"
      BY <2>1, <3>1 DEF NextInOrder
    <3> QED BY <3>2 DEF About
  <2> QED BY <2>2, <2>3
<1>20. ASSUME NEW a \in Buy, stripe'[a] # None, orderly'[stripe'[a].user]
       PROVE  Once(a)' /\ InOrder(a)' /\ Paying(a)'
  <2>1. stripe[a].user \in User /\ stripe[a] # None
    BY <1>1, <1>20, Facts DEF IInv, StripeSub
  <2>2. Once(a) /\ InOrder(a) /\ Paying(a)
    BY <1>1, <1>18, <1>20, <2>1 DEF PayInv, Ordered
  <2>3. a = b => NextInOrder(b, i) BY <1>1, <1>18, <1>20, <2>1
  <2>4. \A c \in Delivery : c # d => delivery'[c] = delivery[c] BY <1>6
  <2>5. \A c \in Delivery : delivery[c].pc = "done" => delivery'[c].pc = "done"
    BY <1>5, <1>6
  <2>6. Once(a)' BY <1>1, <1>15, <1>19, <2>2, <2>3 DEF Once
  <2>7. InOrder(a)'
    <3>1. ASSUME NEW c \in Delivery, NEW k \in 1..Len(log[a]), About(c, a, k)',
                 NEW j \in 1..k - 1
          PROVE  \E e \in Delivery : About(e, a, j) /\ delivery[e].pc = "done"
      BY <1>15, <1>19, <2>2, <2>3, <3>1 DEF InOrder
    <3> QED BY <1>1, <1>15, <1>16, <2>5, <3>1 DEF InOrder
  <2>8. Paying(a)'
    <3>1. ASSUME NEW c \in Delivery, NEW k \in 1..Len(log[a]), About(c, a, k)',
                 Names(stripe[a].user, a)
          PROVE  /\ delivery'[c].pc \notin {"retrieve", "upsert"}
                 /\ delivery'[c].pc = "done" /\ log[a][k].type \in Charged
                        => delivery'[c].recorded
      <4>1. CASE c # d BY <1>6, <1>15, <2>2, <3>1, <4>1 DEF Paying
      <4>2. CASE c = d
        <5>1. a = b /\ k = i BY <1>15, <3>1, <4>2
        <5>2. \E e \in Delivery : About(e, b, 1) BY <2>1, <3>1, <5>1 DEF PayInv, Named
        <5>3. i # 1 BY <1>19, <2>3, <5>1, <5>2
        <5> QED BY <1>8, <4>2, <5>3
      <4> QED BY <4>1, <4>2
    <3>2. Names(stripe[a].user, a)' <=> Names(stripe[a].user, a) BY <1>1 DEF Names
    <3> QED BY <1>1, <3>1, <3>2 DEF Paying
  <2> QED BY <2>6, <2>7, <2>8
<1> QED BY <1>13, <1>14, <1>17, <1>20 DEF PayInv, Ordered

\* The upsert of a checkout: d is the only delivery of b's first event, and those
\* of the others would have waited for it.
LEMMA UpsertPays ==
    ASSUME IInv, PayInv, NEW d \in Delivery, Upsert(d)
    PROVE  PayInv'
<1>1. DeliveryPending(d) /\ delivery[d].pc = "upsert" BY DEF DeliveryPending, Upsert
<1>2. PICK b \in Buy, i \in Nat, e \in Event :
        /\ About(d, b, i) /\ stripe[b] # None /\ stripe[b].user \in User
        /\ i \in 1..Len(log[b]) /\ log[b][i] = e
        /\ delivery[d].pc \in {"retrieve", "upsert"} => i = 1
        /\ e.type = "completed" <=> i = 1
  BY <1>1, StageOf
<1> DEFINE u == stripe[b].user
<1>3. i = 1 /\ e.type = "completed" BY <1>1, <1>2
<1>4. ~delivery[d].recorded BY <1>1 DEF PayInv, Staged, StageOK
<1>5. /\ delivery \in [Delivery -> DeliveryState] /\ delivery[d] \in DeliveryState
      /\ sub \in [User -> Row \cup {None}]
  BY Facts DEF IInv
<1>6. /\ \A c \in Delivery : c # d => delivery'[c] = delivery[c]
      /\ delivery'[d].pc = "record" /\ delivery'[d].buy = b /\ delivery'[d].index = i
      /\ delivery'[d].recorded = delivery[d].recorded
  BY <1>2, <1>5 DEF Upsert, DeliveryState, About
<1>7. UNCHANGED <<now, stripe, log, orderly>> BY DEF Upsert
<1>8. now' \in 0..MaxTime /\ now <= now' BY <1>7, Facts DEF IInv, TypeOK
<1>9. Grows BY <1>7, <1>8, Quiet DEF IInv
<1>10. About(d, b, i)' BY <1>6 DEF About
<1>11. StageOK(d)' BY <1>2, <1>3, <1>4, <1>6, <1>7, <1>10, Staging DEF Charged
<1>12. Staged' BY <1>6, <1>9, <1>11, StageKept DEF Staged
<1>13. Logged' BY <1>7 DEF PayInv, Logged
<1>14. \A c \in Delivery : \A a, k : About(c, a, k)' <=> About(c, a, k)
  BY <1>2, <1>6 DEF About
<1>15. \A v \in User, a \in Buy : Names(v, a)' <=> IF v = u THEN a = b ELSE Names(v, a)
  <2> DEFINE r == [stripeSub |-> b, plan |-> e.plan, status |-> "active",
                   end |-> delivery[d].end]
  <2>1. PICK end \in Nat : delivery[d].end = end BY <1>1, Subject
  <2>2. r \in Row /\ r.stripeSub = b BY <2>1 DEF Row, Status, Event
  <2>3. sub' = [sub EXCEPT ![u] = r] BY <1>2 DEF Upsert, About
  <2> HIDE DEF r
  <2>4. r # None BY <2>2, NoneIsNoRecord
  <2> QED BY <1>2, <1>5, <2>2, <2>3, <2>4 DEF Names
<1>16. Named'
  <2>1. \A c \in Delivery : Charging(c) => Charging(c)' BY <1>6 DEF Charging
  <2>2. Charging(d)' BY <1>6 DEF Charging
  <2> QED BY <1>2, <1>3, <1>14, <1>15, <2>1, <2>2 DEF PayInv, Named
<1>17. ASSUME NEW a \in Buy, stripe'[a] # None, orderly'[stripe'[a].user]
       PROVE  Once(a)' /\ InOrder(a)' /\ Paying(a)'
  <2>1. stripe[a].user \in User /\ stripe[a] # None
    BY <1>7, <1>17, Facts DEF IInv, StripeSub
  <2>2. Once(a) /\ InOrder(a) /\ Paying(a)
    BY <1>7, <1>17, <2>1 DEF PayInv, Ordered
  <2>3. \A c \in Delivery : delivery[c].pc = "done" => delivery'[c].pc = "done"
    BY <1>1, <1>6
  <2>4. Once(a)' BY <1>7, <1>14, <2>2 DEF Once
  <2>5. InOrder(a)' BY <1>7, <1>14, <2>2, <2>3 DEF InOrder
  <2>6. ASSUME NEW c \in Delivery, NEW k \in 1..Len(log[a]), About(c, a, k),
               Names(stripe[a].user, a)'
        PROVE  /\ delivery'[c].pc \notin {"retrieve", "upsert"}
               /\ delivery'[c].pc = "done" /\ log[a][k].type \in Charged
                      => delivery'[c].recorded
    <3>1. CASE c = d BY <1>6, <3>1
    <3>2. CASE c # d /\ a = b
      <4>1. k # 1 BY <1>2, <1>3, <2>2, <2>6, <3>2 DEF Once
      <4>2. PICK f \in Delivery : About(f, b, 1) /\ delivery[f].pc = "done"
        BY <2>2, <2>6, <3>2, <4>1 DEF InOrder
      <4>3. f = d BY <1>2, <1>3, <2>2, <3>2, <4>2 DEF Once
      <4> QED BY <1>1, <4>2, <4>3
    <3>3. CASE c # d /\ a # b
      <4>1. Names(stripe[a].user, a) BY <1>7, <1>15, <2>1, <2>6, <3>3
      <4> QED BY <1>6, <2>2, <2>6, <3>3, <4>1 DEF Paying
    <3> QED BY <3>1, <3>2, <3>3
  <2>7. Paying(a)' BY <1>7, <1>14, <2>6 DEF Paying
  <2> QED BY <2>4, <2>5, <2>7
<1> QED BY <1>12, <1>13, <1>16, <1>17 DEF PayInv, Ordered

\* Rows that are written by the requests and by the cron.
LEMMA RowsPay ==
    ASSUME IInv, PayInv,
           \/ Expire
           \/ \E u \in User : Cancel(u)
           \/ \E h \in Change : ChangeSave(h)
    PROVE  PayInv'
<1>1. UNCHANGED <<now, stripe, log, delivery, orderly>> BY DEF Cancel, Expire, ChangeSave
<1>2. now' \in 0..MaxTime /\ now <= now' BY <1>1, Facts DEF IInv, TypeOK
<1>3. Grows BY <1>1, <1>2, Quiet DEF IInv
<1>4. Logged' BY <1>1 DEF PayInv, Logged
<1>5. sub \in [User -> Row \cup {None}] BY Facts DEF IInv
<1>6. \A u \in User, b \in Buy : Names(u, b)' => Names(u, b)
  <2>1. ASSUME NEW u \in User, Cancel(u)
        PROVE  \A v \in User, b \in Buy : Names(v, b)' => Names(v, b)
    <3> DEFINE r == [sub[u] EXCEPT !.status = "canceled"]
    <3>1. sub[u] # None /\ sub' = [sub EXCEPT ![u] = r] BY <2>1 DEF Cancel
    <3>2. r \in Row /\ r.stripeSub = sub[u].stripeSub BY <1>5, <3>1 DEF Row, Status
    <3> HIDE DEF r
    <3> QED BY <1>5, <3>1, <3>2, RowRenamed
  <2>2. ASSUME NEW h \in Change, ChangeSave(h)
        PROVE  \A v \in User, b \in Buy : Names(v, b)' => Names(v, b)
    <3>1. ChangePending(h) BY <2>2 DEF ChangeSave, ChangePending
    <3>2. PICK u \in User : change[h].user = u /\ sub[u] # None
      BY <3>1 DEF IInv, ChangesOK, ChangeOK
    <3> DEFINE r == [sub[u] EXCEPT !.plan = change[h].plan, !.end = change[h].end]
    <3>3. change[h].plan \in Plan /\ change[h].end \in Nat
      <4>1. change[h] \in ChangeState BY Facts DEF IInv
      <4>2. change[h].plan \in Plan BY <2>2, Facts DEF IInv, ChangeSave
      <4> QED BY <2>2, <4>1, <4>2 DEF ChangeSave, ChangeState
    <3>4. sub' = [sub EXCEPT ![u] = r] BY <2>2, <3>2 DEF ChangeSave
    <3>5. r \in Row /\ r.stripeSub = sub[u].stripeSub BY <1>5, <3>2, <3>3 DEF Row
    <3> HIDE DEF r
    <3> QED BY <1>5, <3>2, <3>4, <3>5, RowRenamed
  <2>3. CASE Expire
    <3>1. ASSUME NEW u \in User, NEW b \in Buy, Names(u, b)' PROVE Names(u, b)
      <4>1. sub'[u] = IF PastDue(u) THEN [sub[u] EXCEPT !.status = "expired"] ELSE sub[u]
        BY <2>3 DEF Expire
      <4>2. CASE PastDue(u)
        <5>1. sub[u] \in Row BY <1>5, <4>2 DEF PastDue
        <5>2. [sub[u] EXCEPT !.status = "expired"].stripeSub = sub[u].stripeSub
          BY <5>1 DEF Row
        <5> QED BY <3>1, <4>1, <4>2, <5>2 DEF Names, PastDue
      <4>3. CASE ~PastDue(u) BY <3>1, <4>1, <4>3 DEF Names
      <4> QED BY <4>2, <4>3
    <3> QED BY <3>1
  <2> QED BY <2>1, <2>2, <2>3
<1> QED BY <1>1, <1>3, <1>4, <1>6, PayKept

\* The steps that write neither a delivery nor a row.
LEMMA OthersPay ==
    ASSUME IInv, PayInv,
           \/ \E b \in Buy : StripeNext(b)
           \/ \E h \in Change : \/ \E u \in User, p \in Plan : ChangeRead(h, u, p)
                                \/ ChangeStripe(h) \/ ChangeFails(h)
           \/ \E p \in Removable : RemovePlan(p)
           \/ Tick
           \/ UNCHANGED vars
    PROVE  PayInv'
<1>1. UNCHANGED <<sub, delivery>>
  BY DEF StripeNext, StripePurchase, StripeRenew, StripeDelete, ChangeRead, ChangeStripe,
         ChangeFails, RemovePlan, Tick, vars
<1>2. \A u \in User, b \in Buy : Names(u, b)' => Names(u, b) BY <1>1 DEF Names
<1>3. \A u \in User : orderly'[u] => orderly[u]
  <2>1. ASSUME NEW h \in Change, NEW v \in User, NEW p \in Plan, ChangeRead(h, v, p)
        PROVE  \A u \in User : orderly'[u] => orderly[u]
    BY <2>1, Facts DEF IInv, ChangeRead, Begin
  <2> QED BY <2>1 DEF StripeNext, StripePurchase, StripeRenew, StripeDelete, ChangeStripe,
                      ChangeFails, RemovePlan, Tick, vars
<1>4. Logged BY DEF PayInv
<1>5. Grows /\ Logged'
  <2>1. CASE UNCHANGED <<stripe, log>> /\ (UNCHANGED now \/ Tick)
    <3>1. now' \in 0..MaxTime /\ now <= now'
      BY <2>1, Facts, NumberAssumption DEF IInv, TypeOK, Tick
    <3>2. Grows BY <2>1, <3>1, Quiet DEF IInv
    <3> QED BY <1>4, <2>1, <3>2 DEF Logged
  <2>2. ASSUME NEW b \in Buy, StripeNext(b) PROVE Grows /\ Logged'
    BY <1>4, <2>2, PurchaseLogs, StripeLogs DEF StripeNext
  <2>3. ASSUME NEW h \in Change, ChangeStripe(h) PROVE Grows /\ Logged'
    BY <1>4, <2>3, ChangeLogs
  <2> QED BY <2>1, <2>2, <2>3 DEF ChangeRead, ChangeFails, RemovePlan, Tick, vars
<1> QED BY <1>1, <1>2, <1>3, <1>5, PayKept

LEMMA PayInductive == ASSUME IInv, PayInv, [Next]_vars PROVE PayInv'
<1>1. ASSUME NEW d \in Delivery, DeliveryNext(d) PROVE PayInv'
  BY <1>1, ReceivePays, UpsertPays, DeliveryPays DEF DeliveryNext
<1>2. ASSUME NEW h \in Change, ChangeNext(h) PROVE PayInv'
  BY <1>2, RowsPay, OthersPay DEF ChangeNext
<1> QED BY <1>1, <1>2, RowsPay, OthersPay DEF Next

LEMMA PayInit == ASSUME Init PROVE PayInv
  BY NoneAssumption
     DEF Init, PayInv, Staged, StageOK, Logged, Named, Names, Ordered

\* As many deliveries recorded a payment as there are payments delivered: a
\* delivery that recorded one is done, and no two are about the same event.
LEMMA OneToOne ==
    ASSUME IInv, PayInv, NEW u \in User, sub[u] # None, orderly[u], ~Busy(u)
    PROVE  LET b == sub[u].stripeSub
           IN  Cardinality({d \in Delivery : delivery[d].buy = b /\ delivery[d].recorded})
                   = Cardinality(Charges(b))
<1>1. PICK b \in Buy : sub[u].stripeSub = b /\ stripe[b] # None /\ stripe[b].user = u
  BY DEF IInv, RowsOK, RowOK
<1>2. Names(u, b) BY <1>1 DEF Names
<1>3. Once(b) /\ Paying(b) BY <1>1 DEF PayInv, Ordered
<1>4. log[b] \in Seq(Event) BY Facts DEF IInv
<1> DEFINE R == {d \in Delivery : delivery[d].buy = b /\ delivery[d].recorded}
           C == Charges(b)
<1>5. \A d \in R : About(d, b, delivery[d].index) /\ delivery[d].index \in C
  <2> SUFFICES ASSUME NEW d \in R
               PROVE  About(d, b, delivery[d].index) /\ delivery[d].index \in C
    OBVIOUS
  <2>1. About(d, b, delivery[d].index) BY DEF About
  <2>2. delivery[d].index \in 1..Len(log[b]) BY <2>1, Placed
  <2>3. delivery[d].pc = "done" BY DEF PayInv, Staged, StageOK
  <2>4. log[b][delivery[d].index].type \in Charged
    BY <2>1, <2>3 DEF PayInv, Staged, StageOK, About
  <2> QED BY <2>1, <2>2, <2>3, <2>4 DEF Charges, Delivered, Charged
<1>6. \A i \in C : /\ i \in 1..Len(log[b])
                   /\ \E d \in R : delivery[d].index = i
  <2> SUFFICES ASSUME NEW i \in C
               PROVE  i \in 1..Len(log[b]) /\ \E d \in R : delivery[d].index = i
    OBVIOUS
  <2>1. PICK d \in Delivery : About(d, b, i) /\ delivery[d].pc = "done"
    BY DEF Charges, Delivered, About
  <2>2. i \in 1..Len(log[b]) /\ log[b][i].type \in Charged BY DEF Charges, Charged
  <2>3. delivery[d].recorded BY <1>1, <1>2, <1>3, <2>1, <2>2 DEF Paying
  <2> QED BY <2>1, <2>2, <2>3 DEF About
<1>7. \A d, e \in R : delivery[d].index = delivery[e].index => d = e
  BY <1>3, <1>5, <1>6 DEF Once
<1> HIDE DEF R, C
<1> DEFINE f == [i \in C |-> CHOOSE d \in R : delivery[d].index = i]
<1>8. \A i \in C : f[i] \in R /\ delivery[f[i]].index = i BY <1>6
<1>9. f \in [C -> R] BY <1>8
<1> HIDE DEF f
<1>10. f \in Injection(C, R) BY <1>8, <1>9 DEF Injection, IsInjective
<1>11. \A d \in R : \E i \in C : f[i] = d BY <1>5, <1>7, <1>8
<1>12. f \in Surjection(C, R) BY <1>9, <1>11 DEF Surjection
<1>13. ExistsBijection(C, R) BY <1>10, <1>12 DEF ExistsBijection, Bijection
<1>14. IsFiniteSet(C)
  <2>1. IsFiniteSet(1..Len(log[b])) BY <1>4, FS_Interval
  <2>2. C \in SUBSET (1..Len(log[b])) BY <1>6
  <2> QED BY <2>1, <2>2, FS_Subset
<1>15. Cardinality(R) = Cardinality(C) BY <1>13, <1>14, FS_Bijection
<1> QED BY <1>1, <1>15 DEF R, C

\* The checkout of the subscription a row names is recorded, about to be, or its
\* delivery stopped.
LEMMA CheckoutCharged ==
    ASSUME IInv, PayInv, NEW u \in User, sub[u] # None
    PROVE  \E d \in Delivery :
               /\ delivery[d].buy = sub[u].stripeSub /\ delivery[d].index = 1
               /\ delivery[d].recorded \/ delivery[d].pc \in {"record", "failed"}
<1>1. PICK b \in Buy : sub[u].stripeSub = b BY DEF IInv, RowsOK, RowOK
<1>2. Names(u, b) BY <1>1 DEF Names
<1> QED BY <1>1, <1>2 DEF PayInv, Named, About, Charging

\* The webhook (stripe.controller.ts) writes the row of payment_transactions of a
\* checkout after the row of its account: it is there, or a delivery is about to
\* write it or stopped before it did.  It writes one for the checkout and for each
\* renewal it was told of, as long as the account's events come once and in order
\* and its requests one at a time: the invoice of the creation, which reports the
\* checkout again, adds none.
THEOREM PaymentsRecorded == Spec => []PaymentsRecordedOnce
<1>1. Init => IInv /\ PayInv BY InitHolds, PayInit
<1>2. (IInv /\ PayInv) /\ [Next]_vars => (IInv /\ PayInv)' BY Inductive, PayInductive
<1>3. IInv /\ PayInv => PaymentsRecordedOnce
  BY OneToOne, CheckoutCharged DEF PaymentsRecordedOnce
<1> QED BY <1>1, <1>2, <1>3, PTL DEF Spec

------------------------------------------------------------------------------
(* The rows and Stripe *)

\* A delivery, a change of plan of the account that is under way.
Handles(d, u) == DeliveryPending(d) /\ stripe[delivery[d].buy].user = u
Alters(h, u) == ChangePending(h) /\ change[h].user = u

\* The last event has the end Stripe keeps; the deletion is the last, and the
\* event before it has the same end.
Ends(b) ==
    stripe[b] # None =>
        \E n \in Nat :
            /\ Len(log[b]) = n /\ n > 1
            /\ log[b][2].type = "created"
            /\ log[b][n].end = stripe[b].end
            /\ ~stripe[b].live => log[b][n].type = "deleted"
            /\ \A i \in 1..n : log[b][i].type = "deleted" =>
                   i = n /\ ~stripe[b].live /\ log[b][n - 1].end = stripe[b].end

\* The first line of an invoice speaks of the period that the invoice is for, if
\* of any; that of a change of plan may speak of the one before.
Dated(b) ==
    \A i \in 1..Len(log[b]) :
        log[b][i].type # "changed" => log[b][i].line \in {log[b][i].end, NoTime}

\* The requests of an orderly account are one at a time.
Alone(u) ==
    orderly[u] =>
        /\ \A d, e \in Delivery : Handles(d, u) /\ Handles(e, u) => d = e
        /\ \A g, h \in Change : Alters(g, u) /\ Alters(h, u) => g = h
        /\ \A d \in Delivery, h \in Change : ~(Handles(d, u) /\ Alters(h, u))

\* They are about the subscription the row names, and a change of plan that is
\* to be saved was made at Stripe.
Bound(u) ==
    orderly[u] =>
        /\ \A d \in Delivery :
              Handles(d, u) /\ delivery[d].pc = "update" => Names(u, delivery[d].buy)
        /\ \A h \in Change : Alters(h, u) =>
              /\ Names(u, change[h].buy)
              /\ change[h].pc = "save" => change[h].plan = stripe[change[h].buy].plan

\* A subscription has the plan of its checkout until a row names it.
Fresh(b) ==
    stripe[b] # None /\ orderly[stripe[b].user]
    /\ (\A d \in Delivery : About(d, b, 1) => delivery[d].pc \in {"retrieve", "upsert"})
    => log[b][1].plan = stripe[b].plan

Written(d) == delivery[d].pc \in {"record", "done"}

\* The rows that invoices are looked up for are not those of a deletion.
Invoicing(d) ==
    delivery[d].pc \in {"find", "update"} =>
        \E b \in Buy : \E i \in 1..Len(log[b]) :
            About(d, b, i) /\ log[b][i].type # "deleted"

\* Every invoice of b was delivered; its deletion was.
Settled(b) ==
    \A i \in 1..Len(log[b]) : log[b][i].type # "deleted" =>
        \E d \in Delivery : About(d, b, i) /\ Written(d)
Gone(b) ==
    \E d \in Delivery : \E i \in 1..Len(log[b]) :
        About(d, b, i) /\ delivery[d].pc = "done" /\ log[b][i].type = "deleted"

Saving(h, u) == change[h].pc = "save" /\ change[h].user = u
Unfailed(u) == \A h \in Change : change[h].user = u => change[h].pc # "failed"

SamePlan(u, b) == (\A h \in Change : ~Saving(h, u)) => sub[u].plan = stripe[b].plan
SameEnd(u, b) ==
    Settled(b) =>
        /\ (\A h \in Change : ~Saving(h, u)) =>
               sub[u].end = stripe[b].end \/ Misread(b, sub[u].end)
        /\ \A h \in Change :
              Saving(h, u) /\ change[h].end # NoTime => change[h].end = stripe[b].end
Agrees(u, b) ==
    orderly[u] /\ Names(u, b) =>
        /\ Gone(b) => sub[u].status # "active"
        /\ Unfailed(u) => SamePlan(u, b) /\ SameEnd(u, b)

AgreeInv ==
    /\ \A d \in Delivery : Invoicing(d)
    /\ \A b \in Buy : Ends(b) /\ Dated(b) /\ Fresh(b)
    /\ \A u \in User : Alone(u) /\ Bound(u)
    /\ \A u \in User, b \in Buy : Agrees(u, b)

------------------------------------------------------------------------------
(* What a step does *)

\* What a step does to Stripe's subscription b and to its events: nothing, or
\* Stripe adds an event with the end it keeps, or it changes the plan alone.
Grown(b, n, type) ==
    /\ Len(log[b]) = n
    /\ Len(log'[b]) = n + 1
    /\ \A i \in 1..n : log'[b][i] = log[b][i]
    /\ log'[b][n + 1].type = type
    /\ log'[b][n + 1].end = stripe'[b].end
    /\ type # "changed" => log'[b][n + 1].line \in {log'[b][n + 1].end, NoTime}
Bought(b) ==
    \E u \in User, p \in Plan : StripePurchase(b, u, p)
Renewed(b) ==
    /\ stripe[b] # None /\ stripe[b].live /\ stripe'[b].live
    /\ stripe'[b].plan = stripe[b].plan
    /\ \E n \in Nat : Grown(b, n, "renewed")
Removed(b) ==
    /\ stripe[b] # None /\ stripe[b].live /\ ~stripe'[b].live
    /\ stripe'[b].plan = stripe[b].plan /\ stripe'[b].end = stripe[b].end
    /\ \E n \in Nat : Grown(b, n, "deleted")
Altered(b) ==
    /\ stripe[b] # None /\ stripe[b].live /\ stripe'[b].live
    /\ \E h \in Change : /\ ChangeStripe(h) /\ change[h].buy = b
                         /\ stripe'[b].plan = change[h].plan
    /\ \/ UNCHANGED log /\ stripe'[b].end = stripe[b].end
       \/ \E n \in Nat : Grown(b, n, "changed")

LEMMA Growing ==
    ASSUME IInv, NEW b \in Buy, NEW type \in {"changed", "renewed", "deleted"},
           NEW plan \in Plan, NEW end \in Nat, NEW line \in Nat \cup {NoTime},
           Emit(b, type, plan, end, line), stripe'[b].end = end,
           type # "changed" => line \in {end, NoTime}
    PROVE  /\ \E n \in Nat : Grown(b, n, type)
           /\ \A c \in Buy : c # b => log'[c] = log[c]
<1> DEFINE e == [type |-> type, plan |-> plan, end |-> end, line |-> line]
<1>1. e \in Event /\ e.type = type /\ e.end = end /\ e.line = line BY DEF Event
<1>2. log' = [log EXCEPT ![b] = Append(log[b], e)] BY DEF Emit
<1> HIDE DEF e
<1>3. log \in [Buy -> Seq(Event)] BY Facts DEF IInv
<1>4. log[b] \in Seq(Event) BY <1>3
<1>5. log'[b] = Append(log[b], e) /\ \A c \in Buy : c # b => log'[c] = log[c]
  BY <1>2, <1>3
<1>6. /\ Len(Append(log[b], e)) = Len(log[b]) + 1 /\ Len(log[b]) \in Nat
      /\ \A i \in 1..Len(log[b]) : Append(log[b], e)[i] = log[b][i]
      /\ Append(log[b], e)[Len(log[b]) + 1] = e
  BY <1>1, <1>4
<1> QED BY <1>1, <1>5, <1>6 DEF Grown

LEMMA StripeGoes ==
    ASSUME IInv, [Next]_vars, NEW b \in Buy
    PROVE  \/ stripe'[b] = stripe[b] /\ log'[b] = log[b]
           \/ Bought(b) \/ Renewed(b) \/ Removed(b) \/ Altered(b)
<1>1. stripe \in [Buy -> StripeSub \cup {None}] BY Facts DEF IInv
<1>2. ASSUME NEW c \in Buy, StripeNext(c)
      PROVE  \/ stripe'[b] = stripe[b] /\ log'[b] = log[b]
             \/ Bought(b) \/ Renewed(b) \/ Removed(b) \/ Altered(b)
  <2>1. CASE \E u \in User, p \in Plan : StripePurchase(c, u, p)
    <3>1. c # b => stripe'[b] = stripe[b] /\ log'[b] = log[b]
      BY <1>1, <2>1, Facts DEF IInv, StripePurchase
    <3> QED BY <2>1, <3>1 DEF Bought
  <2>2. CASE StripeRenew(c)
    <3>1. stripe[c] # None /\ stripe[c].live /\ stripe[c] \in StripeSub
      BY <1>1, <2>2 DEF StripeRenew
    <3>2. stripe[c].plan \in Plan /\ stripe[c].end + Period \in Nat
      BY <3>1, NumberAssumption DEF StripeSub
    <3> DEFINE s == [stripe[c] EXCEPT !.end = @ + Period]
    <3>3. s.live /\ s.plan = stripe[c].plan /\ s.end = stripe[c].end + Period
      BY <3>1 DEF StripeSub
    <3>4. stripe' = [stripe EXCEPT ![c] = s] BY <2>2 DEF StripeRenew
    <3> HIDE DEF s
    <3>5. stripe'[c] = s /\ \A a \in Buy : a # c => stripe'[a] = stripe[a] BY <1>1, <3>4
    <3>6. PICK line \in {stripe[c].end + Period, NoTime} :
              Emit(c, "renewed", stripe[c].plan, stripe[c].end + Period, line)
      BY <2>2 DEF StripeRenew, Lines
    <3>7. (\E n \in Nat : Grown(c, n, "renewed")) /\ \A a \in Buy : a # c => log'[a] = log[a]
      BY <3>2, <3>3, <3>5, <3>6, Growing
    <3> QED BY <3>1, <3>3, <3>5, <3>7 DEF Renewed
  <2>3. CASE StripeDelete(c)
    <3>1. stripe[c] # None /\ stripe[c].live /\ stripe[c] \in StripeSub
      BY <1>1, <2>3 DEF StripeDelete
    <3>2. stripe[c].plan \in Plan /\ stripe[c].end \in Nat BY <3>1 DEF StripeSub
    <3> DEFINE s == [stripe[c] EXCEPT !.live = FALSE]
    <3>3. ~s.live /\ s.plan = stripe[c].plan /\ s.end = stripe[c].end
      BY <3>1 DEF StripeSub
    <3>4. stripe' = [stripe EXCEPT ![c] = s] BY <2>3 DEF StripeDelete
    <3> HIDE DEF s
    <3>5. stripe'[c] = s /\ \A a \in Buy : a # c => stripe'[a] = stripe[a] BY <1>1, <3>4
    <3>6. Emit(c, "deleted", stripe[c].plan, stripe[c].end, stripe[c].end)
      BY <2>3 DEF StripeDelete
    <3>7. (\E n \in Nat : Grown(c, n, "deleted")) /\ \A a \in Buy : a # c => log'[a] = log[a]
      BY <3>2, <3>3, <3>5, <3>6, Growing
    <3> QED BY <3>1, <3>3, <3>5, <3>7 DEF Removed
  <2> QED BY <1>2, <2>1, <2>2, <2>3 DEF StripeNext
<1>3. ASSUME NEW h \in Change, ChangeStripe(h)
      PROVE  (stripe'[b] = stripe[b] /\ log'[b] = log[b]) \/ Altered(b)
  <2>1. PICK c \in Buy, p \in Plan :
            change[h].buy = c /\ stripe[c] # None /\ change[h].plan = p
    BY <1>3 DEF ChangeStripe, ChangePending, IInv, ChangesOK, ChangeOK
  <2>2. stripe[c] \in StripeSub BY <1>1, <2>1
  <2>3. CASE UNCHANGED <<stripe, log>> BY <2>3
  <2>4. ASSUME NEW end \in {stripe[c].end, now + Period}, stripe[c].live,
               stripe' = [stripe EXCEPT ![c].plan = p, ![c].end = end],
               \/ end = stripe[c].end /\ UNCHANGED log
               \/ \E line \in {stripe[c].end, end, NoTime} : Emit(c, "changed", p, end, line)
        PROVE  (stripe'[b] = stripe[b] /\ log'[b] = log[b]) \/ Altered(b)
    <3>1. end \in Nat BY <2>2, NumberAssumption, Facts DEF IInv, StripeSub
    <3> DEFINE s == [stripe[c] EXCEPT !.plan = p, !.end = end]
    <3>2. s.live /\ s.plan = p /\ s.end = end BY <2>2, <2>4 DEF StripeSub
    <3>3. stripe' = [stripe EXCEPT ![c] = s] BY <1>1, <2>4
    <3> HIDE DEF s
    <3>4. stripe'[c] = s /\ \A a \in Buy : a # c => stripe'[a] = stripe[a] BY <1>1, <3>3
    <3>5. ASSUME NEW line \in {stripe[c].end, end, NoTime}, Emit(c, "changed", p, end, line)
          PROVE  (stripe'[b] = stripe[b] /\ log'[b] = log[b]) \/ Altered(b)
      <4>4. line \in Nat \cup {NoTime} BY <2>2, <3>1 DEF StripeSub
      <4>1. (\E n \in Nat : Grown(c, n, "changed"))
            /\ \A a \in Buy : a # c => log'[a] = log[a]
        BY <3>1, <3>2, <3>4, <3>5, <4>4, Growing
      <4>2. \E g \in Change :
                ChangeStripe(g) /\ change[g].buy = c /\ stripe'[c].plan = change[g].plan
        BY <1>3, <2>1, <3>2, <3>4
      <4>3. Altered(c) BY <2>1, <2>4, <3>2, <3>4, <4>1, <4>2 DEF Altered
      <4> QED BY <3>4, <4>1, <4>3
    <3>6. CASE end = stripe[c].end /\ UNCHANGED log
      BY <1>3, <2>1, <2>4, <3>2, <3>4, <3>6 DEF Altered
    <3> QED BY <2>4, <3>5, <3>6
  <2> QED BY <1>3, <2>1, <2>3, <2>4 DEF ChangeStripe, Lines
<1>4. CASE \/ UNCHANGED vars \/ Expire \/ Tick
           \/ \E d \in Delivery : DeliveryNext(d)
           \/ \E u \in User : Cancel(u)
           \/ \E p \in Removable : RemovePlan(p)
           \/ \E h \in Change : \/ \E u \in User, p \in Plan : ChangeRead(h, u, p)
                                \/ ChangeSave(h) \/ ChangeFails(h)
  <2>1. UNCHANGED <<stripe, log>>
    BY <1>4 DEF vars, Expire, Tick, DeliveryNext, Receive, PlanMissing, Retrieve, Upsert, Find,
                UpdateRow, Record, DeleteRow, DeliveryFails, Cancel, RemovePlan, ChangeRead,
                ChangeSave, ChangeFails
  <2> QED BY <2>1
<1>5. ASSUME NEW h \in Change, ChangeNext(h)
      PROVE  \/ stripe'[b] = stripe[b] /\ log'[b] = log[b]
             \/ Bought(b) \/ Renewed(b) \/ Removed(b) \/ Altered(b)
  BY <1>3, <1>4, <1>5 DEF ChangeNext
<1> QED BY <1>2, <1>4, <1>5 DEF Next

\* What a step does to a delivery: nothing, or it begins, or goes on with its event.
Begins(d) ==
    \E b \in Buy, i \in 1..MaxEvents :
        /\ Receive(d, b, i) /\ About(d, b, i)' /\ stripe[b] # None
        /\ delivery[d].pc = "idle" /\ delivery'[d].pc \in {"retrieve", "find", "delete"}
        /\ i \in 1..Len(log[b])
        /\ delivery'[d].pc = "find" => log[b][i].type # "deleted"
GoesFrom(d) ==
    /\ DeliveryPending(d)
    /\ delivery'[d].buy = delivery[d].buy /\ delivery'[d].index = delivery[d].index
    /\ Retrieve(d) \/ delivery'[d].end = delivery[d].end
    /\ \/ PlanMissing(d) /\ delivery'[d].pc = "done"
       \/ Retrieve(d) /\ delivery'[d].pc = "upsert"
       \/ Upsert(d) /\ delivery'[d].pc = "record"
       \/ Find(d) /\ delivery'[d].pc =
              IF Names(stripe[delivery[d].buy].user, delivery[d].buy) THEN "update" ELSE "done"
       \/ UpdateRow(d) /\ delivery'[d].pc \in {"record", "done"}
       \/ Record(d) /\ delivery'[d].pc = "done"
       \/ DeleteRow(d) /\ delivery'[d].pc = "done"
       \/ DeliveryFails(d) /\ delivery'[d].pc = "failed"

LEMMA DeliveryGoes ==
    ASSUME IInv, [Next]_vars, NEW d \in Delivery
    PROVE  \/ delivery'[d] = delivery[d] \/ Begins(d) \/ GoesFrom(d)
<1>1. delivery \in [Delivery -> DeliveryState] BY Facts DEF IInv
<1>2. ASSUME NEW c \in Delivery, DeliveryNext(c)
      PROVE  delivery'[d] = delivery[d] \/ Begins(d) \/ GoesFrom(d)
  <2>1. CASE c # d
    BY <1>1, <1>2, <2>1 DEF DeliveryNext, Receive, PlanMissing, Retrieve, Upsert, Find,
                            UpdateRow, Record, DeleteRow, DeliveryFails
  <2>2. ASSUME NEW b \in Buy, NEW i \in 1..MaxEvents, Receive(d, b, i) PROVE Begins(d)
    <3>1. i \in 1..Len(log[b]) /\ log[b] \in Seq(Event) BY <2>2, Facts DEF IInv, Receive
    <3>2. log[b][i] \in Event BY <3>1
    <3>3. stripe[b] # None BY <3>1 DEF IInv, StripeOK
    <3>4. PICK pc : pc = First[log[b][i].type] OBVIOUS
    <3>5. pc \in {"retrieve", "find", "delete"} /\ (pc = "find" => log[b][i].type # "deleted")
      BY <3>2, <3>4 DEF First, Event
    <3>6. delivery[d] \in DeliveryState /\ delivery[d].pc = "idle" BY <1>1, <2>2 DEF Receive
    <3>7. delivery'[d].pc = pc /\ delivery'[d].buy = b /\ delivery'[d].index = i
      BY <1>1, <2>2, <3>4, <3>6 DEF Receive, DeliveryState
    <3> QED BY <2>2, <3>1, <3>3, <3>5, <3>6, <3>7 DEF Begins, About
  <2>3. CASE c = d /\ ~\E b \in Buy, i \in 1..MaxEvents : Receive(c, b, i)
    <3>1. delivery[d] \in DeliveryState BY <1>1
    <3>2. DeliveryPending(d)
      BY <1>2, <2>3 DEF DeliveryNext, DeliveryPending, PlanMissing, Retrieve, Upsert, Find,
                        UpdateRow, Record, DeleteRow, DeliveryFails
    <3>3. CASE PlanMissing(d) BY <1>1, <3>1, <3>2, <3>3 DEF PlanMissing, GoesFrom, DeliveryState
    <3>4. CASE Retrieve(d) BY <1>1, <3>1, <3>2, <3>4 DEF Retrieve, GoesFrom, DeliveryState
    <3>5. CASE Upsert(d) BY <1>1, <3>1, <3>2, <3>5 DEF Upsert, GoesFrom, DeliveryState
    <3>6. CASE Find(d) BY <1>1, <3>1, <3>2, <3>6 DEF Find, GoesFrom, DeliveryState, Names
    <3>7. CASE UpdateRow(d) BY <1>1, <3>1, <3>2, <3>7 DEF UpdateRow, GoesFrom, DeliveryState
    <3>8. CASE Record(d) BY <1>1, <3>1, <3>2, <3>8 DEF Record, GoesFrom, DeliveryState
    <3>9. CASE DeleteRow(d) BY <1>1, <3>1, <3>2, <3>9 DEF DeleteRow, GoesFrom, DeliveryState
    <3>10. CASE DeliveryFails(d)
      BY <1>1, <3>1, <3>2, <3>10 DEF DeliveryFails, GoesFrom, DeliveryState
    <3> QED BY <1>2, <2>3, <3>3, <3>4, <3>5, <3>6, <3>7, <3>8, <3>9, <3>10 DEF DeliveryNext
  <2>4. CASE c = d /\ \E b \in Buy, i \in 1..MaxEvents : Receive(c, b, i) BY <2>2, <2>4
  <2> QED BY <2>1, <2>3, <2>4
<1>3. CASE \/ UNCHANGED vars \/ Expire \/ Tick
           \/ \E b \in Buy : StripeNext(b)
           \/ \E u \in User : Cancel(u)
           \/ \E p \in Removable : RemovePlan(p)
           \/ \E h \in Change : ChangeNext(h)
  <2>1. UNCHANGED delivery
    BY <1>3 DEF vars, Expire, Tick, StripeNext, StripePurchase, StripeRenew, StripeDelete,
                Cancel, RemovePlan, ChangeNext, ChangeRead, ChangeStripe, ChangeSave, ChangeFails
  <2> QED BY <2>1
<1> QED BY <1>2, <1>3 DEF Next

\* What a step does to a change of plan.
ReadsRow(h) ==
    \E u \in User, p \in Plan :
        /\ ChangeRead(h, u, p) /\ sub[u] # None
        /\ change[h].pc = "idle" /\ change'[h].pc = "stripe"
        /\ change'[h].user = u /\ change'[h].buy = sub[u].stripeSub
MovesOn(h) ==
    /\ ChangePending(h)
    /\ change'[h].user = change[h].user /\ change'[h].buy = change[h].buy
    /\ change'[h].plan = change[h].plan
    /\ \/ /\ ChangeStripe(h) /\ change[h].pc = "stripe" /\ change'[h].pc = "save"
          /\ change'[h].plan = stripe'[change[h].buy].plan
          /\ change'[h].end = Reported(stripe'[change[h].buy].end)
       \/ ChangeSave(h) /\ change[h].pc = "save" /\ change'[h].pc = "done"
       \/ change'[h].pc = "failed"

LEMMA ChangeGoes ==
    ASSUME IInv, [Next]_vars, NEW h \in Change
    PROVE  change'[h] = change[h] \/ ReadsRow(h) \/ MovesOn(h)
<1>1. change \in [Change -> ChangeState] BY Facts DEF IInv
<1>2. change[h] \in ChangeState BY <1>1
<1>3. ASSUME NEW g \in Change, ChangeNext(g)
      PROVE  change'[h] = change[h] \/ ReadsRow(h) \/ MovesOn(h)
  <2>1. CASE g # h
    BY <1>1, <1>3, <2>1 DEF ChangeNext, ChangeRead, ChangeStripe, ChangeSave, ChangeFails
  <2>2. ASSUME NEW u \in User, NEW p \in Plan, ChangeRead(h, u, p) PROVE ReadsRow(h)
    BY <1>1, <1>2, <2>2 DEF ChangeRead, ReadsRow, ChangeState
  <2>3. CASE ChangeStripe(h)
    <3>1. ChangePending(h) BY <2>3 DEF ChangeStripe, ChangePending
    <3>2. PICK b \in Buy, p \in Plan :
              change[h].buy = b /\ stripe[b] # None /\ change[h].plan = p
      BY <3>1 DEF IInv, ChangesOK, ChangeOK
    <3>3. CASE change' = [change EXCEPT ![h].pc = "failed"]
      BY <1>1, <1>2, <3>1, <3>3 DEF MovesOn, ChangeState
    <3>4. ASSUME NEW end \in {stripe[b].end, now + Period},
                 stripe' = [stripe EXCEPT ![b].plan = p, ![b].end = end],
                 change' = [change EXCEPT ![h] = [@ EXCEPT !.pc = "save", !.end = Reported(end)]]
          PROVE  MovesOn(h)
      <4>1. stripe \in [Buy -> StripeSub \cup {None}] /\ stripe[b] \in StripeSub
        BY <3>2, Facts DEF IInv
      <4>2. stripe'[b].plan = p /\ stripe'[b].end = end BY <3>4, <4>1 DEF StripeSub
      <4>3. /\ change'[h].pc = "save" /\ change'[h].end = Reported(end)
            /\ change'[h].user = change[h].user /\ change'[h].buy = b
            /\ change'[h].plan = p
        BY <1>1, <1>2, <3>2, <3>4 DEF ChangeState
      <4>4. change[h].pc = "stripe" BY <2>3 DEF ChangeStripe
      <4> QED BY <2>3, <3>1, <3>2, <4>2, <4>3, <4>4 DEF MovesOn
    <3> QED BY <2>3, <3>2, <3>3, <3>4 DEF ChangeStripe
  <2>4. CASE ChangeSave(h)
    BY <1>1, <1>2, <2>4 DEF ChangeSave, MovesOn, ChangePending, ChangeState
  <2>5. CASE ChangeFails(h)
    BY <1>1, <1>2, <2>5 DEF ChangeFails, MovesOn, ChangePending, ChangeState
  <2> QED BY <1>3, <2>1, <2>2, <2>3, <2>4, <2>5 DEF ChangeNext
<1>4. CASE \/ UNCHANGED vars \/ Expire \/ Tick
           \/ \E b \in Buy : StripeNext(b)
           \/ \E u \in User : Cancel(u)
           \/ \E p \in Removable : RemovePlan(p)
           \/ \E d \in Delivery : DeliveryNext(d)
  <2>1. UNCHANGED change
    BY <1>4 DEF vars, Expire, Tick, StripeNext, StripePurchase, StripeRenew, StripeDelete,
                Cancel, RemovePlan, DeliveryNext, Receive, PlanMissing, Retrieve, Upsert, Find,
                UpdateRow, Record, DeleteRow, DeliveryFails
  <2> QED BY <2>1
<1> QED BY <1>3, <1>4 DEF Next

\* What a step does to the row of an account: the checkout writes it, an invoice
\* or a change of plan updates it, or it loses its activity.
Opened(u) ==
    \E d \in Delivery, b \in Buy :
        /\ Upsert(d) /\ About(d, b, 1) /\ stripe[b] # None /\ stripe[b].user = u
        /\ sub'[u] # None /\ sub'[u].stripeSub = b /\ sub'[u].plan = log[b][1].plan
        /\ sub'[u].status = "active" /\ sub'[u].end = delivery[d].end
Invoiced(u) ==
    \E d \in Delivery, b \in Buy : \E i \in 1..Len(log[b]) :
        /\ UpdateRow(d) /\ About(d, b, i) /\ stripe[b] # None /\ stripe[b].user = u
        /\ sub[u] # None /\ sub'[u] # None /\ sub'[u].stripeSub = sub[u].stripeSub
        /\ sub'[u].plan = sub[u].plan /\ sub'[u].end = InvoiceEnd(log[b][i])
Closed(u) ==
    /\ sub[u] # None /\ sub'[u] # None /\ sub'[u].stripeSub = sub[u].stripeSub
    /\ sub'[u].plan = sub[u].plan /\ sub'[u].end = sub[u].end
    /\ sub'[u].status # "active"
Saved(u) ==
    \E h \in Change :
        /\ ChangeSave(h) /\ change[h].user = u
        /\ sub[u] # None /\ sub'[u] # None /\ sub'[u].stripeSub = sub[u].stripeSub
        /\ sub'[u].plan = change[h].plan /\ sub'[u].end = change[h].end
        /\ sub'[u].status = sub[u].status

LEMMA UpdateWrites ==
    ASSUME IInv, NEW d \in Delivery, UpdateRow(d),
           NEW b \in Buy, NEW i \in 1..Len(log[b]), About(d, b, i),
           NEW u \in User, stripe[b].user = u
    PROVE  /\ sub[u] # None /\ sub'[u] # None /\ sub'[u].stripeSub = sub[u].stripeSub
           /\ sub'[u].plan = sub[u].plan /\ sub'[u].end = InvoiceEnd(log[b][i])
<1>1. sub \in [User -> Row \cup {None}] BY Facts DEF IInv
<1>2. DeliveryPending(d) /\ delivery[d].pc = "update" BY DEF DeliveryPending, UpdateRow
<1>3. PICK e \in Event : log[b][i] = e /\ sub[u] # None BY <1>2, Subject DEF About
<1>4. sub[u] \in Row BY <1>1, <1>3
<1>8. PICK end \in Nat : end = InvoiceEnd(e) BY InvoiceEnds
<1> DEFINE r == [sub[u] EXCEPT !.status = "active", !.end = end]
<1>5. r \in Row /\ r.stripeSub = sub[u].stripeSub /\ r.plan = sub[u].plan /\ r.end = end
  BY <1>4 DEF Row, Status
<1>6. sub' = [sub EXCEPT ![u] = r] BY <1>3, <1>8 DEF UpdateRow, About
<1> HIDE DEF r
<1>7. r # None /\ sub'[u] = r BY <1>1, <1>5, <1>6, NoneIsNoRecord
<1> QED BY <1>3, <1>5, <1>7, <1>8

LEMMA SaveWrites ==
    ASSUME IInv, NEW h \in Change, ChangeSave(h), NEW u \in User, change[h].user = u
    PROVE  Saved(u)
<1>1. sub \in [User -> Row \cup {None}] BY Facts DEF IInv
<1>2. ChangePending(h) BY DEF ChangeSave, ChangePending
<1>3. PICK p \in Plan : sub[u] # None /\ change[h].plan = p
  BY <1>2 DEF IInv, ChangesOK, ChangeOK
<1>4. PICK end \in Nat : change[h].end = end
  <2>1. change[h] \in ChangeState BY Facts DEF IInv
  <2> QED BY <2>1 DEF ChangeSave, ChangeState
<1>5. sub[u] \in Row BY <1>1, <1>3
<1> DEFINE r == [sub[u] EXCEPT !.plan = p, !.end = end]
<1>6. /\ r \in Row /\ r.stripeSub = sub[u].stripeSub /\ r.plan = p /\ r.end = end
      /\ r.status = sub[u].status
  BY <1>5 DEF Row
<1>7. sub' = [sub EXCEPT ![u] = r] BY <1>3, <1>4 DEF ChangeSave
<1> HIDE DEF r
<1>8. r # None /\ sub'[u] = r BY <1>1, <1>6, <1>7, NoneIsNoRecord
<1> QED BY <1>3, <1>4, <1>6, <1>8 DEF Saved

LEMMA RowGoes ==
    ASSUME IInv, PayInv, [Next]_vars, NEW u \in User
    PROVE  sub'[u] = sub[u] \/ Opened(u) \/ Invoiced(u) \/ Closed(u) \/ Saved(u)
<1> DEFINE Goal == sub'[u] = sub[u] \/ Opened(u) \/ Invoiced(u) \/ Closed(u) \/ Saved(u)
<1>1. sub \in [User -> Row \cup {None}] BY Facts DEF IInv
<1>2. ASSUME NEW d \in Delivery, DeliveryNext(d) PROVE Goal
  <2>1. CASE Upsert(d)
    <3>1. DeliveryPending(d) /\ delivery[d].pc = "upsert" BY <2>1 DEF DeliveryPending, Upsert
    <3>2. PICK b \in Buy, i \in Nat, e \in Event :
            /\ About(d, b, i) /\ stripe[b] # None /\ stripe[b].user \in User
            /\ log[b][i] = e
            /\ delivery[d].pc \in {"retrieve", "upsert"} => i = 1
      BY <3>1, StageOf
    <3>3. PICK end \in Nat : delivery[d].end = end BY <3>1, Subject
    <3> DEFINE r == [stripeSub |-> b, plan |-> e.plan, status |-> "active", end |-> end]
    <3>4. /\ r \in Row /\ r.stripeSub = b /\ r.plan = e.plan /\ r.status = "active"
          /\ r.end = end
      BY DEF Row, Status, Event
    <3>5. sub' = [sub EXCEPT ![stripe[b].user] = r] BY <2>1, <3>2, <3>3 DEF Upsert, About
    <3> HIDE DEF r
    <3>6. r # None BY <3>4, NoneIsNoRecord
    <3>7. CASE stripe[b].user = u
      <4>1. sub'[u] = r BY <1>1, <3>5, <3>7
      <4>2. i = 1 /\ log[b][1] = e BY <3>1, <3>2
      <4> QED BY <2>1, <3>2, <3>3, <3>4, <3>6, <3>7, <4>1, <4>2 DEF Opened
    <3>8. CASE stripe[b].user # u BY <1>1, <3>5, <3>8
    <3> QED BY <3>7, <3>8
  <2>2. CASE UpdateRow(d)
    <3>1. PICK b \in Buy, v \in User : \E i \in 1..Len(log[b]) :
              About(d, b, i) /\ stripe[b] # None /\ stripe[b].user = v
      BY <2>2, Subject DEF DeliveryPending, UpdateRow, About
    <3>2. CASE v = u BY <2>2, <3>1, <3>2, UpdateWrites DEF Invoiced
    <3>3. CASE v # u BY <1>1, <2>2, <3>1, <3>3 DEF UpdateRow, About
    <3> QED BY <3>2, <3>3
  <2>3. CASE DeleteRow(d)
    <3>1. PICK v : v = stripe[delivery[d].buy].user OBVIOUS
    <3>2. CASE sub' = [sub EXCEPT ![v].status = "canceled"] /\ sub[v] # None /\ v = u
      <4>1. sub[u] \in Row BY <1>1, <3>2
      <4>2. sub'[u] = [sub[u] EXCEPT !.status = "canceled"] BY <1>1, <3>2
      <4>3. sub'[u] \in Row BY <4>1, <4>2 DEF Row, Status
      <4> QED BY <3>2, <4>1, <4>2, <4>3, NoneIsNoRecord DEF Closed, Row
    <3>3. CASE sub' = [sub EXCEPT ![v].status = "canceled"] /\ v # u BY <1>1, <3>3
    <3> QED BY <2>3, <3>1, <3>2, <3>3 DEF DeleteRow
  <2>4. CASE UNCHANGED sub BY <2>4
  <2>5. \/ Upsert(d) \/ UpdateRow(d) \/ DeleteRow(d) \/ UNCHANGED sub
    BY <1>2 DEF DeliveryNext, Receive, PlanMissing, Retrieve, Find, Record, DeliveryFails
  <2> QED BY <2>1, <2>2, <2>3, <2>4, <2>5
<1>3. ASSUME NEW v \in User, Cancel(v) PROVE Goal
  <2>1. CASE v = u
    <3>1. sub[u] # None /\ sub[u] \in Row BY <1>1, <1>3, <2>1 DEF Cancel
    <3>2. sub'[u] = [sub[u] EXCEPT !.status = "canceled"] BY <1>1, <1>3, <2>1 DEF Cancel
    <3>3. sub'[u] \in Row BY <3>1, <3>2 DEF Row, Status
    <3> QED BY <3>1, <3>2, <3>3, NoneIsNoRecord DEF Closed, Row
  <2>2. CASE v # u BY <1>1, <1>3, <2>2 DEF Cancel
  <2> QED BY <2>1, <2>2
<1>4. CASE Expire
  <2>1. sub'[u] = IF PastDue(u) THEN [sub[u] EXCEPT !.status = "expired"] ELSE sub[u]
    BY <1>4 DEF Expire
  <2>2. CASE PastDue(u)
    <3>1. sub[u] # None /\ sub[u] \in Row BY <1>1, <2>2 DEF PastDue
    <3>2. sub'[u] = [sub[u] EXCEPT !.status = "expired"] BY <2>1, <2>2
    <3>3. sub'[u] \in Row BY <3>1, <3>2 DEF Row, Status
    <3> QED BY <3>1, <3>2, <3>3, NoneIsNoRecord DEF Closed, Row
  <2>3. CASE ~PastDue(u) BY <2>1, <2>3
  <2> QED BY <2>2, <2>3
<1>5. ASSUME NEW h \in Change, ChangeSave(h) PROVE Goal
  <2>1. CASE change[h].user = u BY <1>5, <2>1, SaveWrites
  <2>2. CASE change[h].user # u BY <1>1, <1>5, <2>2 DEF ChangeSave
  <2> QED BY <2>1, <2>2
<1>6. CASE \/ UNCHANGED vars \/ Tick
           \/ \E b \in Buy : StripeNext(b)
           \/ \E p \in Removable : RemovePlan(p)
           \/ \E h \in Change : \/ \E v \in User, p \in Plan : ChangeRead(h, v, p)
                                \/ ChangeStripe(h) \/ ChangeFails(h)
  <2>1. UNCHANGED sub
    BY <1>6 DEF vars, Tick, StripeNext, StripePurchase, StripeRenew, StripeDelete,
                RemovePlan, ChangeRead, ChangeStripe, ChangeFails
  <2> QED BY <2>1
<1>7. ASSUME NEW h \in Change, ChangeNext(h) PROVE Goal
  BY <1>5, <1>6, <1>7 DEF ChangeNext
<1>8. CASE Next
  <2>1. CASE \E d \in Delivery : DeliveryNext(d) BY <1>2, <2>1
  <2>2. CASE \E v \in User : Cancel(v) BY <1>3, <2>2
  <2>3. CASE \E h \in Change : ChangeNext(h) BY <1>7, <2>3
  <2>4. CASE \/ Tick
             \/ \E b \in Buy : StripeNext(b)
             \/ \E p \in Removable : RemovePlan(p)
    BY <1>6, <2>4
  <2> QED BY <1>4, <1>8, <2>1, <2>2, <2>3, <2>4 DEF Next
<1> QED BY <1>6, <1>8

\* A request of an orderly account begins when none is under way.
LEMMA OrderGoes ==
    ASSUME IInv, [Next]_vars, NEW u \in User, orderly'[u]
    PROVE  /\ orderly[u]
           /\ \A d \in Delivery, b \in Buy, i \in 1..MaxEvents :
                 Receive(d, b, i) /\ stripe[b].user = u => ~Busy(u)
           /\ \A h \in Change, p \in Plan : ChangeRead(h, u, p) => ~Busy(u)
<1>1. orderly \in [User -> BOOLEAN] BY Facts DEF IInv
<1>2. ASSUME NEW v \in User, NEW inOrder, Begin(v, inOrder)
      PROVE  orderly[u] /\ (v = u => ~Busy(u))
  BY <1>1, <1>2 DEF Begin
<1>3. ASSUME NEW d \in Delivery, NEW b \in Buy, NEW i \in 1..MaxEvents, Receive(d, b, i)
      PROVE  orderly[u] /\ (stripe[b].user = u => ~Busy(u))
  <2>1. i \in 1..Len(log[b]) BY <1>3 DEF Receive
  <2>2. stripe[b].user \in User BY <2>1, Facts DEF IInv, StripeOK, StripeSub
  <2> QED BY <1>2, <1>3, <2>2 DEF Receive
<1>4. ASSUME NEW h \in Change, NEW v \in User, NEW p \in Plan, ChangeRead(h, v, p)
      PROVE  orderly[u] /\ (v = u => ~Busy(u))
  BY <1>2, <1>4 DEF ChangeRead
<1>5. ASSUME \/ UNCHANGED vars \/ Expire \/ Tick
             \/ \E b \in Buy : StripeNext(b)
             \/ \E v \in User : Cancel(v)
             \/ \E p \in Removable : RemovePlan(p)
             \/ \E h \in Change : ChangeStripe(h) \/ ChangeSave(h) \/ ChangeFails(h)
             \/ \E d \in Delivery : \/ PlanMissing(d) \/ Retrieve(d) \/ Upsert(d) \/ Find(d)
                                    \/ UpdateRow(d) \/ Record(d) \/ DeleteRow(d)
                                    \/ DeliveryFails(d)
      PROVE  orderly[u]
  <2>1. UNCHANGED orderly
    BY <1>5 DEF vars, Expire, Tick, StripeNext, StripePurchase, StripeRenew, StripeDelete,
                Cancel, RemovePlan, ChangeStripe, ChangeSave, ChangeFails, PlanMissing,
                Retrieve, Upsert, Find, UpdateRow, Record, DeleteRow, DeliveryFails
  <2> QED BY <2>1
<1>6. ASSUME NEW d \in Delivery, DeliveryNext(d) PROVE orderly[u]
  <2>1. CASE \E b \in Buy, i \in 1..MaxEvents : Receive(d, b, i) BY <1>3, <2>1
  <2>2. CASE ~\E b \in Buy, i \in 1..MaxEvents : Receive(d, b, i)
    <3>1. \/ PlanMissing(d) \/ Retrieve(d) \/ Upsert(d) \/ Find(d)
          \/ UpdateRow(d) \/ Record(d) \/ DeleteRow(d) \/ DeliveryFails(d)
      BY <1>6, <2>2 DEF DeliveryNext
    <3> QED BY <1>5, <3>1
  <2> QED BY <2>1, <2>2
<1>7. ASSUME NEW h \in Change, ChangeNext(h) PROVE orderly[u]
  <2>1. CASE \E v \in User, p \in Plan : ChangeRead(h, v, p) BY <1>4, <2>1
  <2>2. CASE ChangeStripe(h) \/ ChangeSave(h) \/ ChangeFails(h) BY <1>5, <2>2
  <2> QED BY <1>7, <2>1, <2>2 DEF ChangeNext
<1>8. orderly[u]
  <2>1. CASE Next
    <3>1. CASE \E d \in Delivery : DeliveryNext(d) BY <1>6, <3>1
    <3>2. CASE \E h \in Change : ChangeNext(h) BY <1>7, <3>2
    <3>3. CASE \/ Tick
               \/ Expire
               \/ \E v \in User : Cancel(v)
               \/ \E b \in Buy : StripeNext(b)
               \/ \E p \in Removable : RemovePlan(p)
      BY <1>5, <3>3
    <3> QED BY <2>1, <3>1, <3>2, <3>3 DEF Next
  <2> QED BY <1>5, <2>1
<1> QED BY <1>3, <1>4, <1>8

LEMMA StepGrows == ASSUME IInv, PayInv, [Next]_vars PROVE Grows
<1>1. ASSUME NEW b \in Buy, StripeNext(b) PROVE Grows
  BY <1>1, PurchaseLogs, StripeLogs DEF StripeNext, PayInv
<1>2. ASSUME NEW h \in Change, ChangeNext(h) PROVE Grows
  <2>1. CASE ChangeStripe(h) BY <2>1, ChangeLogs DEF PayInv
  <2>2. CASE UNCHANGED <<now, stripe, log>>
    <3>1. now' \in 0..MaxTime /\ now <= now' BY <2>2, Facts DEF IInv, TypeOK
    <3> QED BY <2>2, <3>1, Quiet DEF IInv
  <2> QED BY <1>2, <2>1, <2>2 DEF ChangeNext, ChangeRead, ChangeSave, ChangeFails
<1>3. ASSUME UNCHANGED <<stripe, log>>, UNCHANGED now \/ Tick PROVE Grows
  <2>1. now' \in 0..MaxTime /\ now <= now'
    BY <1>3, Facts, NumberAssumption DEF IInv, TypeOK, Tick
  <2> QED BY <1>3, <2>1, Quiet DEF IInv
<1>4. CASE \/ UNCHANGED vars
           \/ Expire
           \/ Tick
           \/ \E d \in Delivery : DeliveryNext(d)
           \/ \E u \in User : Cancel(u)
           \/ \E p \in Removable : RemovePlan(p)
  <2>1. UNCHANGED <<stripe, log>> /\ (UNCHANGED now \/ Tick)
    BY <1>4 DEF vars, Expire, Tick, DeliveryNext, Receive, PlanMissing, Retrieve, Upsert, Find,
                UpdateRow, Record, DeleteRow, DeliveryFails, Cancel, RemovePlan
  <2> QED BY <1>3, <2>1
<1> QED BY <1>1, <1>2, <1>4 DEF Next

------------------------------------------------------------------------------
(* The ends *)

\* A delivery of b's checkout was handled when Stripe reported no end.
Thirty(b, end) == \E d \in Delivery : About(d, b, 1) /\ delivery[d].end = end

Origin(u) ==
    sub[u] # None =>
        \E b \in Buy : /\ stripe[b] # None /\ stripe[b].user = u
                       /\ \/ Granted(b, sub[u].end)
                          \/ Overdue(b, sub[u].end)
                          \/ Thirty(b, sub[u].end)

OriginInv ==
    /\ \A d \in Delivery : delivery[d].pc \in {"idle", "retrieve"} => delivery[d].end = NoTime
    /\ ~Reports => /\ \A h \in Change : change[h].pc = "save" => change[h].end = NoTime
                   /\ \A u \in User : Origin(u)

\* Where an end is from, it stays from.
LEMMA OriginKept ==
    ASSUME IInv, PayInv, OriginInv, [Next]_vars, NEW b \in Buy, NEW end \in Nat,
           stripe[b] # None
    PROVE  /\ stripe'[b] # None /\ stripe'[b].user = stripe[b].user
           /\ Granted(b, end) => Granted(b, end)'
           /\ Overdue(b, end) => Overdue(b, end)'
           /\ Thirty(b, end) => Thirty(b, end)'
<1>1. Grows BY StepGrows
<1>2. now \in Nat /\ now' \in Nat /\ now <= now' BY <1>1, Facts DEF IInv, Grows
<1>3. end <= now => end <= now' BY <1>2
<1>4. ASSUME NEW d \in Delivery, About(d, b, 1), delivery[d].end = end PROVE Thirty(b, end)'
  <2>1. delivery[d].pc \notin {"idle", "retrieve"} BY <1>4 DEF OriginInv, NoTime
  <2>2. ~Begins(d) BY <2>1 DEF Begins
  <2>3. ~Retrieve(d) BY <2>1 DEF Retrieve
  <2>4. About(d, b, 1)' /\ delivery'[d].end = end
    BY <1>4, <2>2, <2>3, DeliveryGoes DEF GoesFrom, About
  <2> QED BY <2>4 DEF Thirty
<1> QED BY <1>1, <1>3, <1>4 DEF Grows, Granted, Overdue, Thirty

LEMMA OriginInductive == ASSUME IInv, PayInv, OriginInv, [Next]_vars PROVE OriginInv'
<1>1. ASSUME NEW d \in Delivery, delivery'[d].pc \in {"idle", "retrieve"}
      PROVE  delivery'[d].end = NoTime
  <2>1. CASE delivery'[d] = delivery[d] BY <1>1, <2>1 DEF OriginInv
  <2>2. CASE Begins(d)
    <3>1. PICK b \in Buy, i \in 1..MaxEvents : Receive(d, b, i) /\ delivery[d].pc = "idle"
      BY <2>2 DEF Begins
    <3>2. delivery'[d].end = delivery[d].end
      BY <3>1, Facts DEF IInv, Receive, DeliveryState
    <3> QED BY <3>1, <3>2 DEF OriginInv
  <2>3. ~GoesFrom(d) BY <1>1 DEF GoesFrom
  <2> QED BY <2>1, <2>2, <2>3, DeliveryGoes
<1>2. ASSUME ~Reports, NEW h \in Change, change'[h].pc = "save"
      PROVE  change'[h].end = NoTime
  <2>1. CASE change'[h] = change[h] BY <1>2, <2>1 DEF OriginInv
  <2>2. ~ReadsRow(h) BY <1>2 DEF ReadsRow
  <2>3. CASE MovesOn(h) BY <1>2, <2>3 DEF MovesOn, Reported
  <2> QED BY <2>1, <2>2, <2>3, ChangeGoes
<1>3. ASSUME ~Reports, NEW u \in User PROVE Origin(u)'
  <2>1. CASE sub'[u] = None BY <2>1 DEF Origin
  <2>2. CASE sub[u] # None /\ sub'[u].end = sub[u].end
    <3>1. PICK end \in Nat : end = sub[u].end BY <2>2 DEF IInv, RowsOK, RowOK
    <3>2. PICK b \in Buy : /\ stripe[b] # None /\ stripe[b].user = u
                           /\ Granted(b, end) \/ Overdue(b, end) \/ Thirty(b, end)
      BY <1>3, <2>2, <3>1 DEF OriginInv, Origin
    <3>3. /\ stripe'[b] # None /\ stripe'[b].user = u
          /\ Granted(b, end)' \/ Overdue(b, end)' \/ Thirty(b, end)'
      BY <3>1, <3>2, OriginKept
    <3>4. sub'[u].end = end BY <2>2, <3>1
    <3> QED BY <3>3, <3>4 DEF Origin, Granted, Overdue, Thirty
  <2>3. CASE Opened(u)
    <3>1. PICK d \in Delivery, b \in Buy :
              /\ Upsert(d) /\ About(d, b, 1) /\ stripe[b] # None /\ stripe[b].user = u
              /\ sub'[u].end = delivery[d].end
      BY <2>3 DEF Opened
    <3>2. About(d, b, 1)' /\ delivery'[d].end = delivery[d].end
      BY <3>1, Facts DEF IInv, Upsert, DeliveryState, About
    <3>3. UNCHANGED stripe BY <3>1 DEF Upsert
    <3> QED BY <3>1, <3>2, <3>3 DEF Origin, Thirty
  <2>4. CASE Invoiced(u)
    <3>1. PICK d \in Delivery, b \in Buy : \E i \in 1..Len(log[b]) :
              /\ UpdateRow(d) /\ stripe[b] # None /\ stripe[b].user = u
              /\ sub'[u].end = InvoiceEnd(log[b][i])
      BY <2>4 DEF Invoiced
    <3>2. Granted(b, sub'[u].end) \/ Overdue(b, sub'[u].end) BY <3>1, InvoicePays
    <3>3. UNCHANGED <<stripe, log, now>> BY <3>1 DEF UpdateRow
    <3> QED BY <3>1, <3>2, <3>3 DEF Origin, Granted, Overdue
  <2>5. ~Saved(u) BY <1>3 DEF Saved, ChangeSave, OriginInv
  <2>6. sub'[u] = sub[u] \/ Closed(u) \/ Opened(u) \/ Invoiced(u) BY <2>5, RowGoes
  <2> QED BY <2>1, <2>2, <2>3, <2>4, <2>6 DEF Closed
<1> QED BY <1>1, <1>2, <1>3 DEF OriginInv

LEMMA OriginInit == ASSUME Init PROVE OriginInv
  BY DEF Init, OriginInv, Origin

LEMMA PaidEnds == ASSUME IInv, OriginInv PROVE EndIsPaid
<1> SUFFICES ASSUME NEW u \in User, sub[u] # None
             PROVE  \E b \in Buy :
                /\ stripe[b] # None /\ stripe[b].user = u
                /\ \/ \E i \in 1..Len(log[b]) :
                       \/ sub[u].end = log[b][i].end
                       \/ log[b][i].line = NoTime /\ sub[u].end <= now
                   \/ /\ ~Reports /\ sub[u].end <= now + Fallback
                      /\ \E d \in Delivery : /\ delivery[d].buy = b /\ delivery[d].index = 1
                                            /\ delivery[d].end = sub[u].end
  BY DEF EndIsPaid
<1>1. Paid(u, sub[u].end) BY DEF IInv, RowsOK, RowOK
<1>2. ASSUME NEW b \in Buy, stripe[b] # None, stripe[b].user = u,
             Granted(b, sub[u].end) \/ Overdue(b, sub[u].end)
      PROVE  \E i \in 1..Len(log[b]) :
                 \/ sub[u].end = log[b][i].end
                 \/ log[b][i].line = NoTime /\ sub[u].end <= now
  BY <1>2 DEF Granted, Overdue
<1>3. CASE ~Reports /\ sub[u].end <= now + Fallback
  <2>1. PICK b \in Buy : /\ stripe[b] # None /\ stripe[b].user = u
                         /\ \/ Granted(b, sub[u].end)
                            \/ Overdue(b, sub[u].end)
                            \/ Thirty(b, sub[u].end)
    BY <1>3 DEF OriginInv, Origin
  <2>2. CASE Thirty(b, sub[u].end) BY <1>3, <2>1, <2>2 DEF Thirty, About
  <2> QED BY <1>2, <2>1, <2>2
<1> QED BY <1>1, <1>2, <1>3 DEF Paid

\* The end of a row is one Stripe granted to its account, or has passed, or it is
\* the fallback of a delivery of its checkout: the webhook (stripe.controller.ts)
\* and changeSubscriptionPlan write no other, however deliveries and requests
\* overlap, repeat, fail or arrive late.
THEOREM EndPaid == Spec => []EndIsPaid
<1>1. Init => IInv /\ PayInv /\ OriginInv BY InitHolds, PayInit, OriginInit
<1>2. (IInv /\ PayInv /\ OriginInv) /\ [Next]_vars => (IInv /\ PayInv /\ OriginInv)'
  BY Inductive, PayInductive, OriginInductive
<1>3. IInv /\ OriginInv => EndIsPaid BY PaidEnds
<1> QED BY <1>1, <1>2, <1>3, PTL DEF Spec

------------------------------------------------------------------------------
(* The conjuncts of AgreeInv *)

LEMMA EndsKept ==
    ASSUME IInv, PayInv, [Next]_vars, NEW b \in Buy, Ends(b)
    PROVE  Ends(b)'
<1>1. CASE stripe'[b] = stripe[b] /\ log'[b] = log[b] BY <1>1 DEF Ends
<1>2. CASE Bought(b)
  <2>1. PICK u \in User, p \in Plan : StripePurchase(b, u, p) BY <1>2 DEF Bought
  <2>2. stripe'[b] = [user |-> u, plan |-> p, live |-> TRUE, end |-> now + Trial]
    BY <2>1, Facts DEF IInv, StripePurchase
  <2>3. PICK line :
            log'[b] = << [type |-> "completed", plan |-> p, end |-> now + Trial,
                          line |-> now + Trial],
                         [type |-> "created", plan |-> p, end |-> now + Trial,
                          line |-> line] >>
    BY <2>1, Facts DEF IInv, StripePurchase
  <2>4. /\ Len(log'[b]) = 2 /\ log'[b][2].type = "created"
        /\ log'[b][2].end = stripe'[b].end /\ stripe'[b].live
        /\ \A i \in 1..2 : log'[b][i].type # "deleted"
    BY <2>2, <2>3
  <2> QED BY <2>4 DEF Ends
<1>3. ASSUME stripe[b] # None
      PROVE  \E n \in Nat :
                /\ Len(log[b]) = n /\ n > 1
                /\ log[b][2].type = "created"
                /\ log[b][n].end = stripe[b].end
                /\ ~stripe[b].live => log[b][n].type = "deleted"
                /\ \A i \in 1..n : log[b][i].type = "deleted" =>
                       i = n /\ ~stripe[b].live /\ log[b][n - 1].end = stripe[b].end
  BY <1>3 DEF Ends
<1>4. ASSUME NEW n \in Nat, NEW type \in {"changed", "renewed"}, stripe[b] # None,
             stripe[b].live, stripe'[b].live, Grown(b, n, type)
      PROVE  Ends(b)'
  <2>1. /\ n > 1 /\ log[b][2].type = "created"
        /\ \A i \in 1..n : log[b][i].type # "deleted"
    BY <1>3, <1>4 DEF Grown
  <2>2. /\ Len(log'[b]) = n + 1 /\ n + 1 > 1 /\ log'[b][2].type = "created"
        /\ log'[b][n + 1].end = stripe'[b].end
    BY <1>4, <2>1 DEF Grown
  <2>3. \A i \in 1..n + 1 : log'[b][i].type # "deleted"
    <3> SUFFICES ASSUME NEW i \in 1..n + 1 PROVE log'[b][i].type # "deleted" OBVIOUS
    <3>1. CASE i \in 1..n BY <1>4, <2>1, <3>1 DEF Grown
    <3>2. CASE i = n + 1 BY <1>4, <3>2 DEF Grown
    <3> QED BY <3>1, <3>2
  <2> QED BY <1>4, <2>2, <2>3 DEF Ends
<1>5. CASE Renewed(b) BY <1>4, <1>5 DEF Renewed
<1>6. CASE Removed(b)
  <2>1. PICK n \in Nat : Grown(b, n, "deleted") BY <1>6 DEF Removed
  <2>2. /\ n > 1 /\ log[b][2].type = "created" /\ log[b][n].end = stripe[b].end
        /\ \A i \in 1..n : log[b][i].type # "deleted"
    BY <1>3, <1>6, <2>1 DEF Grown, Removed
  <2>3. /\ Len(log'[b]) = n + 1 /\ n + 1 > 1 /\ log'[b][2].type = "created"
        /\ log'[b][n + 1].end = stripe'[b].end /\ log'[b][n + 1].type = "deleted"
        /\ log'[b][n].end = stripe'[b].end /\ ~stripe'[b].live
    <3>1. 2 \in 1..n /\ n \in 1..n /\ n + 1 > 1 BY <2>2
    <3>2. log'[b][2] = log[b][2] /\ log'[b][n] = log[b][n] BY <2>1, <3>1 DEF Grown
    <3>3. /\ Len(log'[b]) = n + 1 /\ log'[b][n + 1].end = stripe'[b].end
          /\ log'[b][n + 1].type = "deleted"
      BY <2>1 DEF Grown
    <3>4. ~stripe'[b].live /\ stripe'[b].end = stripe[b].end BY <1>6 DEF Removed
    <3> QED BY <2>2, <3>1, <3>2, <3>3, <3>4
  <2>4. \A i \in 1..n + 1 : log'[b][i].type = "deleted" => i = n + 1
    BY <2>1, <2>2 DEF Grown
  <2>5. (n + 1) - 1 = n OBVIOUS
  <2> QED BY <2>3, <2>4, <2>5 DEF Ends
<1>7. CASE Altered(b)
  <2>1. CASE UNCHANGED log /\ stripe'[b].end = stripe[b].end
    BY <1>3, <1>7, <2>1 DEF Altered, Ends
  <2> QED BY <1>4, <1>7, <2>1 DEF Altered
<1> QED BY <1>1, <1>2, <1>5, <1>6, <1>7, StripeGoes

LEMMA DatedKept ==
    ASSUME IInv, PayInv, [Next]_vars, NEW b \in Buy, Dated(b)
    PROVE  Dated(b)'
<1>1. CASE log'[b] = log[b] BY <1>1 DEF Dated
<1>2. CASE Bought(b)
  <2>1. PICK u \in User, p \in Plan : StripePurchase(b, u, p) BY <1>2 DEF Bought
  <2>2. PICK line \in {now + Trial, NoTime} :
            log'[b] = << [type |-> "completed", plan |-> p, end |-> now + Trial,
                          line |-> now + Trial],
                         [type |-> "created", plan |-> p, end |-> now + Trial,
                          line |-> line] >>
    BY <2>1, Facts DEF IInv, StripePurchase, Lines
  <2>3. /\ Len(log'[b]) = 2
        /\ log'[b][1].line = log'[b][1].end
        /\ log'[b][2].line \in {log'[b][2].end, NoTime}
    BY <2>2
  <2> QED BY <2>3 DEF Dated
<1>3. ASSUME NEW n \in Nat, NEW type, Grown(b, n, type) PROVE Dated(b)'
  <2> SUFFICES ASSUME NEW i \in 1..n + 1, log'[b][i].type # "changed"
               PROVE  log'[b][i].line \in {log'[b][i].end, NoTime}
    BY <1>3 DEF Grown, Dated
  <2>1. CASE i \in 1..n BY <1>3, <2>1 DEF Grown, Dated
  <2>2. CASE i = n + 1 BY <1>3, <2>2 DEF Grown
  <2> QED BY <2>1, <2>2
<1> QED BY <1>1, <1>2, <1>3, StripeGoes DEF Renewed, Removed, Altered

\* A row that is not opened goes on naming its subscription.
LEMMA NamesKept ==
    ASSUME IInv, PayInv, [Next]_vars, NEW u \in User, ~Opened(u), NEW b
    PROVE  Names(u, b)' <=> Names(u, b)
<1>1. \/ sub'[u] = sub[u]
      \/ sub[u] # None /\ sub'[u] # None /\ sub'[u].stripeSub = sub[u].stripeSub
  BY RowGoes DEF Invoiced, Closed, Saved
<1> QED BY <1>1 DEF Names

\* A row is opened by a delivery that is under way.
LEMMA OpenedBy ==
    ASSUME NEW u \in User, Opened(u)
    PROVE  \E d \in Delivery : Handles(d, u) /\ delivery[d].pc = "upsert"
  BY DEF Opened, Handles, DeliveryPending, Upsert, About

\* A request that is under way was so before, or has just begun.
LEMMA HandlesBack ==
    ASSUME IInv, PayInv, [Next]_vars, NEW d \in Delivery, NEW u \in User, Handles(d, u)'
    PROVE  \/ Handles(d, u)
           \/ \E b \in Buy, i \in 1..MaxEvents : Receive(d, b, i) /\ stripe[b].user = u
<1>1. Grows BY StepGrows
<1>2. CASE delivery'[d] = delivery[d] \/ GoesFrom(d)
  <2>1. DeliveryPending(d) /\ delivery'[d].buy = delivery[d].buy
    BY <1>2 DEF GoesFrom, Handles, DeliveryPending
  <2>2. PICK b \in Buy : delivery[d].buy = b /\ stripe[b] # None
    BY <2>1 DEF IInv, DeliveriesOK, DeliveryOK
  <2>3. stripe'[b].user = stripe[b].user BY <1>1, <2>2 DEF Grows
  <2> QED BY <2>1, <2>2, <2>3 DEF Handles
<1>3. CASE Begins(d)
  <2>1. PICK b \in Buy, i \in 1..MaxEvents : Receive(d, b, i) /\ About(d, b, i)'
    BY <1>3 DEF Begins
  <2>2. UNCHANGED stripe BY <2>1 DEF Receive
  <2> QED BY <2>1, <2>2 DEF Handles, About
<1> QED BY <1>2, <1>3, DeliveryGoes

LEMMA AltersBack ==
    ASSUME IInv, [Next]_vars, NEW h \in Change, NEW u \in User, Alters(h, u)'
    PROVE  \/ Alters(h, u)
           \/ \E p \in Plan : ChangeRead(h, u, p)
<1>1. CASE change'[h] = change[h] \/ MovesOn(h)
  BY <1>1 DEF MovesOn, Alters, ChangePending
<1>2. CASE ReadsRow(h) BY <1>2 DEF ReadsRow, Alters
<1> QED BY <1>1, <1>2, ChangeGoes

LEMMA AloneKept ==
    ASSUME IInv, PayInv, [Next]_vars, NEW u \in User, Alone(u)
    PROVE  Alone(u)'
<1> SUFFICES ASSUME orderly'[u]
             PROVE  /\ \A d, e \in Delivery : Handles(d, u)' /\ Handles(e, u)' => d = e
                    /\ \A g, h \in Change : Alters(g, u)' /\ Alters(h, u)' => g = h
                    /\ \A d \in Delivery, h \in Change : ~(Handles(d, u)' /\ Alters(h, u)')
  BY DEF Alone
<1>1. /\ \A d, e \in Delivery : Handles(d, u) /\ Handles(e, u) => d = e
      /\ \A g, h \in Change : Alters(g, u) /\ Alters(h, u) => g = h
      /\ \A d \in Delivery, h \in Change : ~(Handles(d, u) /\ Alters(h, u))
  BY OrderGoes DEF Alone
<1>2. ~Busy(u) => /\ \A d \in Delivery : ~Handles(d, u)
                  /\ \A h \in Change : ~Alters(h, u)
  BY DEF Busy, Handles, Alters
<1>3. ASSUME NEW d \in Delivery, NEW b \in Buy, NEW i \in 1..MaxEvents, Receive(d, b, i),
             stripe[b].user = u
      PROVE  /\ \A e \in Delivery : Handles(e, u)' => e = d
             /\ \A h \in Change : ~Alters(h, u)'
  <2>1. ~Busy(u) BY <1>3, OrderGoes
  <2>2. UNCHANGED <<stripe, change>> BY <1>3 DEF Receive
  <2>3. \A e \in Delivery : e # d => delivery'[e] = delivery[e]
    BY <1>3, Facts DEF IInv, Receive
  <2>4. \A e \in Delivery : e # d => (Handles(e, u)' <=> Handles(e, u))
    BY <2>2, <2>3 DEF Handles, DeliveryPending
  <2>5. \A h \in Change : Alters(h, u)' <=> Alters(h, u)
    BY <2>2 DEF Alters, ChangePending
  <2> QED BY <1>2, <2>1, <2>4, <2>5
<1>4. ASSUME NEW h \in Change, NEW p \in Plan, ChangeRead(h, u, p)
      PROVE  /\ \A g \in Change : Alters(g, u)' => g = h
             /\ \A d \in Delivery : ~Handles(d, u)'
  <2>1. ~Busy(u) BY <1>4, OrderGoes
  <2>2. UNCHANGED <<stripe, delivery>> BY <1>4 DEF ChangeRead
  <2>3. \A g \in Change : g # h => change'[g] = change[g]
    BY <1>4, Facts DEF IInv, ChangeRead
  <2>4. \A g \in Change : g # h => (Alters(g, u)' <=> Alters(g, u))
    BY <2>3 DEF Alters, ChangePending
  <2>5. \A d \in Delivery : Handles(d, u)' <=> Handles(d, u)
    BY <2>2 DEF Handles, DeliveryPending
  <2> QED BY <1>2, <2>1, <2>4, <2>5
<1>5. CASE \E d \in Delivery, b \in Buy, i \in 1..MaxEvents :
              Receive(d, b, i) /\ stripe[b].user = u
  <2>1. PICK d \in Delivery : /\ \A e \in Delivery : Handles(e, u)' => e = d
                              /\ \A h \in Change : ~Alters(h, u)'
    BY <1>3, <1>5
  <2> QED BY <2>1
<1>6. CASE \E h \in Change, p \in Plan : ChangeRead(h, u, p)
  <2>1. PICK h \in Change : /\ \A g \in Change : Alters(g, u)' => g = h
                            /\ \A d \in Delivery : ~Handles(d, u)'
    BY <1>4, <1>6
  <2> QED BY <2>1
<1>7. CASE /\ ~\E d \in Delivery, b \in Buy, i \in 1..MaxEvents :
                  Receive(d, b, i) /\ stripe[b].user = u
           /\ ~\E h \in Change, p \in Plan : ChangeRead(h, u, p)
  <2>1. \A d \in Delivery : Handles(d, u)' => Handles(d, u) BY <1>7, HandlesBack
  <2>2. \A h \in Change : Alters(h, u)' => Alters(h, u) BY <1>7, AltersBack
  <2> QED BY <1>1, <2>1, <2>2
<1> QED BY <1>5, <1>6, <1>7

LEMMA InvoicingKept ==
    ASSUME IInv, PayInv, [Next]_vars, NEW d \in Delivery, Invoicing(d)
    PROVE  Invoicing(d)'
<1>1. Grows BY StepGrows
<1> SUFFICES ASSUME delivery'[d].pc \in {"find", "update"}
             PROVE  \E b \in Buy : \E i \in 1..Len(log'[b]) :
                        About(d, b, i)' /\ log'[b][i].type # "deleted"
  BY DEF Invoicing
<1>2. CASE delivery'[d] = delivery[d] \/ GoesFrom(d)
  <2>1. delivery[d].pc \in {"find", "update"}
    BY <1>2 DEF GoesFrom, Find
  <2>2. delivery'[d].buy = delivery[d].buy /\ delivery'[d].index = delivery[d].index
    BY <1>2 DEF GoesFrom
  <2>3. PICK b \in Buy : \E i \in 1..Len(log[b]) :
            About(d, b, i) /\ log[b][i].type # "deleted"
    BY <2>1 DEF Invoicing
  <2>4. PICK i \in 1..Len(log[b]) : About(d, b, i) /\ log[b][i].type # "deleted" BY <2>3
  <2>5. stripe[b] # None BY <2>4, Placed
  <2>6. i \in 1..Len(log'[b]) /\ log'[b][i] = log[b][i] BY <1>1, <2>5 DEF Grows
  <2> QED BY <2>2, <2>4, <2>6 DEF About
<1>3. CASE Begins(d)
  <2>1. PICK b \in Buy, i \in 1..MaxEvents :
            /\ Receive(d, b, i) /\ About(d, b, i)' /\ i \in 1..Len(log[b])
            /\ delivery'[d].pc \in {"retrieve", "find", "delete"}
            /\ delivery'[d].pc = "find" => log[b][i].type # "deleted"
    BY <1>3 DEF Begins
  <2>2. UNCHANGED log BY <2>1 DEF Receive
  <2> QED BY <2>1, <2>2
<1> QED BY <1>2, <1>3, DeliveryGoes

\* The subscription a change of plan is about is that of its account.
LEMMA ChangeOf ==
    ASSUME IInv, NEW h \in Change, ChangePending(h)
    PROVE  \E b \in Buy, u \in User :
               /\ change[h].buy = b /\ stripe[b] # None /\ stripe[b].user = u
               /\ change[h].user = u /\ Alters(h, u)
  BY DEF IInv, ChangesOK, ChangeOK, Alters

\* Stripe changes the plan of the subscription of one request.
LEMMA AlteredBy ==
    ASSUME IInv, NEW b \in Buy, Altered(b)
    PROVE  \E h \in Change :
               /\ ChangeStripe(h) /\ change[h].buy = b /\ change[h].pc = "stripe"
               /\ Alters(h, stripe[b].user) /\ change'[h].pc = "save"
               /\ stripe'[b].plan = change[h].plan /\ change'[h].user = change[h].user
<1>1. PICK h \in Change : ChangeStripe(h) /\ change[h].buy = b
                          /\ stripe'[b].plan = change[h].plan
  BY DEF Altered
<1>2. change[h].pc = "stripe" /\ ChangePending(h)
  BY <1>1 DEF ChangeStripe, ChangePending
<1>3. Alters(h, stripe[b].user) BY <1>1, <1>2, ChangeOf
<1>4. stripe[b].live BY DEF Altered
<1>5. PICK end : change' = [change EXCEPT ![h] = [@ EXCEPT !.pc = "save", !.end = end]]
  BY <1>1, <1>4 DEF ChangeStripe
<1>6. change \in [Change -> ChangeState] /\ change[h] \in ChangeState BY Facts DEF IInv
<1>7. change'[h].pc = "save" /\ change'[h].user = change[h].user
  BY <1>5, <1>6 DEF ChangeState
<1> QED BY <1>1, <1>2, <1>3, <1>7

LEMMA BoundKept ==
    ASSUME IInv, PayInv, [Next]_vars, NEW u \in User, Alone(u), Bound(u)
    PROVE  Bound(u)'
<1> SUFFICES ASSUME orderly'[u]
             PROVE  /\ \A d \in Delivery : Handles(d, u)' /\ delivery'[d].pc = "update" =>
                          Names(u, delivery[d].buy)' /\ delivery'[d].buy = delivery[d].buy
                    /\ \A h \in Change : Alters(h, u)' =>
                          /\ \A b : b = change'[h].buy => Names(u, b)'
                          /\ change'[h].pc = "save" =>
                                 change'[h].plan = stripe'[change'[h].buy].plan
  BY DEF Bound, Names
<1>1. Grows BY StepGrows
<1>2. /\ \A d, e \in Delivery : Handles(d, u) /\ Handles(e, u) => d = e
      /\ \A g, h \in Change : Alters(g, u) /\ Alters(h, u) => g = h
      /\ \A d \in Delivery, h \in Change : ~(Handles(d, u) /\ Alters(h, u))
      /\ \A d \in Delivery :
            Handles(d, u) /\ delivery[d].pc = "update" => Names(u, delivery[d].buy)
      /\ \A h \in Change : Alters(h, u) =>
            /\ Names(u, change[h].buy)
            /\ change[h].pc = "save" => change[h].plan = stripe[change[h].buy].plan
  BY OrderGoes DEF Alone, Bound
<1>3. ASSUME NEW d \in Delivery, Handles(d, u)', delivery'[d].pc = "update"
      PROVE  Names(u, delivery[d].buy)' /\ delivery'[d].buy = delivery[d].buy
  <2>1. CASE delivery'[d] = delivery[d]
    <3>1. Handles(d, u)
      <4>1. \A b \in Buy, i \in 1..MaxEvents : Receive(d, b, i) => delivery[d].pc = "idle"
        BY DEF Receive
      <4> QED BY <1>3, <2>1, <4>1, HandlesBack
    <3>2. ~Opened(u) BY <1>2, <1>3, <2>1, <3>1, OpenedBy
    <3> QED BY <1>2, <1>3, <2>1, <3>1, <3>2, NamesKept
  <2>2. CASE Begins(d) BY <1>3, <2>2 DEF Begins
  <2>3. CASE GoesFrom(d)
    <3>1. Find(d) /\ delivery'[d].buy = delivery[d].buy
          /\ Names(stripe[delivery[d].buy].user, delivery[d].buy)
      BY <1>3, <2>3 DEF GoesFrom
    <3>2. UNCHANGED <<sub, stripe>> BY <3>1 DEF Find
    <3>3. stripe[delivery[d].buy].user = u BY <1>3, <3>1, <3>2 DEF Handles
    <3> QED BY <3>1, <3>2, <3>3 DEF Names
  <2> QED BY <2>1, <2>2, <2>3, DeliveryGoes
<1>4. ASSUME NEW h \in Change, Alters(h, u)'
      PROVE  /\ \A b : b = change'[h].buy => Names(u, b)'
             /\ change'[h].pc = "save" => change'[h].plan = stripe'[change'[h].buy].plan
  <2>1. CASE change'[h] = change[h]
    <3>1. Alters(h, u) BY <1>4, <2>1 DEF Alters, ChangePending
    <3>2. ~Opened(u) BY <1>2, <3>1, OpenedBy
    <3>3. PICK b \in Buy : change[h].buy = b /\ stripe[b] # None /\ stripe[b].user = u
      BY <3>1 DEF IInv, ChangesOK, ChangeOK, Alters
    <3>4. Names(u, b)' BY <1>2, <3>1, <3>2, <3>3, NamesKept
    <3>5. change[h].pc = "save" => stripe'[b].plan = stripe[b].plan
      <4>1. ~Bought(b) BY <3>3 DEF Bought, StripePurchase
      <4>2. change[h].pc = "save" => ~Altered(b)
        BY <1>2, <3>1, <3>3, AlteredBy
      <4> QED BY <4>1, <4>2, StripeGoes DEF Renewed, Removed
    <3> QED BY <1>2, <2>1, <3>1, <3>3, <3>4, <3>5
  <2>2. CASE ReadsRow(h)
    <3>1. PICK v \in User, p \in Plan :
              /\ ChangeRead(h, v, p) /\ sub[v] # None /\ change'[h].pc = "stripe"
              /\ change'[h].user = v /\ change'[h].buy = sub[v].stripeSub
      BY <2>2 DEF ReadsRow
    <3>2. UNCHANGED sub /\ v = u BY <1>4, <3>1 DEF ChangeRead, Alters
    <3> QED BY <3>1, <3>2 DEF Names
  <2>3. CASE MovesOn(h)
    <3>1. Alters(h, u) BY <1>4, <2>3 DEF MovesOn, Alters
    <3>2. /\ ChangeStripe(h) /\ change'[h].pc = "save" /\ change'[h].buy = change[h].buy
          /\ change'[h].plan = stripe'[change[h].buy].plan
      BY <1>4, <2>3 DEF MovesOn, Alters, ChangePending
    <3>3. UNCHANGED sub BY <3>2 DEF ChangeStripe
    <3> QED BY <1>2, <3>1, <3>2, <3>3 DEF Names
  <2> QED BY <2>1, <2>2, <2>3, ChangeGoes
<1> QED BY <1>3, <1>4

LEMMA FreshKept ==
    ASSUME IInv, PayInv, [Next]_vars, NEW b \in Buy, Fresh(b), Ends(b),
           \A u \in User : Bound(u)
    PROVE  Fresh(b)'
<1> SUFFICES ASSUME stripe'[b] # None, orderly'[stripe'[b].user],
                    \A d \in Delivery : About(d, b, 1)' =>
                        delivery'[d].pc \in {"retrieve", "upsert"}
             PROVE  log'[b][1].plan = stripe'[b].plan
  BY DEF Fresh
<1>1. Grows BY StepGrows
<1>2. CASE Bought(b)
  <2>1. PICK u \in User, p \in Plan : StripePurchase(b, u, p) BY <1>2 DEF Bought
  <2>2. stripe'[b] = [user |-> u, plan |-> p, live |-> TRUE, end |-> now + Trial]
    BY <2>1, Facts DEF IInv, StripePurchase
  <2>3. PICK line :
            log'[b] = << [type |-> "completed", plan |-> p, end |-> now + Trial,
                          line |-> now + Trial],
                         [type |-> "created", plan |-> p, end |-> now + Trial,
                          line |-> line] >>
    BY <2>1, Facts DEF IInv, StripePurchase
  <2> QED BY <2>2, <2>3
<1>3. CASE ~Bought(b)
  <2>1. stripe[b] # None BY <1>3, StripeGoes DEF Renewed, Removed, Altered
  <2> DEFINE u == stripe[b].user
  <2>2. stripe'[b].user = u /\ u \in User
    BY <1>1, <2>1, Facts DEF Grows, IInv, StripeSub
  <2>3. orderly[u] BY <2>2, OrderGoes
  <2>4. \A d \in Delivery : About(d, b, 1) => delivery[d].pc \in {"retrieve", "upsert"}
    <3> SUFFICES ASSUME NEW d \in Delivery, About(d, b, 1)
                 PROVE  delivery[d].pc \in {"retrieve", "upsert"}
      OBVIOUS
    <3>1. delivery[d].pc # "idle" BY Placed
    <3>2. CASE delivery'[d] = delivery[d] BY <3>2 DEF About
    <3>3. CASE Begins(d) BY <3>1, <3>3 DEF Begins
    <3>4. CASE GoesFrom(d)
      <4>1. About(d, b, 1)' BY <3>4 DEF GoesFrom, About
      <4>2. delivery'[d].pc \in {"retrieve", "upsert"} BY <4>1
      <4>3. Retrieve(d) BY <3>4, <4>2 DEF GoesFrom
      <4> QED BY <4>3 DEF Retrieve
    <3> QED BY <3>2, <3>3, <3>4, DeliveryGoes
  <2>5. log[b][1].plan = stripe[b].plan BY <2>1, <2>3, <2>4 DEF Fresh
  <2>6. log'[b][1] = log[b][1]
    <3>1. 1 \in 1..Len(log[b]) BY <2>1 DEF Ends
    <3> QED BY <1>1, <2>1, <3>1 DEF Grows
  <2>7. ~Altered(b)
    <3> SUFFICES ASSUME Altered(b) PROVE FALSE OBVIOUS
    <3>1. PICK h \in Change : change[h].buy = b /\ Alters(h, u) BY AlteredBy
    <3>2. Names(u, b) BY <2>2, <2>3, <3>1 DEF Bound
    <3>3. PICK d \in Delivery : About(d, b, 1) BY <2>2, <3>2 DEF PayInv, Named
    <3>4. 1 \in 1..Len(log[b]) BY <2>1 DEF Ends
    <3>5. Paying(b) BY <2>1, <2>3 DEF PayInv, Ordered
    <3> QED BY <2>4, <3>2, <3>3, <3>4, <3>5 DEF Paying
  <2>8. stripe'[b].plan = stripe[b].plan
    BY <1>3, <2>7, StripeGoes DEF Renewed, Removed
  <2> QED BY <2>5, <2>6, <2>8
<1> QED BY <1>2, <1>3

\* Until its first delivery is done, an orderly subscription has no other.
LEMMA FirstAlone ==
    ASSUME IInv, PayInv, NEW b \in Buy, NEW d \in Delivery, About(d, b, 1),
           delivery[d].pc # "done", orderly[stripe[b].user],
           NEW e \in Delivery, NEW i, About(e, b, i)
    PROVE  i = 1 /\ e = d
<1>1. i \in 1..Len(log[b]) /\ 1 \in 1..Len(log[b]) /\ stripe[b] # None BY Placed
<1>2. Once(b) /\ InOrder(b) BY <1>1 DEF PayInv, Ordered
<1>3. log[b] \in Seq(Event) BY Facts DEF IInv
<1>4. i = 1
  <2> SUFFICES ASSUME i # 1 PROVE FALSE OBVIOUS
  <2>1. 1 \in 1..i - 1 BY <1>1, <1>3
  <2>2. PICK f \in Delivery : About(f, b, 1) /\ delivery[f].pc = "done"
    BY <1>1, <1>2, <2>1 DEF InOrder
  <2> QED BY <1>1, <1>2, <2>2 DEF Once
<1> QED BY <1>1, <1>2, <1>4 DEF Once

\* Nor has it a delivery of a later event while one is about to write the row.
LEMMA NoneLater ==
    ASSUME IInv, PayInv, NEW b \in Buy, NEW d \in Delivery, NEW i, About(d, b, i),
           delivery[d].pc # "done", orderly[stripe[b].user],
           NEW e \in Delivery, NEW j, About(e, b, j)
    PROVE  j <= i
<1>1. i \in 1..Len(log[b]) /\ j \in 1..Len(log[b]) /\ stripe[b] # None BY Placed
<1>2. Once(b) /\ InOrder(b) BY <1>1 DEF PayInv, Ordered
<1>3. Len(log[b]) \in Nat
  <2>1. log[b] \in Seq(Event) BY Facts DEF IInv
  <2> QED BY <2>1
<1> SUFFICES ASSUME i < j PROVE FALSE BY <1>1, <1>3
<1>4. i \in 1..j - 1 BY <1>1, <1>3
<1>5. PICK f \in Delivery : About(f, b, i) /\ delivery[f].pc = "done"
  BY <1>1, <1>2, <1>4 DEF InOrder
<1> QED BY <1>1, <1>2, <1>5 DEF Once

LEMMA AgreesOpened ==
    ASSUME IInv, PayInv, [Next]_vars, NEW u \in User, NEW b \in Buy, Ends(b), Fresh(b),
           Opened(u), orderly'[u], Names(u, b)'
    PROVE  Agrees(u, b)'
<1>1. PICK d \in Delivery :
          /\ Upsert(d) /\ About(d, b, 1) /\ stripe[b] # None /\ stripe[b].user = u
          /\ sub'[u].plan = log[b][1].plan /\ sub'[u].status = "active"
  BY DEF Opened, Names
<1>2. UNCHANGED <<stripe, log, change>> /\ delivery[d].pc = "upsert" BY <1>1 DEF Upsert
<1>3. orderly[u] BY OrderGoes
<1>4. \A e \in Delivery, i \in Nat : About(e, b, i) => i = 1 /\ e = d
  BY <1>1, <1>2, <1>3, FirstAlone
<1>5. \A e \in Delivery, i \in Nat : About(e, b, i)' => i = 1
  <2>1. \A e \in Delivery : delivery'[e].buy = delivery[e].buy
                            /\ delivery'[e].index = delivery[e].index
    BY <1>1, Facts DEF IInv, Upsert, DeliveryState
  <2> QED BY <1>4, <2>1 DEF About
<1>6. PICK n \in Nat :
          /\ Len(log[b]) = n /\ n > 1 /\ log[b][2].type = "created"
          /\ \A i \in 1..n : log[b][i].type = "deleted" => i = n
  BY <1>1 DEF Ends
<1>7. ~Gone(b)'
  <2>1. \A i \in 1..n : log[b][i].type = "deleted" => i # 1 BY <1>6
  <2> QED BY <1>2, <1>5, <1>6, <2>1 DEF Gone
<1>8. ~Settled(b)'
  <2>1. 2 \in 1..n BY <1>6
  <2> QED BY <1>2, <1>5, <1>6, <2>1 DEF Settled
<1>9. sub'[u].plan = stripe'[b].plan
  <2>1. log[b][1].plan = stripe[b].plan BY <1>1, <1>2, <1>3, <1>4 DEF Fresh
  <2> QED BY <1>1, <1>2, <2>1
<1> QED BY <1>7, <1>8, <1>9 DEF Agrees, SamePlan, SameEnd

\* The invoice that settles a subscription is its last: the handler reads from it
\* the end that Stripe keeps, or misreads it.
LEMMA LastInvoice ==
    ASSUME IInv, PayInv, NEW b \in Buy, Ends(b), Dated(b), NEW d \in Delivery, NEW i,
           About(d, b, i), Invoicing(d), UpdateRow(d), orderly[stripe[b].user], Settled(b)'
    PROVE  LET end == InvoiceEnd(log[b][i]) IN end = stripe[b].end \/ Misread(b, end)
<1>1. i \in 1..Len(log[b]) /\ stripe[b] # None BY Placed
<1>2. PICK n \in Nat :
          /\ Len(log[b]) = n /\ log[b][n].end = stripe[b].end
          /\ \A k \in 1..n : log[b][k].type = "deleted" =>
                 k = n /\ log[b][n - 1].end = stripe[b].end
  BY <1>1 DEF Ends
<1>3. delivery[d].pc = "update" /\ UNCHANGED log BY DEF UpdateRow
<1>4. \A e \in Delivery : delivery'[e].buy = delivery[e].buy
                          /\ delivery'[e].index = delivery[e].index
  BY Facts DEF IInv, UpdateRow, DeliveryState
<1>5. \A j \in 1..n : log[b][j].type # "deleted" => j <= i
  <2> SUFFICES ASSUME NEW j \in 1..n, log[b][j].type # "deleted" PROVE j <= i OBVIOUS
  <2>1. PICK e \in Delivery : About(e, b, j)' BY <1>2, <1>3 DEF Settled
  <2>2. About(e, b, j) BY <1>4, <2>1 DEF About
  <2> QED BY <1>3, <2>2, NoneLater
<1>6. log[b][i].end = stripe[b].end
  <2>1. CASE i = n BY <1>2, <2>1
  <2>2. CASE i # n
    <3>1. n \in 1..n /\ n - 1 \in 1..n /\ i <= n - 1 /\ ~(n <= i) BY <1>1, <1>2, <2>2
    <3>2. log[b][n].type = "deleted" BY <1>5, <3>1
    <3>3. n - 1 <= i BY <1>2, <1>5, <3>1
    <3>4. i = n - 1 BY <1>1, <1>2, <3>1, <3>3
    <3> QED BY <1>2, <3>1, <3>2, <3>4
  <2> QED BY <2>1, <2>2
<1>7. log[b][i] \in Event
  <2>1. log[b] \in Seq(Event) BY Facts DEF IInv
  <2> QED BY <1>1, <2>1
<1>8. IsInvoice(log[b][i])
  <2>1. i # 1
    <3>1. PICK c \in Buy, k \in Nat, e \in Event :
            About(d, c, k) /\ (delivery[d].pc \in {"find", "update"} => k # 1)
      BY <1>3, StageOf DEF DeliveryPending
    <3> QED BY <1>3, <3>1 DEF About
  <2>2. log[b][i].type # "completed" BY <1>1, <2>1 DEF PayInv, Logged
  <2>3. log[b][i].type # "deleted" BY <1>3 DEF Invoicing, About
  <2> QED BY <1>7, <2>2, <2>3 DEF Event, IsInvoice
<1>9. \A j \in i + 1..Len(log[b]) : ~IsInvoice(log[b][j])
  <2> SUFFICES ASSUME NEW j \in i + 1..n PROVE ~IsInvoice(log[b][j]) BY <1>2
  <2>1. j \in 1..n /\ ~(j <= i) BY <1>1, <1>2
  <2> QED BY <1>5, <2>1 DEF IsInvoice
<1>10. CASE log[b][i].line = NoTime
  <2>1. now <= now BY Facts DEF IInv
  <2> QED BY <1>1, <1>8, <1>9, <1>10, <2>1 DEF InvoiceEnd, Misread
<1>11. CASE log[b][i].line # NoTime /\ log[b][i].type = "changed"
  BY <1>1, <1>8, <1>9, <1>11 DEF InvoiceEnd, Misread
<1>12. CASE log[b][i].line # NoTime /\ log[b][i].type # "changed"
  BY <1>1, <1>6, <1>12 DEF Dated, InvoiceEnd
<1> QED BY <1>10, <1>11, <1>12

\* A subscription with a new invoice is not settled.
LEMMA NewInvoice ==
    ASSUME IInv, PayInv, [Next]_vars, NEW b \in Buy, NEW n \in Nat,
           NEW type \in {"changed", "renewed"}, Grown(b, n, type)
    PROVE  ~Settled(b)'
<1> SUFFICES ASSUME NEW d \in Delivery, About(d, b, n + 1)' PROVE FALSE
  <2>1. n + 1 \in 1..Len(log'[b]) /\ log'[b][n + 1].type # "deleted" BY DEF Grown
  <2> QED BY <2>1 DEF Settled
<1>1. ~About(d, b, n + 1) BY Placed DEF Grown
<1>2. delivery'[d] # delivery[d] /\ ~GoesFrom(d) BY <1>1 DEF GoesFrom, About
<1>3. log' # log BY DEF Grown
<1>4. ~Begins(d)
  <2>1. ASSUME NEW c \in Buy, NEW i \in 1..MaxEvents, Receive(d, c, i) PROVE FALSE
    BY <1>3, <2>1 DEF Receive
  <2> QED BY <2>1 DEF Begins
<1> QED BY <1>2, <1>4, DeliveryGoes

\* The last invoice stays the last, and what it was misread for, as long as there
\* is no other.
LEMMA MisreadKept ==
    ASSUME IInv, PayInv, [Next]_vars, NEW b \in Buy, NEW end \in Nat, Misread(b, end),
           stripe[b] # None, Settled(b)'
    PROVE  Misread(b, end)'
<1>1. PICK i \in 1..Len(log[b]) :
          /\ IsInvoice(log[b][i])
          /\ \A j \in i + 1..Len(log[b]) : ~IsInvoice(log[b][j])
          /\ \/ log[b][i].type = "changed" /\ end = log[b][i].line
             \/ log[b][i].line = NoTime /\ end <= now
  BY DEF Misread
<1>2. i \in 1..Len(log'[b]) /\ log'[b][i] = log[b][i] BY StepGrows DEF Grows
<1>3. now \in Nat /\ now' \in Nat /\ now <= now' BY StepGrows, Facts DEF IInv, Grows
<1>4. end <= now => end <= now' BY <1>3
<1>5. \A j \in i + 1..Len(log'[b]) : ~IsInvoice(log'[b][j])
  <2>1. CASE log'[b] = log[b] BY <1>1, <2>1 DEF IsInvoice
  <2>2. ASSUME NEW n \in Nat, Grown(b, n, "deleted") PROVE <1>5
    <3> SUFFICES ASSUME NEW j \in i + 1..n + 1 PROVE ~IsInvoice(log'[b][j])
      BY <2>2 DEF Grown
    <3>1. CASE j = n + 1 BY <2>2, <3>1 DEF Grown, IsInvoice
    <3>2. CASE j # n + 1
      <4>1. j \in 1..n /\ j \in i + 1..n BY <3>2
      <4> QED BY <1>1, <2>2, <4>1 DEF Grown, IsInvoice
    <3> QED BY <3>1, <3>2
  <2>3. ~Bought(b) BY DEF Bought, StripePurchase
  <2>4. ~Renewed(b) BY NewInvoice DEF Renewed
  <2>5. Altered(b) => log'[b] = log[b] BY NewInvoice DEF Altered
  <2> QED BY <2>1, <2>2, <2>3, <2>4, <2>5, StripeGoes DEF Removed
<1>6. IsInvoice(log'[b][i]) BY <1>1, <1>2 DEF IsInvoice
<1> QED BY <1>1, <1>2, <1>4, <1>5, <1>6 DEF Misread

\* The deletion of a subscription the row names, once delivered, has closed the row.
LEMMA GoneKept ==
    ASSUME IInv, PayInv, [Next]_vars, NEW u \in User, NEW b \in Buy, Ends(b), Bound(u),
           Agrees(u, b), \A d \in Delivery : Invoicing(d),
           ~Opened(u), orderly[u], Names(u, b), stripe[b] # None, stripe[b].user = u,
           Gone(b)'
    PROVE  sub'[u].status # "active"
<1>1. Grows BY StepGrows
<1>2. Paying(b) BY DEF PayInv, Ordered
<1>3. PICK d \in Delivery, i \in 1..Len(log'[b]) :
          About(d, b, i)' /\ delivery'[d].pc = "done" /\ log'[b][i].type = "deleted"
  BY DEF Gone
<1>4. CASE DeleteRow(d) /\ About(d, b, i)
  <2>1. sub' = [sub EXCEPT ![u].status = "canceled"] BY <1>4 DEF DeleteRow, About, Names
  <2>2. sub[u] \in Row /\ sub \in [User -> Row \cup {None}] BY Facts DEF IInv, Names
  <2> QED BY <2>1, <2>2 DEF Row
<1>5. CASE Gone(b)
  <2>1. sub[u].status # "active" BY <1>5 DEF Agrees
  <2>2. ~Invoiced(u)
    <3> SUFFICES ASSUME Invoiced(u) PROVE FALSE OBVIOUS
    <3>1. PICK e \in Delivery, c \in Buy : \E j \in 1..Len(log[c]) :
              UpdateRow(e) /\ About(e, c, j) /\ stripe[c].user = u
      BY DEF Invoiced
    <3>2. PICK j \in 1..Len(log[c]) : About(e, c, j) BY <3>1
    <3>3. e \in Delivery /\ delivery[e].pc = "update" /\ Handles(e, u)
      BY <3>1 DEF UpdateRow, Handles, DeliveryPending, About
    <3>4. c = b BY <3>1, <3>3 DEF Bound, Names, About
    <3>5. PICK f \in Delivery, k \in 1..Len(log[b]) :
              About(f, b, k) /\ delivery[f].pc = "done" /\ log[b][k].type = "deleted"
      BY <1>5 DEF Gone
    <3>6. log[b][j].type # "deleted" BY <3>2, <3>3, <3>4 DEF Invoicing, About
    <3>7. k <= j BY <3>2, <3>3, <3>4, <3>5, NoneLater
    <3>8. k = Len(log[b]) BY <3>5 DEF Ends
    <3>9. j \in 1..Len(log[b]) /\ Len(log[b]) \in Nat BY <3>2, <3>4 DEF Ends
    <3> QED BY <3>5, <3>6, <3>7, <3>8, <3>9
  <2> QED BY <2>1, <2>2, RowGoes DEF Closed, Saved
<1>6. CASE delivery'[d] = delivery[d]
  <2>1. About(d, b, i) /\ delivery[d].pc = "done" BY <1>3, <1>6 DEF About
  <2>2. i \in 1..Len(log[b]) BY <2>1, Placed
  <2>3. log[b][i].type = "deleted" BY <1>1, <1>3, <2>2 DEF Grows
  <2> QED BY <1>5, <2>1, <2>2, <2>3 DEF Gone
<1>7. CASE GoesFrom(d)
  <2>1. About(d, b, i) /\ DeliveryPending(d) BY <1>3, <1>7 DEF GoesFrom, About
  <2>2. i \in 1..Len(log[b]) BY <2>1, Placed
  <2>3. log[b][i].type = "deleted" BY <1>1, <1>3, <2>2 DEF Grows
  <2>4. delivery[d].pc \notin {"retrieve", "upsert"} BY <1>2, <2>1, <2>2 DEF Paying
  <2>5. delivery[d].pc \notin {"find", "update"} BY <2>1, <2>3 DEF Invoicing, About
  <2>6. delivery[d].pc # "record"
    <3>1. \A e \in Event : e.type = "deleted" => e.type \notin Charged BY DEF Charged
    <3>2. PICK c \in Buy, k \in Nat, e \in Event :
            About(d, c, k) /\ log[c][k] = e /\ (delivery[d].pc = "record" => e.type \in Charged)
      BY <2>1, StageOf
    <3> QED BY <2>1, <2>3, <3>1, <3>2 DEF About
  <2>7. DeleteRow(d)
    BY <1>3, <1>7, <2>4, <2>5, <2>6
       DEF GoesFrom, PlanMissing, Retrieve, Upsert, Find, UpdateRow, Record
  <2> QED BY <1>4, <2>1, <2>7
<1>8. ~Begins(d) BY <1>3 DEF Begins
<1> QED BY <1>6, <1>7, <1>8, DeliveryGoes

\* A subscription that is settled was so before, or its last invoice has just been
\* written.
LEMMA SettledBack ==
    ASSUME IInv, PayInv, [Next]_vars, NEW u \in User, NEW b \in Buy,
           orderly[u], Names(u, b), stripe[b] # None, stripe[b].user = u, Settled(b)'
    PROVE  \/ Settled(b)
           \/ \E d \in Delivery, i \in Nat : UpdateRow(d) /\ About(d, b, i)
<1>1. Grows BY StepGrows
<1>2. Paying(b) BY DEF PayInv, Ordered
<1> SUFFICES ASSUME ~\E d \in Delivery, i \in Nat : UpdateRow(d) /\ About(d, b, i),
                    NEW i \in 1..Len(log[b]), log[b][i].type # "deleted"
             PROVE  \E d \in Delivery : About(d, b, i) /\ Written(d)
  BY DEF Settled
<1>3. PICK d \in Delivery : About(d, b, i)' /\ Written(d)'
  BY <1>1 DEF Settled, Grows
<1>4. CASE delivery'[d] = delivery[d] BY <1>3, <1>4 DEF About, Written
<1>5. CASE GoesFrom(d)
  <2>1. About(d, b, i) /\ DeliveryPending(d) /\ i \in Nat BY <1>3, <1>5 DEF GoesFrom, About
  <2>2. delivery[d].pc \notin {"retrieve", "upsert"} BY <1>2, <2>1 DEF Paying
  <2>3. delivery[d].pc # "delete"
    <3>1. PICK c \in Buy, k \in Nat, e \in Event :
            /\ About(d, c, k) /\ log[c][k] = e
            /\ delivery[d].pc = "delete" => e.type = "deleted"
      BY <2>1, StageOf
    <3> QED BY <2>1, <3>1 DEF About
  <2>4. ~UpdateRow(d) BY <2>1
  <2>5. ~(Find(d) /\ delivery'[d].pc =
              IF Names(stripe[delivery[d].buy].user, delivery[d].buy) THEN "update" ELSE "done")
    BY <1>3, <2>1 DEF About, Written
  <2>6. Record(d)
    BY <1>3, <1>5, <2>2, <2>3, <2>4, <2>5
       DEF GoesFrom, Written, PlanMissing, Retrieve, Upsert, DeleteRow
  <2>7. Written(d) BY <2>6 DEF Record, Written
  <2> QED BY <2>1, <2>7
<1>6. ~Begins(d) BY <1>3 DEF Begins, Written
<1> QED BY <1>4, <1>5, <1>6, DeliveryGoes

\* A change of plan that failed stays failed.
LEMMA FailedKept ==
    ASSUME IInv, [Next]_vars, NEW u \in User, Unfailed(u)'
    PROVE  Unfailed(u)
<1> SUFFICES ASSUME NEW h \in Change, change[h].user = u, change[h].pc = "failed"
             PROVE  FALSE
  BY DEF Unfailed
<1>1. change'[h] = change[h] BY ChangeGoes DEF ReadsRow, MovesOn, ChangePending
<1> QED BY <1>1 DEF Unfailed

\* A change of plan that was to be saved is saved, or still is to be.
LEMMA SavingKept ==
    ASSUME IInv, [Next]_vars, NEW u \in User, NEW h \in Change, Saving(h, u), Unfailed(u)'
    PROVE  ChangeSave(h) \/ (Saving(h, u)' /\ change'[h] = change[h])
<1>1. CASE change'[h] = change[h] BY <1>1 DEF Saving
<1>2. CASE MovesOn(h)
  <2>1. change[h].pc = "save" /\ change'[h].user = u BY <1>2 DEF MovesOn, Saving
  <2>2. change'[h].pc # "failed" BY <2>1 DEF Unfailed
  <2> QED BY <1>2, <2>1, <2>2 DEF MovesOn
<1>3. ~ReadsRow(h) BY DEF ReadsRow, Saving
<1> QED BY <1>1, <1>2, <1>3, ChangeGoes

LEMMA PlanKept ==
    ASSUME IInv, PayInv, [Next]_vars, NEW u \in User, NEW b \in Buy, Bound(u), SamePlan(u, b),
           ~Opened(u), orderly[u], Names(u, b), stripe[b] # None, stripe[b].user = u,
           Unfailed(u)'
    PROVE  SamePlan(u, b)'
<1> SUFFICES ASSUME \A h \in Change : ~Saving(h, u)'
             PROVE  sub'[u].plan = stripe'[b].plan
  BY DEF SamePlan
<1>1. CASE \E h \in Change : ChangeSave(h) /\ change[h].user = u
  <2>1. PICK h \in Change : ChangeSave(h) /\ change[h].user = u BY <1>1
  <2>2. change[h].pc = "save" /\ Alters(h, u) /\ UNCHANGED stripe
    BY <2>1 DEF ChangeSave, Alters, ChangePending
  <2>3. change[h].buy = b /\ change[h].plan = stripe[b].plan BY <2>2 DEF Bound, Names
  <2>4. sub'[u].plan = change[h].plan
    <3>1. PICK g \in Change : ChangeSave(g) /\ sub'[u].plan = change[g].plan
      BY <2>1, SaveWrites DEF Saved
    <3>2. g = h BY <2>1, <2>2, <3>1, Facts DEF IInv, ChangeSave, ChangeState
    <3> QED BY <3>1, <3>2
  <2> QED BY <2>2, <2>3, <2>4
<1>2. CASE ~\E h \in Change : ChangeSave(h) /\ change[h].user = u
  <2>1. \A h \in Change : ~Saving(h, u) BY <1>2, SavingKept DEF Saving
  <2>2. sub[u].plan = stripe[b].plan BY <2>1 DEF SamePlan
  <2>3. sub'[u].plan = sub[u].plan BY <1>2, RowGoes DEF Invoiced, Closed, Saved
  <2>4. ~Altered(b) BY AlteredBy DEF Alters, Saving
  <2>5. ~Bought(b) BY DEF Bought, StripePurchase
  <2>6. stripe'[b].plan = stripe[b].plan
    BY <2>4, <2>5, StripeGoes DEF Renewed, Removed
  <2> QED BY <2>2, <2>3, <2>6
<1> QED BY <1>1, <1>2

LEMMA EndKept ==
    ASSUME IInv, PayInv, [Next]_vars, NEW u \in User, NEW b \in Buy, Ends(b), Dated(b),
           Alone(u), Bound(u), SameEnd(u, b), ~Opened(u), orderly[u], Names(u, b),
           stripe[b] # None, stripe[b].user = u, Unfailed(u)',
           \A d \in Delivery : Invoicing(d)
    PROVE  SameEnd(u, b)'
<1> DEFINE Fits == (sub[u].end = stripe[b].end \/ Misread(b, sub[u].end))'
<1> SUFFICES ASSUME Settled(b)'
             PROVE  /\ (\A h \in Change : ~Saving(h, u)') => Fits
                    /\ \A h \in Change : Saving(h, u)' /\ change'[h].end # NoTime =>
                           change'[h].end = stripe'[b].end
  BY DEF SameEnd
<1>1. stripe'[b].end = stripe[b].end
  <2>1. ~Bought(b) BY DEF Bought, StripePurchase
  <2>2. ~Renewed(b) BY NewInvoice DEF Renewed
  <2>3. Altered(b) => stripe'[b].end = stripe[b].end BY NewInvoice DEF Altered
  <2> QED BY <2>1, <2>2, <2>3, StripeGoes DEF Removed
<1>2. ASSUME NEW d \in Delivery, NEW i \in Nat, UpdateRow(d), About(d, b, i)
      PROVE  /\ Fits
             /\ \A h \in Change : ~Saving(h, u)'
  <2>1. i \in 1..Len(log[b]) BY <1>2, Placed
  <2>2. PICK end : end = InvoiceEnd(log[b][i]) /\ sub'[u].end = end
    BY <1>2, <2>1, UpdateWrites
  <2>3. end = stripe[b].end \/ Misread(b, end) BY <1>2, <2>2, LastInvoice
  <2>6. UNCHANGED <<log, now>> BY <1>2 DEF UpdateRow
  <2>7. Misread(b, end) => Misread(b, end)' BY <2>6 DEF Misread
  <2>8. Fits BY <1>1, <2>2, <2>3, <2>7 DEF Misread
  <2>4. Handles(d, u) /\ UNCHANGED change
    BY <1>2 DEF UpdateRow, Handles, DeliveryPending, About
  <2>5. \A h \in Change : ~Saving(h, u)'
    BY <2>4 DEF Alone, Alters, ChangePending, Saving
  <2> QED BY <2>5, <2>8
<1>3. CASE ~\E d \in Delivery, i \in Nat : UpdateRow(d) /\ About(d, b, i)
  <2>1. Settled(b) BY <1>3, SettledBack
  <2>2. /\ (\A h \in Change : ~Saving(h, u)) =>
               sub[u].end = stripe[b].end \/ Misread(b, sub[u].end)
        /\ \A h \in Change :
              Saving(h, u) /\ change[h].end # NoTime => change[h].end = stripe[b].end
    BY <2>1 DEF SameEnd
  <2>3. ~Invoiced(u)
    <3> SUFFICES ASSUME Invoiced(u) PROVE FALSE OBVIOUS
    <3>1. PICK e \in Delivery, c \in Buy : \E j \in 1..Len(log[c]) :
              UpdateRow(e) /\ About(e, c, j) /\ stripe[c].user = u
      BY DEF Invoiced
    <3>2. PICK j \in 1..Len(log[c]) : About(e, c, j) BY <3>1
    <3>3. delivery[e].pc = "update" /\ Handles(e, u)
      BY <3>1 DEF UpdateRow, Handles, DeliveryPending, About
    <3>4. c = b BY <3>1, <3>3 DEF Bound, Names, About
    <3>5. j \in Nat BY <3>2
    <3> QED BY <1>3, <3>1, <3>2, <3>4, <3>5
  <2>4. ASSUME \A h \in Change : ~Saving(h, u)'
        PROVE  Fits
    <3>1. CASE \E h \in Change : ChangeSave(h) /\ change[h].user = u
      <4>1. PICK h \in Change : ChangeSave(h) /\ change[h].user = u BY <3>1
      <4>2. Saving(h, u) /\ change[h].end # NoTime BY <4>1 DEF ChangeSave, Saving
      <4>3. change[h].end = stripe[b].end BY <2>2, <4>2
      <4>4. PICK g \in Change : ChangeSave(g) /\ sub'[u].end = change[g].end
        BY <4>1, SaveWrites DEF Saved
      <4>5. g = h BY <4>1, <4>4, Facts DEF IInv, ChangeSave, ChangeState
      <4> QED BY <1>1, <4>3, <4>4, <4>5
    <3>2. CASE ~\E h \in Change : ChangeSave(h) /\ change[h].user = u
      <4>1. \A h \in Change : ~Saving(h, u) BY <2>4, <3>2, SavingKept DEF Saving
      <4>2. sub'[u].end = sub[u].end BY <2>3, <3>2, RowGoes DEF Closed, Saved
      <4>3. PICK end \in Nat : end = sub[u].end BY DEF Names, IInv, RowsOK, RowOK
      <4>4. Misread(b, end) => Misread(b, end)' BY MisreadKept
      <4>5. sub'[u].end = end BY <4>2, <4>3
      <4> QED BY <1>1, <2>2, <4>1, <4>3, <4>4, <4>5 DEF Misread
    <3> QED BY <3>1, <3>2
  <2>5. ASSUME NEW h \in Change, Saving(h, u)', change'[h].end # NoTime
        PROVE  change'[h].end = stripe'[b].end
    <3>1. CASE change'[h] = change[h] BY <1>1, <2>2, <2>5, <3>1 DEF Saving
    <3>2. ~ReadsRow(h) BY <2>5 DEF ReadsRow, Saving
    <3>3. CASE MovesOn(h)
      <4>1. /\ Alters(h, u)
            /\ change'[h].end = stripe'[change[h].buy].end
        BY <2>5, <3>3 DEF MovesOn, Saving, Alters, Reported
      <4>2. change[h].buy = b BY <4>1 DEF Bound, Names
      <4> QED BY <4>1, <4>2
    <3> QED BY <3>1, <3>2, <3>3, ChangeGoes
  <2> QED BY <2>4, <2>5
<1> QED BY <1>2, <1>3

LEMMA AgreesKept ==
    ASSUME IInv, PayInv, AgreeInv, [Next]_vars, NEW u \in User, NEW b \in Buy
    PROVE  Agrees(u, b)'
<1> SUFFICES ASSUME orderly'[u], Names(u, b)' PROVE Agrees(u, b)'
  BY DEF Agrees
<1>1. orderly[u] BY OrderGoes
<1>2. Ends(b) /\ Dated(b) /\ Fresh(b) /\ Alone(u) /\ Bound(u) /\ Agrees(u, b)
      /\ \A d \in Delivery : Invoicing(d)
  BY DEF AgreeInv
<1>3. CASE Opened(u) BY <1>2, <1>3, AgreesOpened
<1>4. CASE ~Opened(u)
  <2>1. Names(u, b) BY <1>4, NamesKept
  <2>2. stripe[b] # None /\ stripe[b].user = u BY <2>1 DEF IInv, RowsOK, RowOK, Names
  <2>3. Gone(b)' => sub'[u].status # "active" BY <1>1, <1>2, <1>4, <2>1, <2>2, GoneKept
  <2>4. ASSUME Unfailed(u)' PROVE SamePlan(u, b)' /\ SameEnd(u, b)'
    <3>1. SamePlan(u, b) /\ SameEnd(u, b) BY <1>1, <1>2, <2>1, <2>4, FailedKept DEF Agrees
    <3> QED BY <1>1, <1>2, <1>4, <2>1, <2>2, <2>4, <3>1, PlanKept, EndKept
  <2> QED BY <2>3, <2>4 DEF Agrees
<1> QED BY <1>3, <1>4

------------------------------------------------------------------------------

LEMMA AgreeInductive == ASSUME IInv, PayInv, AgreeInv, [Next]_vars PROVE AgreeInv'
<1>1. ASSUME NEW d \in Delivery PROVE Invoicing(d)' BY InvoicingKept DEF AgreeInv
<1>2. ASSUME NEW b \in Buy PROVE Ends(b)' /\ Dated(b)' /\ Fresh(b)'
  BY EndsKept, DatedKept, FreshKept DEF AgreeInv
<1>3. ASSUME NEW u \in User PROVE Alone(u)' /\ Bound(u)'
  BY AloneKept, BoundKept DEF AgreeInv
<1>4. ASSUME NEW u \in User, NEW b \in Buy PROVE Agrees(u, b)' BY AgreesKept
<1> QED BY <1>1, <1>2, <1>3, <1>4 DEF AgreeInv

LEMMA AgreeInit == ASSUME Init PROVE AgreeInv
  BY DEF Init, AgreeInv, Invoicing, Ends, Dated, Fresh, Alone, Bound, Handles, Alters, DeliveryPending,
         ChangePending, Agrees, Names

\* With no request under way and every event delivered, nothing is to be saved,
\* the invoices are settled and the deletion has arrived.
LEMMA Agreement ==
    ASSUME IInv, AgreeInv, NEW u \in User, sub[u] # None, orderly[u], ~Busy(u), Unfailed(u),
           \A i \in 1..Len(log[sub[u].stripeSub]) : Delivered(sub[u].stripeSub, i)
    PROVE  LET b == sub[u].stripeSub
           IN  /\ sub[u].plan = stripe[b].plan
               /\ sub[u].end = stripe[b].end \/ Misread(b, sub[u].end)
               /\ sub[u].status = "active" => stripe[b].live
<1>1. PICK b \in Buy : sub[u].stripeSub = b /\ stripe[b] # None /\ stripe[b].user = u
  BY DEF IInv, RowsOK, RowOK
<1>2. Names(u, b) BY <1>1 DEF Names
<1>3. SamePlan(u, b) /\ SameEnd(u, b) /\ (Gone(b) => sub[u].status # "active")
  BY <1>2 DEF AgreeInv, Agrees
<1>4. \A h \in Change : ~Saving(h, u) BY DEF Busy, Saving, ChangePending
<1>5. \A i \in 1..Len(log[b]) : \E d \in Delivery : About(d, b, i) /\ delivery[d].pc = "done"
  BY <1>1 DEF Delivered, About
<1>6. Settled(b) BY <1>5 DEF Settled, Written
<1>7. ~stripe[b].live => Gone(b)
  <2>1. PICK n \in Nat :
          Len(log[b]) = n /\ n > 1 /\ (~stripe[b].live => log[b][n].type = "deleted")
    BY <1>1 DEF AgreeInv, Ends
  <2>2. n \in 1..Len(log[b]) BY <2>1
  <2> QED BY <1>5, <2>1, <2>2 DEF Gone
<1> QED BY <1>1, <1>3, <1>4, <1>6, <1>7 DEF SamePlan, SameEnd

\* A row agrees with the Stripe subscription it names (plan, end of the period
\* unless the last invoice spoke of another one, and not active when Stripe has
\* ended it) once everything was delivered: the webhook (stripe.controller.ts),
\* cancelling, changing the plan and the cron leave no other row, as long as events
\* come once and in order, requests run one at a time and no change of plan has
\* failed half way.
THEOREM RowsAgree == Spec => []OrderlyAccountsAgree
<1>1. Init => IInv /\ PayInv /\ AgreeInv BY InitHolds, PayInit, AgreeInit
<1>2. (IInv /\ PayInv /\ AgreeInv) /\ [Next]_vars => (IInv /\ PayInv /\ AgreeInv)'
  BY Inductive, PayInductive, AgreeInductive
<1>3. IInv /\ AgreeInv => OrderlyAccountsAgree
  BY Agreement DEF OrderlyAccountsAgree, Unfailed
<1> QED BY <1>1, <1>2, <1>3, PTL DEF Spec

==============================================================================
