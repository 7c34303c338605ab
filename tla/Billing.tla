------------------------------- MODULE Billing -------------------------------
(***************************************************************************)
(* The subscription row of an account next to the subscription Stripe      *)
(* keeps: the webhook handler (stripe.controller.ts), cancelling and       *)
(* changing the plan (subscriptions.service.ts) and the hourly expiry      *)
(* (subscription-cron.service.ts).                                         *)
(*                                                                         *)
(* Stripe emits the events of a subscription in order and delivers each of *)
(* them any number of times, late or never, so that deliveries overlap.  A *)
(* delivery is one action per section between two awaits, and may stop at  *)
(* any of them: the handler catches the error and answers received: false, *)
(* with a status that Stripe takes for an acknowledgement.                 *)
(***************************************************************************)
EXTENDS Integers, Sequences, FiniteSets

CONSTANTS
    User, Plan,
    Removable, \* the plans an admin may remove
    Buy,       \* paid checkout sessions; each has a Stripe subscription
    Change,    \* changeSubscriptionPlan requests
    Delivery,  \* webhook requests
    None,
    Trial,     \* trial_period_days, the first period
    Period,    \* what a renewal adds
    Fallback,  \* 30 days, when Stripe reports no period end
    Reports,   \* whether Stripe's answers carry current_period_end
    Undated,   \* whether an invoice may have no period in its first line
    MaxTime,   \* the clock stops here
    MaxEvents  \* Stripe emits at most so many events of a subscription

ASSUME NumberAssumption ==
    /\ Trial \in Nat /\ Period \in Nat /\ Fallback \in Nat /\ MaxTime \in Nat /\ MaxEvents \in Nat
ASSUME RemovableAssumption == Removable \subseteq Plan
ASSUME ReportsAssumption == Reports \in BOOLEAN /\ Undated \in BOOLEAN
ASSUME NoneAssumption == None \notin User \cup Plan \cup Buy

VARIABLES
    now,
    catalog,   \* the plans that have a row
    sub,       \* the row of the subscriptions table, by user_id (unique)
    stripe,    \* Stripe's subscriptions
    log,       \* the events Stripe emitted, by subscription
    delivery, change,  \* the requests
    orderly    \* history, see Begin

vars == <<now, catalog, sub, stripe, log, delivery, change, orderly>>

NoTime == -1

Status == {"active", "canceled", "expired"}
Row == [stripeSub : Buy, plan : Plan, status : Status, end : Nat]
StripeSub == [user : User, plan : Plan, live : BOOLEAN, end : Nat]

\* No row and no subscription is a missing one.
ASSUME NoneIsNoRecord == None \notin Row \cup StripeSub

\* checkout.session.completed; invoice.payment_succeeded for the subscription's
\* creation, a change of plan and a renewal (billing_reason);
\* customer.subscription.deleted.  "end" is where the period of the subscription
\* ended when the event was emitted, "line" what the handler reads of an invoice:
\* lines.data[0].period.end, if there is one (in the other events, "end" again).
Event == [type : {"completed", "created", "changed", "renewed", "deleted"},
          plan : Plan, end : Nat, line : Nat \cup {NoTime}]

\* "recorded": the delivery created a row of payment_transactions.
DeliveryState ==
    [pc : {"idle", "retrieve", "upsert", "record", "find", "update", "delete",
           "done", "failed"},
     buy : Buy \cup {None}, index : Nat, end : Nat \cup {NoTime}, recorded : BOOLEAN]
ChangeState ==
    [pc : {"idle", "stripe", "save", "done", "failed"},
     user : User \cup {None}, plan : Plan \cup {None}, buy : Buy \cup {None},
     end : Nat \cup {NoTime}]

\* Every variable holds a value of its kind.
TypeOK ==
    /\ now \in 0..MaxTime
    /\ catalog \subseteq Plan
    /\ sub \in [User -> Row \cup {None}]
    /\ stripe \in [Buy -> StripeSub \cup {None}]
    /\ log \in [Buy -> Seq(Event)]
    /\ delivery \in [Delivery -> DeliveryState]
    /\ change \in [Change -> ChangeState]
    /\ orderly \in [User -> BOOLEAN]

Init ==
    /\ now = 0
    /\ catalog = Plan
    /\ sub = [u \in User |-> None]
    /\ stripe = [b \in Buy |-> None]
    /\ log = [b \in Buy |-> <<>>]
    /\ delivery = [d \in Delivery |-> [pc |-> "idle", buy |-> None, index |-> 0,
                                       end |-> NoTime, recorded |-> FALSE]]
    /\ change = [h \in Change |-> [pc |-> "idle", user |-> None, plan |-> None,
                                   buy |-> None, end |-> NoTime]]
    /\ orderly = [u \in User |-> TRUE]

------------------------------------------------------------------------------
(* Stripe *)

Emit(b, type, plan, end, line) ==
    log' = [log EXCEPT ![b] =
        Append(@, [type |-> type, plan |-> plan, end |-> end, line |-> line])]

\* What the first line of an invoice may say of a period that ends there.
Lines(ends) == ends \cup (IF Undated THEN {NoTime} ELSE {})

\* buySubscription made a session for the plan, and the customer paid it.
StripePurchase(b, u, p) ==
    /\ stripe[b] = None
    /\ p \in catalog
    /\ MaxEvents >= 2
    /\ stripe' = [stripe EXCEPT ![b] =
           [user |-> u, plan |-> p, live |-> TRUE, end |-> now + Trial]]
    /\ \E line \in Lines({now + Trial}) : log' = [log EXCEPT ![b] =
           << [type |-> "completed", plan |-> p, end |-> now + Trial, line |-> now + Trial],
              [type |-> "created", plan |-> p, end |-> now + Trial, line |-> line] >>]
    /\ UNCHANGED <<now, catalog, sub, delivery, change, orderly>>

\* A period has ended and its renewal is paid.
StripeRenew(b) ==
    /\ stripe[b] # None
    /\ stripe[b].live /\ now >= stripe[b].end
    /\ Len(log[b]) < MaxEvents
    /\ stripe' = [stripe EXCEPT ![b].end = @ + Period]
    /\ \E line \in Lines({stripe[b].end + Period}) :
         Emit(b, "renewed", stripe[b].plan, stripe[b].end + Period, line)
    /\ UNCHANGED <<now, catalog, sub, delivery, change, orderly>>

\* The subscription ends at Stripe (dashboard, unpaid invoices).
StripeDelete(b) ==
    /\ stripe[b] # None
    /\ stripe[b].live
    /\ Len(log[b]) < MaxEvents
    /\ stripe' = [stripe EXCEPT ![b].live = FALSE]
    /\ Emit(b, "deleted", stripe[b].plan, stripe[b].end, stripe[b].end)
    /\ UNCHANGED <<now, catalog, sub, delivery, change, orderly>>

\* What subscriptions.retrieve or .update says of the period, if anything.
Reported(end) == IF Reports THEN end ELSE NoTime

------------------------------------------------------------------------------
(* Requests that overlap *)

DeliveryPending(d) == delivery[d].pc \notin {"idle", "done", "failed"}
ChangePending(h) == change[h].pc \notin {"idle", "done", "failed"}

\* The requests of an account that are under way.
Busy(u) ==
    \/ \E d \in Delivery : DeliveryPending(d) /\ stripe[delivery[d].buy].user = u
    \/ \E h \in Change : ChangePending(h) /\ change[h].user = u

\* Every event of b before the i-th was delivered once, the i-th not yet.
NextInOrder(b, i) ==
    \A j \in 1..i :
        LET ds == {d \in Delivery : delivery[d].buy = b /\ delivery[d].index = j}
        IN  IF j = i THEN ds = {}
            ELSE \E d \in ds : ds = {d} /\ delivery[d].pc = "done"

\* An account is orderly as long as its requests run one at a time and its
\* events arrive once and in order.  No guard reads this.
Begin(u, inOrder) ==
    orderly' = [orderly EXCEPT ![u] = @ /\ ~Busy(u) /\ inOrder]

------------------------------------------------------------------------------
(* handleWebhook *)

First == [completed |-> "retrieve", created |-> "find", changed |-> "find",
          renewed |-> "find", deleted |-> "delete"]

\* The signature is good: the switch on event.type.
Receive(d, b, i) ==
    /\ delivery[d].pc = "idle"
    /\ i \in 1..Len(log[b])
    /\ delivery' = [delivery EXCEPT ![d] =
           [@ EXCEPT !.pc = First[log[b][i].type], !.buy = b, !.index = i]]
    /\ Begin(stripe[b].user, NextInOrder(b, i))
    /\ UNCHANGED <<now, catalog, sub, stripe, log, change>>

\* The plan of checkout.session.completed was removed: the event is
\* acknowledged and nothing is written.
PlanMissing(d) ==
    LET b == delivery[d].buy
    IN  /\ delivery[d].pc = "retrieve"
        /\ log[b][delivery[d].index].plan \notin catalog
        /\ delivery' = [delivery EXCEPT ![d].pc = "done"]
        /\ UNCHANGED <<now, catalog, sub, stripe, log, change, orderly>>

\* Variant: the fallback in place of what Stripe reports.
RetrieveFallback(d) ==
    /\ delivery[d].pc = "retrieve"
    /\ delivery' = [delivery EXCEPT ![d] =
           [@ EXCEPT !.pc = "upsert", !.end = now + Fallback]]
    /\ UNCHANGED <<now, catalog, sub, stripe, log, change, orderly>>

\* checkout.session.completed: getSubscription, or thirty days from now.
Retrieve(d) ==
    LET b == delivery[d].buy
        end == Reported(stripe[b].end)
    IN  /\ delivery[d].pc = "retrieve"
        /\ log[b][delivery[d].index].plan \in catalog
        /\ delivery' = [delivery EXCEPT ![d] =
               [@ EXCEPT !.pc = "upsert",
                         !.end = IF end = NoTime THEN now + Fallback ELSE end]]
        /\ UNCHANGED <<now, catalog, sub, stripe, log, change, orderly>>

\* subscription.upsert by user_id; plan and user come from the metadata of the
\* session.  The plan is a foreign key.
Upsert(d) ==
    LET b == delivery[d].buy
        u == stripe[b].user
        p == log[b][delivery[d].index].plan
    IN  /\ delivery[d].pc = "upsert"
        /\ p \in catalog
        /\ sub' = [sub EXCEPT ![u] =
               [stripeSub |-> b, plan |-> p,
                status |-> "active", end |-> delivery[d].end]]
        /\ delivery' = [delivery EXCEPT ![d].pc = "record"]
        /\ UNCHANGED <<now, catalog, stripe, log, change, orderly>>

\* invoice.payment_succeeded: findFirst by stripe_subscription_id.
Find(d) ==
    LET b == delivery[d].buy
        u == stripe[b].user
    IN  /\ delivery[d].pc = "find"
        /\ delivery' = [delivery EXCEPT ![d].pc =
               IF sub[u] # None /\ sub[u].stripeSub = b THEN "update" ELSE "done"]
        /\ UNCHANGED <<now, catalog, sub, stripe, log, change, orderly>>

\* Variant: no date in place of the period end of the invoice.
UpdateRowUndated(d) ==
    LET b == delivery[d].buy
        event == log[b][delivery[d].index]
    IN  /\ delivery[d].pc = "update"
        /\ sub' = [sub EXCEPT ![stripe[b].user] =
               [@ EXCEPT !.status = "active", !.end = NoTime]]
        /\ delivery' = [delivery EXCEPT ![d].pc =
               IF event.type = "renewed" THEN "record" ELSE "done"]
        /\ UNCHANGED <<now, catalog, stripe, log, change, orderly>>

\* Variant: thirty days from now, as in the checkout.
InvoiceEndFallback(event) == IF event.line = NoTime THEN now + Fallback ELSE event.line

\* The period end of the first line, or new Date().
InvoiceEnd(event) == IF event.line = NoTime THEN now ELSE event.line

\* Variant: every invoice leaves a transaction.
UpdateRowRecording(d) ==
    LET b == delivery[d].buy
        event == log[b][delivery[d].index]
    IN  /\ delivery[d].pc = "update"
        /\ sub' = [sub EXCEPT ![stripe[b].user] =
               [@ EXCEPT !.status = "active", !.end = InvoiceEnd(event)]]
        /\ delivery' = [delivery EXCEPT ![d].pc = "record"]
        /\ UNCHANGED <<now, catalog, stripe, log, change, orderly>>

\* subscription.update of the row that was found, by its own id.  Only a renewal
\* leaves a transaction.
UpdateRow(d) ==
    LET b == delivery[d].buy
        event == log[b][delivery[d].index]
    IN  /\ delivery[d].pc = "update"
        /\ sub' = [sub EXCEPT ![stripe[b].user] =
               [@ EXCEPT !.status = "active", !.end = InvoiceEnd(event)]]
        /\ delivery' = [delivery EXCEPT ![d].pc =
               IF event.type = "renewed" THEN "record" ELSE "done"]
        /\ UNCHANGED <<now, catalog, stripe, log, change, orderly>>

\* paymentTransaction.create.
Record(d) ==
    /\ delivery[d].pc = "record"
    /\ delivery' = [delivery EXCEPT ![d] = [@ EXCEPT !.pc = "done", !.recorded = TRUE]]
    /\ UNCHANGED <<now, catalog, sub, stripe, log, change, orderly>>

\* customer.subscription.deleted: updateMany by stripe_subscription_id.
DeleteRow(d) ==
    LET b == delivery[d].buy
        u == stripe[b].user
    IN  /\ delivery[d].pc = "delete"
        /\ sub' = IF sub[u] # None /\ sub[u].stripeSub = b
                  THEN [sub EXCEPT ![u].status = "canceled"] ELSE sub
        /\ delivery' = [delivery EXCEPT ![d].pc = "done"]
        /\ UNCHANGED <<now, catalog, stripe, log, change, orderly>>

\* An await throws, or the process stops: received: false, or no answer.
DeliveryFails(d) ==
    /\ DeliveryPending(d)
    /\ delivery' = [delivery EXCEPT ![d].pc = "failed"]
    /\ UNCHANGED <<now, catalog, sub, stripe, log, change, orderly>>

------------------------------------------------------------------------------
(* subscriptions.service.ts and subscription-cron.service.ts *)

\* cancelSubscription writes the row alone; Stripe is not told.
Cancel(u) ==
    /\ sub[u] # None
    /\ sub' = [sub EXCEPT ![u].status = "canceled"]
    /\ UNCHANGED <<now, catalog, stripe, log, delivery, change, orderly>>

\* changeSubscriptionPlan: the row and the new plan are read.
ChangeRead(h, u, p) ==
    /\ change[h].pc = "idle"
    /\ sub[u] # None /\ p \in catalog
    /\ change' = [change EXCEPT ![h] =
           [@ EXCEPT !.pc = "stripe", !.user = u, !.plan = p, !.buy = sub[u].stripeSub]]
    /\ Begin(u, TRUE)
    /\ UNCHANGED <<now, catalog, sub, stripe, log, delivery>>

\* Stripe refuses to change a subscription that has ended.  Otherwise it changes
\* the plan and invoices the difference (always_invoice), if there is any; a
\* plan with another interval starts a new period.  The first line of that invoice
\* may be the proration of the old price, which ends with the old period.
ChangeStripe(h) ==
    LET b == change[h].buy
        p == change[h].plan
    IN  /\ change[h].pc = "stripe"
        /\ \/ \E end \in {stripe[b].end, now + Period} :
                /\ stripe[b].live
                /\ stripe' = [stripe EXCEPT ![b].plan = p, ![b].end = end]
                /\ change' = [change EXCEPT ![h] =
                       [@ EXCEPT !.pc = "save", !.end = Reported(end)]]
                /\ \/ end = stripe[b].end /\ UNCHANGED log
                   \/ /\ Len(log[b]) < MaxEvents
                      /\ \E line \in Lines({stripe[b].end, end}) :
                           Emit(b, "changed", p, end, line)
           \/ /\ ~stripe[b].live
              /\ change' = [change EXCEPT ![h].pc = "failed"]
              /\ UNCHANGED <<stripe, log>>
        /\ UNCHANGED <<now, catalog, sub, delivery, orderly>>

\* Variant: the period end is written, the plan forgotten.
ChangeSaveEnd(h) ==
    /\ change[h].pc = "save"
    /\ change[h].end # NoTime
    /\ sub' = [sub EXCEPT ![change[h].user].end = change[h].end]
    /\ change' = [change EXCEPT ![h].pc = "done"]
    /\ UNCHANGED <<now, catalog, stripe, log, delivery, orderly>>

\* subscription.update by id.  Without a period end the date is invalid and
\* Prisma rejects the whole update: see ChangeFails.
ChangeSave(h) ==
    /\ change[h].pc = "save"
    /\ change[h].end # NoTime /\ change[h].plan \in catalog
    /\ sub' = [sub EXCEPT ![change[h].user] =
           [@ EXCEPT !.plan = change[h].plan, !.end = change[h].end]]
    /\ change' = [change EXCEPT ![h].pc = "done"]
    /\ UNCHANGED <<now, catalog, stripe, log, delivery, orderly>>

\* The catch block: nothing is undone at Stripe.
ChangeFails(h) ==
    /\ ChangePending(h)
    /\ change' = [change EXCEPT ![h].pc = "failed"]
    /\ UNCHANGED <<now, catalog, sub, stripe, log, delivery, orderly>>

\* removePlan; the foreign key keeps a plan that rows name.
RemovePlan(p) ==
    /\ p \in catalog
    /\ \A u \in User : sub[u] # None => sub[u].plan # p
    /\ catalog' = catalog \ {p}
    /\ UNCHANGED <<now, sub, stripe, log, delivery, change, orderly>>

PastDue(u) == sub[u] # None /\ sub[u].status = "active" /\ sub[u].end < now

\* Variant: gt in place of lt.
ExpireEarly ==
    /\ \E u \in User : sub[u] # None /\ sub[u].status = "active" /\ sub[u].end > now
    /\ sub' = [u \in User |->
           IF sub[u] # None /\ sub[u].status = "active" /\ sub[u].end > now
           THEN [sub[u] EXCEPT !.status = "expired"] ELSE sub[u]]
    /\ UNCHANGED <<now, catalog, stripe, log, delivery, change, orderly>>

\* handleSubscriptionExpiration, when there is something to expire.
Expire ==
    /\ \E u \in User : PastDue(u)
    /\ sub' = [u \in User |->
           IF PastDue(u) THEN [sub[u] EXCEPT !.status = "expired"] ELSE sub[u]]
    /\ UNCHANGED <<now, catalog, stripe, log, delivery, change, orderly>>

Tick ==
    /\ now < MaxTime
    /\ now' = now + 1
    /\ UNCHANGED <<catalog, sub, stripe, log, delivery, change, orderly>>

StripeNext(b) ==
    \/ \E u \in User, p \in Plan : StripePurchase(b, u, p)
    \/ StripeRenew(b) \/ StripeDelete(b)

DeliveryNext(d) ==
    \/ \E b \in Buy, i \in 1..MaxEvents : Receive(d, b, i)
    \/ PlanMissing(d) \/ Retrieve(d) \/ Upsert(d) \/ Find(d) \/ UpdateRow(d) \/ Record(d)
    \/ DeleteRow(d) \/ DeliveryFails(d)

ChangeNext(h) ==
    \/ \E u \in User, p \in Plan : ChangeRead(h, u, p)
    \/ ChangeStripe(h) \/ ChangeSave(h) \/ ChangeFails(h)

Next ==
    \/ \E b \in Buy : StripeNext(b)
    \/ \E d \in Delivery : DeliveryNext(d)
    \/ \E u \in User : Cancel(u)
    \/ \E h \in Change : ChangeNext(h)
    \/ \E p \in Removable : RemovePlan(p)
    \/ Expire
    \/ Tick

Spec == Init /\ [][Next]_vars

\* The cron runs every hour for ever.
FairSpec == Spec /\ WF_vars(Expire)

------------------------------------------------------------------------------
(* Properties *)

\* An account is active no longer than Stripe granted it: whatever is delivered
\* late, twice or out of order, and whatever subscription an update hits, the end
\* of a row is the end of a period of a subscription of that account; or it has
\* passed, when an invoice of that subscription came without one; or it is thirty
\* days after a delivery of the checkout was handled, when Stripe reports no end.
EndIsPaid ==
    \A u \in User :
        sub[u] # None =>
            \E b \in Buy :
                /\ stripe[b] # None /\ stripe[b].user = u
                /\ \/ \E i \in 1..Len(log[b]) :
                       \/ sub[u].end = log[b][i].end
                       \/ log[b][i].line = NoTime /\ sub[u].end <= now
                   \/ /\ ~Reports /\ sub[u].end <= now + Fallback
                      /\ \E d \in Delivery : /\ delivery[d].buy = b /\ delivery[d].index = 1
                                            /\ delivery[d].end = sub[u].end

Delivered(b, i) ==
    \E d \in Delivery : delivery[d].buy = b /\ delivery[d].index = i
                        /\ delivery[d].pc = "done"

\* The invoices among the events of a subscription.
IsInvoice(event) == event.type \in {"created", "changed", "renewed"}

\* The last invoice of b spoke of another period than the subscription's, and
\* "end" is what the handler makes of it: a change of plan to another interval
\* starts its invoice with the proration of the old price, and a line without a
\* period stands for the moment it was handled.
Misread(b, end) ==
    \E i \in 1..Len(log[b]) :
        /\ IsInvoice(log[b][i])
        /\ \A j \in i + 1..Len(log[b]) : ~IsInvoice(log[b][j])
        /\ \/ log[b][i].type = "changed" /\ end = log[b][i].line
           \/ log[b][i].line = NoTime /\ end <= now

\* A row agrees with the Stripe subscription it names once everything was
\* delivered, once and in order, and no request overlapped another or failed:
\* same plan, same end of period unless its last invoice spoke of another one, and
\* not active when Stripe has ended it.  The next renewal mends a misread end.
OrderlyAccountsAgree ==
    \A u \in User :
        LET b == sub[u].stripeSub
        IN  /\ sub[u] # None
            /\ orderly[u] /\ ~Busy(u)
            /\ \A i \in 1..Len(log[b]) : Delivered(b, i)
            /\ \A h \in Change : change[h].user = u => change[h].pc # "failed"
            => /\ sub[u].plan = stripe[b].plan
               /\ sub[u].end = stripe[b].end \/ Misread(b, sub[u].end)
               /\ sub[u].status = "active" => stripe[b].live

\* The checkout and the renewals of a subscription whose events were delivered.
\* Stripe reports the checkout twice, as a session and as an invoice.
Charges(b) ==
    {i \in 1..Len(log[b]) : log[b][i].type \in {"completed", "renewed"} /\ Delivered(b, i)}

\* Of every account: the checkout of the subscription its row names is a row of
\* payment_transactions, or a delivery of it is about to write that row or stopped
\* before it did.  Of an orderly account: the checkout and each renewal delivered is
\* exactly one row.  (What Stripe collects for a change of plan is not recorded at
\* all.)
PaymentsRecordedOnce ==
    \A u \in User :
        LET b == sub[u].stripeSub
        IN  sub[u] # None =>
              /\ \E d \in Delivery :
                   /\ delivery[d].buy = b /\ delivery[d].index = 1
                   /\ delivery[d].recorded \/ delivery[d].pc \in {"record", "failed"}
              /\ orderly[u] /\ ~Busy(u) =>
                   Cardinality({d \in Delivery : delivery[d].buy = b /\ delivery[d].recorded})
                       = Cardinality(Charges(b))

\* An account does not stay active past its end: the cron expires it, or a
\* renewal moves the end.
PastDueIsCleared == \A u \in User : PastDue(u) ~> ~PastDue(u)

==============================================================================
