# Formal model of the backend

TLA+ modules, TLC configurations and TLAPS proofs kept beside this NestJS
backend (Prisma over Postgres, Redis, BullMQ, socket.io, Stripe, Twilio Verify,
files on a local disk or a bucket).  Paths below are relative to the repository
(`src/modules/...` is the code, `docs/...` the documents, `prisma/schema.prisma`
the tables).

Almost all the concurrency of this program is of one kind: an HTTP handler is a
sequence of sections between `await`s, requests interleave at every `await`, and
what a handler read before one may be stale after it.  There are no database
transactions around the handlers modelled here; what protects them is a unique
column, a conditional `UPDATE`, a Lua script, `SET NX` or `GETDEL`.  A request may
also stop at any `await`: the process restarts, or the store it talks to is away.

## Inventory

| Component | State | Operations | What is hard | What makes it correct | Module |
|---|---|---|---|---|---|
| Password reset by mail (`auth.service.ts`, `email-reset-otp.ts`) | challenge, cooldown and token keys in Redis; the password column; the BullMQ queue | forgot-password, verify-otp, reset-password | two requests for one address, a cleanup that comes late, keys that expire between steps, an address that moves to another account, one token used twice at once | a code is compared at most five times, in its ten minutes, for one password; a token is for who holds the mailbox; mails are spaced | `PasswordReset` |
| Refresh tokens and the reset by SMS | `refresh_token:<user>` in Redis; Twilio's verification | login, refresh, logout, reset by a texted code, next to change-password and the administrator's update | a login that overlaps a reset; a password replaced by a request that leaves the token; tokens that are equal because they were signed in the same second; a token without `jti` | a stored token that a reset should have ended is of a later login; one text serves one account | `PasswordReset`, `Sessions` |
| Phone verification | `phone_number`, `phone_verified_at`, `phone_otp_last_sent_at`; the code is Twilio's | register, resend-phone-otp, verify-phone, profile update | SELECT then UPDATE, SMS that fail after the slot is taken, a number replaced while Twilio is asked | claims of the resend slot are a cooldown apart; no refusal without cause; a verified number was approved | `PhoneVerification` |
| Addresses, marks, passwords of accounts | `email`, `email_verified_at`, `password`; `ucodes` | register, verify-email, resend, change-password, profile update, the administrator's create, update and delete, the administrator seed | a code outlives the address it was for; rows are looked up by address and written later by id, or looked up by id and written by address; two ways to spell a mailbox | a verified address was proved; a write goes to the row that was meant | `Accounts` |
| Profile image | avatar column, avatar folder | profile update | two updates delete what each read as the old file; a write that was committed and not acknowledged | a row never names a missing file; no orphan without cause | `ProfileAvatar` |
| Billing | `subscriptions`, `plans`, `payment_transactions`; Stripe's subscription | webhooks, cancel, change plan, hourly expiry | deliveries late, twice, out of order, overlapping each other and a change of plan; an invoice whose first line is about another period; failures acknowledged as received | the end of a row is one Stripe granted; orderly deliveries make both agree and record each checkout and renewal once; elsewhere a checkout without payment is one whose delivery is under way or failed; nothing stays active past its end | `Billing` |
| Plan catalog and customers | `plans`, `billing_id`, `approval_status`; Stripe's products, prices and customers | create, update and remove a plan; register, approve, reject, buy | two systems written in turn without undo; create-if-missing without a key | a row's price is one that can be bought, at the row's terms; a customer has an account | `PlanCatalog` |
| Chat presence and calls | socket map, call map, `availability` | connect, disconnect, join and leave a call, relays | reconnect before the old socket is gone, restart, failing queries | presence follows the last live socket | `Presence` |
| Conversations | `conversations`, `messages` | open, send, mark, read, remove | find-or-create; a message stored before its conversation is touched; people and conversations removed in between | one conversation per pair; an answer tells what happened | `Conversations` |
| Income, bills, goals | `incomes`, `financial_commitments`, `savings_goals` | set-up create, replace and remove, per-row edits, pay plan | replace-all at Read Committed; a second connection inside a transaction; rounding | rows are replaced, not mixed; the pay plan adds up | `SetUp` |
| FAQ and website info | `faqs`, `website_info` | the batch, single edits, publish, their readers | a batch row by row without transaction; find-or-create | a batch leaves what it lists; readers see what was answered | `Content` |
| Notifications, contact, dashboards, guards, storage adapters, mail worker, seeds | their tables, or a remote system's | | see "Not modelled" | | |

Components meet in the `users` row (reset, phone, address, image, billing and admin
all write it, with no version), in Redis (login, refresh, logout and reset share
`refresh_token`; change-password and the administrator's update replace the password
and leave it), in the plan catalog (`PlanCatalog` sells what
`Billing` is told of) and through Stripe's webhooks.

## Modules

| Module | What it is |
|---|---|
| `OneTimeCode` | abstract: the life of a mailed code (issued, claimed once, spent once, or void) |
| `PasswordReset`, `PasswordResetProofs` | the flow that implements it, with logins, phone resets, the other writers of the password, address changes, removals |
| `PhoneVerification`, `PhoneVerificationProofs` | the number of an account and its resend slot |
| `Accounts` | the address of an account, its mark, its password, the administrator's number and the mailed verification codes |
| `Sessions` | the refresh token of an account and the reset by SMS that ends it |
| `AccountsProofs` | the theorems of `Accounts` and `Sessions` |
| `ProfileAvatar`, `ProfileAvatarProofs` | the file, the row and the two cleanups of an image update |
| `Billing`, `BillingProofs` | an account's subscription row next to Stripe's subscription |
| `PlanCatalog` | plans and customers, here and at Stripe, and the purchases between them |
| `Presence`, `PresenceProofs` | which socket a user is reached at, and who is shown online |
| `Conversations` | conversations, messages and their statuses |
| `SetUp` | a set-up's rows under Postgres transactions and a pool of connections, and the pay plan |
| `Content` | the questions and answers, and the website's one row |
| `MCPasswordReset`, `MCPhoneVerification`, `MCProfileAvatar`, `MCBilling`, `MCPresence` | TLC instances of one module each |
| `MCStorefront`, `MCWorkspace` | TLC instances of three modules each: `PlanCatalog`, `Accounts`, `Sessions`; `Conversations`, `SetUp`, `Content` |
| `StorefrontProofs` | the theorems of `PlanCatalog` and of the three modules of `MCStorefront` together |
| `WorkspaceProofs` | the theorems of `Conversations`, `SetUp` and `Content`, apart and together |

Conventions.  A request is a member of a set of ids (`Forgot`, `Resend`,
`Delivery`, ...), each used once; its `pc` names the section it will run next and
its other fields are the handler's locals that live across an `await`.  One action
is one section: everything from one `await` to the next, early returns included.  A
request that dies at an `await` is one whose next action never happens: there is no
fairness on requests, so every prefix of every handler is explored.  Fields said to
be history are read by properties, never by a guard.  A definition whose comment
starts with "Variant" is what a plausible mistake would make of the definition after
it; no action of the specification uses it.

### PasswordReset

`cooldown`, `challenge`, `token` and `session` are the Redis keys, `users` the
address and password columns.  A mailed code is a member of `Code` chosen
at the `SET`; a password is the request that wrote it, a reset or a member of `Change` or
`Moderate`.  The Lua script is one
action per outcome (`VerifyNoChallenge`, `VerifyMatches`, `VerifyWrongCode`), as
Redis runs it alone.  A key is served up to and including the tick it expires at:
this is the coarse clock's version of "may or may not be there any more".  The
token a phone verification signs has no `jti`, so `ResetCheckPhone` skips the
consumption that `ResetConsume` is for mailed codes.  `ChangeEmail` stands for the
profile update that moves an address, `RemoveUser` for the admin's DELETE.
`ChangePassword` and `AdminUpdate` are the other two writers of the column: neither
touches `refresh_token`, so both mark (`kept`, history) the login whose token is in Redis.
What `changePassword` compares before it writes is left to `Accounts`, which has its
three lookups; here it may write whenever its address has a holder.
`OneTimeCode` is implemented under the mapping `Grant`: a challenge in Redis is open,
a matched one is claimed, one whose token wrote a password is spent.

### PhoneVerification

Twilio keeps and checks the code, so its answers are nondeterministic: a message
is accepted or rejected, a code approved or not.  `ResendRead` and `ResendClaim` are
the SELECT and the conditional UPDATE of `resendPhoneOtp`; both use the clock value
read once by the handler.  `CheckMark` writes by id, whatever number the row has by
then, as `markPhoneAsVerified` does.  `UpdateRead` and `UpdateSave` are `updateUser`
as far as the number goes; whether the number is new is decided at the read.

### Accounts

`rows` are the accounts that exist, each named by the request that creates it, whoever
that is: `register`, the administrator's POST, or the administrator seed.  `Register*`,
`CreateUser*` and `Seed*` are those requests, `Profile*`, `Moderate*`, `Resend*`,
`Verify*` and `Change*` the other handlers.  A profile update has an address, a number
or both; of numbers the module knows `ADMIN_PHONE` ("seed") and an account's own
(`PhoneVerification` has the rest).  An address is a value as typed; `Lower` is `trim().toLowerCase()`, which
`register` and `updateUser` apply and the administrator's routes do not.  A code of
`ucodes` remembers the address it is for and, as history, the mailbox it went to: the
two differ when the address moves between the two reads of
`resendVerificationEmail`.  `mark` holds, as history, the mailbox whose code set
`email_verified_at`.  `doubted` collects the accounts for which the code base lets mark
and address part, at the four places where it does; `VerifiedAddressWasProved` says
there is no fifth.  `changePassword` reads the row by id, twice by address, and writes
by address: `disturbed` is history of what others did to the row meanwhile.  The seed
is `command/admin-seed.ts`; its find, update and create are separate statements, and
`fit` is history of what others wrote in between: the type by an administrator, the
number by a profile update (`Written`).
A PATCH of the administrator without `type` makes an administrator a user, as the
code does.  `changePassword` of an account without address is refused by Prisma before
it writes.

### Sessions

The refresh token is a JWT of `sub`, `iat` and `exp` only, so a token is an account and a
second: two logins of one account in one tick get the same token (`Current`).  A text is a
verification at Twilio, which hands out the open one again until it is approved.
`Check*` and `Use*` are `verifyForgotPasswordOtp` and `resetPassword` in their phone
form: the token names the account and may be used any number of times while it lives.
The number of an account changes under them (`PhoneVerification` says how).  Passwords are
left to `PasswordReset`; `RefreshRead` and `RefreshDetails` are the two steps of
`refreshToken`.  The access token's own expiry is ignored by `jwt.strategy.ts`
(`ignoreExpiration`), so it grants nothing that could be stated here.

### ProfileAvatar

A file is named by the request that uploads it (a fresh UUID).  `Put` may
leave no file behind, because the local adapter logs a failed write and returns;
`CheckFile` is the existence test that makes up for it.  `SaveUnanswered` is a write
that commits while its answer is lost: the handler takes it for a failure and deletes
the file the row now names, which is the exception in `AvatarIsStored`.

### Billing

Stripe is modelled by what the handlers can see of it: a subscription (`stripe`)
and the sequence of events it emits (`log`).  Delivering event `i` of `b` is
`Receive(d, b, i)` for any unused `d`, so events arrive in any order, any number of
times, overlapping, or never.  `DeliveryFails` is the catch block: it answers 200 with
`received: false`, after which Stripe has no reason to retry, but the model does not
forbid another delivery.  `Reports` says whether Stripe's answers carry
`current_period_end`: the API version the code pins (`StripePayment.ts`, 2025-03-31.basil)
has moved that field, so `FALSE` is what the pinned version gives and `TRUE` what
the code was written for; both are checked.  The events themselves are taken to be of
a version in which an invoice names its subscription, as the handler expects; with
one in which it does not, invoice events change nothing and are like events that are
never delivered.  An invoice event has two ends: the one of the subscription's period, and
`line`, what `lines.data[0].period.end` says of it, which is what the handler writes.
They differ after a change to a plan with another interval, whose invoice
(`always_invoice`) may start with the proration of the old price, and the line may have
no period (`Undated`), which the handler replaces by the time it is (`InvoiceEnd`).
`Misread` is the case in which that is what the last invoice left in the row; it is the
one exception `OrderlyAccountsAgree` makes of the end, and the next renewal mends it.
`orderly` is history: an account whose requests never overlapped and
whose events arrived once and in order.  Amounts, currencies and `plan_type` are left
out, as are plans without a Stripe price (no code creates one).

### Presence

`clients` and `activeUsers` are the gateway's maps, `availability` the column, `shown`
the last `userStatusChange`.  A socket is used once, as socket.io's ids are.  `Connect`
and `Closes` are the synchronous part of the two handlers; `On*` and `Off*` are the
SELECT, the UPDATE and the broadcast after it, so handlers of one user overtake each
other.  The catch block of `handleConnection` closes the socket (`OnFail`).
`handleDisconnect` has no catch block, so a query that fails in it ends the process
(`OffFail`), as Node does with a rejection nobody handles.  `SocketOf` and `CalleeOf`
are the lookups of everything that is relayed.  `steady` is history: the last
handler that started for the user was alone, and no process has stopped on a
connected user since.

### PlanCatalog

A plan is named by the POST that makes it, a price by the request that makes it.
`terms`, `priceOf` and `listed` are the row; `product`, `title`, `price`, `charge` what
Stripe holds.  `Update*` is `updatePlan` call by call: read, rename the product, make
a price, archive the old one, write the row with the columns of the body and the price.
`Remove*` archives first and deletes last, and the foreign key of `subscribed` may refuse
the deletion.  `EditFails`, `CreateFails`, `BuyFails` and `RegisterFails` are the catch
blocks, which undo nothing.  `Buy*` is `buySubscription`; it looks at `approved_at`,
which a rejection sets too (`Reject`), and makes a customer when it reads none.
`overlapped` and `raced` are history: two edits of one plan, or two customers of one
account in the making, at once.

### Conversations

A conversation is named by the request that creates it, a message by the one that
stores it.  `OpenFind` and `OpenCreate` are the search, in one direction, and the
create; `Send*` the checks, the insert, and the touch of `updated_at`; `Mark*` find,
write and broadcast of a status.  `ListAll`, `ShowOne` and `Read*` are the readers.  `RemovePerson` and
`RemoveConversation` apply the schema's `SetNull` and `Cascade`.  Paging is left out.

### SetUp

One account, since every statement filters by `user_id`.  The module models what the
handlers get from Postgres at Read Committed: a `deleteMany` takes the rows committed
when it starts (`snapshot`), waits for those another transaction has deleted, and skips
those that are gone when it gets them; rows committed meanwhile stay.  Locks are
taken per statement: the order in which two statements reach the rows of one table, the
single-row edits' own locks and those of an account's removal are left out, so what
`StuckIsExplained` says of locks is that the order of the tables closes no circle.
An answer of COMMIT that is lost is not modelled: a transaction is committed and
answered, or neither.  `Pool` is the number of connections: a
transaction holds one, and `updateMySetUpIncome` asks for a second one to read its
answer while it holds the first.  `Rollback` is Prisma's timeout of interactive
transactions, among other things; it is what ends a wait for ever.  `ToMonthly`,
`Round` and `SafeToSpend` are the pay plan's arithmetic, in integer hundredths.

### Content

`BatchRead`, `BatchDelete` and `BatchWrite` are the FAQ batch statement by statement,
`FaqCreate`, `FaqUpdate` and `FaqRemove` the single routes, `Publish*` the find-or-create of the website row,
`Peek*` the readers.  What a row says is left out: only which rows there are matters to
the properties.  A PATCH of one FAQ may rewrite it or not, which changes no row's
existence.

## Runs

| Run | Instance | Shows |
|---|---|---|
| `reset_codes` | one account, two addresses, two mail requests, three verifications, two attempts | `AttemptsBounded`, `CodeHonouredInTime`, `CooldownSpacesMails`, `TokenOnlyForMailboxHolder`, and that the flow implements `OneTimeCode` |
| `reset_sessions` | two accounts, two addresses, one mailed code with two verifications, a phone verification, two resets, two logins, a change of password, an administrator's update | `CodeChangesPasswordOnce`, `SurvivingSessionIsCurrent` |
| `phone_codes` | one account, two numbers, two registrations, two resends, one verification, two updates, three clock ticks | `ClaimsSpaced`, `RefusedBecauseOfAnother`, `VerifiedNumberWasApproved` |
| `avatar_files` | two accounts, four updates | `AvatarIsStored`, `OrphansAreExplained` |
| `billing_webhooks` | one account, two subscriptions, two plans, three deliveries, one change of plan; Stripe reports period ends, an invoice line may be that of the old period | `EndIsPaid`, `OrderlyAccountsAgree`, `PaymentsRecordedOnce` |
| `billing_expiry` | one subscription of a plan that may be removed; Stripe reports no period end and an invoice line may have none | `EndIsPaid`, and under fairness `PastDueIsCleared` |
| `presence_map` | one user, three connections, two call names, any number of restarts | `NewestIsReached`, `PresenceAgrees`, `CallsReachOpenSocket` |
| `storefront` (catalog) | one plan made, edited twice and removed, two purchases of one account; three requests in a behaviour | `RowsAgreeWithStripe`, `SessionsAreFair`, `CustomersAreNamed` |
| `storefront` (accounts) | two accounts, three spellings of two addresses, two profile updates of address or number, one each of the administrator's update, resend, verification and change of password, a seed; four requests, three where a seed, an administrator or a number takes part | `VerifiedAddressWasProved`, `WritesAreOwn`, `MailboxesAreSingle` |
| `storefront` (sessions) | one account, one number, one text, two uses of its token, two logins, a refresh, a logout; up to four requests | `SessionsAreEarned` |
| `workspace` (conversations) | two people, two opens, one message, two marks, one reader; four requests | `OneConversation`, `AnswersAreTrue`, `StatusNewsAgree` |
| `workspace` (set-up) | a POST, two PATCH, a DELETE, an edit and a pay plan over two connections; three requests | `ReplacesReplace`, `StuckIsExplained`, `SummaryAddsUp` |
| `workspace` (content) | two rows, two batches, a POST, a PATCH, a reader; two publishes | `ContentIsWhole` |
| `reset_cooldown` | three mail requests | **violated**: `CooldownBetweenMails`, see below |
| `reset_overtakes_login` | one login, one reset | **violated**: `ResetInvalidatesSessions` |
| `phone_moved` | one verification, one update | **violated**: `VerifiedOnlyIfApproved` |

The type invariants are checked in the same runs.  `storefront` and `workspace` hold
three modules each, which share no state: the variable `part` says which of them a
behaviour runs.  `WritesAreOwn` is `PasswordChangesAreOwn` and `SeedsSpareOthers`;
`SessionsAreEarned` is `TextServesOneAccount` and `RefreshFollowsReset`;
`ContentIsWhole` is `BatchesReplace`, `SiteIsOne` and `ReadersSeeAnswers`.

Several properties name their exceptions, because there the code does part from the
obvious promise and no document makes it: two opens of one pair at once leave two
conversations (`OneConversation`), two edits of one plan at once leave a row whose
price is not the one it shows (`RowsAgreeWithStripe`), two requests that make a
customer leave one without account (`CustomersAreNamed`), the administrator's update
leaves a mark on an address nobody proved (`VerifiedAddressWasProved`), two
replacements of one set-up leave both sets of rows (`ReplacesReplace`), a change of
password leaves the refresh token of the old one (`SurvivingSessionIsCurrent`), the
invoice of a change of plan leaves the old end in the row (`OrderlyAccountsAgree`), the
seed overwrites a number the account got after the seed had read it (`SeedsSpareOthers`),
and a pool whose connections are all held by replacements waits until Prisma's timeout
(`StuckIsExplained`).  In each case the property says that the exception is the only one.

The three violations are where a document promises more than the code keeps:

* `docs/frontend-admin-apis.md:56` promises the 30-second cooldown between codes.
  The catch block of a request whose mail cannot be queued deletes the cooldown by
  name (`auth.service.ts:1002`).  If it comes late, the key is the one of the next
  request, and a third request is accepted at once.  `CooldownSpacesMails` is what
  holds: spaced, unless some request of the address failed to queue its mail.
* The same line promises that a reset invalidates the stored refresh token.  It
  does so once; a login that compared the old password before and stores its token
  after (`auth.service.ts:309`) survives.  `SurvivingSessionIsCurrent` names this as
  an exception, next to a reset under way or failed and to the passwords that are not
  replaced by a reset, of which the line says nothing.
* `docs/profile-update.md:17` promises that a new number has to be verified.
  `verifyPhone` marks by id (`auth.service.ts:797`), so a number replaced while Twilio
  was asked is marked instead.  `VerifiedNumberWasApproved` is what holds.

### Bounds, and why they are enough

Every id set is as small as the race it is for allows: two requests of the same kind
to race, a third where the property speaks of what a third is allowed
(`reset_cooldown`, the third attempt after a limit of two, a delivery of each of
three events).  One account suffices where the code never relates two (the keys and
rows are per account); where it does, there are two (`avatar_files`) or two addresses
or numbers that can be taken.  Where a run has one account and the property relates
several (`TokenOnlyForMailboxHolder`, `SessionsAreEarned`), an address or a number only
moves away in it, and the theorem covers the rest.  `MaxTime` stops the clock after
every lifetime has had time to pass once (`ChallengeTTL` 1 and `MaxTime` 2, `Cooldown`
2 and `MaxTime` 2); `MaxEvents` 3 lets a subscription be bought and then renewed,
changed or ended.
`Fallback` is longer than `Trial`, as thirty days are longer than fourteen.
In `reset_sessions` a behaviour has the mailed code, or logins and the other writers of
the password (`MailsApart`); resets by phone go with both, and a reset treats the
refresh token in the same way whatever its token is of.  In the two larger instances a
constraint (`FewRequests`) limits how many requests
begin in one behaviour, so that every combination of three or four of them is met
without all of them at once; every race described in the hazards is one of two or
three requests.  Clients of `PlanCatalog` have two values per field, enough for a
field to differ.  `Sessions` has one tick for all lifetimes: a token may then be used
in the second it was signed and not after the next.  `Pool` 2 is the smallest pool a
replacement can be answered with, and the smallest that two replacements exhaust.
Presence needs three connections: one that is replaced, the one that replaces it and
one that comes after both; users share nothing but names.
`MaxAttempts` is 2 and 1 instead of 5.  Deadlock is not checked: requests are finite
in number and the clock stops, so every behaviour ends.

### Fairness

Only `FairSpec` of `Billing` has any: `WF_vars(Expire)`.  The cron runs every hour for
as long as the process lives, and a run with something to expire is enabled until it
has run.  A failed run is logged and the next hour tries again.  No request, delivery
or Stripe action is assumed to happen: handlers die with their process, clients and
Stripe may stop, so nothing else in this code has to happen.

## Proofs

All theorems are about the unbounded specifications: any sets of accounts, addresses,
numbers and requests, any lifetimes and limits.  What is assumed is what the modules
assume of their constants: durations are natural numbers, the limit of attempts is
positive, `None` (`Nothing`, `Absent`, `Nobody`) is not one of the ids and not a
record, normalising an address twice is normalising it once, the requests that set
a password have different names, and a batch of questions and a publish are different
requests.

`PasswordResetProofs`
: `TypeCorrect` rests on `TypeInv`, the types together with `Locals`: a request past
  its first section has the locals it needs.  `Lifecycle` is the invariant of the
  code's life: a challenge belongs to the request that stored it, its expiry is that
  request's `storedAt` plus the lifetime, however often the script has rewritten it,
  and a code once matched or replaced is in no challenge.  From it follow
  `HonouredInTime` and `MailboxHolder` (an action property: the proof looks at the one
  step that signs a token), and with `SingleUse` (a token has one consumer)
  `ChangesPasswordOnce`.  `SurvivingSession` needs what each login has read so far, and
  splits on who wrote the new password: a reset is then about to revoke, the other two
  writers have marked the login whose token they left.
  `Attempts` counts: the verifications that tried a code are exactly the attempts of its
  challenge, and the finite-set theorems bound them.  `CooldownSpaces` is not inductive
  alone: a cooldown key that is set holds the latest claim of its address unless a
  request of that address has failed to queue its mail.
: `FlowImplements` is the refinement: `Spec` implements `OneTimeCode`.  What `Grant` makes
  of a code is decided by four questions (`IsStored`, `IsOpen`, `IsSpent`, `IsClaimed`);
  every action answers them as before, or changes them the way one abstract step does
  (`StoreIssues`, `DropRevokes`, `MatchClaims`, `MissRevokes`, `UpdateSpends`), and
  `Lifecycle` and `SingleUse` say that no two answers contradict each other.

`PhoneVerificationProofs`
: `ClaimsSpaced` alone is not inductive.  `SlotHoldsClaims` adds that no claim of the
  current epoch is later than what the slot holds, and that what the slot holds was
  claimed by some request; a new claim is a cooldown after the slot and so after all of
  them.  The same invariant, with `VerifiedByCheck`, gives every refusal its cause.
  `VerifiedNumber` is inductive once approvals and overtakings are known to stay
  (`CheckHistory`).

`ProfileAvatarProofs`
: the key is `OldIsPast`: what a request read as the old avatar had been written before,
  by another request of the account, and once the request has written itself no row
  names that file any more, because every file is written into a row at most once
  (`WritesOnce`).  `OrphansExplained` follows each stored file: it is in a row, or its
  request has still to delete it or to write it, or one of the named causes applies.

`PresenceProofs`
: `MapInv` relates the map to the last socket of each user and says that an open
  socket outside the map has been replaced; `NewestReached` and `CallsReached` are parts
  of it.  `PresenceKept` needs `AgreeInv`: while a user is steady at most one handler is
  under way, it belongs to the socket in the map or has just emptied it, and past its
  UPDATE the column has what it wrote.

`BillingProofs`
: `EndPaid`: every end that is stored or on its way was granted, or has passed, or was made
  up by a delivery of the checkout.  `IInv` adds to the types that the end Stripe keeps,
  and what an invoice says of a period, is that of an event (`StripeOK`), a row names a
  subscription of its account (`RowsOK`), and a delivery or a change of plan that is about
  to write has an end that was paid (`DeliveriesOK`, `ChangesOK`).  What was paid stays
  paid, because Stripe's log and the clock only grow (`Grows`, `PaidKept`).  `OriginInv`
  traces an end nobody granted to the delivery that made it up.
: `PaymentsRecorded` needs `PayInv`: which event each delivery is at (`Staged`), that the
  first event and no other is the checkout (`Logged`), that a row is named by a delivery of
  its checkout (`Named`), and for orderly accounts that an event has one delivery, after
  those before it, and a payment of the subscription the row names is recorded when its
  delivery is done (`Ordered`).  That the checkout is recorded, under way or failed holds of
  every account (`Charging`).  Two cardinalities are then equal by the bijection that
  takes a payment to its delivery.
: `RowsAgree` (`OrderlyAccountsAgree`) needs `AgreeInv` on top of it.  At Stripe, the last
  event has the end Stripe keeps, and a deletion is the last and repeats the end of the one
  before it (`Ends`).  An orderly account has one request under way (`Alone`), and it works
  on the subscription the row names (`Bound`); until a row names it, a subscription has the
  plan of its checkout (`Fresh`).  `Agrees` then says that the row has Stripe's plan unless
  a change of plan is about to save it, and Stripe's end once all invoices are in
  (`Settled`), the changes that failed half way and a last invoice that spoke of another
  period (`Misread`) excepted; `Dated` says which invoices can.  The steps are first summarised
  by what they do to one subscription, delivery, change or row (`StripeGoes`,
  `DeliveryGoes`, `ChangeGoes`, `RowGoes`), and each conjunct is proved from those.

`AccountsProofs`
: `AccountsPart` says of a row that it was enrolled, that its address is its own and, unless
  typed by an administrator, in lower case; `ProfilesPart` and `CodesPart` follow an
  address through the requests and the codes; `PasswordsPart` says that who set a password
  tells whose it is, and that a change past its comparison knows the row it compared until that row is
  disturbed.  `Seeding` says that
  what a seed found stays fit until its type or number is written, by the administrator or a
  profile update (`WrittenIs`).  `VerifiedWasProved`, `WritesOwn` and `MailboxesSingle`
  follow.

`AccountsProofs`, `Sessions`
: the code of one text is approved at most once (`TextsOnce`), a stored token is of a login
  that followed every reset answered since (`Linked`), and a refresh that has been granted
  read such a token (`RefreshesOK`).

`StorefrontProofs`
: `RowsAgree` needs to know which prices a row may name (`Named`: its first, or that of
  an edit that has finished) and who made a price and of which columns (`Made`).  A plan
  whose edits never overlapped has at most one under way (`Alone`), which still has the
  columns and the price of the row (`Fresh`); a price that the row has named before is
  archived, and the one it names is archived before the row is touched (`ArchivedOnce`,
  `ArchivedSoon`).  `Charges` is the half of the property that holds at any moment, and
  `StagesOK` says, for each stage an edit can be at, how far Stripe is ahead of the row.
  `FairSessions` follows from `Charges` and from what a purchase has read (`PurchasesOK`):
  the price it read is the row's, or has been archived, and then Stripe opens no session.
  `NamedCustomers` needs `MakersOK` (who made a customer, and how far that request is),
  `AccountsOK` (what an account that no two requests raced for names) and `OpenedOK`.
: `StorefrontParts` is the composition: one of the three modules moves and the others
  stand still, so a behaviour of the storefront is one of each, and `StorefrontKeeps`
  carries their theorems over to the specification TLC runs.

`WorkspaceProofs`, `Conversations`
: two creates of one pair that both found nothing were under way together (`PairsMet`); a
  mark alone on its message leaves the last news equal to the column (`StatusesOK`); a
  message stands and falls with its conversation (`RepliesOK`); a read rests on a
  conversation its reader takes part in (`ReadsOK`).

`WorkspaceProofs`, `SetUp`
: a row that is there was committed by a request that is done (`RowsDone`), and so were
  those a request found when it began (`BeforeDone`).  `Emptied` follows the rows a
  replacement found and that are still there: the table is one it has not reached, or the
  row is in the snapshot it waits for, or among those its transaction has deleted.
  `Replacements` is what is left of that after the commit.
: `LocksClose` is the argument that the order of the tables closes no circle.  A transaction has deleted only
  in tables before the one it waits at (`InOrder`), so whom it waits for, if that one waits
  too, waits at a later table (`WaitsClimb`).  There are three tables, so a chain of waits
  has an end: if everybody waits, somebody waits for a connection.  No number of
  transactions and no size of the pool is assumed.
: `Summaries` is about sums over a set of rows of any size, defined by recursion on the
  set.  That the recursion defines a function, and that its values are natural numbers, is
  proved by well-founded induction in the form that has no operator parameter: of the
  subsets for which it fails one is minimal under inclusion (`MinimalSubset`), and the
  recursion settles it from a smaller one.  `AllFinite` says that what a reader has seen is
  finite.  The rest is arithmetic of `Round`: two numbers rounded apart and their
  difference rounded are within one of each other.

`WorkspaceProofs`, `Content`
: next to a batch that is alone the table is made of the rows it listed, its own entries so
  far, and what it has still to delete (`Clean`); a row that a batch dropped does not come
  back, since a POST and a batch make new rows only and an update needs the row (`Drops`,
  `Was`).  `SitesInv` pairs the publishes that are creating the website's row, and `PeeksInv`
  says of a reader that the batches it came after have answered.
: `WorkspaceParts` and `WorkspaceKeeps` compose the three as above.

Every invariant and action property of the passing runs, and the refinement, is stated by
a theorem.  Only model-checked: liveness (`PastDueIsCleared`), which rests on
`WF_vars(Expire)` and so on ENABLED.

In `SetUp` an update inside an update of a record spells the field out (`tx[r].gone`) where
`@` would be shorter: the proof system reads the `@` of the inner update as that of the
outer one.

## Plan

1. Further abstract specifications and proofs that they are implemented: the replacement
   of a set-up as one step, a presence that follows the last socket, a checkout session
   at the listed price.
2. One specification of the `users` row in which `Accounts`, `PhoneVerification` and
   `ProfileAvatar` are three views of one write, in place of three modules each of which
   knows the part of the row it is about.

## Not modelled

* Handlers without a route: `requestEmailChange`, `changeEmail` and 2FA
  (`auth.service.ts:1386`-`1552`), `resendPhoneVerification`, the repository's
  `inviteUser`, `convertTo` and `syncRole`, conversation update.
* Notifications: no code creates one, and nothing publishes to the Redis channel the gateway
  subscribes to, so the table and the list stay empty.
* The role seed (`seed.command.ts`): its module does not provide the repository it injects.
* The website's logo and favicon: the controller hands the service arrays of files, whose
  `buffer` is undefined.
* Call recordings: chunks are collected by id in memory and written to a file when a socket
  says that the recording is over; nothing reads the file.
* The daily reminder (`subscription-cron.service.ts:60`): it looks commitments up and sends
  nothing, its SMS is commented out.
* The `payment_intent` branches of the webhook, which update transactions no code creates.
* Contact, dashboards and transaction lists: single statements, or queries.
* Guards and abilities (predicates of the request's user), the mail worker and the storage
  adapters for S3 and GCS (I/O), bootstrap and configuration.
* Formatting and validation of input, signatures, hashing, rate limits, paging.
* Amounts and currencies of a payment, what a FAQ or the website says, titles of bills.
