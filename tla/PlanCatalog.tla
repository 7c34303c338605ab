----------------------------- MODULE PlanCatalog -----------------------------
(***************************************************************************)
(* The plans on sale and their purchase (subscription-plan.service.ts,     *)
(* buySubscription in subscriptions.service.ts, the customer made by       *)
(* register in auth.service.ts).  A plan is a row here and a product with  *)
(* prices at Stripe; a price cannot be changed, only replaced and          *)
(* archived.  An account is a row with a billing_id and a customer at      *)
(* Stripe.  The handlers write the two systems in turn, with no lock and   *)
(* no undo: any of them may overlap another and stop at any call.          *)
(***************************************************************************)

CONSTANTS
    CreatePlan,   \* POST requests; one names the plan, its product and its first price
    UpdatePlan,   \* PATCH requests; one names the price it makes
    RemovePlan,   \* DELETE requests
    Buy,          \* purchases; one names the customer it makes
    Account,      \* an account names the customer its registration makes
    Value,        \* what a field of a plan may hold
    Post,         \* the bodies of POST requests
    Patch,        \* the bodies of PATCH requests: some of the fields
    NoValue       \* null

Field == {"title", "type", "amount", "period"}
ChargedField == {"amount", "period"}
Terms == [Field -> Value]
Columns == UNION {[S -> Value] : S \in SUBSET Field}

NoChange == [f \in {} |-> NoValue]

ASSUME CatalogAssumption ==
    /\ Post \subseteq Terms
    /\ Patch \subseteq Columns
    /\ UpdatePlan \cap (CreatePlan \cup RemovePlan) = {}
    /\ Buy \cap Account = {}
    /\ NoValue \notin Buy \cup Account \cup Value

Editor == UpdatePlan \cup RemovePlan
Price == CreatePlan \cup UpdatePlan
Customer == Buy \cup Account

VARIABLES
    listed,      \* plans: the rows that exist
    terms,       \* plans: their columns (before the row exists, the POST body)
    priceOf,     \* plans: stripe_price_id
    subscribed,  \* the plans that a subscription row references
    product,     \* Stripe: the active products
    title,       \* Stripe: the names of the products
    price,       \* Stripe: the active prices
    charge,      \* Stripe: what a price charges, by amount and period
    create,      \* where each POST is
    edit,        \* where each PATCH and DELETE is, and what it read
    overlapped   \* history: plans that had two edits in flight at once

VARIABLES
    verdict,     \* users: approval_status; approved_at is null while it is "pending"
    billing,     \* users: billing_id
    customer,    \* Stripe: the customers
    register,    \* where the registration of each account is
    buy,         \* where each purchase is, and what it read
    raced        \* history: accounts that had two customers in the making at once

catalogVars == <<listed, terms, priceOf, subscribed, product, title, price, charge,
                 create, edit, overlapped, verdict, billing, customer, register, buy, raced>>
planVars == <<listed, terms, priceOf, subscribed, product, title, price, charge,
              create, edit, overlapped>>
accountVars == <<verdict, billing, customer, register, buy, raced>>

CreatePc == {"product", "price", "row", "done", "failed"}
\* "plan", "terms" and "price" are the row as it was read.
EditState ==
    [pc : {"rename", "price", "archive", "archiveProduct", "row", "done", "failed"},
     plan : CreatePlan, change : Columns, terms : Terms, price : Price]
RegisterPc == {"create", "save", "done", "failed"}
\* "fair" is history: the row had the price of the session when it was sold.
BuyState ==
    [pc : {"plan", "billing", "create", "save", "session", "sold", "failed"},
     account : Account, plan : CreatePlan \cup {NoValue}, price : Price \cup {NoValue},
     customer : Customer \cup {NoValue}, fair : BOOLEAN]
Idle == [pc |-> "idle"]

Charged(t) == [f \in ChargedField |-> t[f]]
\* {...row, ...dto}
Spread(t, c) == [f \in Field |-> IF f \in DOMAIN c THEN c[f] ELSE t[f]]

\* Every variable holds a value of its kind.
CatalogTypeOK ==
    /\ listed \subseteq CreatePlan
    /\ terms \in [CreatePlan -> [Field -> Value \cup {NoValue}]]
    /\ priceOf \in [CreatePlan -> Price]
    /\ subscribed \subseteq CreatePlan
    /\ product \subseteq CreatePlan
    /\ title \in [CreatePlan -> Value \cup {NoValue}]
    /\ price \subseteq Price
    /\ charge \in [Price -> [ChargedField -> Value \cup {NoValue}]]
    /\ create \in [CreatePlan -> CreatePc]
    /\ edit \in [Editor -> {Idle} \cup EditState]
    /\ overlapped \subseteq CreatePlan
    /\ verdict \in [Account -> {"pending", "approved", "rejected"}]
    /\ billing \in [Account -> Customer \cup {NoValue}]
    /\ customer \subseteq Customer
    /\ register \in [Account -> RegisterPc]
    /\ buy \in [Buy -> {Idle} \cup BuyState]
    /\ raced \subseteq Account

CatalogInit ==
    /\ listed = {}
    /\ terms = [p \in CreatePlan |-> [f \in Field |-> NoValue]]
    /\ priceOf = [p \in CreatePlan |-> p]
    /\ subscribed = {}
    /\ product = {}
    /\ title = [p \in CreatePlan |-> NoValue]
    /\ price = {}
    /\ charge = [q \in Price |-> [f \in ChargedField |-> NoValue]]
    /\ create = [p \in CreatePlan |-> "product"]
    /\ edit = [q \in Editor |-> Idle]
    /\ overlapped = {}
    /\ verdict = [a \in Account |-> "pending"]
    /\ billing = [a \in Account |-> NoValue]
    /\ customer = {}
    /\ register = [a \in Account |-> "create"]
    /\ buy = [b \in Buy |-> Idle]
    /\ raced = {}

------------------------------------------------------------------------------
(* createPlan *)

\* StripePayment.createProduct.
CreateProduct(p, body) ==
    /\ create[p] = "product"
    /\ terms' = [terms EXCEPT ![p] = body]
    /\ product' = product \cup {p}
    /\ title' = [title EXCEPT ![p] = body["title"]]
    /\ create' = [create EXCEPT ![p] = "price"]
    /\ UNCHANGED <<listed, priceOf, subscribed, price, charge, edit, overlapped, accountVars>>

\* StripePayment.createPrice, with the interval of the billing period.
CreatePrice(p) ==
    /\ create[p] = "price"
    /\ price' = price \cup {p}
    /\ charge' = [charge EXCEPT ![p] = Charged(terms[p])]
    /\ create' = [create EXCEPT ![p] = "row"]
    /\ UNCHANGED <<listed, terms, priceOf, subscribed, product, title, edit, overlapped,
                   accountVars>>

\* plan.create.
CreateRow(p) ==
    /\ create[p] = "row"
    /\ listed' = listed \cup {p}
    /\ create' = [create EXCEPT ![p] = "done"]
    /\ UNCHANGED <<terms, priceOf, subscribed, product, title, price, charge, edit,
                   overlapped, accountVars>>

\* A call rejects: the catch block answers and undoes nothing.
CreateFails(p) ==
    /\ create[p] \in {"product", "price", "row"}
    /\ create' = [create EXCEPT ![p] = "failed"]
    /\ UNCHANGED <<listed, terms, priceOf, subscribed, product, title, price, charge, edit,
                   overlapped, accountVars>>

------------------------------------------------------------------------------
(* updatePlan and removePlan *)

InFlight(q) == edit[q].pc \notin {"idle", "done", "failed"}
Editing(p) == {q \in Editor : InFlight(q) /\ edit[q].plan = p}
NoteOverlap(p) ==
    overlapped' = IF Editing(p) = {} THEN overlapped ELSE overlapped \cup {p}

Differs(c, p, f) == f \in DOMAIN c /\ c[f] # terms[p][f]
NeedsPrice(c, t) == \E f \in {"type", "amount", "period"} \cap DOMAIN c : c[f] # t[f]

\* Variant: the row need not exist.
UpdateReadAny(u, p, c) ==
    /\ edit[u].pc = "idle"
    /\ edit' = [edit EXCEPT ![u] =
           [pc |-> IF Differs(c, p, "title") THEN "rename"
                   ELSE IF NeedsPrice(c, terms[p]) THEN "price" ELSE "row",
            plan |-> p, change |-> c, terms |-> terms[p], price |-> priceOf[p]]]
    /\ NoteOverlap(p)
    /\ UNCHANGED <<listed, terms, priceOf, subscribed, product, title, price, charge, create,
                   accountVars>>

\* findUnique.  A change of type alone makes a new price with the same terms.
UpdateRead(u, p, c) ==
    /\ edit[u].pc = "idle"
    /\ p \in listed
    /\ edit' = [edit EXCEPT ![u] =
           [pc |-> IF Differs(c, p, "title") THEN "rename"
                   ELSE IF NeedsPrice(c, terms[p]) THEN "price" ELSE "row",
            plan |-> p, change |-> c, terms |-> terms[p], price |-> priceOf[p]]]
    /\ NoteOverlap(p)
    /\ UNCHANGED <<listed, terms, priceOf, subscribed, product, title, price, charge, create,
                   accountVars>>

\* StripePayment.updateProduct.
UpdateProduct(u) ==
    /\ edit[u].pc = "rename"
    /\ title' = [title EXCEPT ![edit[u].plan] = edit[u].change["title"]]
    /\ edit' = [edit EXCEPT ![u].pc =
           IF NeedsPrice(edit[u].change, edit[u].terms) THEN "price" ELSE "row"]
    /\ UNCHANGED <<listed, terms, priceOf, subscribed, product, price, charge, create,
                   overlapped, accountVars>>

\* StripePayment.createPrice: dto.price ?? plan.price, dto.billing_period ??
\* plan.billing_period.
UpdatePrice(u) ==
    /\ edit[u].pc = "price"
    /\ price' = price \cup {u}
    /\ charge' = [charge EXCEPT ![u] = Charged(Spread(edit[u].terms, edit[u].change))]
    /\ edit' = [edit EXCEPT ![u].pc = "archive"]
    /\ UNCHANGED <<listed, terms, priceOf, subscribed, product, title, create, overlapped,
                   accountVars>>

\* Variant: the old price is not archived.
ArchiveNothing(q) ==
    /\ edit[q].pc = "archive"
    /\ edit' = [edit EXCEPT ![q].pc = IF q \in UpdatePlan THEN "row" ELSE "archiveProduct"]
    /\ UNCHANGED <<listed, terms, priceOf, subscribed, product, title, price, charge, create,
                   overlapped, accountVars>>

\* StripePayment.deactivatePrice(plan.stripe_price_id), in both handlers.
ArchivePrice(q) ==
    /\ edit[q].pc = "archive"
    /\ price' = price \ {edit[q].price}
    /\ edit' = [edit EXCEPT ![q].pc = IF q \in UpdatePlan THEN "row" ELSE "archiveProduct"]
    /\ UNCHANGED <<listed, terms, priceOf, subscribed, product, title, charge, create,
                   overlapped, accountVars>>

NewPrice(u) == IF NeedsPrice(edit[u].change, edit[u].terms) THEN u ELSE edit[u].price

\* Variant: the row keeps its stripe_price_id.
UpdateRowOnly(u) ==
    LET p == edit[u].plan
    IN  /\ u \in UpdatePlan
        /\ edit[u].pc = "row"
        /\ p \in listed
        /\ terms' = [terms EXCEPT ![p] = Spread(terms[p], edit[u].change)]
        /\ edit' = [edit EXCEPT ![u].pc = "done"]
        /\ UNCHANGED <<listed, priceOf, subscribed, product, title, price, charge, create,
                       overlapped, accountVars>>

\* plan.update: the columns of the body, and the price id in any case.
UpdateRow(u) ==
    LET p == edit[u].plan
    IN  /\ u \in UpdatePlan
        /\ edit[u].pc = "row"
        /\ p \in listed
        /\ terms' = [terms EXCEPT ![p] = Spread(terms[p], edit[u].change)]
        /\ priceOf' = [priceOf EXCEPT ![p] = NewPrice(u)]
        /\ edit' = [edit EXCEPT ![u].pc = "done"]
        /\ UNCHANGED <<listed, subscribed, product, title, price, charge, create, overlapped,
                       accountVars>>

\* findUnique of removePlan.
RemoveRead(r, p) ==
    /\ edit[r].pc = "idle"
    /\ p \in listed
    /\ edit' = [edit EXCEPT ![r] =
           [pc |-> "archive", plan |-> p, change |-> NoChange, terms |-> terms[p],
            price |-> priceOf[p]]]
    /\ NoteOverlap(p)
    /\ UNCHANGED <<listed, terms, priceOf, subscribed, product, title, price, charge, create,
                   accountVars>>

\* StripePayment.deactivateProduct.
ArchiveProduct(r) ==
    /\ edit[r].pc = "archiveProduct"
    /\ product' = product \ {edit[r].plan}
    /\ edit' = [edit EXCEPT ![r].pc = "row"]
    /\ UNCHANGED <<listed, terms, priceOf, subscribed, title, price, charge, create,
                   overlapped, accountVars>>

\* plan.delete.  A subscription that references the row forbids it (P2003): then,
\* and when the row is gone, only EditFails is left.
RemoveRow(r) ==
    LET p == edit[r].plan
    IN  /\ r \in RemovePlan
        /\ edit[r].pc = "row"
        /\ p \in listed \ subscribed
        /\ listed' = listed \ {p}
        /\ edit' = [edit EXCEPT ![r].pc = "done"]
        /\ UNCHANGED <<terms, priceOf, subscribed, product, title, price, charge, create,
                       overlapped, accountVars>>

\* A call rejects: the catch block answers and undoes nothing.
EditFails(q) ==
    /\ InFlight(q)
    /\ edit' = [edit EXCEPT ![q].pc = "failed"]
    /\ UNCHANGED <<listed, terms, priceOf, subscribed, product, title, price, charge, create,
                   overlapped, accountVars>>

------------------------------------------------------------------------------
(* Accounts: their customer and their review *)

\* The customers of an account that a request is still making: it saw no
\* billing_id and has not saved one.
Making(a) ==
    {c \in Customer :
        \/ c \in Buy /\ buy[c].pc \in {"create", "save"} /\ buy[c].account = a
        \/ c = a /\ register[a] \in {"create", "save"}}

\* register: StripePayment.createCustomer.  A purchase cannot precede the answer
\* of register, but it can if the answer is lost and the account logs in.
RegisterCustomer(a) ==
    /\ register[a] = "create"
    /\ customer' = customer \cup {a}
    /\ register' = [register EXCEPT ![a] = "save"]
    /\ UNCHANGED <<planVars, verdict, billing, buy, raced>>

\* register: user.update(billing_id).
RegisterSave(a) ==
    /\ register[a] = "save"
    /\ billing' = [billing EXCEPT ![a] = a]
    /\ register' = [register EXCEPT ![a] = "done"]
    /\ UNCHANGED <<planVars, verdict, customer, buy, raced>>

\* Either call rejects: it is logged, and the account is usable.
RegisterFails(a) ==
    /\ register[a] \in {"create", "save"}
    /\ register' = [register EXCEPT ![a] = "failed"]
    /\ UNCHANGED <<planVars, verdict, billing, customer, buy, raced>>

\* approve: approved_at and approval_status.
Approve(a) ==
    /\ verdict' = [verdict EXCEPT ![a] = "approved"]
    /\ UNCHANGED <<planVars, billing, customer, register, buy, raced>>

\* reject: it sets approved_at too.
Reject(a) ==
    /\ verdict' = [verdict EXCEPT ![a] = "rejected"]
    /\ UNCHANGED <<planVars, billing, customer, register, buy, raced>>

------------------------------------------------------------------------------
(* buySubscription *)

\* The first user.findUnique: only approved_at is looked at.
BuyReadUser(b, a) ==
    /\ buy[b].pc = "idle"
    /\ verdict[a] # "pending"
    /\ buy' = [buy EXCEPT ![b] =
           [pc |-> "plan", account |-> a, plan |-> NoValue, price |-> NoValue,
            customer |-> NoValue, fair |-> TRUE]]
    /\ UNCHANGED <<planVars, verdict, billing, customer, register, raced>>

\* plan.findUnique.
BuyReadPlan(b, p) ==
    /\ buy[b].pc = "plan"
    /\ p \in listed
    /\ buy' = [buy EXCEPT ![b] =
           [@ EXCEPT !.pc = "billing", !.plan = p, !.price = priceOf[p]]]
    /\ UNCHANGED <<planVars, verdict, billing, customer, register, raced>>

\* Variant: the billing_id of the account is not looked at.
BuyIgnoreBilling(b) ==
    LET a == buy[b].account
    IN  /\ buy[b].pc = "billing"
        /\ buy' = [buy EXCEPT ![b].pc = "create"]
        /\ raced' = IF Making(a) # {} THEN raced \cup {a} ELSE raced
        /\ UNCHANGED <<planVars, verdict, billing, customer, register>>

\* The second user.findUnique: the customer, or none yet.
BuyReadBilling(b) ==
    LET a == buy[b].account
    IN  /\ buy[b].pc = "billing"
        /\ buy' = [buy EXCEPT ![b] =
               [@ EXCEPT !.pc = IF billing[a] = NoValue THEN "create" ELSE "session",
                         !.customer = billing[a]]]
        /\ raced' = IF billing[a] = NoValue /\ Making(a) # {} THEN raced \cup {a} ELSE raced
        /\ UNCHANGED <<planVars, verdict, billing, customer, register>>

\* StripePayment.createCustomer.
BuyCreateCustomer(b) ==
    /\ buy[b].pc = "create"
    /\ customer' = customer \cup {b}
    /\ buy' = [buy EXCEPT ![b] = [@ EXCEPT !.pc = "save", !.customer = b]]
    /\ UNCHANGED <<planVars, verdict, billing, register, raced>>

\* user.update(billing_id), whatever it holds by now.
BuySaveCustomer(b) ==
    /\ buy[b].pc = "save"
    /\ billing' = [billing EXCEPT ![buy[b].account] = b]
    /\ buy' = [buy EXCEPT ![b].pc = "session"]
    /\ UNCHANGED <<planVars, verdict, customer, register, raced>>

\* StripePayment.createCheckoutSessionSubscription: Stripe refuses a price or a
\* product that is archived.
BuySession(b) ==
    LET p == buy[b].plan
        q == buy[b].price
    IN  /\ buy[b].pc = "session"
        /\ q \in price /\ p \in product
        /\ buy' = [buy EXCEPT ![b] =
               [@ EXCEPT !.pc = "sold",
                         !.fair = p \in listed /\ charge[q] = Charged(terms[p])]]
        /\ UNCHANGED <<planVars, verdict, billing, customer, register, raced>>

\* A call rejects: the catch block answers and undoes nothing.
BuyFails(b) ==
    /\ buy[b].pc \notin {"idle", "sold", "failed"}
    /\ buy' = [buy EXCEPT ![b].pc = "failed"]
    /\ UNCHANGED <<planVars, verdict, billing, customer, register, raced>>

\* The buyer pays: the webhook creates or moves the subscription row, if it finds
\* the plan.
Subscribe(b) ==
    /\ buy[b].pc = "sold"
    /\ buy[b].plan \in listed
    /\ subscribed' = subscribed \cup {buy[b].plan}
    /\ UNCHANGED <<listed, terms, priceOf, product, title, price, charge, create, edit,
                   overlapped, accountVars>>

------------------------------------------------------------------------------
CreateNext(p) ==
    \/ \E body \in Post : CreateProduct(p, body)
    \/ CreatePrice(p)
    \/ CreateRow(p)
    \/ CreateFails(p)

UpdateNext(u) ==
    \/ \E p \in CreatePlan, c \in Patch : UpdateRead(u, p, c)
    \/ UpdateProduct(u)
    \/ UpdatePrice(u)
    \/ ArchivePrice(u)
    \/ UpdateRow(u)
    \/ EditFails(u)

RemoveNext(r) ==
    \/ \E p \in CreatePlan : RemoveRead(r, p)
    \/ ArchivePrice(r)
    \/ ArchiveProduct(r)
    \/ RemoveRow(r)
    \/ EditFails(r)

RegisterNext(a) == RegisterCustomer(a) \/ RegisterSave(a) \/ RegisterFails(a)

BuyNext(b) ==
    \/ \E a \in Account : BuyReadUser(b, a)
    \/ \E p \in CreatePlan : BuyReadPlan(b, p)
    \/ BuyReadBilling(b)
    \/ BuyCreateCustomer(b)
    \/ BuySaveCustomer(b)
    \/ BuySession(b)
    \/ BuyFails(b)

CatalogNext ==
    \/ \E p \in CreatePlan : CreateNext(p)
    \/ \E u \in UpdatePlan : UpdateNext(u)
    \/ \E r \in RemovePlan : RemoveNext(r)
    \/ \E a \in Account : RegisterNext(a) \/ Approve(a) \/ Reject(a)
    \/ \E b \in Buy : BuyNext(b) \/ Subscribe(b)

CatalogSpec == CatalogInit /\ [][CatalogNext]_catalogVars

------------------------------------------------------------------------------
(* Properties *)

\* What Stripe charges for the price a row names is what the row says, at any moment
\* of an edit.  The rest (the price and the product can be bought, the product has
\* the title of the row) holds but for edits that are under way or stopped half-way:
\* the row could not be written, or a subscription kept it from being deleted.  Two
\* edits of a plan that overlap void both: each makes its price of the columns it
\* read and writes only the columns of its own body.
RowsAgreeWithStripe ==
    \A p \in listed \ overlapped :
        /\ charge[priceOf[p]] = Charged(terms[p])
        /\ \/ priceOf[p] \in price /\ p \in product /\ title[p] = terms[p]["title"]
           \/ \E q \in Editor : edit[q].pc \notin {"idle", "done"} /\ edit[q].plan = p

\* A session charges what the plan lists at the moment it is opened, though the
\* price was read several calls earlier: the old price is archived before the row
\* is rewritten.  Edits that overlap void this.
SessionsAreFair ==
    \A b \in Buy :
        buy[b].pc = "sold" /\ buy[b].plan \notin overlapped => buy[b].fair

\* A customer that no row names was made by a request that has not saved it yet or
\* stopped before it could; and a session is opened for the customer its account
\* names.  Two requests that make a customer of one account at once void both.
CustomersAreNamed ==
    /\ \A c \in customer :
         \/ \E a \in Account : billing[a] = c
         \/ c \in Account /\ (register[c] \in {"save", "failed"} \/ c \in raced)
         \/ c \in Buy /\ (buy[c].pc \in {"save", "failed"} \/ buy[c].account \in raced)
    /\ \A b \in Buy :
         buy[b].pc = "sold" /\ buy[b].account \notin raced =>
             buy[b].customer = billing[buy[b].account]

==============================================================================
