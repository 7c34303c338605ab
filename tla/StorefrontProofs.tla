------------------------- MODULE StorefrontProofs --------------------------
(***************************************************************************)
(* Type correctness, RowsAgreeWithStripe, SessionsAreFair and              *)
(* CustomersAreNamed of PlanCatalog, for any plans, edits, accounts and    *)
(* purchases, and the composition: a behaviour of the storefront is one    *)
(* of each of its three parts, whose theorems therefore hold of it.        *)
(*                                                                         *)
(* CatalogInv has a part for the plans and one for those who buy.          *)
(* PlanInv: which price a row may name (Named), who made a price (Made),   *)
(* that an edit that overlaps no other is alone and knows the row (Alone,  *)
(* Fresh), which prices are archived (ArchivedOnce, ArchivedSoon) and how  *)
(* far Stripe is ahead of the row at each stage of an edit (StagesOK).     *)
(* The rest: what a purchase has read (PurchasesOK), who made a customer   *)
(* (MakersOK), and that accounts name their own (AccountsOK, OpenedOK).    *)
(***************************************************************************)
EXTENDS MCStorefront, AccountsProofs

\* The plans that are being created.
CreateOK(p) ==
    /\ create[p] \in {"price", "row", "done"} => terms[p] \in Terms
    /\ create[p] # "done" => priceOf[p] = p /\ p \notin listed
    /\ create[p] \in {"price", "row"} => p \in product /\ title[p] = terms[p]["title"]
    /\ create[p] \in {"product", "price"} => p \notin price
    /\ create[p] = "row" => p \in price /\ charge[p] = Charged(terms[p])
    /\ create[p] = "done" /\ p \in product => p \in listed
CreatesOK == \A p \in CreatePlan : CreateOK(p)

\* The prices that the row of p has named.
Exposed(p, x) == x = p \/ (x \in UpdatePlan /\ edit[x].pc = "done" /\ edit[x].plan = p)
Named == \A p \in CreatePlan : Exposed(p, priceOf[p])

\* The edits.
Renewed(q) == NeedsPrice(edit[q].change, edit[q].terms)
EditOK(q) ==
    /\ create[edit[q].plan] = "done"
    /\ Exposed(edit[q].plan, edit[q].price)
    /\ edit[q].pc = "rename" => "title" \in DOMAIN edit[q].change
    /\ edit[q].pc \in {"rename", "price"} => q \in UpdatePlan
    /\ edit[q].pc = "archiveProduct" => q \in RemovePlan
    /\ q \in RemovePlan /\ edit[q].pc = "row" => edit[q].plan \notin product
    /\ q \in RemovePlan /\ edit[q].pc = "done" => edit[q].plan \notin listed
    /\ q \in UpdatePlan /\ edit[q].pc \in {"price", "archive"} => Renewed(q)
EditsOK == \A q \in Editor : edit[q].pc # "idle" => EditOK(q)

\* The prices that edits make.
MadeOK(u) ==
    /\ u \in price => edit[u].pc \in {"archive", "row", "done", "failed"} /\ Renewed(u)
    /\ edit[u].pc \in {"archive", "row"} /\ Renewed(u) =>
           u \in price /\ charge[u] = Charged(Spread(edit[u].terms, edit[u].change))
Made == \A u \in UpdatePlan : MadeOK(u)

\* An edit of a plan that knows no overlap is alone and knows the row.
Alone ==
    \A q, r \in Editor :
        /\ InFlight(q) /\ InFlight(r) /\ edit[q].plan = edit[r].plan
        /\ edit[q].plan \notin overlapped
        => q = r
Fresh ==
    \A q \in Editor :
        InFlight(q) /\ edit[q].plan \notin overlapped =>
            edit[q].terms = terms[edit[q].plan] /\ edit[q].price = priceOf[edit[q].plan]

\* A price that a row has named before is archived.
ArchivedOnce ==
    \A p \in CreatePlan \ overlapped, x \in price :
        create[p] = "done" /\ Exposed(p, x) => x = priceOf[p]
ArchivedSoon ==
    \A q \in Editor :
        /\ edit[q].pc \in {"archiveProduct", "row"}
        /\ edit[q].plan \notin overlapped
        /\ q \in UpdatePlan => Renewed(q)
        => edit[q].price \notin price

\* How far an edit is.
Charges == \A p \in listed \ overlapped : charge[priceOf[p]] = Charged(terms[p])
Stopped(p) == \E q \in Editor : edit[q].pc = "failed" /\ edit[q].plan = p
OnSale(p, x, t) == x \in price /\ p \in product /\ title[p] = t
Before(p) == OnSale(p, priceOf[p], terms[p]["title"])
NewTitle(q) == Spread(edit[q].terms, edit[q].change)["title"]
Stage(p, q) ==
    \/ q \in RemovePlan
    \/ edit[q].pc = "rename" /\ Before(p)
    \/ edit[q].pc = "price" /\ OnSale(p, priceOf[p], NewTitle(q))
    \/ edit[q].pc \in {"archive", "row"} /\ OnSale(p, NewPrice(q), NewTitle(q))
StagesOK ==
    \A p \in listed \ overlapped :
        /\ ~Stopped(p) /\ Editing(p) = {} => Before(p)
        /\ ~Stopped(p) => \A q \in Editing(p) : Stage(p, q)

PlanInv ==
    /\ CatalogTypeOK /\ CreatesOK /\ Named /\ EditsOK /\ Made /\ Alone /\ Fresh
    /\ ArchivedOnce /\ ArchivedSoon /\ Charges /\ StagesOK

\* The values a row has after a change, and the values Stripe is told.
LEMMA SpreadTypes ==
    ASSUME NEW t \in Terms, NEW c \in Columns
    PROVE  Spread(t, c) \in Terms
BY DEF Spread, Terms, Columns, Field

LEMMA ChargedTypes ==
    ASSUME NEW t \in Terms
    PROVE  Charged(t) \in [ChargedField -> Value]
BY DEF Charged, Terms, Field, ChargedField

\* An edit that has read its row holds values of its kind.
LEMMA EditTypes ==
    ASSUME CatalogTypeOK, NEW q \in Editor, edit[q].pc # "idle"
    PROVE  edit[q] \in EditState
BY DEF CatalogTypeOK, Idle

\* What requests carry.
LEMMA PatchTypes == Post \subseteq Terms /\ Patch \subseteq Columns
BY CatalogAssumption

LEMMA NoChangeTypes == NoChange \in Columns
BY DEF NoChange, Columns

\* At first there are no plans and no edits.
LEMMA InitPlans == ASSUME CatalogInit PROVE PlanInv
<1> USE DEF CatalogInit
<1>1. CatalogTypeOK
  BY DEF CatalogTypeOK, Price, CreatePc, Idle, RegisterPc, Customer, ChargedField, Field
<1>2. \A q \in Editor : edit[q].pc = "idle"
  BY DEF Idle
<1>3. CreatesOK /\ Named
  BY DEF CreatesOK, CreateOK, Named, Exposed
<1>4. EditsOK /\ Made /\ Alone /\ Fresh
  BY <1>2 DEF EditsOK, Made, MadeOK, Alone, Fresh, InFlight, Editor
<1>5. ArchivedOnce /\ ArchivedSoon /\ Charges /\ StagesOK
  BY <1>2 DEF ArchivedOnce, ArchivedSoon, Charges, StagesOK
<1> QED
  BY <1>1, <1>3, <1>4, <1>5 DEF PlanInv

------------------------------------------------------------------------------
\* What an edit's step leaves of it.
EditAt(q, pc) ==
    /\ edit'[q].pc = pc
    /\ edit'[q].plan = edit[q].plan /\ edit'[q].change = edit[q].change
    /\ edit'[q].terms = edit[q].terms /\ edit'[q].price = edit[q].price
    /\ \A r \in Editor \ {q} : edit'[r] = edit[r]

EditPc == {"rename", "price", "archive", "archiveProduct", "row", "done", "failed"}

\* An edit takes a step.
LEMMA EditMoves ==
    ASSUME CatalogTypeOK, NEW q \in Editor, edit[q].pc # "idle", NEW pc \in EditPc,
           edit' = [edit EXCEPT ![q].pc = pc]
    PROVE  EditAt(q, pc) /\ edit' \in [Editor -> {Idle} \cup EditState]
<1>1. edit[q] \in EditState
  BY EditTypes
<1>2. PICK e : e = [edit[q] EXCEPT !.pc = pc]
  OBVIOUS
<1>3. /\ e.pc = pc /\ e.plan = edit[q].plan /\ e.change = edit[q].change
      /\ e.terms = edit[q].terms /\ e.price = edit[q].price
  BY <1>1, <1>2 DEF EditState
<1>4. e \in EditState
  BY <1>1, <1>2 DEF EditState, EditPc
<1>5. edit' = [edit EXCEPT ![q] = e]
  BY <1>2
<1>6. edit \in [Editor -> {Idle} \cup EditState]
  BY DEF CatalogTypeOK
<1> HIDE DEF EditState, Idle
<1>7. edit'[q] = e /\ \A r \in Editor \ {q} : edit'[r] = edit[r]
  BY <1>5, <1>6
<1> QED
  BY <1>3, <1>4, <1>5, <1>6, <1>7 DEF EditAt

\* An edit reads its row.
LEMMA EditStarts ==
    ASSUME CatalogTypeOK, NEW q \in Editor, NEW e \in EditState, edit' = [edit EXCEPT ![q] = e]
    PROVE  /\ edit'[q] = e /\ \A r \in Editor \ {q} : edit'[r] = edit[r]
           /\ edit' \in [Editor -> {Idle} \cup EditState]
BY DEF CatalogTypeOK

\* Types.
LEMMA CreateTypes ==
    ASSUME PlanInv, NEW p \in CreatePlan, CreateNext(p)
    PROVE  CatalogTypeOK'
<1> USE DEF PlanInv, CatalogTypeOK, CreatePc, accountVars
<1>1. ASSUME NEW body \in Post, CreateProduct(p, body) PROVE CatalogTypeOK'
  <2>1. body \in [Field -> Value \cup {NoValue}] /\ body["title"] \in Value
    BY PatchTypes DEF Terms, Field
  <2> QED
    BY <1>1, <2>1 DEF CreateProduct
<1>2. ASSUME CreatePrice(p) PROVE CatalogTypeOK'
  <2>1. terms[p] \in Terms
    BY <1>2 DEF CreatePrice, CreatesOK, CreateOK
  <2>2. Charged(terms[p]) \in [ChargedField -> Value \cup {NoValue}]
    BY <2>1, ChargedTypes
  <2>3. charge' \in [Price -> [ChargedField -> Value \cup {NoValue}]]
    BY <1>2, <2>2 DEF CreatePrice
  <2> QED
    BY <1>2, <2>3 DEF CreatePrice, Price
<1>3. ASSUME CreateRow(p) PROVE CatalogTypeOK'
  BY <1>3 DEF CreateRow
<1>4. ASSUME CreateFails(p) PROVE CatalogTypeOK'
  BY <1>4 DEF CreateFails
<1> QED
  BY <1>1, <1>2, <1>3, <1>4 DEF CreateNext

\* The edits read only plans that exist.
LEMMA NotEdited ==
    ASSUME PlanInv, NEW p \in CreatePlan, create[p] # "done"
    PROVE  /\ p \notin listed
           /\ \A q \in Editor : edit[q].pc # "idle" => edit[q].plan # p
           /\ priceOf[p] = p /\ p \notin UpdatePlan
           /\ \A q \in Editor : edit[q].pc # "idle" => edit[q].price # p
           /\ \A r \in CreatePlan : priceOf[r] = p => r = p
BY CatalogAssumption
   DEF PlanInv, EditsOK, EditOK, CreatesOK, CreateOK, Named, Exposed, Editor

\* createPlan leaves the edits alone, makes its own product, price and row, and keeps
\* the invariant.
LEMMA CreateEdits ==
    ASSUME PlanInv, NEW p \in CreatePlan, CreateNext(p)
    PROVE  /\ create[p] # "done" /\ create' = [create EXCEPT ![p] = create'[p]]
           /\ UNCHANGED <<edit, priceOf, overlapped>>
           /\ \A r \in CreatePlan \ {p} :
                create'[r] = create[r] /\ terms'[r] = terms[r] /\ title'[r] = title[r]
           /\ \A x \in Price \ {p} : charge'[x] = charge[x]
           /\ price \subseteq price' /\ price' \subseteq price \cup {p}
           /\ listed \subseteq listed' /\ listed' \subseteq listed \cup {p}
           /\ product \subseteq product' /\ product' \subseteq product \cup {p}
           /\ create'[p] # "done" => listed' = listed
           /\ create'[p] = "done" =>
                create[p] = "row" /\ UNCHANGED <<terms, title, price, charge, product>>
BY DEF CreateNext, CreateProduct, CreatePrice, CreateRow, CreateFails, PlanInv, CatalogTypeOK

LEMMA CreateCreates ==
    ASSUME PlanInv, NEW p \in CreatePlan, CreateNext(p)
    PROVE  CreatesOK'
<1> SUFFICES ASSUME NEW r \in CreatePlan PROVE CreateOK(r)'
  BY DEF CreatesOK
<1>0. CreateOK(r) /\ CreateOK(p) /\ CatalogTypeOK
  BY DEF PlanInv, CreatesOK
<1>1. CASE r # p
  <2>1. r \notin UpdatePlan /\ r \in Price
    BY CatalogAssumption DEF Price
  <2> QED
    BY <1>0, <1>1, <2>1, CreateEdits DEF CreateOK
<1>2. CASE r = p
  <2>1. ASSUME NEW body \in Post, CreateProduct(p, body) PROVE CreateOK(r)'
    BY <1>0, <1>2, <2>1, PatchTypes DEF CreateProduct, CreateOK, CatalogTypeOK
  <2>2. ASSUME CreatePrice(p) PROVE CreateOK(r)'
    <3>1. charge'[p] = Charged(terms[p])
      BY <1>0, <2>2 DEF CreatePrice, CatalogTypeOK, Price
    <3> QED
      BY <1>0, <1>2, <2>2, <3>1 DEF CreatePrice, CreateOK, CatalogTypeOK
  <2>3. ASSUME CreateRow(p) PROVE CreateOK(r)'
    BY <1>0, <1>2, <2>3 DEF CreateRow, CreateOK, CatalogTypeOK
  <2>4. ASSUME CreateFails(p) PROVE CreateOK(r)'
    BY <1>0, <1>2, <2>4 DEF CreateFails, CreateOK, CatalogTypeOK
  <2> QED
    BY <2>1, <2>2, <2>3, <2>4 DEF CreateNext
<1> QED
  BY <1>1, <1>2

LEMMA CreateStep ==
    ASSUME PlanInv, NEW p \in CreatePlan, CreateNext(p)
    PROVE  PlanInv'
<1>0. CatalogTypeOK /\ CatalogTypeOK' /\ CreatesOK'
  BY CreateTypes, CreateCreates DEF PlanInv
<1>1. /\ create[p] # "done" /\ create' = [create EXCEPT ![p] = create'[p]]
      /\ UNCHANGED <<edit, priceOf, overlapped>>
      /\ \A r \in CreatePlan \ {p} :
           create'[r] = create[r] /\ terms'[r] = terms[r] /\ title'[r] = title[r]
      /\ \A x \in Price \ {p} : charge'[x] = charge[x]
      /\ price \subseteq price' /\ price' \subseteq price \cup {p}
      /\ listed \subseteq listed' /\ listed' \subseteq listed \cup {p}
      /\ product \subseteq product' /\ product' \subseteq product \cup {p}
      /\ create'[p] # "done" => listed' = listed
      /\ create'[p] = "done" =>
           create[p] = "row" /\ UNCHANGED <<terms, title, price, charge, product>>
  BY CreateEdits
<1>2. /\ p \notin listed
      /\ \A q \in Editor : edit[q].pc # "idle" => edit[q].plan # p
      /\ priceOf[p] = p /\ p \notin UpdatePlan
      /\ \A q \in Editor : edit[q].pc # "idle" => edit[q].price # p
      /\ \A r \in CreatePlan : priceOf[r] = p => r = p
  BY <1>1, NotEdited
<1>3. \A q \in Editor : edit[q].pc # "idle" => edit[q].plan \in CreatePlan \ {p}
  BY <1>0, <1>2, EditTypes DEF EditState
<1>4. Named'
  BY <1>1 DEF PlanInv, Named, Exposed
<1>5. EditsOK'
  <2> SUFFICES ASSUME NEW q \in Editor, edit[q].pc # "idle" PROVE EditOK(q)'
    BY <1>1 DEF EditsOK
  <2>1. EditOK(q)
    BY DEF PlanInv, EditsOK
  <2> QED
    BY <1>1, <1>2, <1>3, <2>1 DEF EditOK, Exposed, Renewed, NeedsPrice
<1>6. Made'
  <2> SUFFICES ASSUME NEW u \in UpdatePlan PROVE MadeOK(u)'
    BY DEF Made
  <2>1. MadeOK(u) /\ u # p /\ u \in Price \ {p}
    BY <1>2 DEF PlanInv, Made, Price
  <2> QED
    BY <1>1, <2>1 DEF MadeOK, Renewed, NeedsPrice
<1>7. Alone'
  BY <1>1 DEF PlanInv, Alone, InFlight
<1>8. Fresh'
  BY <1>1, <1>3 DEF PlanInv, Fresh, InFlight
<1>9. ArchivedOnce'
  <2> SUFFICES ASSUME NEW r \in CreatePlan \ overlapped, NEW x \in price',
                      create'[r] = "done", Exposed(r, x)
               PROVE  x = priceOf[r]
    BY <1>1 DEF ArchivedOnce, Exposed
  <2>1. CASE r = p
    BY <1>1, <1>2, <2>1 DEF Exposed, Editor
  <2>2. CASE r # p
    <3>1. x # p
      BY <1>2, <2>2 DEF Exposed
    <3> QED
      BY <1>1, <2>2, <3>1 DEF PlanInv, ArchivedOnce
  <2> QED
    BY <2>1, <2>2
<1>10. ArchivedSoon'
  <2> SUFFICES ASSUME NEW q \in Editor, edit[q].pc \in {"archiveProduct", "row"},
                      edit[q].plan \notin overlapped, q \in UpdatePlan => Renewed(q)
               PROVE  edit[q].price \notin price'
    BY <1>1 DEF ArchivedSoon, Renewed, NeedsPrice
  <2> QED
    BY <1>1, <1>2 DEF PlanInv, ArchivedSoon
<1>11. Charges'
  <2> SUFFICES ASSUME NEW r \in listed' \ overlapped
               PROVE  charge'[priceOf[r]] = Charged(terms'[r])
    BY <1>1 DEF Charges, Charged
  <2>1. CASE r = p
    <3>1. create[p] = "row" /\ UNCHANGED <<terms, charge>>
      BY <1>1, <1>2, <2>1
    <3> QED
      BY <1>2, <2>1, <3>1 DEF PlanInv, CreatesOK, CreateOK
  <2>2. CASE r # p
    <3>1. r \in listed /\ priceOf[r] # p /\ r \in CreatePlan /\ priceOf[r] \in Price
      BY <1>0, <1>1, <1>2, <2>2 DEF CatalogTypeOK
    <3> QED
      BY <1>1, <2>2, <3>1 DEF PlanInv, Charges, Charged
  <2> QED
    BY <2>1, <2>2
<1>12. StagesOK'
  <2> SUFFICES ASSUME NEW r \in listed' \ overlapped,
                      ~ \E q \in Editor : edit[q].pc = "failed" /\ edit[q].plan = r
               PROVE  /\ Editing(r)' = {} => Before(r)'
                      /\ \A q \in Editing(r)' : Stage(r, q)'
    BY <1>1 DEF StagesOK, Stopped
  <2>0. Editing(r)' = Editing(r)
    BY <1>1 DEF Editing, InFlight
  <2>1. CASE r = p
    <3>1. create[p] = "row" /\ UNCHANGED <<terms, title, price, product>>
      BY <1>1, <1>2, <2>1
    <3>2. Before(p)'
      BY <1>1, <1>2, <3>1 DEF PlanInv, CreatesOK, CreateOK, Before, OnSale
    <3>3. Editing(p) = {}
      BY <1>2 DEF Editing, InFlight
    <3> QED
      BY <2>0, <2>1, <3>2, <3>3
  <2>2. CASE r # p
    <3>1. r \in listed /\ r \in CreatePlan \ {p} /\ ~Stopped(r)
      BY <1>0, <1>1, <2>2 DEF CatalogTypeOK, Stopped
    <3>2. Before(r) => Before(r)'
      BY <1>1, <3>1 DEF Before, OnSale
    <3>3. ASSUME NEW q \in Editing(r), Stage(r, q) PROVE Stage(r, q)'
      BY <1>1, <3>1, <3>2, <3>3 DEF Stage, OnSale, NewTitle, NewPrice, NeedsPrice, Spread
    <3> QED
      BY <2>0, <3>1, <3>2, <3>3 DEF PlanInv, StagesOK
  <2> QED
    BY <2>1, <2>2
<1> QED
  BY <1>0, <1>4, <1>5, <1>6, <1>7, <1>8, <1>9, <1>10, <1>11, <1>12 DEF PlanInv

rowVars == <<listed, terms, priceOf, product, title, price, charge, create>>

\* What an edit knows when it has read the row of p.
Begun(q, p, e) ==
    /\ e.plan = p /\ e.terms = terms[p] /\ e.price = priceOf[p]
    /\ q \in RemovePlan => e.pc = "archive"
    /\ q \in UpdatePlan =>
         \/ e.pc = "rename" /\ "title" \in DOMAIN e.change
         \/ /\ e.pc = "price" /\ NeedsPrice(e.change, e.terms)
            /\ Spread(e.terms, e.change)["title"] = terms[p]["title"]
         \/ /\ e.pc = "row" /\ ~NeedsPrice(e.change, e.terms)
            /\ Spread(e.terms, e.change)["title"] = terms[p]["title"]

\* updatePlan and removePlan read the row.
LEMMA UpdateBegins ==
    ASSUME PlanInv, NEW u \in UpdatePlan, NEW p \in CreatePlan, NEW c \in Patch,
           UpdateRead(u, p, c)
    PROVE  \E e \in EditState : edit' = [edit EXCEPT ![u] = e] /\ Begun(u, p, e)
<1>1. PICK e : e = [pc |-> IF Differs(c, p, "title") THEN "rename"
                           ELSE IF NeedsPrice(c, terms[p]) THEN "price" ELSE "row",
                    plan |-> p, change |-> c, terms |-> terms[p], price |-> priceOf[p]]
  OBVIOUS
<1>2. /\ e.pc = IF Differs(c, p, "title") THEN "rename"
                ELSE IF NeedsPrice(c, terms[p]) THEN "price" ELSE "row"
      /\ e.plan = p /\ e.change = c /\ e.terms = terms[p] /\ e.price = priceOf[p]
  BY <1>1
<1>3. terms[p] \in Terms /\ c \in Columns /\ priceOf[p] \in Price
  BY PatchTypes DEF UpdateRead, PlanInv, CreatesOK, CreateOK, CatalogTypeOK
<1>4. e \in EditState
  BY <1>1, <1>3 DEF EditState
<1>5. u \notin RemovePlan
  BY CatalogAssumption
<1>6. ~Differs(c, p, "title") => Spread(e.terms, e.change)["title"] = terms[p]["title"]
  BY <1>2 DEF Differs, Spread, Field
<1>7. Differs(c, p, "title") => "title" \in DOMAIN e.change
  BY <1>2 DEF Differs
<1>8. Begun(u, p, e)
  BY <1>2, <1>5, <1>6, <1>7 DEF Begun
<1> QED
  BY <1>1, <1>4, <1>8 DEF UpdateRead

LEMMA RemoveBegins ==
    ASSUME PlanInv, NEW r \in RemovePlan, NEW p \in CreatePlan, RemoveRead(r, p)
    PROVE  \E e \in EditState : edit' = [edit EXCEPT ![r] = e] /\ Begun(r, p, e)
<1>1. PICK e : e = [pc |-> "archive", plan |-> p, change |-> NoChange, terms |-> terms[p],
                    price |-> priceOf[p]]
  OBVIOUS
<1>2. e.pc = "archive" /\ e.plan = p /\ e.terms = terms[p] /\ e.price = priceOf[p]
  BY <1>1
<1>3. terms[p] \in Terms /\ priceOf[p] \in Price
  BY DEF RemoveRead, PlanInv, CreatesOK, CreateOK, CatalogTypeOK
<1>4. e \in EditState
  BY <1>1, <1>3, NoChangeTypes DEF EditState
<1>5. r \notin UpdatePlan
  BY CatalogAssumption
<1>6. Begun(r, p, e)
  BY <1>2, <1>5 DEF Begun
<1> QED
  BY <1>1, <1>4, <1>6 DEF RemoveRead

\* Another edit in flight makes the plan overlapped; a first one knows the row.
LEMMA StartStep ==
    ASSUME PlanInv, NEW q \in Editor, NEW p \in listed, edit[q].pc = "idle",
           NEW e \in EditState, edit' = [edit EXCEPT ![q] = e], Begun(q, p, e),
           NoteOverlap(p), UNCHANGED <<rowVars, subscribed, accountVars>>
    PROVE  PlanInv'
<1> USE DEF rowVars
<1>0. CatalogTypeOK /\ p \in CreatePlan /\ create[p] = "done" /\ terms[p] \in Terms
  BY DEF PlanInv, CatalogTypeOK, CreatesOK, CreateOK
<1>1. /\ edit'[q] = e /\ \A r \in Editor \ {q} : edit'[r] = edit[r]
      /\ edit' \in [Editor -> {Idle} \cup EditState]
  BY <1>0, EditStarts
<1>2. e.pc \in {"rename", "price", "archive", "row"}
  BY DEF Begun, Editor
<1>3. \A r \in CreatePlan : \A x : Exposed(r, x)' <=> Exposed(r, x)
  BY <1>1, <1>2 DEF Exposed, Editor
<1>4. overlapped \subseteq overlapped' /\ overlapped' \subseteq overlapped \cup {p}
  BY DEF NoteOverlap
<1>5. p \notin overlapped' => Editing(p) = {}
  BY DEF NoteOverlap
<1>6. CatalogTypeOK'
  BY <1>0, <1>1, <1>4 DEF CatalogTypeOK, accountVars
<1>7. CreatesOK' /\ Named'
  BY <1>3 DEF PlanInv, CreatesOK, CreateOK, Named
<1>8. EditsOK'
  <2> SUFFICES ASSUME NEW r \in Editor, edit'[r].pc # "idle" PROVE EditOK(r)'
    BY DEF EditsOK
  <2>1. CASE r = q
    <3>1. Exposed(p, priceOf[p])
      BY <1>0 DEF PlanInv, Named
    <3>2. q \notin RemovePlan \/ q \notin UpdatePlan
      BY CatalogAssumption
    <3> QED
      BY <1>0, <1>1, <1>2, <1>3, <2>1, <3>1, <3>2 DEF EditOK, Begun, Editor, Renewed, NeedsPrice
  <2>2. CASE r # q
    <3>1. EditOK(r) /\ edit[r].plan \in CreatePlan /\ edit'[r] = edit[r]
      BY <1>0, <1>1, <2>2, EditTypes DEF PlanInv, EditsOK, EditState
    <3> QED
      BY <1>3, <3>1 DEF EditOK, Renewed, NeedsPrice
  <2> QED
    BY <2>1, <2>2
<1>9. Made'
  <2> SUFFICES ASSUME NEW u \in UpdatePlan PROVE MadeOK(u)'
    BY DEF Made
  <2>0. MadeOK(u) /\ u \in Editor
    BY DEF PlanInv, Made, Editor
  <2>1. CASE u = q
    BY <1>1, <2>0, <2>1, CatalogAssumption DEF MadeOK, Begun, Renewed, NeedsPrice
  <2>2. CASE u # q
    BY <1>1, <2>0, <2>2 DEF MadeOK, Renewed, NeedsPrice
  <2> QED
    BY <2>1, <2>2
<1>10. Alone'
  <2> SUFFICES ASSUME NEW r \in Editor, NEW s \in Editor, InFlight(r)', InFlight(s)',
                      edit'[r].plan = edit'[s].plan, edit'[r].plan \notin overlapped', r # s
               PROVE  FALSE
    BY DEF Alone
  <2>1. CASE r # q /\ s # q
    BY <1>1, <1>4, <2>1 DEF PlanInv, Alone, InFlight
  <2>2. CASE r = q
    BY <1>1, <1>5, <2>2 DEF InFlight, Editing, Begun
  <2>3. CASE s = q
    BY <1>1, <1>5, <2>3 DEF InFlight, Editing, Begun
  <2> QED
    BY <2>1, <2>2, <2>3
<1>11. Fresh'
  <2> SUFFICES ASSUME NEW r \in Editor, InFlight(r)', edit'[r].plan \notin overlapped'
               PROVE  edit'[r].terms = terms[edit'[r].plan] /\ edit'[r].price = priceOf[edit'[r].plan]
    BY DEF Fresh
  <2>1. CASE r = q
    BY <1>1, <2>1 DEF Begun
  <2>2. CASE r # q
    BY <1>1, <1>4, <2>2 DEF PlanInv, Fresh, InFlight
  <2> QED
    BY <2>1, <2>2
<1>12. ArchivedOnce'
  BY <1>3, <1>4 DEF PlanInv, ArchivedOnce
<1>13. ArchivedSoon'
  <2> SUFFICES ASSUME NEW r \in Editor, edit'[r].pc \in {"archiveProduct", "row"},
                      edit'[r].plan \notin overlapped', r \in UpdatePlan => Renewed(r)'
               PROVE  edit'[r].price \notin price
    BY DEF ArchivedSoon
  <2>1. CASE r = q
    BY <1>1, <2>1 DEF Begun, Renewed, NeedsPrice, Editor
  <2>2. CASE r # q
    BY <1>1, <1>4, <2>2 DEF PlanInv, ArchivedSoon, Renewed, NeedsPrice
  <2> QED
    BY <2>1, <2>2
<1>14. Charges'
  BY <1>4 DEF PlanInv, Charges, Charged
<1>15. StagesOK'
  <2> SUFFICES ASSUME NEW r \in listed \ overlapped', ~Stopped(r)'
               PROVE  /\ Editing(r)' = {} => Before(r)'
                      /\ \A s \in Editing(r)' : Stage(r, s)'
    BY DEF StagesOK
  <2>1. ~Stopped(r) /\ r \in listed \ overlapped
    BY <1>1, <1>2, <1>4 DEF Stopped
  <2>2. Before(r)' <=> Before(r)
    BY DEF Before, OnSale
  <2>3. CASE r = p
    <3>1. Editing(p) = {} /\ Before(p)
      BY <1>5, <2>1, <2>3 DEF PlanInv, StagesOK
    <3>2. Editing(p)' = {q}
      BY <1>1, <1>2, <3>1 DEF Editing, InFlight, Begun
    <3>3. CASE q \in RemovePlan
      BY <2>3, <3>2, <3>3 DEF Stage
    <3>4. CASE q \in UpdatePlan /\ e.pc = "rename"
      BY <1>1, <2>2, <2>3, <3>1, <3>2, <3>4 DEF Stage
    <3>5. CASE q \in UpdatePlan /\ e.pc = "price"
      BY <1>1, <2>3, <3>1, <3>2, <3>5 DEF Stage, Before, OnSale, NewTitle, Begun, Spread
    <3>6. CASE q \in UpdatePlan /\ e.pc = "row"
      <4>1. NewPrice(q)' = priceOf[p] /\ NewTitle(q)' = terms[p]["title"]
        BY <1>1, <3>6 DEF NewPrice, NewTitle, Begun, NeedsPrice, Spread
      <4> QED
        BY <1>1, <2>3, <3>1, <3>2, <3>6, <4>1 DEF Stage, Before, OnSale
    <3> QED
      BY <3>3, <3>4, <3>5, <3>6 DEF Begun, Editor
  <2>4. CASE r # p
    <3>1. Editing(r)' = Editing(r) /\ q \notin Editing(r)
      BY <1>1, <2>4 DEF Editing, InFlight, Begun
    <3>2. ASSUME NEW s \in Editing(r), Stage(r, s) PROVE Stage(r, s)'
      <4>1. s \in Editor /\ edit'[s] = edit[s]
        BY <1>1, <3>1 DEF Editing
      <4> QED
        BY <3>2, <4>1 DEF Stage, Before, OnSale, NewTitle, NewPrice, NeedsPrice, Spread
    <3> QED
      BY <2>1, <2>2, <3>1, <3>2 DEF PlanInv, StagesOK
  <2> QED
    BY <2>3, <2>4
<1> QED
  BY <1>6, <1>7, <1>8, <1>9, <1>10, <1>11, <1>12, <1>13, <1>14, <1>15 DEF PlanInv

\* An edit that is in flight has not been answered: nothing depends on its price.
LEMMA EditKnows ==
    ASSUME PlanInv, NEW q \in Editor, InFlight(q)
    PROVE  /\ edit[q].pc \notin {"idle", "done", "failed"}
           /\ edit[q] \in EditState /\ EditOK(q)
           /\ edit[q].plan \in CreatePlan /\ create[edit[q].plan] = "done"
           /\ edit[q].change \in Columns /\ edit[q].terms \in Terms /\ edit[q].price \in Price
           /\ \A p \in CreatePlan : q \in UpdatePlan => ~Exposed(p, q)
<1>1. edit[q].pc \notin {"idle", "done", "failed"}
  BY DEF InFlight
<1>2. edit[q] \in EditState /\ EditOK(q)
  BY <1>1, EditTypes DEF PlanInv, EditsOK
<1>3. \A p \in CreatePlan : q \in UpdatePlan => ~Exposed(p, q)
  BY <1>1, CatalogAssumption DEF Exposed
<1> QED
  BY <1>1, <1>2, <1>3 DEF EditState, EditOK

\* Two edits in flight of a plan that knows no overlap are one.
LEMMA OneOwner ==
    ASSUME PlanInv, NEW p \in CreatePlan, NEW r \in CreatePlan, NEW x,
           Exposed(p, x), Exposed(r, x)
    PROVE  p = r
BY CatalogAssumption DEF Exposed

\* A step of q that is not its last write to a row.
LEMMA EditAdvances ==
    ASSUME PlanInv, NEW q \in Editor, InFlight(q), NEW pc \in EditPc, EditAt(q, pc),
           q \in UpdatePlan => pc # "done", UNCHANGED <<terms, priceOf, overlapped, create>>
    PROVE  /\ Named' /\ Alone' /\ Fresh'
           /\ \A p, x : Exposed(p, x)' <=> Exposed(p, x)
           /\ \A r \in Editor :
                /\ Renewed(r)' <=> Renewed(r)
                /\ NewTitle(r)' = NewTitle(r) /\ NewPrice(r)' = NewPrice(r)
                /\ edit'[r].pc # "idle" => edit[r].pc # "idle"
                /\ edit'[r].plan = edit[r].plan /\ edit'[r].price = edit[r].price
                /\ edit'[r].change = edit[r].change
           /\ \A p : Editing(p)' \subseteq Editing(p) /\ (p # edit[q].plan => Editing(p)' = Editing(p))
           /\ \A p : p \notin overlapped /\ p = edit[q].plan => Editing(p) = {q}
           /\ \A p : Stopped(p) => Stopped(p)'
<1>0. edit[q].pc \notin {"idle", "done", "failed"}
  BY EditKnows
<1>1. \A p, x : Exposed(p, x)' <=> Exposed(p, x)
  BY <1>0 DEF EditAt, Exposed, Editor
<1>2. Named'
  BY <1>1 DEF PlanInv, Named
<1>3. \A r \in Editor :
        /\ edit'[r].pc # "idle" => edit[r].pc # "idle"
        /\ edit'[r].plan = edit[r].plan /\ edit'[r].price = edit[r].price
        /\ edit'[r].change = edit[r].change /\ edit'[r].terms = edit[r].terms
        /\ InFlight(r)' => InFlight(r)
        /\ r # q => edit'[r] = edit[r]
  BY <1>0 DEF EditAt, InFlight, EditPc
<1>4. Alone' /\ Fresh'
  BY <1>3 DEF PlanInv, Alone, Fresh
<1>5. \A r \in Editor : /\ Renewed(r)' <=> Renewed(r)
                        /\ NewTitle(r)' = NewTitle(r) /\ NewPrice(r)' = NewPrice(r)
  BY <1>3 DEF Renewed, NeedsPrice, NewTitle, NewPrice, Spread
<1>6. \A p : Editing(p)' \subseteq Editing(p) /\ (p # edit[q].plan => Editing(p)' = Editing(p))
  BY <1>3 DEF Editing, InFlight
<1>7. \A p : p \notin overlapped /\ p = edit[q].plan => Editing(p) = {q}
  BY DEF PlanInv, Alone, Editing
<1>8. \A p : Stopped(p) => Stopped(p)'
  BY <1>0, <1>3 DEF Stopped
<1> QED
  BY <1>1, <1>2, <1>3, <1>4, <1>5, <1>6, <1>7, <1>8

\* Nothing was sold short of the other plans.
LEMMA StagesElsewhere ==
    ASSUME PlanInv, NEW q \in Editor, InFlight(q), NEW pc \in EditPc, EditAt(q, pc),
           q \in UpdatePlan => pc # "done", UNCHANGED <<terms, priceOf, overlapped, create>>,
           NEW p \in CreatePlan \ overlapped, p # edit[q].plan, p \in listed, ~Stopped(p)',
           title'[p] = title[p], p \in product => p \in product',
           \A x \in price : Exposed(p, x) => x \in price',
           \A s \in UpdatePlan \cap price : InFlight(s) => s \in price'
    PROVE  /\ Editing(p)' = {} => Before(p)'
           /\ \A s \in Editing(p)' : Stage(p, s)'
<1>1. /\ \A r, x : Exposed(r, x)' <=> Exposed(r, x)
      /\ \A r \in Editor :
           /\ NewTitle(r)' = NewTitle(r) /\ NewPrice(r)' = NewPrice(r)
      /\ Editing(p)' = Editing(p)
      /\ ~Stopped(p)
  BY EditAdvances
<1>2. Before(p) => Before(p)'
  BY DEF PlanInv, Named, Before, OnSale
<1>3. ASSUME NEW s \in Editing(p), Stage(p, s) PROVE Stage(p, s)'
  <2>1. s \in Editor /\ edit'[s] = edit[s] /\ InFlight(s) /\ edit[s].plan = p
    BY DEF Editing, EditAt
  <2>2. EditOK(s)
    BY <2>1, EditKnows
  <2>3. NewPrice(s) \in price /\ s \notin RemovePlan => NewPrice(s) \in price'
    BY <2>1, <2>2 DEF NewPrice, EditOK, Editor
  <2>4. priceOf[p] \in price => priceOf[p] \in price'
    BY DEF PlanInv, Named
  <2> QED
    BY <1>1, <1>2, <1>3, <2>1, <2>3, <2>4 DEF Stage, OnSale
<1> QED
  BY <1>1, <1>2, <1>3 DEF PlanInv, StagesOK

\* A call of an edit fails: what it has done at Stripe stays.
LEMMA EditFailsStep ==
    ASSUME PlanInv, NEW q \in Editor, EditFails(q)
    PROVE  PlanInv'
<1> USE DEF EditFails
<1>0. CatalogTypeOK /\ edit[q].pc \notin {"idle", "done", "failed"}
  BY DEF PlanInv, InFlight
<1>1. EditAt(q, "failed") /\ edit' \in [Editor -> {Idle} \cup EditState]
  BY <1>0, EditMoves DEF EditPc
<1>2. /\ Named' /\ Alone' /\ Fresh'
      /\ \A p, x : Exposed(p, x)' <=> Exposed(p, x)
      /\ \A r \in Editor :
           /\ Renewed(r)' <=> Renewed(r)
           /\ NewTitle(r)' = NewTitle(r) /\ NewPrice(r)' = NewPrice(r)
           /\ edit'[r].pc # "idle" => edit[r].pc # "idle"
           /\ edit'[r].plan = edit[r].plan /\ edit'[r].price = edit[r].price
           /\ edit'[r].change = edit[r].change
  BY <1>1, EditAdvances DEF EditPc
<1>3. CatalogTypeOK'
  BY <1>0, <1>1 DEF CatalogTypeOK, accountVars
<1>4. CreatesOK' /\ ArchivedOnce' /\ Charges'
  BY <1>2 DEF PlanInv, CreatesOK, CreateOK, ArchivedOnce, Charges, Charged
<1>5. EditsOK'
  <2> SUFFICES ASSUME NEW r \in Editor, edit'[r].pc # "idle" PROVE EditOK(r)'
    BY DEF EditsOK
  <2>1. EditOK(r)
    BY <1>2 DEF PlanInv, EditsOK
  <2> QED
    BY <1>1, <1>2, <2>1 DEF EditOK, EditAt
<1>6. Made'
  BY <1>0, <1>1, <1>2 DEF PlanInv, Made, MadeOK, EditAt, Editor, Spread, Charged
<1>7. ArchivedSoon'
  BY <1>1, <1>2 DEF PlanInv, ArchivedSoon, EditAt
<1>8. StagesOK'
  <2> SUFFICES ASSUME NEW p \in listed \ overlapped, ~Stopped(p)'
               PROVE  /\ Editing(p)' = {} => Before(p)'
                      /\ \A s \in Editing(p)' : Stage(p, s)'
    BY DEF StagesOK
  <2>1. p # edit[q].plan /\ p \in CreatePlan
    BY <1>0, <1>1 DEF Stopped, EditAt, CatalogTypeOK
  <2> QED
    BY <1>1, <2>1, StagesElsewhere DEF EditPc
<1> QED
  BY <1>2, <1>3, <1>4, <1>5, <1>6, <1>7, <1>8 DEF PlanInv

\* products.update, prices.create, the two archivings, the delete and the row update:
\* each takes the edit to its next stage.
LEMMA UpdateProductStep ==
    ASSUME PlanInv, NEW u \in UpdatePlan, UpdateProduct(u)
    PROVE  PlanInv'
<1> DEFINE pc == IF Renewed(u) THEN "price" ELSE "row"
           p == edit[u].plan
<1> USE DEF UpdateProduct
<1>0. CatalogTypeOK /\ u \in Editor /\ InFlight(u) /\ u \notin RemovePlan
  BY CatalogAssumption DEF PlanInv, InFlight, Editor
<1>1. /\ edit[u] \in EditState /\ EditOK(u) /\ p \in CreatePlan /\ create[p] = "done"
      /\ edit[u].change \in Columns /\ edit[u].terms \in Terms
  BY <1>0, EditKnows
<1>2. EditAt(u, pc) /\ edit' \in [Editor -> {Idle} \cup EditState] /\ pc \in EditPc
  BY <1>0, EditMoves DEF EditPc, Renewed
<1> HIDE DEF pc
<1>3. /\ Named' /\ Alone' /\ Fresh'
      /\ \A r, x : Exposed(r, x)' <=> Exposed(r, x)
      /\ \A r \in Editor :
           /\ Renewed(r)' <=> Renewed(r)
           /\ NewTitle(r)' = NewTitle(r) /\ NewPrice(r)' = NewPrice(r)
           /\ edit'[r].pc # "idle" => edit[r].pc # "idle"
           /\ edit'[r].plan = edit[r].plan /\ edit'[r].price = edit[r].price
           /\ edit'[r].change = edit[r].change
      /\ \A r : Editing(r)' \subseteq Editing(r)
      /\ \A r : r \notin overlapped /\ r = p => Editing(r) = {u}
      /\ \A r : Stopped(r) => Stopped(r)'
  BY <1>0, <1>2, EditAdvances DEF pc
<1>4. "title" \in DOMAIN edit[u].change
  BY <1>1 DEF EditOK
<1>5. edit[u].change["title"] = NewTitle(u) /\ NewTitle(u) \in Value
  BY <1>1, <1>4, SpreadTypes DEF NewTitle, Spread, Field, Terms
<1>6. title' = [title EXCEPT ![p] = NewTitle(u)]
  BY <1>5
<1>7. CatalogTypeOK'
  BY <1>0, <1>1, <1>2, <1>5, <1>6 DEF CatalogTypeOK, accountVars
<1>8. CreatesOK' /\ ArchivedOnce' /\ Charges'
  BY <1>0, <1>1, <1>3, <1>6
     DEF PlanInv, CreatesOK, CreateOK, ArchivedOnce, Charges, Charged, CatalogTypeOK
<1>9. EditsOK'
  <2> SUFFICES ASSUME NEW r \in Editor, edit'[r].pc # "idle" PROVE EditOK(r)'
    BY DEF EditsOK
  <2>1. EditOK(r)
    BY <1>3 DEF PlanInv, EditsOK
  <2> QED
    BY <1>0, <1>2, <1>3, <2>1 DEF EditOK, EditAt, pc
<1>10. Made'
  <2> SUFFICES ASSUME NEW v \in UpdatePlan PROVE MadeOK(v)'
    BY DEF Made
  <2>1. MadeOK(v) /\ v \in Editor
    BY DEF PlanInv, Made, Editor
  <2>2. CASE v = u
    BY <1>2, <1>3, <2>1, <2>2 DEF MadeOK, EditAt, pc
  <2>3. CASE v # u
    BY <1>2, <1>3, <2>1, <2>3 DEF MadeOK, EditAt
  <2> QED
    BY <2>2, <2>3
<1>11. ArchivedSoon'
  <2> SUFFICES ASSUME NEW r \in Editor, edit'[r].pc \in {"archiveProduct", "row"},
                      edit'[r].plan \notin overlapped, r \in UpdatePlan => Renewed(r)'
               PROVE  edit'[r].price \notin price
    BY DEF ArchivedSoon
  <2>1. r # u
    BY <1>2, <1>3 DEF EditAt, pc
  <2> QED
    BY <1>2, <1>3, <2>1 DEF PlanInv, ArchivedSoon, EditAt
<1>12. StagesOK'
  <2> SUFFICES ASSUME NEW r \in listed \ overlapped, ~Stopped(r)'
               PROVE  /\ Editing(r)' = {} => Before(r)'
                      /\ \A s \in Editing(r)' : Stage(r, s)'
    BY DEF StagesOK
  <2>1. CASE r = p
    <3>1. Editing(p) = {u} /\ ~Stopped(p)
      BY <1>3, <2>1
    <3>2. Stage(p, u)
      BY <2>1, <3>1 DEF PlanInv, StagesOK
    <3>3. Before(p)
      BY <1>0, <3>2 DEF Stage
    <3>4. OnSale(p, priceOf[p], NewTitle(u))'
      BY <1>0, <1>1, <1>3, <1>6, <3>3 DEF Before, OnSale, CatalogTypeOK
    <3>5. u \in Editing(p)' /\ Editing(p)' = {u}
      BY <1>0, <1>2, <1>3, <3>1 DEF Editing, InFlight, EditAt, pc
    <3>6. Stage(p, u)'
      <4>1. CASE Renewed(u)
        BY <1>2, <3>4, <4>1 DEF Stage, EditAt, pc
      <4>2. CASE ~Renewed(u)
        <5>1. NewPrice(u)' = priceOf[p]
          BY <1>0, <1>3, <2>1, <4>2 DEF NewPrice, Renewed, PlanInv, Fresh
        <5> QED
          BY <1>2, <3>4, <4>2, <5>1 DEF Stage, OnSale, EditAt, pc
      <4> QED
        BY <4>1, <4>2
    <3> QED
      BY <2>1, <3>5, <3>6
  <2>2. CASE r # p
    BY <1>0, <1>2, <1>6, <2>2, StagesElsewhere DEF CatalogTypeOK, pc
  <2> QED
    BY <2>1, <2>2
<1> QED
  BY <1>3, <1>7, <1>8, <1>9, <1>10, <1>11, <1>12 DEF PlanInv

LEMMA UpdatePriceStep ==
    ASSUME PlanInv, NEW u \in UpdatePlan, UpdatePrice(u)
    PROVE  PlanInv'
<1> DEFINE p == edit[u].plan
           new == Charged(Spread(edit[u].terms, edit[u].change))
<1> USE DEF UpdatePrice
<1>1. /\ CatalogTypeOK /\ u \in Editor /\ InFlight(u) /\ u \notin RemovePlan
      /\ u \notin CreatePlan /\ u \in Price
  BY CatalogAssumption DEF PlanInv, InFlight, Editor, Price
<1>2. /\ edit[u] \in EditState /\ EditOK(u) /\ p \in CreatePlan /\ create[p] = "done"
      /\ edit[u].change \in Columns /\ edit[u].terms \in Terms
      /\ \A r \in CreatePlan : ~Exposed(r, u)
  BY <1>1, EditKnows
<1>3. EditAt(u, "archive") /\ edit' \in [Editor -> {Idle} \cup EditState]
  BY <1>1, EditMoves DEF EditPc
<1>4. /\ Named' /\ Alone' /\ Fresh'
      /\ \A r, x : Exposed(r, x)' <=> Exposed(r, x)
      /\ \A r \in Editor :
           /\ Renewed(r)' <=> Renewed(r)
           /\ NewTitle(r)' = NewTitle(r) /\ NewPrice(r)' = NewPrice(r)
           /\ edit'[r].pc # "idle" => edit[r].pc # "idle"
           /\ edit'[r].plan = edit[r].plan /\ edit'[r].price = edit[r].price
           /\ edit'[r].change = edit[r].change
      /\ \A r : Editing(r)' \subseteq Editing(r)
      /\ \A r : r \notin overlapped /\ r = p => Editing(r) = {u}
      /\ \A r : Stopped(r) => Stopped(r)'
  BY <1>1, <1>3, EditAdvances DEF EditPc
<1>5. Renewed(u)
  BY <1>2 DEF EditOK
<1>6. new \in [ChargedField -> Value]
  BY <1>2, SpreadTypes, ChargedTypes
<1>7. /\ charge' = [charge EXCEPT ![u] = new] /\ charge \in [Price -> [ChargedField -> Value \cup {NoValue}]]
      /\ price' = price \cup {u}
  BY <1>1 DEF CatalogTypeOK
<1>8. charge' \in [Price -> [ChargedField -> Value \cup {NoValue}]]
  BY <1>6, <1>7
<1>9. charge'[u] = new /\ \A x \in Price \ {u} : charge'[x] = charge[x]
  BY <1>1, <1>7
<1> HIDE DEF new
<1>10. CatalogTypeOK'
  BY <1>1, <1>2, <1>3, <1>8 DEF CatalogTypeOK, accountVars
<1>11. CreatesOK'
  BY <1>1, <1>7, <1>9 DEF PlanInv, CreatesOK, CreateOK, Price
<1>12. EditsOK'
  <2> SUFFICES ASSUME NEW r \in Editor, edit'[r].pc # "idle" PROVE EditOK(r)'
    BY DEF EditsOK
  <2>1. EditOK(r)
    BY <1>4 DEF PlanInv, EditsOK
  <2> QED
    BY <1>1, <1>3, <1>4, <1>5, <2>1 DEF EditOK, EditAt
<1>13. Made'
  <2> SUFFICES ASSUME NEW v \in UpdatePlan PROVE MadeOK(v)'
    BY DEF Made
  <2>1. MadeOK(v) /\ v \in Editor /\ v \in Price
    BY DEF PlanInv, Made, Editor, Price
  <2>2. CASE v = u
    BY <1>3, <1>4, <1>5, <1>7, <1>9, <2>2 DEF MadeOK, EditAt, new
  <2>3. CASE v # u
    BY <1>3, <1>4, <1>7, <1>9, <2>1, <2>3 DEF MadeOK, EditAt
  <2> QED
    BY <2>2, <2>3
<1>14. ArchivedOnce'
  BY <1>2, <1>4, <1>7 DEF PlanInv, ArchivedOnce
<1>15. ArchivedSoon'
  <2> SUFFICES ASSUME NEW r \in Editor, edit'[r].pc \in {"archiveProduct", "row"},
                      edit'[r].plan \notin overlapped, r \in UpdatePlan => Renewed(r)'
               PROVE  edit'[r].price \notin price'
    BY DEF ArchivedSoon
  <2>1. r # u /\ edit'[r] = edit[r]
    BY <1>3 DEF EditAt
  <2>2. InFlight(r)
    BY <2>1 DEF InFlight
  <2>3. edit[r].price # u
    BY <1>2, <2>2, EditKnows DEF EditOK
  <2> QED
    BY <1>4, <1>7, <2>1, <2>3 DEF PlanInv, ArchivedSoon
<1>16. Charges'
  <2> SUFFICES ASSUME NEW r \in listed \ overlapped PROVE charge'[priceOf[r]] = Charged(terms[r])
    BY DEF Charges, Charged
  <2>1. r \in CreatePlan /\ priceOf[r] \in Price /\ priceOf[r] # u
    BY <1>1, <1>2 DEF PlanInv, Named, CatalogTypeOK
  <2> QED
    BY <1>9, <2>1 DEF PlanInv, Charges
<1>17. StagesOK'
  <2> SUFFICES ASSUME NEW r \in listed \ overlapped, ~Stopped(r)'
               PROVE  /\ Editing(r)' = {} => Before(r)'
                      /\ \A s \in Editing(r)' : Stage(r, s)'
    BY DEF StagesOK
  <2>1. CASE r = p
    <3>1. Editing(p) = {u} /\ ~Stopped(p)
      BY <1>4, <2>1
    <3>2. Stage(p, u)
      BY <2>1, <3>1 DEF PlanInv, StagesOK
    <3>3. OnSale(p, u, NewTitle(u))'
      BY <1>1, <1>4, <1>7, <3>2 DEF Stage, OnSale
    <3>4. Editing(p)' = {u}
      BY <1>1, <1>3, <1>4, <3>1 DEF Editing, InFlight, EditAt
    <3>5. NewPrice(u)' = u
      BY <1>1, <1>4, <1>5 DEF NewPrice, Renewed
    <3> QED
      BY <1>3, <2>1, <3>3, <3>4, <3>5 DEF Stage, OnSale, EditAt
  <2>2. CASE r # p
    <3>1. r \in CreatePlan
      BY <1>1 DEF CatalogTypeOK
    <3> QED
      BY <1>1, <1>3, <1>7, <2>2, <3>1, StagesElsewhere DEF EditPc
  <2> QED
    BY <2>1, <2>2
<1> QED
  BY <1>4, <1>10, <1>11, <1>12, <1>13, <1>14, <1>15, <1>16, <1>17 DEF PlanInv

LEMMA ArchivePriceStep ==
    ASSUME PlanInv, NEW q \in Editor, ArchivePrice(q)
    PROVE  PlanInv'
<1> DEFINE pc == IF q \in UpdatePlan THEN "row" ELSE "archiveProduct"
           p == edit[q].plan
           old == edit[q].price
<1> USE DEF ArchivePrice
<1>1. CatalogTypeOK /\ InFlight(q)
  BY DEF PlanInv, InFlight
<1>2. /\ edit[q] \in EditState /\ EditOK(q) /\ p \in CreatePlan /\ create[p] = "done"
      /\ old \in Price /\ Exposed(p, old)
  BY <1>1, EditKnows DEF EditOK
<1>3. /\ EditAt(q, pc) /\ edit' \in [Editor -> {Idle} \cup EditState] /\ pc \in EditPc
      /\ pc # "done"
  BY <1>1, EditMoves DEF EditPc
<1>4. q \in UpdatePlan <=> q \notin RemovePlan
  BY CatalogAssumption DEF Editor
<1> HIDE DEF pc
<1>5. /\ Named' /\ Alone' /\ Fresh'
      /\ \A r, x : Exposed(r, x)' <=> Exposed(r, x)
      /\ \A r \in Editor :
           /\ Renewed(r)' <=> Renewed(r)
           /\ NewTitle(r)' = NewTitle(r) /\ NewPrice(r)' = NewPrice(r)
           /\ edit'[r].pc # "idle" => edit[r].pc # "idle"
           /\ edit'[r].plan = edit[r].plan /\ edit'[r].price = edit[r].price
           /\ edit'[r].change = edit[r].change
      /\ \A r : Editing(r)' \subseteq Editing(r)
      /\ \A r : r \notin overlapped /\ r = p => Editing(r) = {q}
      /\ \A r : Stopped(r) => Stopped(r)'
  BY <1>1, <1>3, EditAdvances
<1>6. price' \subseteq price /\ \A x \in price : x # old => x \in price'
  OBVIOUS
<1>7. \A u \in UpdatePlan : InFlight(u) => u # old
  BY <1>2, EditKnows DEF Editor
<1>8. \A r \in CreatePlan : r # p => ~Exposed(r, old)
  BY <1>2, OneOwner
<1>9. CatalogTypeOK'
  BY <1>1, <1>3 DEF CatalogTypeOK, accountVars
<1>10. CreatesOK'
  <2> SUFFICES ASSUME NEW r \in CreatePlan PROVE CreateOK(r)'
    BY DEF CreatesOK
  <2>1. CreateOK(r)
    BY DEF PlanInv, CreatesOK
  <2>2. create[r] = "row" => r # old
    BY <1>2, <1>8 DEF Exposed
  <2> QED
    BY <1>6, <2>1, <2>2 DEF CreateOK, Charged
<1>11. ArchivedOnce' /\ Charges'
  BY <1>5, <1>6 DEF PlanInv, ArchivedOnce, Charges, Charged
<1>12. EditsOK'
  <2> SUFFICES ASSUME NEW r \in Editor, edit'[r].pc # "idle" PROVE EditOK(r)'
    BY DEF EditsOK
  <2>1. EditOK(r)
    BY <1>5 DEF PlanInv, EditsOK
  <2> QED
    BY <1>3, <1>4, <1>5, <2>1 DEF EditOK, EditAt, pc
<1>13. Made'
  <2> SUFFICES ASSUME NEW v \in UpdatePlan PROVE MadeOK(v)'
    BY DEF Made
  <2>1. MadeOK(v) /\ v \in Editor
    BY DEF PlanInv, Made, Editor
  <2>2. edit'[v].pc \in {"archive", "row"} => edit[v].pc \in {"archive", "row"} /\ v # old
    BY <1>3, <1>7, <2>1 DEF EditAt, InFlight
  <2>3. edit'[v].terms = edit[v].terms /\ (v \in price' => v \in price)
    BY <1>3, <1>6, <2>1 DEF EditAt
  <2>4. v \in price' => edit'[v].pc \in {"archive", "row", "done", "failed"} /\ Renewed(v)'
    BY <1>3, <1>5, <2>1, <2>3 DEF MadeOK, EditAt, pc
  <2>5. Charged(Spread(edit[v].terms, edit[v].change))' = Charged(Spread(edit[v].terms, edit[v].change))
    BY <1>5, <2>1, <2>3 DEF Spread, Charged
  <2> QED
    BY <1>5, <1>6, <2>1, <2>2, <2>4, <2>5 DEF MadeOK
<1>14. ArchivedSoon'
  <2> SUFFICES ASSUME NEW r \in Editor, edit'[r].pc \in {"archiveProduct", "row"},
                      edit'[r].plan \notin overlapped, r \in UpdatePlan => Renewed(r)'
               PROVE  edit'[r].price \notin price'
    BY DEF ArchivedSoon
  <2>1. CASE r = q
    BY <1>5, <2>1
  <2>2. CASE r # q
    BY <1>3, <1>5, <1>6, <2>2 DEF PlanInv, ArchivedSoon, EditAt
  <2> QED
    BY <2>1, <2>2
<1>15. StagesOK'
  <2> SUFFICES ASSUME NEW r \in listed \ overlapped, ~Stopped(r)'
               PROVE  /\ Editing(r)' = {} => Before(r)'
                      /\ \A s \in Editing(r)' : Stage(r, s)'
    BY DEF StagesOK
  <2>1. CASE r = p
    <3>1. Editing(p) = {q} /\ ~Stopped(p)
      BY <1>5, <2>1
    <3>2. Editing(p)' = {q}
      BY <1>1, <1>3, <1>5, <3>1 DEF Editing, InFlight, EditAt, pc
    <3>3. Stage(p, q)
      BY <2>1, <3>1 DEF PlanInv, StagesOK
    <3>4. CASE q \in UpdatePlan
      <4>1. NewPrice(q) = q /\ q # old
        BY <1>1, <1>2, <1>7, <3>4 DEF EditOK, NewPrice, Renewed
      <4>2. OnSale(p, NewPrice(q), NewTitle(q))
        BY <1>4, <3>3, <3>4 DEF Stage
      <4> QED
        BY <1>3, <1>5, <1>6, <2>1, <3>2, <3>4, <4>1, <4>2 DEF Stage, OnSale, EditAt, pc
    <3>5. CASE q \in RemovePlan
      BY <2>1, <3>2, <3>5 DEF Stage
    <3> QED
      BY <1>4, <3>4, <3>5
  <2>2. CASE r # p
    <3>1. r \in CreatePlan
      BY <1>1 DEF CatalogTypeOK
    <3>2. \A x \in price : Exposed(r, x) => x \in price'
      BY <1>6, <1>8, <2>2, <3>1
    <3>3. \A s \in UpdatePlan \cap price : InFlight(s) => s \in price'
      BY <1>6, <1>7
    <3> QED
      BY <1>1, <1>3, <2>2, <3>1, <3>2, <3>3, StagesElsewhere
  <2> QED
    BY <2>1, <2>2
<1> QED
  BY <1>5, <1>9, <1>10, <1>11, <1>12, <1>13, <1>14, <1>15 DEF PlanInv

LEMMA ArchiveProductStep ==
    ASSUME PlanInv, NEW q \in RemovePlan, ArchiveProduct(q)
    PROVE  PlanInv'
<1> DEFINE p == edit[q].plan
<1> USE DEF ArchiveProduct
<1>0. CatalogTypeOK /\ q \in Editor /\ InFlight(q) /\ q \notin UpdatePlan
  BY CatalogAssumption DEF PlanInv, InFlight, Editor
<1>1. /\ edit[q] \in EditState /\ EditOK(q) /\ p \in CreatePlan /\ create[p] = "done"
  BY <1>0, EditKnows DEF EditOK
<1>2. EditAt(q, "row") /\ edit' \in [Editor -> {Idle} \cup EditState]
  BY <1>0, EditMoves DEF EditPc
<1>3. /\ Named' /\ Alone' /\ Fresh'
      /\ \A r, x : Exposed(r, x)' <=> Exposed(r, x)
      /\ \A r \in Editor :
           /\ Renewed(r)' <=> Renewed(r)
           /\ NewTitle(r)' = NewTitle(r) /\ NewPrice(r)' = NewPrice(r)
           /\ edit'[r].pc # "idle" => edit[r].pc # "idle"
           /\ edit'[r].plan = edit[r].plan /\ edit'[r].price = edit[r].price
           /\ edit'[r].change = edit[r].change
      /\ \A r : Editing(r)' \subseteq Editing(r)
      /\ \A r : r \notin overlapped /\ r = p => Editing(r) = {q}
      /\ \A r : Stopped(r) => Stopped(r)'
  BY <1>0, <1>2, EditAdvances DEF EditPc
<1>4. product' \subseteq product /\ p \notin product' /\ \A r \in product : r # p => r \in product'
  OBVIOUS
<1>7. CatalogTypeOK'
  BY <1>0, <1>2 DEF CatalogTypeOK, accountVars
<1>8. CreatesOK'
  BY <1>1, <1>4 DEF PlanInv, CreatesOK, CreateOK, Charged
<1>9. ArchivedOnce' /\ Charges'
  BY <1>3 DEF PlanInv, ArchivedOnce, Charges, Charged
<1>10. EditsOK'
  <2> SUFFICES ASSUME NEW r \in Editor, edit'[r].pc # "idle" PROVE EditOK(r)'
    BY DEF EditsOK
  <2>1. EditOK(r)
    BY <1>3 DEF PlanInv, EditsOK
  <2> QED
    BY <1>0, <1>2, <1>3, <1>4, <2>1 DEF EditOK, EditAt
<1>11. Made'
  <2> SUFFICES ASSUME NEW v \in UpdatePlan PROVE MadeOK(v)'
    BY DEF Made
  <2>1. MadeOK(v) /\ v \in Editor /\ v # q
    BY <1>0 DEF PlanInv, Made, Editor
  <2>2. edit'[v] = edit[v]
    BY <1>2, <2>1 DEF EditAt
  <2> QED
    BY <2>1, <2>2 DEF MadeOK, Spread, Charged, Renewed, NeedsPrice
<1>12. ArchivedSoon'
  <2> SUFFICES ASSUME NEW r \in Editor, edit'[r].pc \in {"archiveProduct", "row"},
                      edit'[r].plan \notin overlapped, r \in UpdatePlan => Renewed(r)'
               PROVE  edit'[r].price \notin price
    BY DEF ArchivedSoon
  <2>1. edit[r].pc \in {"archiveProduct", "row"}
    BY <1>2 DEF EditAt
  <2> QED
    BY <1>3, <2>1 DEF PlanInv, ArchivedSoon
<1>13. StagesOK'
  <2> SUFFICES ASSUME NEW r \in listed \ overlapped, ~Stopped(r)'
               PROVE  /\ Editing(r)' = {} => Before(r)'
                      /\ \A s \in Editing(r)' : Stage(r, s)'
    BY DEF StagesOK
  <2>1. CASE r = p
    <3>1. Editing(p) = {q}
      BY <1>3, <2>1
    <3>2. Editing(p)' = {q}
      BY <1>0, <1>2, <1>3, <3>1 DEF Editing, InFlight, EditAt
    <3> QED
      BY <2>1, <3>2 DEF Stage
  <2>2. CASE r # p
    <3>1. r \in CreatePlan
      BY <1>0 DEF CatalogTypeOK
    <3> QED
      BY <1>0, <1>2, <1>4, <2>2, <3>1, StagesElsewhere DEF EditPc
  <2> QED
    BY <2>1, <2>2
<1> QED
  BY <1>3, <1>7, <1>8, <1>9, <1>10, <1>11, <1>12, <1>13 DEF PlanInv

LEMMA RemoveRowStep ==
    ASSUME PlanInv, NEW q \in RemovePlan, RemoveRow(q)
    PROVE  PlanInv'
<1> DEFINE p == edit[q].plan
<1> USE DEF RemoveRow
<1>0. CatalogTypeOK /\ q \in Editor /\ InFlight(q) /\ q \notin UpdatePlan
  BY CatalogAssumption DEF PlanInv, InFlight, Editor
<1>1. /\ edit[q] \in EditState /\ EditOK(q) /\ p \in CreatePlan /\ create[p] = "done"
      /\ p \notin product
  BY <1>0, EditKnows DEF EditOK
<1>2. EditAt(q, "done") /\ edit' \in [Editor -> {Idle} \cup EditState]
  BY <1>0, EditMoves DEF EditPc
<1>3. /\ Named' /\ Alone' /\ Fresh'
      /\ \A r, x : Exposed(r, x)' <=> Exposed(r, x)
      /\ \A r \in Editor :
           /\ Renewed(r)' <=> Renewed(r)
           /\ NewTitle(r)' = NewTitle(r) /\ NewPrice(r)' = NewPrice(r)
           /\ edit'[r].pc # "idle" => edit[r].pc # "idle"
           /\ edit'[r].plan = edit[r].plan /\ edit'[r].price = edit[r].price
           /\ edit'[r].change = edit[r].change
  BY <1>0, <1>2, EditAdvances DEF EditPc
<1>4. listed' = listed \ {p}
  OBVIOUS
<1>7. CatalogTypeOK'
  BY <1>0, <1>2, <1>4 DEF CatalogTypeOK, accountVars
<1>8. CreatesOK'
  BY <1>1, <1>4 DEF PlanInv, CreatesOK, CreateOK, Charged
<1>9. ArchivedOnce' /\ Charges'
  BY <1>3, <1>4 DEF PlanInv, ArchivedOnce, Charges, Charged
<1>10. EditsOK'
  <2> SUFFICES ASSUME NEW r \in Editor, edit'[r].pc # "idle" PROVE EditOK(r)'
    BY DEF EditsOK
  <2>1. EditOK(r)
    BY <1>3 DEF PlanInv, EditsOK
  <2> QED
    BY <1>0, <1>2, <1>3, <1>4, <2>1 DEF EditOK, EditAt
<1>11. Made'
  <2> SUFFICES ASSUME NEW v \in UpdatePlan PROVE MadeOK(v)'
    BY DEF Made
  <2>1. MadeOK(v) /\ v \in Editor /\ v # q
    BY <1>0 DEF PlanInv, Made, Editor
  <2>2. edit'[v] = edit[v]
    BY <1>2, <2>1 DEF EditAt
  <2> QED
    BY <2>1, <2>2 DEF MadeOK, Spread, Charged, Renewed, NeedsPrice
<1>12. ArchivedSoon'
  BY <1>2, <1>3 DEF PlanInv, ArchivedSoon, EditAt
<1>13. StagesOK'
  <2> SUFFICES ASSUME NEW r \in listed \ overlapped, r # p, ~Stopped(r)'
               PROVE  /\ Editing(r)' = {} => Before(r)'
                      /\ \A s \in Editing(r)' : Stage(r, s)'
    BY <1>4 DEF StagesOK
  <2>1. r \in CreatePlan
    BY <1>0 DEF CatalogTypeOK
  <2> QED
    BY <1>0, <1>2, <2>1, StagesElsewhere DEF EditPc
<1> QED
  BY <1>3, <1>7, <1>8, <1>9, <1>10, <1>11, <1>12, <1>13 DEF PlanInv

LEMMA UpdateRowStep ==
    ASSUME PlanInv, NEW u \in UpdatePlan, UpdateRow(u)
    PROVE  PlanInv'
<1> DEFINE p == edit[u].plan
           new == Spread(terms[p], edit[u].change)
<1> USE DEF UpdateRow
<1>0. /\ CatalogTypeOK /\ u \in Editor /\ InFlight(u) /\ u \notin RemovePlan /\ u \in Price
      /\ u \notin CreatePlan /\ edit[u].pc = "row" /\ p \in listed
  BY CatalogAssumption DEF PlanInv, InFlight, Editor, Price
<1>1. /\ edit[u] \in EditState /\ EditOK(u) /\ p \in CreatePlan /\ create[p] = "done"
      /\ edit[u].change \in Columns /\ edit[u].terms \in Terms /\ edit[u].price \in Price
      /\ Exposed(p, edit[u].price) /\ terms[p] \in Terms
  BY <1>0, EditKnows DEF EditOK, PlanInv, CreatesOK, CreateOK
<1>2. EditAt(u, "done") /\ edit' \in [Editor -> {Idle} \cup EditState]
  BY <1>0, EditMoves DEF EditPc
<1>3. new \in Terms /\ NewPrice(u) \in Price
  BY <1>0, <1>1, SpreadTypes DEF NewPrice
<1>4. terms' = [terms EXCEPT ![p] = new] /\ priceOf' = [priceOf EXCEPT ![p] = NewPrice(u)]
  BY DEF UpdateRow
<1>5. /\ terms'[p] = new /\ priceOf'[p] = NewPrice(u)
      /\ \A r \in CreatePlan \ {p} : terms'[r] = terms[r] /\ priceOf'[r] = priceOf[r]
  BY <1>0, <1>1, <1>4 DEF CatalogTypeOK
<1>6. UNCHANGED <<listed, subscribed, product, title, price, charge, create, overlapped,
                  accountVars>>
  OBVIOUS
<1>7. CatalogTypeOK'
  <2>1. new \in [Field -> Value \cup {NoValue}]
    BY <1>3 DEF Terms
  <2>2. /\ terms \in [CreatePlan -> [Field -> Value \cup {NoValue}]]
        /\ priceOf \in [CreatePlan -> Price]
    BY <1>0 DEF CatalogTypeOK
  <2>3. /\ terms' \in [CreatePlan -> [Field -> Value \cup {NoValue}]]
        /\ priceOf' \in [CreatePlan -> Price]
    BY <1>3, <1>4, <2>1, <2>2
  <2> QED
    BY <1>0, <1>2, <1>6, <2>3 DEF CatalogTypeOK, accountVars
<1> HIDE DEF new, UpdateRow
<1>8. \A r \in Editor \ {u} : edit'[r] = edit[r]
  BY <1>2 DEF EditAt
<1>9. \A r, x : Exposed(r, x)' <=> Exposed(r, x) \/ (r = p /\ x = u)
  BY <1>0, <1>2, <1>8 DEF Exposed, EditAt, Editor
<1>10. CreatesOK'
  BY <1>0, <1>1, <1>3, <1>5, <1>6 DEF PlanInv, CreatesOK, CreateOK
<1>11. Named'
  BY <1>1, <1>5, <1>9 DEF PlanInv, Named, NewPrice
<1>12. EditsOK'
  <2> SUFFICES ASSUME NEW r \in Editor, edit'[r].pc # "idle" PROVE EditOK(r)'
    BY DEF EditsOK
  <2>1. EditOK(r)
    BY <1>0, <1>8 DEF PlanInv, EditsOK
  <2>2. CASE r = u
    BY <1>0, <1>1, <1>2, <1>6, <1>9, <2>2 DEF EditOK, EditAt
  <2>3. CASE r # u
    BY <1>6, <1>8, <1>9, <2>1, <2>3 DEF EditOK, Renewed, NeedsPrice
  <2> QED
    BY <2>2, <2>3
<1>13. Made'
  <2> SUFFICES ASSUME NEW v \in UpdatePlan PROVE MadeOK(v)'
    BY DEF Made
  <2>1. MadeOK(v) /\ v \in Editor
    BY DEF PlanInv, Made, Editor
  <2>2. CASE v = u
    BY <1>2, <1>6, <2>1, <2>2 DEF MadeOK, EditAt, Renewed, NeedsPrice
  <2>3. CASE v # u
    <3>1. edit'[v] = edit[v]
      BY <1>8, <2>1, <2>3
    <3>2. /\ Charged(Spread(edit[v].terms, edit[v].change))'
               = Charged(Spread(edit[v].terms, edit[v].change))
          /\ Renewed(v)' <=> Renewed(v)
      BY <3>1 DEF Spread, Charged, Renewed, NeedsPrice
    <3> QED
      BY <1>6, <2>1, <3>1, <3>2 DEF MadeOK
  <2> QED
    BY <2>2, <2>3
<1>14. Alone'
  BY <1>2, <1>6, <1>8 DEF PlanInv, Alone, InFlight, EditAt
<1>15. p \notin overlapped =>
         /\ edit[u].terms = terms[p] /\ edit[u].price = priceOf[p]
         /\ Editing(p) = {u} /\ Editing(p)' = {}
  <2> SUFFICES ASSUME p \notin overlapped
               PROVE  /\ edit[u].terms = terms[p] /\ edit[u].price = priceOf[p]
                      /\ Editing(p) = {u} /\ Editing(p)' = {}
    OBVIOUS
  <2>1. edit[u].terms = terms[p] /\ edit[u].price = priceOf[p]
    BY <1>0 DEF PlanInv, Fresh
  <2>2. Editing(p) = {u}
    BY <1>0 DEF PlanInv, Alone, Editing
  <2>3. Editing(p)' = {}
    BY <1>2, <1>8, <2>2 DEF Editing, InFlight, EditAt
  <2> QED
    BY <2>1, <2>2, <2>3
<1>16. Fresh'
  <2> SUFFICES ASSUME NEW r \in Editor, InFlight(r)', edit'[r].plan \notin overlapped
               PROVE  /\ edit'[r].terms = terms'[edit'[r].plan]
                      /\ edit'[r].price = priceOf'[edit'[r].plan]
    BY <1>6 DEF Fresh
  <2>1. r # u /\ edit'[r] = edit[r] /\ InFlight(r)
    BY <1>2, <1>8 DEF InFlight, EditAt
  <2>2. edit[r].plan # p
    BY <1>15, <2>1 DEF Editing
  <2>3. edit[r].plan \in CreatePlan \ {p}
    BY <2>1, <2>2, EditKnows
  <2> QED
    BY <1>5, <2>1, <2>3 DEF PlanInv, Fresh
<1>17. ArchivedOnce'
  <2> SUFFICES ASSUME NEW r \in CreatePlan \ overlapped, NEW x \in price,
                      create[r] = "done", Exposed(r, x)'
               PROVE  x = priceOf'[r]
    BY <1>6 DEF ArchivedOnce
  <2>1. CASE r # p
    BY <1>5, <1>9, <2>1 DEF PlanInv, ArchivedOnce
  <2>2. CASE r = p /\ x = u
    BY <1>0, <1>5, <2>2 DEF PlanInv, Made, MadeOK, Renewed, NewPrice
  <2>3. CASE r = p /\ x # u
    <3>1. x = priceOf[p]
      BY <1>9, <2>3 DEF PlanInv, ArchivedOnce
    <3>2. ~Renewed(u)
      BY <1>0, <1>15, <2>3, <3>1 DEF PlanInv, ArchivedSoon
    <3> QED
      BY <1>0, <1>5, <1>15, <2>3, <3>1, <3>2 DEF Renewed, NewPrice
  <2> QED
    BY <2>1, <2>2, <2>3
<1>18. ArchivedSoon'
  BY <1>2, <1>6, <1>8 DEF PlanInv, ArchivedSoon, EditAt, Renewed, NeedsPrice
<1>19. Charges'
  <2> SUFFICES ASSUME NEW r \in listed \ overlapped
               PROVE  charge[priceOf'[r]] = Charged(terms'[r])
    BY <1>6 DEF Charges, Charged
  <2>1. CASE r # p
    BY <1>0, <1>5, <2>1 DEF PlanInv, Charges, CatalogTypeOK
  <2>2. CASE r = p /\ Renewed(u)
    <3>1. NewPrice(u) = u /\ charge[u] = Charged(Spread(edit[u].terms, edit[u].change))
      BY <1>0, <2>2 DEF NewPrice, Renewed, PlanInv, Made, MadeOK
    <3> QED
      BY <1>5, <1>15, <2>2, <3>1 DEF new
  <2>3. CASE r = p /\ ~Renewed(u)
    <3>1. NewPrice(u) = priceOf[p]
      BY <1>0, <1>15, <2>3 DEF NewPrice, Renewed
    <3>2. \A f \in ChargedField : new[f] = terms[p][f]
      BY <1>1, <1>15, <2>3 DEF new, Spread, Renewed, NeedsPrice, ChargedField, Field, Terms, Columns
    <3>3. Charged(new) = Charged(terms[p])
      BY <3>2 DEF Charged
    <3> QED
      BY <1>5, <2>3, <3>1, <3>3 DEF PlanInv, Charges
  <2> QED
    BY <2>1, <2>2, <2>3
<1>20. StagesOK'
  <2> SUFFICES ASSUME NEW r \in listed \ overlapped, ~Stopped(r)'
               PROVE  /\ Editing(r)' = {} => Before(r)'
                      /\ \A s \in Editing(r)' : Stage(r, s)'
    BY <1>6 DEF StagesOK
  <2>0. ~Stopped(r)
    BY <1>0, <1>8 DEF Stopped
  <2>1. CASE r = p
    <3>1. Stage(p, u)
      BY <1>15, <2>0, <2>1 DEF PlanInv, StagesOK
    <3>2. OnSale(p, NewPrice(u), NewTitle(u))
      BY <1>0, <3>1 DEF Stage
    <3>3. NewTitle(u) = new["title"]
      BY <1>15, <2>1 DEF NewTitle, new
    <3>4. Before(r)'
      BY <1>5, <1>6, <2>1, <3>2, <3>3 DEF Before, OnSale
    <3>5. Editing(r)' = {}
      BY <1>2, <1>15, <2>1 DEF EditAt
    <3> QED
      BY <3>4, <3>5
  <2>2. CASE r # p
    <3>1. r \in CreatePlan \ {p}
      BY <1>0, <2>2 DEF CatalogTypeOK
    <3>2. Editing(r)' = Editing(r) /\ u \notin Editing(r)
      BY <1>2, <1>8, <2>2 DEF Editing, InFlight, EditAt
    <3>3. Before(r)' <=> Before(r)
      BY <1>5, <1>6, <3>1 DEF Before, OnSale
    <3>4. ASSUME NEW s \in Editing(r), Stage(r, s) PROVE Stage(r, s)'
      <4>1. s \in Editor /\ edit'[s] = edit[s]
        BY <1>8, <3>2 DEF Editing
      <4> QED
        BY <1>5, <1>6, <3>1, <3>3, <3>4, <4>1
           DEF Stage, OnSale, NewTitle, NewPrice, NeedsPrice, Spread
    <3> QED
      BY <2>0, <3>2, <3>3, <3>4 DEF PlanInv, StagesOK
  <2> QED
    BY <2>1, <2>2
<1> QED
  BY <1>7, <1>10, <1>11, <1>12, <1>13, <1>14, <1>16, <1>17, <1>18, <1>19, <1>20 DEF PlanInv

\* The price a purchase has read was named by the row of its plan.
PurchasesOK ==
    \A b \in Buy :
        buy[b].pc \in {"billing", "create", "save", "session"} =>
            /\ buy[b].plan \in CreatePlan /\ create[buy[b].plan] = "done"
            /\ Exposed(buy[b].plan, buy[b].price)

\* The customers that requests make.
MakersOK ==
    /\ \A a \in Account : a \in customer => register[a] # "create"
    /\ \A b \in Buy :
        /\ buy[b].pc = "save" => buy[b].customer = b
        /\ b \in customer =>
             /\ buy[b].pc \in {"save", "session", "sold", "failed"}
             /\ buy[b].pc # "failed" => buy[b].customer = b

\* An account that knows no race has one maker while it names no customer.
AccountOK(a) ==
    /\ \A c, d \in Making(a) : c = d
    /\ Making(a) # {} => billing[a] = NoValue
    /\ register[a] = "done" => billing[a] = a
AccountsOK == \A a \in Account \ raced : AccountOK(a)

SessionOK(b) ==
    buy[b].pc \in {"session", "sold"} /\ buy[b].account \notin raced =>
        buy[b].customer = billing[buy[b].account] /\ buy[b].customer # NoValue
OpenedOK == \A b \in Buy : SessionOK(b)

CatalogInv == PlanInv /\ PurchasesOK /\ SessionsAreFair /\ MakersOK /\ AccountsOK /\ OpenedOK

\* At first no account and no purchase has begun.
LEMMA InitCatalog == ASSUME CatalogInit PROVE CatalogInv
<1>1. PlanInv
  BY InitPlans
<1>2. \A b \in Buy : buy[b].pc = "idle"
  BY DEF CatalogInit, Idle
<1>3. PurchasesOK /\ SessionsAreFair /\ OpenedOK
  BY <1>2 DEF PurchasesOK, SessionsAreFair, OpenedOK, SessionOK
<1>4. MakersOK
  BY <1>2 DEF MakersOK, CatalogInit
<1>5. \A a \in Account : Making(a) \subseteq {a}
  BY <1>2 DEF Making
<1>6. AccountsOK
  BY <1>5 DEF AccountsOK, AccountOK, CatalogInit
<1> QED
  BY <1>1, <1>3, <1>4, <1>6 DEF CatalogInv

------------------------------------------------------------------------------
\* Steps that leave the plans alone.
LEMMA PlansKept ==
    ASSUME PlanInv, UNCHANGED <<rowVars, edit, overlapped>>, CatalogTypeOK'
    PROVE  PlanInv'
<1> USE DEF rowVars
<1>1. \A p, x : Exposed(p, x)' <=> Exposed(p, x)
  BY DEF Exposed
<1>2. \A q : /\ Renewed(q)' <=> Renewed(q)
             /\ NewTitle(q)' = NewTitle(q) /\ NewPrice(q)' = NewPrice(q)
  BY DEF Renewed, NeedsPrice, NewTitle, NewPrice, Spread
<1>3. \A p : Editing(p)' = Editing(p) /\ (Stopped(p)' <=> Stopped(p)) /\ (Before(p)' <=> Before(p))
  BY DEF Editing, InFlight, Stopped, Before, OnSale
<1>4. CreatesOK' /\ Named' /\ Alone' /\ Fresh'
  BY <1>1 DEF PlanInv, CreatesOK, CreateOK, Named, Alone, Fresh, InFlight, Charged
<1>5. EditsOK'
  BY <1>1, <1>2 DEF PlanInv, EditsOK, EditOK
<1>6. Made'
  BY <1>2 DEF PlanInv, Made, MadeOK, Spread, Charged
<1>7. ArchivedOnce' /\ ArchivedSoon' /\ Charges'
  BY <1>1, <1>2 DEF PlanInv, ArchivedOnce, ArchivedSoon, Charges, Charged
<1>8. \A p, q : Stage(p, q)' <=> Stage(p, q)
  BY <1>2, <1>3 DEF Stage, OnSale
<1>9. StagesOK'
  BY <1>3, <1>8 DEF PlanInv, StagesOK
<1> QED
  BY <1>4, <1>5, <1>6, <1>7, <1>9 DEF PlanInv

\* Steps of the plans leave the accounts alone.
LEMMA AccountsKept ==
    ASSUME CatalogInv, PlanInv', UNCHANGED accountVars, overlapped \subseteq overlapped',
           \A p \in CreatePlan : create[p] = "done" => create'[p] = "done",
           \A p, x : Exposed(p, x) => Exposed(p, x)'
    PROVE  CatalogInv'
<1> USE DEF accountVars
<1>1. PurchasesOK' /\ SessionsAreFair'
  BY DEF CatalogInv, PurchasesOK, SessionsAreFair
<1>2. \A a : Making(a)' = Making(a)
  BY DEF Making
<1>3. MakersOK' /\ AccountsOK' /\ OpenedOK'
  BY <1>2 DEF CatalogInv, MakersOK, AccountsOK, AccountOK, OpenedOK, SessionOK
<1> QED
  BY <1>1, <1>3 DEF CatalogInv

\* createPlan, the edits and subscribing leave the purchases and the accounts alone.
LEMMA CreateKeeps ==
    ASSUME CatalogInv, NEW p \in CreatePlan, CreateNext(p)
    PROVE  CatalogInv'
<1>1. PlanInv /\ PlanInv'
  BY CreateStep DEF CatalogInv
<1>2. /\ UNCHANGED <<edit, overlapped>>
      /\ \A r \in CreatePlan : create[r] = "done" => create'[r] = "done"
  BY <1>1, CreateEdits
<1>3. UNCHANGED accountVars
  BY DEF CreateNext, CreateProduct, CreatePrice, CreateRow, CreateFails
<1> QED
  BY <1>1, <1>2, <1>3, AccountsKept DEF Exposed

LEMMA EditKeeps ==
    ASSUME CatalogInv, NEW q \in Editor,
           (q \in UpdatePlan /\ UpdateNext(q)) \/ (q \in RemovePlan /\ RemoveNext(q))
    PROVE  CatalogInv'
<1>0. PlanInv /\ CatalogTypeOK /\ listed \subseteq CreatePlan
  BY DEF CatalogInv, PlanInv, CatalogTypeOK
<1>1. PlanInv'
  <2>1. ASSUME NEW p \in CreatePlan, NEW c \in Patch, q \in UpdatePlan, UpdateRead(q, p, c)
        PROVE  PlanInv'
    BY <1>0, <2>1, UpdateBegins, StartStep DEF UpdateRead, rowVars
  <2>2. ASSUME NEW p \in CreatePlan, q \in RemovePlan, RemoveRead(q, p) PROVE PlanInv'
    BY <1>0, <2>2, RemoveBegins, StartStep DEF RemoveRead, rowVars
  <2> QED
    BY <1>0, <2>1, <2>2, EditFailsStep, UpdateProductStep, UpdatePriceStep, ArchivePriceStep,
       UpdateRowStep, ArchiveProductStep, RemoveRowStep DEF UpdateNext, RemoveNext
<1>2. UNCHANGED <<create, accountVars>>
  BY DEF UpdateNext, UpdateRead, UpdateProduct, UpdatePrice, ArchivePrice, UpdateRow, EditFails,
         RemoveNext, RemoveRead, ArchiveProduct, RemoveRow
<1>3. overlapped \subseteq overlapped'
  BY DEF UpdateNext, UpdateRead, UpdateProduct, UpdatePrice, ArchivePrice, UpdateRow, EditFails,
         RemoveNext, RemoveRead, ArchiveProduct, RemoveRow, NoteOverlap
<1>4. \A u \in UpdatePlan : edit[u].pc = "done" => edit'[u] = edit[u]
  <2> SUFFICES ASSUME NEW u \in UpdatePlan, edit[u].pc = "done" PROVE edit'[u] = edit[u]
    OBVIOUS
  <2>1. edit[q].pc # "done" /\ edit' = [edit EXCEPT ![q] = edit'[q]]
    BY <1>0 DEF UpdateNext, UpdateRead, UpdateProduct, UpdatePrice, ArchivePrice, UpdateRow,
         EditFails, InFlight, RemoveNext, RemoveRead, ArchiveProduct, RemoveRow, CatalogTypeOK
  <2> QED
    BY <1>0, <2>1 DEF CatalogTypeOK, Editor
<1>5. \A p, x : Exposed(p, x) => Exposed(p, x)'
  BY <1>4 DEF Exposed
<1> QED
  BY <1>1, <1>2, <1>3, <1>5, AccountsKept

LEMMA SubscribeKeeps ==
    ASSUME CatalogInv, NEW b \in Buy, Subscribe(b)
    PROVE  CatalogInv'
<1>1. CatalogTypeOK'
  BY DEF CatalogInv, PlanInv, CatalogTypeOK, Subscribe, accountVars
<1>2. PlanInv'
  BY <1>1, PlansKept DEF CatalogInv, Subscribe, rowVars
<1> QED
  BY <1>2, AccountsKept DEF Subscribe, Exposed

------------------------------------------------------------------------------
\* Registration and review.
LEMMA RegisterKeeps ==
    ASSUME CatalogInv, NEW a \in Account, RegisterNext(a) \/ Approve(a) \/ Reject(a)
    PROVE  CatalogInv'
<1>0. CatalogTypeOK /\ NoValue # a /\ a \notin Buy
  BY CatalogAssumption DEF CatalogInv, PlanInv
<1>1. UNCHANGED <<planVars, buy, raced>>
  BY DEF RegisterNext, RegisterCustomer, RegisterSave, RegisterFails, Approve, Reject
<1>2. CatalogTypeOK'
  <2> USE <1>0 DEF CatalogTypeOK, RegisterPc, Customer, planVars
  <2>1. CASE RegisterCustomer(a)
    BY <2>1 DEF RegisterCustomer
  <2>2. CASE RegisterSave(a)
    BY <2>2 DEF RegisterSave
  <2>3. CASE RegisterFails(a)
    BY <2>3 DEF RegisterFails
  <2>4. CASE Approve(a)
    BY <2>4 DEF Approve
  <2>5. CASE Reject(a)
    BY <2>5 DEF Reject
  <2> QED
    BY <2>1, <2>2, <2>3, <2>4, <2>5 DEF RegisterNext
<1>3. PlanInv'
  BY <1>1, <1>2, PlansKept DEF CatalogInv, planVars, rowVars
<1>4. PurchasesOK' /\ SessionsAreFair'
  BY <1>1 DEF CatalogInv, PurchasesOK, SessionsAreFair, Exposed, planVars
<1>5. /\ register'[a] = "create" => a \notin customer'
      /\ \A c \in Account \ {a} : register'[c] = register[c] /\ billing'[c] = billing[c]
      /\ \A c : c # a => (c \in customer' <=> c \in customer)
  BY <1>0 DEF RegisterNext, RegisterCustomer, RegisterSave, RegisterFails, Approve, Reject,
              CatalogTypeOK, CatalogInv, MakersOK
<1>6. MakersOK'
  BY <1>0, <1>1, <1>5 DEF CatalogInv, MakersOK
<1>7. \A c \in Account \ {a} : Making(c)' = Making(c)
  BY <1>1, <1>5 DEF Making
<1>8. Making(a)' \subseteq Making(a)
  <2>1. register'[a] \in {"create", "save"} => register[a] \in {"create", "save"}
    BY <1>0 DEF RegisterNext, RegisterCustomer, RegisterSave, RegisterFails, Approve, Reject,
                CatalogTypeOK
  <2> QED
    BY <1>1, <2>1 DEF Making
<1>9. CASE RegisterSave(a)
  <2>1. register[a] = "save" /\ billing'[a] = a /\ register'[a] = "done"
    BY <1>0, <1>9 DEF RegisterSave, CatalogTypeOK
  <2>2. a \in Making(a) /\ a \notin Making(a)'
    BY <1>0, <1>1, <2>1 DEF Making, Customer
  <2>3. a \notin raced => Making(a)' = {} /\ billing[a] = NoValue
    BY <1>8, <2>2 DEF CatalogInv, AccountsOK, AccountOK
  <2>4. AccountsOK'
    <3> SUFFICES ASSUME NEW c \in Account \ raced PROVE AccountOK(c)'
      BY <1>1 DEF AccountsOK
    <3>1. CASE c = a
      BY <2>1, <2>3, <3>1 DEF AccountOK
    <3>2. CASE c # a
      <4>1. AccountOK(c) /\ Making(c)' = Making(c)
        BY <1>7, <3>2 DEF CatalogInv, AccountsOK
      <4> QED
        BY <1>5, <3>2, <4>1 DEF AccountOK
    <3> QED
      BY <3>1, <3>2
  <2>5. OpenedOK'
    <3> SUFFICES ASSUME NEW b \in Buy, buy[b].pc \in {"session", "sold"}, buy[b].account \notin raced
                 PROVE  buy[b].customer = billing'[buy[b].account] /\ buy[b].customer # NoValue
      BY <1>1 DEF OpenedOK, SessionOK
    <3>1. buy[b].customer = billing[buy[b].account] /\ buy[b].customer # NoValue
      BY DEF CatalogInv, OpenedOK, SessionOK
    <3>2. buy[b].account \in Account
      BY <1>0 DEF CatalogTypeOK, BuyState, Idle
    <3>3. buy[b].account # a
      BY <2>3, <3>1
    <3> QED
      BY <1>5, <3>1, <3>2, <3>3
  <2> QED
    BY <1>3, <1>4, <1>6, <2>4, <2>5 DEF CatalogInv
<1>10. CASE ~RegisterSave(a)
  <2>1. billing' = billing /\ (register'[a] = "done" => register[a] = "done")
    BY <1>0, <1>10 DEF RegisterNext, RegisterCustomer, RegisterFails, Approve, Reject, CatalogTypeOK
  <2>2. AccountsOK'
    <3> SUFFICES ASSUME NEW c \in Account \ raced PROVE AccountOK(c)'
      BY <1>1 DEF AccountsOK
    <3>1. AccountOK(c) /\ Making(c)' \subseteq Making(c)
      BY <1>7, <1>8 DEF CatalogInv, AccountsOK
    <3> QED
      BY <1>5, <2>1, <3>1 DEF AccountOK
  <2>3. OpenedOK'
    BY <1>1, <2>1 DEF CatalogInv, OpenedOK, SessionOK
  <2> QED
    BY <1>3, <1>4, <1>6, <2>2, <2>3 DEF CatalogInv
<1> QED
  BY <1>9, <1>10

\* What a purchase's step leaves.
BuyAt(b, e) == buy'[b] = e /\ \A c \in Buy \ {b} : buy'[c] = buy[c]

\* A purchase takes a step.
LEMMA BuyMoves ==
    ASSUME CatalogTypeOK, NEW b \in Buy, NEW e \in BuyState, buy' = [buy EXCEPT ![b] = e]
    PROVE  BuyAt(b, e) /\ buy' \in [Buy -> {Idle} \cup BuyState]
BY DEF CatalogTypeOK, BuyAt

LEMMA BuyTypes ==
    ASSUME CatalogTypeOK, NEW b \in Buy, buy[b].pc # "idle"
    PROVE  buy[b] \in BuyState
BY DEF CatalogTypeOK, Idle

\* The steps of a purchase, told by its state e after it.
Purchased(b, e) ==
    /\ buy' = [buy EXCEPT ![b] = e]
    /\ UNCHANGED <<planVars, verdict, register>>
    /\ buy[b].pc # "idle" => e.account = buy[b].account
    /\ \/ /\ buy[b].pc = "idle" /\ e.pc = "plan"
          /\ UNCHANGED <<billing, customer, raced>>
       \/ /\ buy[b].pc = "plan" /\ e.pc = "billing"
          /\ e.plan \in listed /\ e.price = priceOf[e.plan]
          /\ UNCHANGED <<billing, customer, raced>>
       \/ /\ buy[b].pc = "billing" /\ e.pc = "create" /\ billing[e.account] = NoValue
          /\ e.plan = buy[b].plan /\ e.price = buy[b].price
          /\ raced' = IF Making(e.account) # {} THEN raced \cup {e.account} ELSE raced
          /\ UNCHANGED <<billing, customer>>
       \/ /\ buy[b].pc = "billing" /\ e.pc = "session" /\ billing[e.account] # NoValue
          /\ e.plan = buy[b].plan /\ e.price = buy[b].price
          /\ e.customer = billing[e.account]
          /\ UNCHANGED <<billing, customer, raced>>
       \/ /\ buy[b].pc = "create" /\ e.pc = "save" /\ e.customer = b
          /\ e.plan = buy[b].plan /\ e.price = buy[b].price
          /\ customer' = customer \cup {b} /\ UNCHANGED <<billing, raced>>
       \/ /\ buy[b].pc = "save" /\ e.pc = "session" /\ e.customer = buy[b].customer
          /\ e.plan = buy[b].plan /\ e.price = buy[b].price
          /\ billing' = [billing EXCEPT ![e.account] = b]
          /\ UNCHANGED <<customer, raced>>
       \/ /\ buy[b].pc = "session" /\ e.pc = "sold" /\ e.customer = buy[b].customer
          /\ e.plan = buy[b].plan /\ e.price = buy[b].price
          /\ e.price \in price /\ e.plan \in product
          /\ e.fair = (e.plan \in listed /\ charge[e.price] = Charged(terms[e.plan]))
          /\ UNCHANGED <<billing, customer, raced>>
       \/ /\ buy[b].pc \notin {"idle", "sold", "failed"} /\ e.pc = "failed"
          /\ UNCHANGED <<billing, customer, raced>>

\* What each step of a purchase leaves.
LEMMA BuyGoes ==
    ASSUME CatalogInv, NEW b \in Buy, BuyNext(b)
    PROVE  \E e \in BuyState : Purchased(b, e)
<1>0. CatalogTypeOK
  BY DEF CatalogInv, PlanInv
<1>01. buy[b].pc # "idle" => buy[b] \in BuyState
  BY <1>0, BuyTypes
<1>1. ASSUME NEW a \in Account, BuyReadUser(b, a)
      PROVE  \E e \in BuyState :
               /\ buy' = [buy EXCEPT ![b] = e] /\ e.pc = "plan"
  <2>1. [pc |-> "plan", account |-> a, plan |-> NoValue, price |-> NoValue,
         customer |-> NoValue, fair |-> TRUE] \in BuyState
    BY DEF BuyState
  <2> QED
    BY <1>1, <2>1 DEF BuyReadUser
<1>2. ASSUME NEW p \in CreatePlan, BuyReadPlan(b, p)
      PROVE  \E e \in BuyState :
               /\ buy' = [buy EXCEPT ![b] = e] /\ e.pc = "billing" /\ e.account = buy[b].account
               /\ e.plan \in listed /\ e.price = priceOf[e.plan]
  <2>1. PICK e : e = [buy[b] EXCEPT !.pc = "billing", !.plan = p, !.price = priceOf[p]]
    OBVIOUS
  <2>2. buy[b] \in BuyState /\ priceOf[p] \in Price
    BY <1>0, <1>01, <1>2 DEF BuyReadPlan, CatalogTypeOK
  <2>3. /\ e \in BuyState /\ e.pc = "billing" /\ e.account = buy[b].account
        /\ e.plan = p /\ e.price = priceOf[p]
    BY <2>1, <2>2 DEF BuyState
  <2> HIDE DEF BuyState
  <2> QED
    BY <1>2, <2>1, <2>3 DEF BuyReadPlan
<1>3. ASSUME BuyReadBilling(b)
      PROVE  \E e \in BuyState :
               /\ buy' = [buy EXCEPT ![b] = e] /\ e.account = buy[b].account
               /\ e.pc = (IF billing[e.account] = NoValue THEN "create" ELSE "session")
               /\ e.plan = buy[b].plan /\ e.price = buy[b].price
               /\ e.customer = billing[e.account]
  <2>1. PICK e : e = [buy[b] EXCEPT
                        !.pc = IF billing[buy[b].account] = NoValue THEN "create" ELSE "session",
                        !.customer = billing[buy[b].account]]
    OBVIOUS
  <2>2. buy[b] \in BuyState /\ billing[buy[b].account] \in Customer \cup {NoValue}
    BY <1>0, <1>01, <1>3 DEF BuyReadBilling, CatalogTypeOK, BuyState
  <2>3. /\ e \in BuyState /\ e.account = buy[b].account /\ e.plan = buy[b].plan
        /\ e.pc = (IF billing[buy[b].account] = NoValue THEN "create" ELSE "session")
        /\ e.price = buy[b].price /\ e.customer = billing[buy[b].account]
    BY <2>1, <2>2 DEF BuyState
  <2> HIDE DEF BuyState
  <2> QED
    BY <1>3, <2>1, <2>3 DEF BuyReadBilling
<1>4. ASSUME BuyCreateCustomer(b)
      PROVE  \E e \in BuyState :
               /\ buy' = [buy EXCEPT ![b] = e] /\ e.account = buy[b].account
               /\ e.pc = "save" /\ e.customer = b
               /\ e.plan = buy[b].plan /\ e.price = buy[b].price
  <2>1. PICK e : e = [buy[b] EXCEPT !.pc = "save", !.customer = b]
    OBVIOUS
  <2>2. buy[b] \in BuyState /\ b \in Customer
    BY <1>0, <1>01, <1>4 DEF BuyCreateCustomer, Customer
  <2>3. /\ e \in BuyState /\ e.account = buy[b].account /\ e.plan = buy[b].plan
        /\ e.pc = "save" /\ e.price = buy[b].price /\ e.customer = b
    BY <2>1, <2>2 DEF BuyState
  <2> HIDE DEF BuyState
  <2> QED
    BY <1>4, <2>1, <2>3 DEF BuyCreateCustomer
<1>5. ASSUME NEW pc \in {"session", "failed"}, buy[b].pc # "idle", buy' = [buy EXCEPT ![b].pc = pc]
      PROVE  \E e \in BuyState :
               /\ buy' = [buy EXCEPT ![b] = e] /\ e.account = buy[b].account
               /\ e.pc = pc /\ e.customer = buy[b].customer
               /\ e.plan = buy[b].plan /\ e.price = buy[b].price
  <2>1. PICK e : e = [buy[b] EXCEPT !.pc = pc]
    OBVIOUS
  <2>3. /\ e \in BuyState /\ e.account = buy[b].account /\ e.plan = buy[b].plan
        /\ e.pc = pc /\ e.price = buy[b].price /\ e.customer = buy[b].customer
    BY <1>01, <1>5, <2>1 DEF BuyState
  <2> HIDE DEF BuyState
  <2> QED
    BY <1>5, <2>1, <2>3
<1>6. ASSUME BuySession(b)
      PROVE  \E e \in BuyState :
               /\ buy' = [buy EXCEPT ![b] = e] /\ e.account = buy[b].account
               /\ e.pc = "sold" /\ e.customer = buy[b].customer
               /\ e.plan = buy[b].plan /\ e.price = buy[b].price
               /\ e.fair = (e.plan \in listed /\ charge[e.price] = Charged(terms[e.plan]))
  <2>1. PICK fair : fair = (buy[b].plan \in listed
                              /\ charge[buy[b].price] = Charged(terms[buy[b].plan]))
    OBVIOUS
  <2>2. PICK e : e = [buy[b] EXCEPT !.pc = "sold", !.fair = fair]
    OBVIOUS
  <2>3. buy[b] \in BuyState /\ fair \in BOOLEAN
    BY <1>01, <1>6, <2>1 DEF BuySession
  <2>4. /\ e \in BuyState /\ e.account = buy[b].account /\ e.plan = buy[b].plan
        /\ e.pc = "sold" /\ e.price = buy[b].price /\ e.customer = buy[b].customer
        /\ e.fair = fair
    BY <2>2, <2>3 DEF BuyState
  <2> HIDE DEF BuyState
  <2>5. buy' = [buy EXCEPT ![b] = e]
    BY <1>6, <2>1, <2>2 DEF BuySession
  <2> QED
    BY <2>1, <2>4, <2>5
<1> HIDE DEF BuyState
<1>7. CASE \E a \in Account : BuyReadUser(b, a)
  BY <1>1, <1>7 DEF BuyReadUser, Purchased
<1>8. CASE \E p \in CreatePlan : BuyReadPlan(b, p)
  BY <1>2, <1>8 DEF BuyReadPlan, Purchased
<1>9. CASE BuyReadBilling(b)
  BY <1>3, <1>9 DEF BuyReadBilling, Purchased
<1>10. CASE BuyCreateCustomer(b)
  BY <1>4, <1>10 DEF BuyCreateCustomer, Purchased
<1>11. CASE BuySaveCustomer(b)
  BY <1>5, <1>11 DEF BuySaveCustomer, Purchased
<1>12. CASE BuySession(b)
  BY <1>6, <1>12 DEF BuySession, Purchased
<1>13. CASE BuyFails(b)
  BY <1>5, <1>13 DEF BuyFails, Purchased
<1> QED
  BY <1>7, <1>8, <1>9, <1>10, <1>11, <1>12, <1>13 DEF BuyNext

\* A purchase keeps the invariant: the session is opened at the price of the row, and
\* for the customer the account names.
LEMMA BuyKeeps ==
    ASSUME CatalogInv, NEW b \in Buy, BuyNext(b)
    PROVE  CatalogInv'
<1>0. CatalogTypeOK /\ PlanInv /\ NoValue # b /\ b \notin Account
  BY CatalogAssumption DEF CatalogInv, PlanInv
<1>1. PICK e \in BuyState : Purchased(b, e)
  BY BuyGoes
<1>2. BuyAt(b, e) /\ buy' \in [Buy -> {Idle} \cup BuyState]
  BY <1>0, <1>1, BuyMoves DEF Purchased
<1>3. e.account \in Account /\ e.plan \in CreatePlan \cup {NoValue}
  BY DEF BuyState
<1>4. UNCHANGED <<rowVars, edit, overlapped, subscribed, verdict, register>>
  BY <1>1 DEF Purchased, planVars, rowVars
<1>5. raced \subseteq raced' /\ raced' \subseteq raced \cup {e.account}
  BY <1>1 DEF Purchased
<1>6. CatalogTypeOK'
  <2>1. customer' \subseteq Customer /\ billing' \in [Account -> Customer \cup {NoValue}]
    BY <1>0, <1>1, <1>3 DEF Purchased, CatalogTypeOK, Customer
  <2>2. raced' \subseteq Account
    BY <1>0, <1>3, <1>5 DEF CatalogTypeOK
  <2> QED
    BY <1>0, <1>2, <1>4, <2>1, <2>2 DEF CatalogTypeOK, rowVars
<1>7. PlanInv'
  BY <1>0, <1>4, <1>6, PlansKept
<1>8. \A p, x : Exposed(p, x)' <=> Exposed(p, x)
  BY <1>4 DEF Exposed
<1>9. buy[b].pc \in {"billing", "create", "save", "session"} =>
        /\ buy[b].plan \in CreatePlan /\ create[buy[b].plan] = "done"
        /\ Exposed(buy[b].plan, buy[b].price)
  BY DEF CatalogInv, PurchasesOK
<1>10. PurchasesOK'
  <2> SUFFICES ASSUME NEW c \in Buy, buy'[c].pc \in {"billing", "create", "save", "session"}
               PROVE  /\ buy'[c].plan \in CreatePlan /\ create[buy'[c].plan] = "done"
                      /\ Exposed(buy'[c].plan, buy'[c].price)
    BY <1>4, <1>8 DEF PurchasesOK, rowVars
  <2>1. CASE c = b /\ buy[b].pc = "plan"
    <3>1. e.plan \in listed /\ e.price = priceOf[e.plan]
      BY <1>1, <1>2, <2>1 DEF Purchased, BuyAt
    <3>2. e.plan \in CreatePlan /\ create[e.plan] = "done" /\ Exposed(e.plan, e.price)
      BY <1>0, <3>1 DEF PlanInv, CreatesOK, CreateOK, Named, CatalogTypeOK
    <3> QED
      BY <1>2, <2>1, <3>2 DEF BuyAt
  <2>2. CASE c = b /\ buy[b].pc # "plan"
    BY <1>1, <1>2, <1>9, <2>2 DEF Purchased, BuyAt
  <2>3. CASE c # b
    BY <1>2, <2>3 DEF CatalogInv, PurchasesOK, BuyAt
  <2> QED
    BY <2>1, <2>2, <2>3
<1>11. SessionsAreFair'
  <2> SUFFICES ASSUME NEW c \in Buy, buy'[c].pc = "sold", buy'[c].plan \notin overlapped
               PROVE  buy'[c].fair
    BY <1>4 DEF SessionsAreFair
  <2>1. CASE c # b
    BY <1>2, <2>1 DEF CatalogInv, SessionsAreFair, BuyAt
  <2>2. CASE c = b
    <3> DEFINE p == e.plan
               q == e.price
    <3>1. /\ buy[b].pc = "session" /\ p = buy[b].plan /\ q = buy[b].price
          /\ q \in price /\ p \in product
          /\ e.fair = (p \in listed /\ charge[q] = Charged(terms[p]))
      BY <1>1, <1>2, <2>2 DEF Purchased, BuyAt
    <3>2. p \in CreatePlan \ overlapped /\ create[p] = "done" /\ Exposed(p, q)
      BY <1>2, <1>9, <2>2, <3>1 DEF BuyAt
    <3>3. p \in listed
      BY <1>0, <3>1, <3>2 DEF PlanInv, CreatesOK, CreateOK
    <3>4. q = priceOf[p]
      BY <1>0, <3>1, <3>2 DEF PlanInv, ArchivedOnce
    <3>5. charge[q] = Charged(terms[p])
      BY <1>0, <3>2, <3>3, <3>4 DEF PlanInv, Charges
    <3> QED
      BY <1>2, <2>2, <3>1, <3>3, <3>5 DEF BuyAt
  <2> QED
    BY <2>1, <2>2
<1>12. MakersOK'
  <2>1. customer' \subseteq customer \cup {b}
    BY <1>1 DEF Purchased
  <2>2. \A a \in Account : a \in customer' => register'[a] # "create"
    BY <1>0, <1>4, <2>1 DEF CatalogInv, MakersOK
  <2>3. ASSUME NEW c \in Buy
        PROVE  /\ buy'[c].pc = "save" => buy'[c].customer = c
               /\ c \in customer' =>
                    /\ buy'[c].pc \in {"save", "session", "sold", "failed"}
                    /\ buy'[c].pc # "failed" => buy'[c].customer = c
    <3>1. CASE c # b
      BY <1>2, <2>1, <3>1 DEF CatalogInv, MakersOK, BuyAt
    <3>2. CASE c = b
      BY <1>1, <1>2, <3>2 DEF CatalogInv, MakersOK, BuyAt, Purchased
    <3> QED
      BY <3>1, <3>2
  <2> QED
    BY <2>2, <2>3 DEF MakersOK
<1>13. b \in Making(e.account)' <=> e.pc \in {"create", "save"}
  BY <1>0, <1>2, <1>3 DEF Making, Customer, BuyAt
<1>14. ASSUME NEW a \in Account
       PROVE  /\ \A c : c # b => (c \in Making(a)' <=> c \in Making(a))
              /\ a # e.account => b \notin Making(a)'
  BY <1>0, <1>2, <1>4 DEF Making, BuyAt
<1>15. buy[b].pc \in {"create", "save"} => b \in Making(e.account) /\ buy[b].account = e.account
  BY <1>1 DEF Making, Customer, Purchased
<1>16. AccountsOK'
  <2> SUFFICES ASSUME NEW a \in Account \ raced' PROVE AccountOK(a)'
    BY DEF AccountsOK
  <2>0. AccountOK(a)
    BY <1>5 DEF CatalogInv, AccountsOK
  <2>1. CASE a # e.account
    <3>1. Making(a)' \subseteq Making(a)
      BY <1>14, <2>1
    <3>2. billing'[a] = billing[a]
      BY <1>0, <1>1, <2>1 DEF Purchased, CatalogTypeOK
    <3> QED
      BY <1>4, <2>0, <3>1, <3>2 DEF AccountOK
  <2>2. CASE a = e.account /\ buy[b].pc = "billing" /\ e.pc = "create"
    <3>1. billing[a] = NoValue /\ Making(a) = {} /\ billing' = billing
      BY <1>1, <2>2 DEF Purchased
    <3>2. Making(a)' \subseteq {b}
      BY <1>14, <3>1
    <3>3. register[a] # "done"
      BY <2>0, <3>1, CatalogAssumption DEF AccountOK
    <3> QED
      BY <1>4, <3>1, <3>2, <3>3 DEF AccountOK
  <2>3. CASE a = e.account /\ buy[b].pc = "save" /\ e.pc = "session"
    <3>1. billing[a] = NoValue /\ Making(a) = {b}
      BY <1>15, <2>0, <2>3 DEF AccountOK
    <3>2. Making(a)' = {}
      BY <1>3, <1>13, <1>14, <2>3, <3>1
    <3>3. register[a] # "done"
      BY <2>0, <3>1, CatalogAssumption DEF AccountOK
    <3> QED
      BY <1>4, <3>2, <3>3 DEF AccountOK
  <2>4. CASE /\ a = e.account
             /\ ~(buy[b].pc = "billing" /\ e.pc = "create")
             /\ ~(buy[b].pc = "save" /\ e.pc = "session")
    <3>1. billing' = billing /\ (e.pc \in {"create", "save"} => buy[b].pc = "create")
      BY <1>1, <2>4 DEF Purchased
    <3>2. Making(a)' \subseteq Making(a)
      BY <1>13, <1>14, <1>15, <2>4, <3>1
    <3> QED
      BY <1>4, <2>0, <3>1, <3>2 DEF AccountOK
  <2> QED
    BY <2>1, <2>2, <2>3, <2>4
<1>17. OpenedOK'
  <2> SUFFICES ASSUME NEW c \in Buy, buy'[c].pc \in {"session", "sold"},
                      buy'[c].account \notin raced'
               PROVE  /\ buy'[c].customer = billing'[buy'[c].account]
                      /\ buy'[c].customer # NoValue
    BY DEF OpenedOK, SessionOK
  <2>1. CASE buy[b].pc = "save" /\ e.pc = "session"
    <3>1. buy[b].customer = b /\ e.customer = b /\ billing' = [billing EXCEPT ![e.account] = b]
      BY <1>1, <2>1 DEF Purchased, CatalogInv, MakersOK
    <3>2. billing'[e.account] = b /\ \A a \in Account \ {e.account} : billing'[a] = billing[a]
      BY <1>0, <1>3, <3>1 DEF CatalogTypeOK
    <3>3. CASE c = b
      BY <1>0, <1>2, <3>1, <3>2, <3>3 DEF BuyAt
    <3>4. CASE c # b
      <4>1. buy'[c] = buy[c] /\ buy[c].account \in Account
        BY <1>0, <1>2, <3>4, BuyTypes DEF BuyAt, BuyState
      <4>2. buy[c].customer = billing[buy[c].account] /\ buy[c].customer # NoValue
        BY <1>5, <4>1 DEF CatalogInv, OpenedOK, SessionOK
      <4>3. buy[c].account # e.account
        BY <1>3, <1>5, <1>15, <2>1, <4>1, <4>2 DEF CatalogInv, AccountsOK, AccountOK
      <4> QED
        BY <3>2, <4>1, <4>2, <4>3
    <3> QED
      BY <3>3, <3>4
  <2>2. CASE ~(buy[b].pc = "save" /\ e.pc = "session")
    <3>1. billing' = billing
      BY <1>1, <2>2 DEF Purchased
    <3>2. CASE c # b
      BY <1>2, <1>5, <3>1, <3>2 DEF CatalogInv, OpenedOK, SessionOK, BuyAt
    <3>3. CASE c = b
      BY <1>1, <1>2, <1>5, <2>2, <3>1, <3>3 DEF CatalogInv, OpenedOK, SessionOK, BuyAt, Purchased
    <3> QED
      BY <3>2, <3>3
  <2> QED
    BY <2>1, <2>2
<1> QED
  BY <1>7, <1>10, <1>11, <1>12, <1>16, <1>17 DEF CatalogInv

------------------------------------------------------------------------------
\* Nothing happens.
LEMMA CatalogStutters == ASSUME CatalogInv, UNCHANGED catalogVars PROVE CatalogInv'
<1> USE DEF catalogVars
<1>1. CatalogTypeOK'
  BY DEF CatalogInv, PlanInv, CatalogTypeOK
<1>2. PlanInv'
  BY <1>1, PlansKept DEF CatalogInv, rowVars
<1> QED
  BY <1>2, AccountsKept DEF accountVars, Exposed

\* The invariant holds of every reachable state.
LEMMA CatalogInductive == CatalogSpec => []CatalogInv
<1>1. CatalogInv /\ [CatalogNext]_catalogVars => CatalogInv'
  BY CreateKeeps, EditKeeps, RegisterKeeps, BuyKeeps, SubscribeKeeps, CatalogStutters
     DEF CatalogNext, Editor
<1> QED
  BY <1>1, InitCatalog, PTL DEF CatalogSpec

\* createPlan, updatePlan, removePlan, registration, review and purchases keep rows,
\* Stripe objects and requests of their kinds, wherever they fail between two awaits.
THEOREM CatalogTypes == CatalogSpec => []CatalogTypeOK
<1>1. CatalogInv => CatalogTypeOK
  BY DEF CatalogInv, PlanInv
<1> QED
  BY <1>1, CatalogInductive, PTL

\* updatePlan and removePlan write Stripe and then the row: a listed plan that knows no
\* overlapping edits is charged what its row lists, and is on sale unless an edit is
\* under way or stopped half way.
THEOREM RowsAgree == CatalogSpec => []RowsAgreeWithStripe
<1>1. CatalogInv => RowsAgreeWithStripe
  <2> SUFFICES ASSUME CatalogInv, NEW p \in listed \ overlapped
               PROVE  /\ charge[priceOf[p]] = Charged(terms[p])
                      /\ \/ priceOf[p] \in price /\ p \in product /\ title[p] = terms[p]["title"]
                         \/ \E q \in Editor : edit[q].pc \notin {"idle", "done"} /\ edit[q].plan = p
    BY DEF RowsAgreeWithStripe
  <2>1. charge[priceOf[p]] = Charged(terms[p])
    BY DEF CatalogInv, PlanInv, Charges
  <2>2. CASE Stopped(p) \/ Editing(p) # {}
    BY <2>1, <2>2 DEF Stopped, Editing, InFlight
  <2>3. CASE ~Stopped(p) /\ Editing(p) = {}
    BY <2>1, <2>3 DEF CatalogInv, PlanInv, StagesOK, Before, OnSale
  <2> QED
    BY <2>2, <2>3
<1> QED
  BY <1>1, CatalogInductive, PTL

\* The checkout is opened at the price read several awaits earlier, and still charges
\* what the plan lists then: an edit archives the old price before it rewrites the row.
THEOREM FairSessions == CatalogSpec => []SessionsAreFair
<1>1. CatalogInv => SessionsAreFair
  BY DEF CatalogInv
<1> QED
  BY <1>1, CatalogInductive, PTL

\* Register and the first purchase make a Stripe customer and save its id in a step of
\* its own: a customer no row names is one whose maker has yet to save it or stopped.
THEOREM NamedCustomers == CatalogSpec => []CustomersAreNamed
<1>1. CatalogInv => CustomersAreNamed
  <2> SUFFICES ASSUME CatalogInv PROVE CustomersAreNamed
    OBVIOUS
  <2>0. CatalogTypeOK
    BY DEF CatalogInv, PlanInv
  <2>1. ASSUME NEW c \in customer, c \in Account, register[c] \notin {"save", "failed"}, c \notin raced
        PROVE  billing[c] = c
    <3>1. register[c] = "done"
      BY <2>0, <2>1 DEF CatalogInv, MakersOK, CatalogTypeOK, RegisterPc
    <3> QED
      BY <2>1, <3>1 DEF CatalogInv, AccountsOK, AccountOK
  <2>2. ASSUME NEW c \in customer, c \in Buy, buy[c].pc \notin {"save", "failed"},
               buy[c].account \notin raced
        PROVE  billing[buy[c].account] = c /\ buy[c].account \in Account
    <3>1. buy[c].pc \in {"session", "sold"} /\ buy[c].customer = c
      BY <2>2 DEF CatalogInv, MakersOK
    <3>2. buy[c].account \in Account
      BY <2>0, <2>2, <3>1, BuyTypes DEF BuyState
    <3> QED
      BY <2>2, <3>1, <3>2 DEF CatalogInv, OpenedOK, SessionOK
  <2>3. \A c \in customer : c \in Account \/ c \in Buy
    BY <2>0 DEF CatalogTypeOK, Customer
  <2>4. \A b \in Buy :
          buy[b].pc = "sold" /\ buy[b].account \notin raced =>
            buy[b].customer = billing[buy[b].account]
    BY DEF CatalogInv, OpenedOK, SessionOK
  <2> QED
    BY <2>1, <2>2, <2>3, <2>4 DEF CustomersAreNamed
<1> QED
  BY <1>1, CatalogInductive, PTL

------------------------------------------------------------------------------
(* The storefront *)

\* One part moves and the others stand still, so a behaviour of the whole is a
\* behaviour of every part.
THEOREM StorefrontParts == StorefrontSpec => CatalogSpec /\ AccountsSpec /\ SessionsSpec
<1>1. StorefrontInit => CatalogInit /\ AccountsInit /\ SessionsInit
  BY DEF StorefrontInit
<1>2. [StorefrontNext]_<<catalogVars, accountsVars, sessionsVars, part>>
          => [CatalogNext]_catalogVars
  BY DEF StorefrontNext
<1>3. [StorefrontNext]_<<catalogVars, accountsVars, sessionsVars, part>>
          => [AccountsNext]_accountsVars
  BY DEF StorefrontNext
<1>4. [StorefrontNext]_<<catalogVars, accountsVars, sessionsVars, part>>
          => [SessionsNext]_sessionsVars
  BY DEF StorefrontNext
<1> QED BY <1>1, <1>2, <1>3, <1>4, PTL
        DEF StorefrontSpec, CatalogSpec, AccountsSpec, SessionsSpec

\* All handlers of the storefront keep rows, Stripe objects, tokens and requests of
\* their kinds.
THEOREM StorefrontTypes == StorefrontSpec => []TypeOK
<1>1. CatalogTypeOK /\ AccountsTypeOK /\ SessionsTypeOK => TypeOK
  BY DEF TypeOK
<1> QED BY <1>1, StorefrontParts, CatalogTypes, AccountsTypes, SessionsTypes, PTL

\* What is proved of each part holds of the storefront: plans, accounts and sessions
\* keep their promises in every behaviour of the whole.
THEOREM StorefrontKeeps ==
    StorefrontSpec => /\ [](RowsAgreeWithStripe /\ SessionsAreFair /\ CustomersAreNamed)
                      /\ [](VerifiedAddressWasProved /\ WritesAreOwn /\ MailboxesAreSingle)
                      /\ []SessionsAreEarned
<1> QED BY StorefrontParts, RowsAgree, FairSessions, NamedCustomers, VerifiedWasProved,
           WritesOwn, MailboxesSingle, SessionsEarned, PTL

=============================================================================
