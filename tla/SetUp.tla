------------------------------- MODULE SetUp --------------------------------
(***************************************************************************)
(* Incomes, bills and goals of one account (set-up.service.ts); every      *)
(* statement filters by user_id, so accounts do not meet.  The handlers    *)
(* run in Postgres transactions at Read Committed: a deleteMany sees the   *)
(* rows committed when it starts and waits for those another transaction   *)
(* has locked; rows committed meanwhile it does not see.  Every            *)
(* transaction and every query takes a connection of one pool and waits    *)
(* for it; Prisma rolls a transaction back when its time is over.          *)
(***************************************************************************)
EXTENDS Integers, FiniteSets, FiniteSetsExt

CONSTANTS
    Create,     \* POST /set-up
    Replace,    \* PATCH /set-up
    Remove,     \* DELETE /set-up
    Edit,       \* the routes of single bills, goals and incomes
    View,       \* GET /set-up/pay-incomes
    Body,       \* what a POST or PATCH may carry: the lists given, and those not empty
    Figure,     \* what a row may hold: an amount and a frequency
    Pool        \* connections

Table == {"incomes", "commitments", "goals"}
Frequency == {"WEEKLY", "EVERY_2_WEEKS", "TWICE_A_MONTH", "MONTHLY", "INCONSISTENT"}

ASSUME SetUpAssumption ==
    /\ Figure \subseteq [amount : Nat, frequency : Frequency]
    /\ Figure # {}
    /\ Body \subseteq [given : SUBSET Table, listed : SUBSET Table]
    /\ \A b \in Body : b.listed \subseteq b.given
    /\ Pool \in Nat \ {0}
    /\ Create \cap Replace = {} /\ Create \cap Remove = {} /\ Create \cap Edit = {}
    /\ Replace \cap Remove = {} /\ Replace \cap Edit = {} /\ Remove \cap Edit = {}

Request == Create \cup Replace \cup Remove \cup Edit
\* The rows of a request in a table are one: they come together.
Row == Request \X Table

VARIABLES
    rows,    \* the committed rows
    figure,  \* what they hold
    tx,      \* the requests that write
    view     \* the requests that read

setUpVars == <<rows, figure, tx, view>>

\* "given" are the lists in the body, "listed" those that are not empty, "left" the
\* tables not reached, "at" the one reached, "snapshot" the rows its statement waits
\* for, "gone" and "added" what is deleted (and locked) and inserted, and not
\* committed.  "before" is history: the rows committed when the request began.
TxState ==
    [pc : {"idle", "next", "wait", "answer", "commit", "done", "failed"},
     given : SUBSET Table, listed : SUBSET Table, left : SUBSET Table, at : Table,
     snapshot : SUBSET Row, gone : SUBSET Row, added : SUBSET Row, before : SUBSET Row,
     drops : BOOLEAN, holds : Figure]
ViewState == [left : SUBSET Table, seen : SUBSET (Row \X Figure)]

\* Every variable holds a value of its kind.
SetUpTypeOK ==
    /\ rows \subseteq Row
    /\ figure \in [Row -> Figure]
    /\ tx \in [Request -> TxState]
    /\ view \in [View -> ViewState]

\* What a row that was never there holds.
AnyFigure == CHOOSE f \in Figure : TRUE

SetUpInit ==
    /\ rows = {}
    /\ figure = [x \in Row |-> AnyFigure]
    /\ tx = [r \in Request |->
           [pc |-> "idle", given |-> {}, listed |-> {}, left |-> {}, at |-> "incomes",
            snapshot |-> {}, gone |-> {}, added |-> {}, before |-> {}, drops |-> FALSE,
            holds |-> AnyFigure]]
    /\ view = [v \in View |-> [left |-> Table, seen |-> {}]]

RowsOf(t) == {x \in rows : x[2] = t}
Lines(r, L) == {<<r, t>> : t \in L}

InTransaction(r) == tx[r].pc \in {"next", "wait", "answer", "commit"}
Connected == {r \in Request : InTransaction(r)}
Connectable == Cardinality(Connected) < Pool

\* Who has locked a row that r waits for.
WaitsFor(r) == {q \in Connected \ {r} : tx[q].gone \cap tx[r].snapshot # {}}

------------------------------------------------------------------------------
(* The whole set-up *)

\* createMySetUpIncome: inserts do not wait for anybody.
CreateBegin(r, b, f) ==
    /\ tx[r].pc = "idle"
    /\ Connectable
    /\ tx' = [tx EXCEPT ![r] = [@ EXCEPT !.pc = "commit", !.added = Lines(r, b.listed),
                                         !.before = rows, !.holds = f]]
    /\ UNCHANGED <<rows, figure, view>>

\* updateMySetUpIncome.
ReplaceBegin(r, b, f) ==
    /\ tx[r].pc = "idle"
    /\ Connectable
    /\ tx' = [tx EXCEPT ![r] = [@ EXCEPT !.pc = IF b.given = {} THEN "answer" ELSE "next",
                                         !.given = b.given, !.listed = b.listed,
                                         !.left = b.given, !.before = rows, !.holds = f]]
    /\ UNCHANGED <<rows, figure, view>>

\* removeMySetUp: the three deleteMany in one transaction.
RemoveBegin(r) ==
    /\ tx[r].pc = "idle"
    /\ Connectable
    /\ tx' = [tx EXCEPT ![r] = [@ EXCEPT !.pc = "next", !.given = Table, !.left = Table,
                                         !.before = rows]]
    /\ UNCHANGED <<rows, figure, view>>

\* Variant: removeMySetUp takes the goals first.
TurnOfGoals(r, t) ==
    /\ t \in tx[r].left
    /\ r \in Remove => t = "goals" \/ "goals" \notin tx[r].left
    /\ r \notin Remove => t = "incomes" \/ "incomes" \notin tx[r].left

\* Incomes, then commitments, then goals, in both handlers.
Turn(r, t) ==
    /\ t \in tx[r].left
    /\ t # "incomes" => "incomes" \notin tx[r].left
    /\ t = "goals" => "commitments" \notin tx[r].left

\* A deleteMany starts: it sees what is committed.
DeleteStart(r, t) ==
    /\ tx[r].pc = "next"
    /\ Turn(r, t)
    /\ tx' = [tx EXCEPT ![r] = [@ EXCEPT !.pc = "wait", !.left = tx[r].left \ {t},
                                         !.at = t, !.snapshot = RowsOf(t)]]
    /\ UNCHANGED <<rows, figure, view>>

\* Where a transaction is after a table.
After(r) ==
    IF tx[r].left # {} THEN "next" ELSE IF r \in Replace THEN "answer" ELSE "commit"

\* Variant: updateMySetUpIncome adds to what is there.
DeleteNothing(r) ==
    /\ tx[r].pc = "wait"
    /\ tx' = [tx EXCEPT ![r] = [@ EXCEPT !.pc = After(r), !.snapshot = {},
                                         !.added = tx[r].added \cup
                                             Lines(r, tx[r].listed \cap {tx[r].at})]]
    /\ UNCHANGED <<rows, figure, view>>

\* It has what it waited for and deletes the rows that are still there; the creates
\* of the table follow.
DeleteEnd(r) ==
    /\ tx[r].pc = "wait"
    /\ WaitsFor(r) = {}
    /\ tx' = [tx EXCEPT ![r] = [@ EXCEPT !.pc = After(r), !.snapshot = {},
                                         !.gone = tx[r].gone \cup (tx[r].snapshot \cap rows),
                                         !.added = tx[r].added \cup
                                             Lines(r, tx[r].listed \cap {tx[r].at})]]
    /\ UNCHANGED <<rows, figure, view>>

\* findMySetUpIncome, not on the transaction: it takes another connection, and
\* answers what is committed, which is what this request replaces.
Answer(r) ==
    /\ tx[r].pc = "answer"
    /\ Connectable
    /\ tx' = [tx EXCEPT ![r].pc = "commit"]
    /\ UNCHANGED <<rows, figure, view>>

\* The transaction is over: its locks are gone.
Ended(r, pc) ==
    [tx EXCEPT ![r] = [@ EXCEPT !.pc = pc, !.left = {}, !.snapshot = {}, !.gone = {},
                                !.added = {}]]

\* The transaction commits.
Commit(r) ==
    /\ tx[r].pc = "commit"
    /\ rows' = (rows \ tx[r].gone) \cup tx[r].added
    /\ figure' = [x \in Row |-> IF x \in tx[r].added THEN tx[r].holds ELSE figure[x]]
    /\ tx' = Ended(r, "done")
    /\ UNCHANGED view

\* Its time is over, a statement is rejected, or the connection is lost.
Rollback(r) ==
    /\ InTransaction(r)
    /\ tx' = Ended(r, "failed")
    /\ UNCHANGED <<rows, figure, view>>

------------------------------------------------------------------------------
(* Single rows *)

\* adddNewGoal and CreateANewBill.
AddRow(r, t, f) ==
    /\ tx[r].pc = "idle"
    /\ t # "incomes"
    /\ Connectable
    /\ rows' = rows \cup {<<r, t>>}
    /\ figure' = [figure EXCEPT ![<<r, t>>] = f]
    /\ tx' = [tx EXCEPT ![r] = [@ EXCEPT !.pc = "done", !.before = rows]]
    /\ UNCHANGED view

\* updateMyGoal, updateBill, updatePayIncome, and with drops deleteMyGoal and
\* deleteBill: the id of a row that is or was there.
RowStart(r, x, drops, f) ==
    /\ tx[r].pc = "idle"
    /\ drops => x[2] # "incomes"
    /\ tx[x[1]].pc = "done"
    /\ Connectable
    /\ tx' = [tx EXCEPT ![r] = [@ EXCEPT !.pc = IF x \in rows THEN "wait" ELSE "failed",
                                         !.snapshot = {x}, !.before = rows, !.drops = drops,
                                         !.holds = f]]
    /\ UNCHANGED <<rows, figure, view>>

\* It has the row: the statement and its commit, or P2025.
RowEnd(r) ==
    LET kept == tx[r].snapshot \cap rows
    IN  /\ tx[r].pc = "wait"
        /\ WaitsFor(r) = {}
        /\ rows' = IF tx[r].drops THEN rows \ kept ELSE rows
        /\ figure' = [x \in Row |-> IF x \in kept /\ ~tx[r].drops THEN tx[r].holds
                                    ELSE figure[x]]
        /\ tx' = Ended(r, IF kept = {} THEN "failed" ELSE "done")
        /\ UNCHANGED view

------------------------------------------------------------------------------
(* findAllPayIncomes *)

\* One of its three queries.
ViewRead(v, t) ==
    /\ t \in view[v].left
    /\ Connectable
    /\ view' = [view EXCEPT ![v] =
           [left |-> @.left \ {t}, seen |-> @.seen \cup {<<x, figure[x]>> : x \in RowsOf(t)}]]
    /\ UNCHANGED <<rows, figure, tx>>

\* Monthly amounts, in hundredths.
ToMonthly(f) ==
    f.amount * CASE f.frequency = "WEEKLY" -> 433
                 [] f.frequency = "EVERY_2_WEEKS" -> 216
                 [] f.frequency = "TWICE_A_MONTH" -> 200
                 [] f.frequency = "MONTHLY" -> 100
                 [] OTHER -> 0

Total(S) == MapThenSumSet(LAMBDA line : ToMonthly(line[2]), S)
TotalMonthlyIncome(v) == Total({line \in view[v].seen : line[1][2] = "incomes"})
TotalMonthlyExpenses(v) == Total({line \in view[v].seen : line[1][2] # "incomes"})

\* Math.round: halves go up.
Round(n) == (n + 50) \div 100

\* Variant: what cannot be spent is shown as a debt.
SafeToSpendDebt(income, expenses) == Round(income - expenses)

SafeToSpend(income, expenses) ==
    LET safe == Round(income - expenses) IN IF safe > 0 THEN safe ELSE 0

------------------------------------------------------------------------------
CreateNext(r) ==
    \/ \E b \in Body, f \in Figure : CreateBegin(r, b, f)
    \/ Commit(r)

ReplaceNext(r) ==
    \/ \E b \in Body, f \in Figure : ReplaceBegin(r, b, f)
    \/ \E t \in Table : DeleteStart(r, t)
    \/ DeleteEnd(r)
    \/ Answer(r)
    \/ Commit(r)

RemoveNext(r) ==
    \/ RemoveBegin(r)
    \/ \E t \in Table : DeleteStart(r, t)
    \/ DeleteEnd(r)
    \/ Commit(r)

EditNext(r) ==
    \/ \E t \in Table, f \in Figure : AddRow(r, t, f)
    \/ \E x \in Row, drops \in BOOLEAN, f \in Figure : RowStart(r, x, drops, f)
    \/ RowEnd(r)

SetUpNext ==
    \/ \E r \in Create : CreateNext(r)
    \/ \E r \in Replace : ReplaceNext(r)
    \/ \E r \in Remove : RemoveNext(r)
    \/ \E r \in Edit : EditNext(r)
    \/ \E r \in Request : Rollback(r)
    \/ \E v \in View, t \in Table : ViewRead(v, t)

SetUpSpec == SetUpInit /\ [][SetUpNext]_setUpVars

------------------------------------------------------------------------------
(* Properties *)

\* A replacement that succeeded leaves none of the rows that were there when it
\* began in the tables it was given, and none of a row's later edits brings one
\* back; one that failed leaves none of its own.  Two sets of rows in a table, which
\* would count twice in the pay plan, come from requests that overlapped or from one
\* that was asked to add.
ReplacesReplace ==
    \A r \in Replace \cup Remove :
        /\ tx[r].pc = "done" => \A x \in rows \cap tx[r].before : x[2] \notin tx[r].given
        /\ tx[r].pc # "done" => \A x \in rows : x[1] # r

\* Requests that all wait for each other wait for connections: the pool is in the
\* hands of transactions of which at least one asks for a second connection to read
\* its answer.  The order in which transactions take the tables never closes a circle.
StuckIsExplained ==
    LET Blocked(r) ==
            \/ tx[r].pc = "wait" /\ WaitsFor(r) # {}
            \/ tx[r].pc = "answer" /\ ~Connectable
    IN  (Connected # {} /\ \A r \in Connected : Blocked(r)) =>
            ~Connectable /\ \E r \in Connected : tx[r].pc = "answer"

\* The three numbers of a pay plan fit together, though each is rounded on its own:
\* what is safe to spend is within one of what the income shown leaves after the
\* expenses shown, and nothing when they exceed it.
SummaryAddsUp ==
    \A v \in View :
        LET income == TotalMonthlyIncome(v)
            expenses == TotalMonthlyExpenses(v)
            left == Round(income) - Round(expenses)
            safe == SafeToSpend(income, expenses)
        IN  IF left >= 0 THEN safe \in Nat \cap (left - 1 .. left + 1) ELSE safe = 0

=============================================================================
