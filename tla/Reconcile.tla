------------------------------ MODULE Reconcile ------------------------------
(***************************************************************************)
(* reconcile_accounting (app/tools.py): every order is compared with its   *)
(* ledger entries, and the share of clean orders is the integrity rate.    *)
(*                                                                         *)
(* The report is one READ COMMITTED transaction of many statements: one    *)
(* reads all orders, and their rows stay in the session as they were; then *)
(* one per order reads its entries. The business goes on in between.       *)
(*                                                                         *)
(* Money is counted in cents. The code adds floats and tolerates a gap of  *)
(* one cent: rounding decides what a gap of exactly one cent is, and       *)
(* nothing else, so that such an order may be judged either way.           *)
(***************************************************************************)
EXTENDS Integers, Sequences, FiniteSets, FiniteSetsExt

CONSTANTS
  Orders,      \* ids of orders
  NoOrder,     \* the row of an id not yet given
  Amounts,     \* amounts of orders and of ledger entries, in cents
  Callers,     \* reports under way at once
  Scale,       \* the rate's unit: round(..., 4) makes it 10000
  MaxChanges   \* bound: transactions of the business

OrderRow == [amount : Amounts, cancelled : BOOLEAN]
Entry    == [kind : {"sale", "refund"}, amount : Amounts]

ASSUME ReconcileAssumption ==
  /\ IsFiniteSet(Orders)
  /\ NoOrder \notin OrderRow
  /\ Amounts \subseteq Nat
  /\ Scale \in Nat \ {0}
  /\ MaxChanges \in Nat

VARIABLES
  orders,   \* the order table
  ledger,   \* the transactions table, by order
  report,   \* what each call has read and found
  touched,  \* history: orders that changed since the call read them
  bare,     \* history: orders that stood without an entry when the call read them
  changes   \* committed transactions of the business

rvars == <<orders, ledger, report, touched, bare, changes>>

NoReport == [stage |-> "none"]

RInit ==
  /\ orders  = [o \in Orders |-> NoOrder]
  /\ ledger  = [o \in Orders |-> <<>>]
  /\ report  = [c \in Callers |-> NoReport]
  /\ touched = [c \in Callers |-> {}]
  /\ bare    = [c \in Callers |-> {}]
  /\ changes = 0

----------------------------------------------------------------------------
(* The judgement of one order.                                             *)

\* Whatever is not a sale is taken off.
Signed(e) == IF e.kind = "sale" THEN e.amount ELSE -e.amount

Net(entries) == MapThenSumSet(LAMBDA n : Signed(entries[n]), DOMAIN entries)

Expected(row) == IF row.cancelled THEN 0 ELSE row.amount

Gap(row, entries) ==
  LET d == Net(entries) - Expected(row) IN IF d < 0 THEN -d ELSE d

\* Mutation: a cancelled order is expected to have entries like any other.
JudgementsIgnoringCancelled(row, entries) ==
  IF entries = <<>>
    THEN {"missing"}
    ELSE (IF Gap(row, entries) <= 1 THEN {"clean"} ELSE {})
           \cup (IF Gap(row, entries) >= 1 THEN {"mismatched"} ELSE {})

Judgements(row, entries) ==
  IF entries = <<>>
    THEN IF row.cancelled THEN {"clean"} ELSE {"missing"}
    ELSE (IF Gap(row, entries) <= 1 THEN {"clean"} ELSE {})
           \cup (IF Gap(row, entries) >= 1 THEN {"mismatched"} ELSE {})

\* The nearest multiples of 1 / Scale; a tie falls either way.
Rates(clean, total) ==
  {r \in 0..Scale : /\ 2 * (r * total - clean * Scale) <= total
                    /\ 2 * (clean * Scale - r * total) <= total}

----------------------------------------------------------------------------
(* The business: any transaction may place or change an order and post to  *)
(* its ledger, together or not. Nothing under src/ does, but for the seed. *)

Business(o, row, entries) ==
  /\ changes < MaxChanges
  /\ changes' = changes + 1
  /\ orders' = [orders EXCEPT ![o] = row]
  /\ ledger' = [ledger EXCEPT ![o] = @ \o entries]
  /\ touched' = [c \in Callers |->
                   IF report[c] = NoReport THEN {} ELSE touched[c] \cup {o}]
  /\ UNCHANGED <<report, bare>>

\* The order comes before its ledger entries.
Trade(o) ==
  \E row \in OrderRow :
    \/ Business(o, row, <<>>)
    \/ \E e \in Entry : Business(o, row, <<e>>)

----------------------------------------------------------------------------
(* The report.                                                             *)

Placed == {o \in Orders : orders[o] # NoOrder}

LoadOrders(c) ==
  /\ report[c] = NoReport
  /\ report' = [report EXCEPT ![c] =
                  [stage |-> "judging", rows |-> [o \in Placed |-> orders[o]],
                   todo |-> Placed, missing |-> {}, mismatched |-> {}, rate |-> 0]]
  /\ touched' = [touched EXCEPT ![c] = {}]
  /\ bare' = [bare EXCEPT ![c] = {o \in Placed : ledger[o] = <<>> /\ ~orders[o].cancelled}]
  /\ UNCHANGED <<orders, ledger, changes>>

\* Mutation: the row of a missing order is noted, and not its id.
NotedWhole(R, o, v) ==
  [R EXCEPT !.todo = @ \ {o},
            !.missing = IF v = "missing" THEN @ \cup {R.rows[o]} ELSE @,
            !.mismatched = IF v = "mismatched" THEN @ \cup {o} ELSE @]

Noted(R, o, v) ==
  [R EXCEPT !.todo = @ \ {o},
            !.missing = IF v = "missing" THEN @ \cup {o} ELSE @,
            !.mismatched = IF v = "mismatched" THEN @ \cup {o} ELSE @]

\* One pass of the loop: the entries are read now, the row was read before.
Judge(c, o, v) ==
  /\ report[c].stage = "judging"
  /\ o \in report[c].todo
  /\ v \in Judgements(report[c].rows[o], ledger[o])
  /\ report' = [report EXCEPT ![c] = Noted(@, o, v)]
  /\ UNCHANGED <<orders, ledger, touched, bare, changes>>

Total(c) ==
  LET n == Cardinality(DOMAIN report[c].rows) IN IF n = 0 THEN 1 ELSE n

\* Mutation: only missing entries count against the rate.
CleanForgetful(c) == Total(c) - Cardinality(report[c].missing)

Clean(c) ==
  Total(c) - Cardinality(report[c].missing) - Cardinality(report[c].mismatched)

\* The rate is computed, the audit row commits and the report is returned.
Finish(c, r) ==
  /\ report[c].stage = "judging"
  /\ report[c].todo = {}
  /\ r \in Rates(Clean(c), Total(c))
  /\ report' = [report EXCEPT ![c] = [@ EXCEPT !.stage = "reported", !.rate = r]]
  /\ UNCHANGED <<orders, ledger, touched, bare, changes>>

\* A failing statement, or the end of the turn the call belongs to.
Drop(c) ==
  /\ report[c] # NoReport
  /\ report' = [report EXCEPT ![c] = NoReport]
  /\ UNCHANGED <<orders, ledger, touched, bare, changes>>

Verdicts == {"clean", "missing", "mismatched"}

RNext ==
  \/ \E o \in Orders : Trade(o)
  \/ \E c \in Callers :
       \/ LoadOrders(c) \/ Drop(c)
       \/ \E o \in Orders, v \in Verdicts : Judge(c, o, v)
       \/ \E r \in 0..Scale : Finish(c, r)

RSpec == RInit /\ [][RNext]_rvars

----------------------------------------------------------------------------
(* Properties.                                                             *)

Report ==
  [stage : {"judging", "reported"}, rows : UNION {[S -> OrderRow] : S \in SUBSET Orders},
   todo : SUBSET Orders, missing : SUBSET Orders, mismatched : SUBSET Orders,
   rate : 0..Scale]

RTypeOK ==
  /\ orders \in [Orders -> OrderRow \cup {NoOrder}]
  /\ ledger \in [Orders -> Seq(Entry)]
  /\ report \in [Callers -> Report \cup {NoReport}]
  /\ touched \in [Callers -> SUBSET Orders]
  /\ bare \in [Callers -> SUBSET Orders]
  /\ changes \in 0..MaxChanges

\* What a call has said of an order so far.
Said(c, o) == IF o \in report[c].missing THEN "missing"
              ELSE IF o \in report[c].mismatched THEN "mismatched" ELSE "clean"

\* An order's books are in order when its entries add up to what is expected,
\* to the cent, and something was posted for an order that stands. At a gap
\* of exactly a cent both hold.
InOrder(o) ==
  /\ Gap(orders[o], ledger[o]) <= 1
  /\ orders[o].cancelled \/ ledger[o] # <<>>

OutOfOrder(o) ==
  \/ Gap(orders[o], ledger[o]) >= 1
  \/ ~orders[o].cancelled /\ ledger[o] = <<>>

\* Docstring (app/tools.py:214): "Check that every order has matching ledger
\* entries". What a report says of an order is true of the books as they are,
\* for every order whose books did not change since the call began, however
\* many others did.
UntouchedJudgedRight ==
  \A c \in Callers : report[c] # NoReport =>
    \A o \in Orders \ (touched[c] \cup report[c].todo) :
      orders[o] # NoOrder =>
        /\ Said(c, o) = "clean" => InOrder(o)
        /\ Said(c, o) # "clean" => OutOfOrder(o)
        /\ Said(c, o) = "missing" <=> ledger[o] = <<>> /\ ~orders[o].cancelled

\* The field `missing` of the report. An order that changed while the report ran
\* is judged by a row and a ledger of different times, and may be called clean or
\* mismatched although it never was. It is called missing only if it stood
\* without an entry when the report began, whatever happened since: an entry is
\* never taken back, and the row read first is the one that counts.
MissingWasMissing ==
  \A c \in Callers : report[c] # NoReport => report[c].missing \subseteq bare[c]

Found(c) == Cardinality(report[c].missing) + Cardinality(report[c].mismatched)

\* A rate of 1.0 stands for at most one discrepancy in every twenty thousand
\* orders (2 * Scale): for none at all below that number, but from there on what
\* was found may round away. And whatever is rarer than that does round away.
FullRateIsClean ==
  \A c \in Callers : report[c] # NoReport /\ report[c].stage = "reported" =>
    /\ report[c].rate = Scale => 2 * Scale * Found(c) <= Total(c)
    /\ 2 * Scale * Found(c) < Total(c) => report[c].rate = Scale
=============================================================================
