-------------------------- MODULE Reconcile_proofs --------------------------
(***************************************************************************)
(* Proofs about Reconcile, for any number of orders, calls and changes:    *)
(* what a report says of an order is true of the books unless these        *)
(* changed since the call began, what it calls missing was missing then    *)
(* whatever changed, and a full rate hides no more than rounding can.      *)
(*                                                                         *)
(* A report is right about an order because the row it read is still the   *)
(* order's row and its verdict is one that row and the entries justify;    *)
(* both hold until the business touches the order.                         *)
(***************************************************************************)
EXTENDS Reconcile, FiniteSetTheorems, TLAPS

Verdict(R, o) == IF o \in R.missing THEN "missing"
                 ELSE IF o \in R.mismatched THEN "mismatched" ELSE "clean"

\* What a report relies on: the orders it judged are among those it read, and
\* of those nobody touched it read and said the right thing.
Honest(R, T) ==
  R # NoReport =>
    /\ R.todo \subseteq DOMAIN R.rows
    /\ R.missing \cup R.mismatched \subseteq DOMAIN R.rows \ R.todo
    /\ \A o \in Orders \ T :
         /\ o \in DOMAIN R.rows <=> orders[o] # NoOrder
         /\ o \in DOMAIN R.rows => R.rows[o] = orders[o]
         /\ o \in DOMAIN R.rows \ R.todo =>
              Verdict(R, o) \in Judgements(orders[o], ledger[o])

HonestInv == \A c \in Callers : Honest(report[c], touched[c])

RateInv ==
  \A c \in Callers : report[c] # NoReport /\ report[c].stage = "reported" =>
    report[c].rate \in Rates(Clean(c), Total(c))

\* What a report has found missing, or may still find missing, was so when it
\* began: an order it read as standing which has no entry now had none then.
BareInv ==
  \A c \in Callers : report[c] # NoReport =>
    /\ DOMAIN report[c].rows \subseteq Orders
    /\ report[c].missing \subseteq bare[c]
    /\ \A o \in DOMAIN report[c].rows :
         ledger[o] = <<>> /\ ~report[c].rows[o].cancelled => o \in bare[c]

RecInv == RTypeOK /\ HonestInv /\ BareInv /\ RateInv

----------------------------------------------------------------------------
(* The judgement.                                                          *)

\* No entries add up to nothing.
LEMMA NetOfNothing == Net(<<>>) = 0
  <1> DEFINE body(g) ==
               [s \in SUBSET {} |->
                  IF s = {} THEN 0
                  ELSE Signed(<<>>[CHOOSE x \in s : TRUE]) + g[s \ {CHOOSE x \in s : TRUE}]]
             iter == CHOOSE g : g = body(g)
             h == [s \in SUBSET {} |-> 0]
  <1>1. DOMAIN <<>> = {}
    OBVIOUS
  <1>2. h = body(h)
    OBVIOUS
  <1>3. iter = body(iter)
    <2> HIDE DEF body
    <2> QED BY <1>2
  <1>4. iter[{}] = 0
    <2>1. body(iter)[{}] = 0
      OBVIOUS
    <2> HIDE DEF body, iter
    <2> QED BY <2>1, <1>3
  <1>5. Net(<<>>) = iter[{}]
    BY <1>1 DEF Net, MapThenSumSet, MapThenFoldSet
  <1> QED BY <1>4, <1>5

\* What each verdict of the loop means.
LEMMA VerdictMeans ==
  ASSUME NEW row \in OrderRow, NEW entries, NEW v \in Judgements(row, entries)
  PROVE  /\ v = "clean" => Gap(row, entries) <= 1 /\ (row.cancelled \/ entries # <<>>)
         /\ v # "clean" => \/ Gap(row, entries) >= 1
                           \/ ~row.cancelled /\ entries = <<>>
         /\ v = "missing" <=> entries = <<>> /\ ~row.cancelled
  <1>1. CASE entries = <<>>
    <2>1. row.cancelled => Gap(row, entries) = 0
      BY <1>1, NetOfNothing DEF Gap, Expected
    <2> QED BY <1>1, <2>1 DEF Judgements
  <1>2. CASE entries # <<>>
    BY <1>2 DEF Judgements
  <1> QED BY <1>1, <1>2

\* What may round to a full rate, and what has to.
LEMMA FullRateRounds ==
  ASSUME NEW total \in Nat, NEW found \in Nat, NEW rate \in Rates(total - found, total)
  PROVE  /\ rate = Scale => 2 * Scale * found <= total
         /\ 2 * Scale * found < total => rate = Scale
  <1>1. Scale \in Nat /\ rate \in 0..Scale
    BY ReconcileAssumption DEF Rates
  <1>2. /\ 2 * (rate * total - (total - found) * Scale) <= total
        /\ 2 * ((total - found) * Scale - rate * total) <= total
    BY DEF Rates
  <1>3. (total - found) * Scale = Scale * total - Scale * found
    BY <1>1
  <1>4. Scale * found \in Nat /\ Scale * total \in Nat /\ rate * total \in Nat
    BY <1>1
  <1>5. rate = Scale => 2 * (Scale * found) <= total
    BY <1>2, <1>3, <1>4
  <1>6. ASSUME rate # Scale PROVE total <= 2 * (Scale * found)
    <2>1. PICK k \in Nat : Scale = rate + 1 + k
      <3>1. Scale - rate - 1 \in Nat /\ Scale = rate + 1 + (Scale - rate - 1)
        BY <1>1, <1>6
      <3> QED BY <3>1
    <2>2. Scale * total = rate * total + total + k * total /\ k * total \in Nat
      BY <1>1, <2>1
    <2> QED BY <1>2, <1>3, <1>4, <2>2
  <1>7. 2 * Scale * found = 2 * (Scale * found)
    BY <1>1
  <1> QED BY <1>1, <1>4, <1>5, <1>6, <1>7

----------------------------------------------------------------------------
(* The steps.                                                              *)

LEMMA ReportShape ==
  ASSUME NEW R \in Report
  PROVE  /\ R # NoReport
         /\ R = [stage |-> R.stage, rows |-> R.rows, todo |-> R.todo,
                 missing |-> R.missing, mismatched |-> R.mismatched, rate |-> R.rate]
         /\ DOMAIN R.rows \subseteq Orders
         /\ R.todo \subseteq Orders /\ R.missing \subseteq Orders
         /\ R.mismatched \subseteq Orders
         /\ R.stage \in {"judging", "reported"}
  BY DEF Report, NoReport

LEMMA TotalIsNat ==
  ASSUME RTypeOK, NEW c \in Callers, report[c] # NoReport
  PROVE  Total(c) \in Nat
  <1>1. DOMAIN report[c].rows \subseteq Orders
    BY ReportShape DEF RTypeOK
  <1>2. IsFiniteSet(DOMAIN report[c].rows)
    BY <1>1, FS_Subset, ReconcileAssumption
  <1> QED BY <1>2, FS_CardinalityType DEF Total

LEMMA TradeStep ==
  ASSUME RecInv, NEW o \in Orders, Trade(o)
  PROVE  RecInv'
  <1>1. PICK row \in OrderRow, entries \in Seq(Entry) : Business(o, row, entries)
    <2>1. <<>> \in Seq(Entry) /\ \A e \in Entry : <<e>> \in Seq(Entry)
      OBVIOUS
    <2> QED BY <2>1 DEF Trade
  <1>2. RTypeOK
    BY DEF RecInv
  <1>3. RTypeOK'
    <2>1. orders' \in [Orders -> OrderRow \cup {NoOrder}]
      BY <1>1, <1>2 DEF Business, RTypeOK
    <2>2. ledger[o] \o entries \in Seq(Entry)
      BY <1>1, <1>2 DEF RTypeOK
    <2>3. ledger' \in [Orders -> Seq(Entry)]
      BY <1>1, <1>2, <2>2 DEF Business, RTypeOK
    <2>4. touched' \in [Callers -> SUBSET Orders]
      BY <1>1, <1>2 DEF Business, RTypeOK
    <2>5. changes' \in 0..MaxChanges
      BY <1>1, <1>2, ReconcileAssumption DEF Business, RTypeOK
    <2> QED BY <1>1, <1>2, <2>1, <2>3, <2>4, <2>5 DEF Business, RTypeOK
  <1>4. HonestInv'
    <2> SUFFICES ASSUME NEW c \in Callers, report'[c] # NoReport
                 PROVE  Honest(report[c], touched[c])'
      BY DEF HonestInv, Honest
    <2>1. report' = report /\ touched'[c] = touched[c] \cup {o}
      BY <1>1, <1>2 DEF Business, RTypeOK
    <2>2. \A p \in Orders \ touched'[c] : orders'[p] = orders[p] /\ ledger'[p] = ledger[p]
      BY <1>1, <1>2, <2>1 DEF Business, RTypeOK
    <2>3. Honest(report[c], touched[c])
      BY DEF RecInv, HonestInv
    <2> QED BY <2>1, <2>2, <2>3 DEF Honest, Verdict
  <1>5. RateInv'
    BY <1>1 DEF RecInv, RateInv, Business, Clean, Total
  <1>6. BareInv'
    <2>1. report' = report /\ bare' = bare
      BY <1>1 DEF Business
    <2>2. ASSUME NEW p \in Orders, ledger'[p] = <<>> PROVE ledger[p] = <<>>
      <3>1. CASE p # o
        BY <1>1, <1>2, <2>2, <3>1 DEF Business, RTypeOK
      <3>2. CASE p = o
        <4>1. ledger[p] \in Seq(Entry) /\ ledger'[p] = ledger[p] \o entries
          BY <1>1, <1>2, <3>2 DEF Business, RTypeOK
        <4> QED BY <1>1, <2>2, <4>1
      <3> QED BY <3>1, <3>2
    <2> QED BY <2>1, <2>2 DEF RecInv, BareInv
  <1> QED BY <1>3, <1>4, <1>5, <1>6 DEF RecInv

\* The invariant when only the report of call c changes.
LEMMA OnlyReport ==
  ASSUME RecInv, NEW c \in Callers, NEW R \in Report \cup {NoReport},
         NEW T \in SUBSET Orders, NEW B \in SUBSET Orders,
         report' = [report EXCEPT ![c] = R],
         touched' = [touched EXCEPT ![c] = T],
         bare' = [bare EXCEPT ![c] = B],
         UNCHANGED <<orders, ledger, changes>>,
         Honest(R, T),
         R # NoReport => R.missing \subseteq B,
         R # NoReport => \A o \in DOMAIN R.rows :
                           ledger[o] = <<>> /\ ~R.rows[o].cancelled => o \in B,
         R # NoReport /\ R.stage = "reported" => R.rate \in Rates(Clean(c)', Total(c)')
  PROVE  RecInv'
  <1>1. RTypeOK'
    BY DEF RecInv, RTypeOK
  <1>2. /\ report'[c] = R /\ \A d \in Callers \ {c} : report'[d] = report[d]
        /\ touched'[c] = T /\ \A d \in Callers \ {c} : touched'[d] = touched[d]
        /\ bare'[c] = B /\ \A d \in Callers \ {c} : bare'[d] = bare[d]
    BY DEF RecInv, RTypeOK
  <1>3. HonestInv'
    BY <1>2 DEF RecInv, HonestInv, Honest, Verdict
  <1>4. RateInv'
    BY <1>2 DEF RecInv, RateInv, Clean, Total
  <1>5. BareInv'
    <2>1. R # NoReport => DOMAIN R.rows \subseteq Orders
      BY ReportShape
    <2> QED BY <1>2, <2>1 DEF RecInv, BareInv
  <1> QED BY <1>1, <1>3, <1>4, <1>5 DEF RecInv

LEMMA LoadStep ==
  ASSUME RecInv, NEW c \in Callers, LoadOrders(c)
  PROVE  RecInv'
  <1> DEFINE rows == [o \in Placed |-> orders[o]]
             R == [stage |-> "judging", rows |-> rows, todo |-> Placed,
                   missing |-> {}, mismatched |-> {}, rate |-> 0]
             B == {o \in Placed : ledger[o] = <<>> /\ ~orders[o].cancelled}
  <1>1. rows \in UNION {[S -> OrderRow] : S \in SUBSET Orders}
    <2>1. Placed \subseteq Orders /\ \A o \in Placed : orders[o] \in OrderRow
      BY DEF Placed, RecInv, RTypeOK
    <2>2. rows \in [Placed -> OrderRow]
      BY <2>1
    <2> QED BY <2>1, <2>2
  <1>2. R \in Report
    <2>1. 0 \in 0..Scale /\ Placed \subseteq Orders
      BY ReconcileAssumption DEF Placed
    <2> HIDE DEF rows
    <2> QED BY <1>1, <2>1 DEF Report
  <1>3. Honest(R, {})
    BY DEF Honest, Placed
  <1>4. /\ report' = [report EXCEPT ![c] = R]
        /\ touched' = [touched EXCEPT ![c] = {}]
        /\ bare' = [bare EXCEPT ![c] = B]
        /\ UNCHANGED <<orders, ledger, changes>>
    BY DEF LoadOrders
  <1>5. ~(R.stage = "reported") /\ R.missing \subseteq B /\ B \in SUBSET Orders
    BY DEF Placed
  <1>6. \A o \in DOMAIN R.rows : ledger[o] = <<>> /\ ~R.rows[o].cancelled => o \in B
    OBVIOUS
  <1> HIDE DEF R, B
  <1> QED BY <1>2, <1>3, <1>4, <1>5, <1>6, OnlyReport

\* A verdict is justified by the row read before and the entries read now:
\* for an order nobody touched, by the books as they are.
LEMMA JudgeStep ==
  ASSUME RecInv, NEW c \in Callers, NEW o \in Orders, NEW v \in Verdicts, Judge(c, o, v)
  PROVE  RecInv'
  <1> DEFINE R == report[c]
             missing == IF v = "missing" THEN R.missing \cup {o} ELSE R.missing
             mismatched == IF v = "mismatched" THEN R.mismatched \cup {o} ELSE R.mismatched
             X == Noted(R, o, v)
  <1>1. R \in Report /\ R.stage = "judging" /\ o \in R.todo
    BY DEF RecInv, RTypeOK, Judge, NoReport
  <1>2. /\ X \in Report
        /\ X.stage = R.stage /\ X.rows = R.rows /\ X.todo = R.todo \ {o}
        /\ X.missing = missing /\ X.mismatched = mismatched
    <2>1. missing \subseteq Orders /\ mismatched \subseteq Orders
      BY <1>1, ReportShape
    <2>2. X = [R EXCEPT !.todo = R.todo \ {o}, !.missing = missing,
                        !.mismatched = mismatched]
      BY DEF Noted
    <2> HIDE DEF missing, mismatched, X
    <2> QED BY <1>1, <2>1, <2>2 DEF Report
  <1>3. report' = [report EXCEPT ![c] = X]
    BY DEF Judge
  <1>4. Honest(X, touched[c])
    <2>1. Honest(R, touched[c])
      BY DEF RecInv, HonestInv
    <2>2. X # NoReport
      BY <1>2, ReportShape
    <2> HIDE DEF X
    <2> QED BY <1>1, <1>2, <2>1, <2>2, ReportShape DEF Honest, Verdict, Judge, Verdicts
  <1>5. /\ touched[c] \in SUBSET Orders /\ touched' = [touched EXCEPT ![c] = touched[c]]
        /\ bare[c] \in SUBSET Orders /\ bare' = [bare EXCEPT ![c] = bare[c]]
    BY DEF RecInv, RTypeOK, Judge
  <1>6. X.stage # "reported"
    BY <1>1, <1>2
  <1>7. UNCHANGED <<orders, ledger, changes>>
    BY DEF Judge
  <1>8. R # NoReport /\ o \in DOMAIN R.rows
    BY <1>1, ReportShape DEF RecInv, HonestInv, Honest
  <1>9. \A p \in DOMAIN R.rows : ledger[p] = <<>> /\ ~R.rows[p].cancelled => p \in bare[c]
    BY <1>8 DEF RecInv, BareInv
  <1>10. v = "missing" => ledger[o] = <<>> /\ ~R.rows[o].cancelled
    BY DEF Judge, Judgements
  <1>11. X.missing \subseteq bare[c]
    BY <1>2, <1>8, <1>9, <1>10 DEF RecInv, BareInv
  <1> HIDE DEF X
  <1> QED BY <1>2, <1>3, <1>4, <1>5, <1>6, <1>7, <1>9, <1>11, OnlyReport

LEMMA FinishStep ==
  ASSUME RecInv, NEW c \in Callers, NEW r \in 0..Scale, Finish(c, r)
  PROVE  RecInv'
  <1> DEFINE R == report[c]
             X == [R EXCEPT !.stage = "reported", !.rate = r]
  <1>1. R \in Report
    BY DEF RecInv, RTypeOK, Finish, NoReport
  <1>2. /\ X \in Report
        /\ X.rows = R.rows /\ X.todo = R.todo /\ X.missing = R.missing
        /\ X.mismatched = R.mismatched /\ X.rate = r
    BY <1>1 DEF Report
  <1>3. report' = [report EXCEPT ![c] = X]
    BY DEF Finish
  <1>4. Honest(X, touched[c])
    <2>1. Honest(R, touched[c])
      BY DEF RecInv, HonestInv
    <2> HIDE DEF X
    <2> QED BY <1>1, <1>2, <2>1, ReportShape DEF Honest, Verdict
  <1>5. /\ touched[c] \in SUBSET Orders /\ touched' = [touched EXCEPT ![c] = touched[c]]
        /\ bare[c] \in SUBSET Orders /\ bare' = [bare EXCEPT ![c] = bare[c]]
    BY DEF RecInv, RTypeOK, Finish
  <1>6. X.rate \in Rates(Clean(c)', Total(c)')
    <2>1. r \in Rates(Clean(c), Total(c))
      BY DEF Finish
    <2>2. report'[c] = X
      BY <1>3 DEF RecInv, RTypeOK
    <2> HIDE DEF X
    <2>3. Clean(c)' = Clean(c) /\ Total(c)' = Total(c)
      BY <1>2, <2>2 DEF Clean, Total
    <2> QED BY <1>2, <2>1, <2>3
  <1>7. UNCHANGED <<orders, ledger, changes>>
    BY DEF Finish
  <1>8. /\ R.missing \subseteq bare[c]
        /\ \A o \in DOMAIN R.rows : ledger[o] = <<>> /\ ~R.rows[o].cancelled => o \in bare[c]
    BY <1>1, ReportShape DEF RecInv, BareInv
  <1> HIDE DEF X
  <1> QED BY <1>2, <1>3, <1>4, <1>5, <1>6, <1>7, <1>8, OnlyReport

LEMMA DropStep ==
  ASSUME RecInv, NEW c \in Callers, Drop(c)
  PROVE  RecInv'
  <1>1. /\ touched[c] \in SUBSET Orders /\ touched' = [touched EXCEPT ![c] = touched[c]]
        /\ bare[c] \in SUBSET Orders /\ bare' = [bare EXCEPT ![c] = bare[c]]
    BY DEF RecInv, RTypeOK, Drop
  <1>2. Honest(NoReport, touched[c])
    BY DEF Honest
  <1> QED BY <1>1, <1>2, OnlyReport DEF Drop

LEMMA RecStep == RecInv /\ [RNext]_rvars => RecInv'
  <1> SUFFICES ASSUME RecInv, [RNext]_rvars PROVE RecInv'
    OBVIOUS
  <1>1. CASE UNCHANGED rvars
    BY <1>1 DEF rvars, RecInv, RTypeOK, HonestInv, Honest, Verdict, BareInv, RateInv, Clean,
                Total
  <1> QED BY <1>1, TradeStep, LoadStep, JudgeStep, FinishStep, DropStep DEF RNext

LEMMA RecInvariant == RSpec => []RecInv
  <1>1. ASSUME RInit PROVE RecInv
    <2>1. RTypeOK
      BY <1>1, ReconcileAssumption DEF RInit, RTypeOK
    <2> QED BY <1>1, <2>1 DEF RInit, RecInv, HonestInv, Honest, BareInv, RateInv
  <1> QED BY <1>1, RecStep, PTL DEF RSpec

----------------------------------------------------------------------------
(* What a report can be relied on for.                                     *)

\* Every reachable state of the books and the reports is well typed.
THEOREM ReportTypeCorrect == RSpec => []RTypeOK
  <1>1. RecInv => RTypeOK
    BY DEF RecInv
  <1> QED BY <1>1, RecInvariant, PTL

\* reconcile_accounting is right about every order whose books did not change
\* while it ran, although it reads rows and entries at different times.
THEOREM JudgedRight == RSpec => []UntouchedJudgedRight
  <1>1. ASSUME RecInv PROVE UntouchedJudgedRight
    <2> SUFFICES ASSUME NEW c \in Callers, report[c] # NoReport,
                        NEW o \in Orders \ (touched[c] \cup report[c].todo),
                        orders[o] # NoOrder
                 PROVE  /\ Said(c, o) = "clean" => InOrder(o)
                        /\ Said(c, o) # "clean" => OutOfOrder(o)
                        /\ Said(c, o) = "missing" <=>
                             ledger[o] = <<>> /\ ~orders[o].cancelled
      BY DEF UntouchedJudgedRight
    <2>1. Said(c, o) \in Judgements(orders[o], ledger[o])
      BY <1>1 DEF RecInv, HonestInv, Honest, Verdict, Said
    <2>2. orders[o] \in OrderRow
      BY <1>1 DEF RecInv, RTypeOK
    <2> QED BY <2>1, <2>2, VerdictMeans DEF InOrder, OutOfOrder
  <1> QED BY <1>1, RecInvariant, PTL

\* What a report calls missing stood without an entry when it began, however the
\* books changed since (reconcile_accounting).
THEOREM MissingIsMissing == RSpec => []MissingWasMissing
  <1>1. RecInv => MissingWasMissing
    BY DEF RecInv, BareInv, MissingWasMissing
  <1> QED BY <1>1, RecInvariant, PTL

\* A rate of 1.0 hides one discrepancy in twenty thousand orders (2 * Scale) at
\* most, so none in fewer; and it does hide what is rarer.
THEOREM FullRate == RSpec => []FullRateIsClean
  <1>1. ASSUME RecInv PROVE FullRateIsClean
    <2> SUFFICES ASSUME NEW c \in Callers, report[c] # NoReport,
                        report[c].stage = "reported"
                 PROVE  /\ report[c].rate = Scale => 2 * Scale * Found(c) <= Total(c)
                        /\ 2 * Scale * Found(c) < Total(c) => report[c].rate = Scale
      BY DEF FullRateIsClean
    <2> DEFINE M == report[c].missing
               K == report[c].mismatched
    <2>1. IsFiniteSet(M) /\ IsFiniteSet(K)
      BY <1>1, ReportShape, FS_Subset, ReconcileAssumption DEF RecInv, RTypeOK
    <2>2. Cardinality(M) \in Nat /\ Cardinality(K) \in Nat
      BY <2>1, FS_CardinalityType
    <2>3. Total(c) \in Nat
      BY <1>1, TotalIsNat DEF RecInv
    <2>4. Found(c) \in Nat /\ Clean(c) = Total(c) - Found(c)
      BY <2>2, <2>3 DEF Clean, Found
    <2>5. report[c].rate \in Rates(Total(c) - Found(c), Total(c))
      BY <1>1, <2>4 DEF RecInv, RateInv
    <2> QED BY <2>3, <2>4, <2>5, FullRateRounds
  <1> QED BY <1>1, RecInvariant, PTL
=============================================================================
