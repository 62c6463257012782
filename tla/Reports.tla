------------------------------- MODULE Reports -------------------------------
(***************************************************************************)
(* Every figure the founder is told: the balances, the statement, the      *)
(* registers, the export, the aging, the cash forecast, the trends and the *)
(* daily rows are computed by a dozen pieces of code, each with a query of *)
(* its own over the same invoices and payments.                            *)
(*                                                                         *)
(* The books move as Ledger lets them, so an invoice's status is the one   *)
(* its payments call for; goods and tax are left out, and an invoice is    *)
(* worth its total, which is at least one (a bound: an order may come to   *)
(* nothing).  Dates are days, and no writer compares one with today: a     *)
(* file or the founder may date a row back or ahead.  An edit corrects the *)
(* header of an invoice and never its items.                               *)
(***************************************************************************)
EXTENDS Integers, SequencesExt

CONSTANTS
    Dealers, Suppliers,
    InvoiceIds, PaymentIds,  \* bound: rows on file
    Itemised,                \* the invoices that were orders: only those have item rows
    MaxTotal, LastDay,       \* bounds
    DueDays,                 \* bound: the days a bill may be due, before the first day too
    OpeningBalance,
    ForecastDays,            \* how far the cash forecast looks (7)
    TrendDays, ActivityDays, \* the windows of a trend: of cash (7), of a dealer's orders (30)
    AgeStep,                 \* width of an aging bucket (30)
    FollowUpAfter, CallAfter,\* days overdue before a reminder and a call (5, 15)
    UrgentDays,              \* a bill due by then is urgent (2)
    ListCap                  \* rows a list in the chat has at most (15, 60)

VARIABLES
    invoices,  \* invoice -> its row
    payments,  \* payment -> its row
    today

vars == <<invoices, payments, today>>

NoDay == LastDay + ForecastDays + 2  \* for None, where a date is expected

FiguresAssumption ==
  /\ IsFiniteSet(Dealers) /\ IsFiniteSet(Suppliers) /\ Dealers \cap Suppliers = {}
  /\ InvoiceIds \subseteq Nat /\ IsFiniteSet(InvoiceIds) /\ IsFiniteSet(PaymentIds)
  /\ MaxTotal \in Nat /\ LastDay \in Nat \ {0}
  /\ DueDays \subseteq 0 .. NoDay - 1
  /\ OpeningBalance \in Int
  /\ ForecastDays \in Nat /\ TrendDays \in Nat /\ ActivityDays \in Nat /\ AgeStep \in Nat
  /\ FollowUpAfter \in Nat /\ CallAfter \in Nat
  /\ ListCap \in Nat \ {0}

Parties == Dealers \cup Suppliers
Directions == {"receivable", "payable"}
Days == 1 .. LastDay
Side(direction) == IF direction = "receivable" THEN Dealers ELSE Suppliers
SumOver(S, op(_)) == SumFunctionOnSet([x \in S |-> op(x)], S)

PaidOn(i, D) == SumOver({p \in DOMAIN payments : payments[p].invoice = i /\ payments[p].date \in D},
                        LAMBDA p : payments[p].amount)
Paid(i) == PaidOn(i, Days)
Outstanding(i) == invoices[i].total - Paid(i)

(* recompute_invoice_status *)
Status(i) == IF invoices[i].voided THEN "Cancelled"
             ELSE IF Paid(i) <= 0 THEN "Pending"
             ELSE IF Outstanding(i) <= 0 THEN "Paid" ELSE "Partially_Paid"

Open(S) == {i \in DOMAIN invoices : invoices[i].party \in S /\ Status(i) \in {"Pending", "Partially_Paid"}}
Live(S) == {i \in DOMAIN invoices : invoices[i].party \in S /\ ~ invoices[i].voided}  \* not Cancelled

-----------------------------------------------------------------------------
(* What a party owes.                                                      *)

CalculatePartyOutstanding(p) == SumOver(Open({p}), Outstanding)

(* The same of every party at once; who owes nothing may be left out. *)
OutstandingForCompany(direction) ==
  [p \in {invoices[i].party : i \in Open(Side(direction))} |->
     SumOver({i \in Open(Side(direction)) : invoices[i].party = p}, Outstanding)]

(* The same of a past day, when the status an invoice had is not known. *)
OutstandingAsOf(p, day) ==
  SumOver({i \in Live({p}) : invoices[i].date <= day},
          LAMBDA i : invoices[i].total - PaidOn(i, 1 .. day))

BucketFor(overdue) == IF overdue <= 0 THEN 0
                      ELSE IF overdue <= AgeStep THEN 1 ELSE IF overdue <= 2 * AgeStep THEN 2
                      ELSE IF overdue <= 3 * AgeStep THEN 3 ELSE 4

AgingRow(p) == [b \in 0 .. 4 |-> SumOver({i \in Open({p}) : /\ Outstanding(i) > 0
                                                          /\ BucketFor(today - invoices[i].due) = b},
                                        Outstanding)]

(* A report's last row: each bucket over all parties, and all buckets.     *)
AgingReport(direction) ==
  LET bucket(b) == SumOver(Side(direction), LAMBDA p : AgingRow(p)[b])
  IN [buckets |-> [b \in 0 .. 4 |-> bucket(b)], total |-> SumOver(0 .. 4, bucket)]

(* The statement of a period: invoices are debits, their payments credits; *)
(* what is older than the period is its opening balance.                   *)
Entries(p, D) == SumOver({i \in Live({p}) : invoices[i].date \in D}, LAMBDA i : invoices[i].total)
                 - SumOver(Live({p}), LAMBDA i : PaidOn(i, D))

(* A mutant of Statement: the first day counts as before the period, too. *)
StatementTwice(p, from, to) ==
  LET opening == Entries(p, 1 .. from)
  IN [opening |-> opening, closing |-> opening + Entries(p, from .. to)]

Statement(p, from, to) ==
  LET opening == Entries(p, 1 .. from - 1)
  IN [opening |-> opening, closing |-> opening + Entries(p, from .. to)]

(* Who owes how much: every party, and the ones who owe something.         *)
AllParties(direction) ==
  LET owed == OutstandingForCompany(direction)
  IN [p \in Side(direction) |-> IF p \in DOMAIN owed THEN owed[p] ELSE 0]

TopParties(direction) ==
  LET owed == OutstandingForCompany(direction)
  IN {p \in DOMAIN owed : owed[p] > 0}

(* The sheets of parties, of open invoices and of all invoices. *)
PartySheet(direction) == SumOver(Side(direction), LAMBDA p : AllParties(direction)[p])
OpenInvoicesSheet(direction) == SumOver(Open(Side(direction)), Outstanding)
InvoicesSheet ==
  [amount |-> SumOver(Live(Parties), LAMBDA i : invoices[i].total),
   paid |-> SumOver(Live(Parties), Paid), outstanding |-> SumOver(Live(Parties), Outstanding)]

(* What a dealer is told who asks for his balance, or for his statement of *)
(* the month, which has a first and a last day.                            *)
DealerBalanceReply(p) ==
  LET due == {invoices[i].due : i \in Open({p})}
      paid == {payments[q].date : q \in {r \in DOMAIN payments : invoices[payments[r].invoice].party = p}}
  IN [outstanding |-> CalculatePartyOutstanding(p),
      nextDue |-> IF due = {} THEN NoDay ELSE Min(due),
      lastPayment |-> IF paid = {} THEN NoDay ELSE Max(paid)]

DealerStatement(p, first, last) == Statement(p, first, last)

-----------------------------------------------------------------------------
(* What was sold, bought and paid in the days D.                           *)

(* Order items, and a line of their own for the invoices that have none. *)
RegisterRows(direction, D) == {i \in Live(Side(direction)) : invoices[i].date \in D}
Register(direction, D) ==
  LET scoped == RegisterRows(direction, D)
  IN SumOver(scoped \cap Itemised, LAMBDA i : invoices[i].items)
     + SumOver(scoped \ Itemised, LAMBDA i : invoices[i].total)

(* A payment counts on its own day, whatever became of its invoice. *)
PaymentsOf(direction, D) ==
  SumOver({p \in DOMAIN payments : /\ payments[p].date \in D
                                   /\ invoices[payments[p].invoice].party \in Side(direction)},
          LAMBDA p : payments[p].amount)
PaymentRegister(D) == [receipts |-> PaymentsOf("receivable", D), payments |-> PaymentsOf("payable", D),
                       net |-> PaymentsOf("receivable", D) - PaymentsOf("payable", D)]

DayBook(D) ==
  [invoices |-> SumOver({i \in Live(Parties) : invoices[i].date \in D}, LAMBDA i : invoices[i].total),
   payments |-> SumOver({p \in DOMAIN payments : payments[p].date \in D}, LAMBDA p : payments[p].amount)]

(* The latest rows, by date; which of one day are shown is left open.      *)
Latest(rows, n) ==
  {S \in SUBSET DOMAIN rows :
     /\ Cardinality(S) = (IF Cardinality(DOMAIN rows) < n THEN Cardinality(DOMAIN rows) ELSE n)
     /\ \A r \in S, q \in DOMAIN rows \ S : rows[q].date <= rows[r].date}
ListedInvoices(n) == Latest(invoices, n)
ListedPayments(n) == Latest(payments, n)

PaymentsSheet == SumOver(DOMAIN payments, LAMBDA p : payments[p].amount)

CashAvailable == OpeningBalance
  + SumOver(DOMAIN payments, LAMBDA p : IF invoices[payments[p].invoice].party \in Dealers
                                       THEN payments[p].amount ELSE -payments[p].amount)

(* A trend's window, and the one before it. *)
WindowPair(days) == [current |-> (today - days + 1) .. today,
                     prior |-> (today - 2 * days + 1) .. (today - days)]
Change(current, prior) == current - prior
CashTrend(D) == PaymentsOf("receivable", D) - PaymentsOf("payable", D)
SalesTotal(D) == SumOver({i \in Live(Dealers) : invoices[i].date \in D}, LAMBDA i : invoices[i].total)

(* A dealer's trend: orders, and what was owed when the window began. *)
DealerOrders(p, D) == {i \in Live({p}) : invoices[i].date \in D}
DealerTrend(p) ==
  LET w == WindowPair(ActivityDays)
      value(D) == SumOver(DealerOrders(p, D), LAMBDA i : invoices[i].total)
  IN [listed |-> Cardinality(DealerOrders(p, w.current) \cup DealerOrders(p, w.prior)) >= 2,
      value |-> Change(value(w.current), value(w.prior)),
      owed |-> Change(CalculatePartyOutstanding(p), OutstandingAsOf(p, today - ActivityDays))]

(* The reply names the dealers who order more and who order less, the      *)
(* workbook all that are listed.                                           *)
TopMovers == [rising |-> {p \in Dealers : DealerTrend(p).listed /\ DealerTrend(p).value > 0},
              falling |-> {p \in Dealers : DealerTrend(p).listed /\ DealerTrend(p).value < 0}]

TrendReport ==
  LET w == WindowPair(TrendDays)
  IN [collections |-> Change(PaymentsOf("receivable", w.current), PaymentsOf("receivable", w.prior)),
      payments |-> Change(PaymentsOf("payable", w.current), PaymentsOf("payable", w.prior)),
      net |-> Change(CashTrend(w.current), CashTrend(w.prior)),
      sales |-> Change(SalesTotal(w.current), SalesTotal(w.prior))]

TrendWorkbook == [p \in {q \in Dealers : DealerTrend(q).listed} |-> DealerTrend(p)]

-----------------------------------------------------------------------------
(* The day's figures.                                                      *)

SalesAndMargin(day) == SumOver({i \in Live(Dealers) : invoices[i].date = day},
                               LAMBDA i : invoices[i].total)
CashMovement(day) == PaymentsOf("receivable", {day}) - PaymentsOf("payable", {day})
ComputeDailySnapshot(day) == [sales |-> SalesAndMargin(day), cash |-> CashMovement(day)]

-----------------------------------------------------------------------------
(* The days ahead.                                                         *)

Expected7d(S) == {i \in Open(S) : Outstanding(i) > 0 /\ invoices[i].due <= today + ForecastDays}
(* Overdue bills still have to be paid; overdue collections are not        *)
(* expected any more.                                                      *)
ExpectedPayments == Expected7d(Suppliers)
ExpectedCollections == {i \in Expected7d(Dealers) : invoices[i].due >= today}

NetCashPosition == CashAvailable + SumOver(ExpectedCollections, Outstanding)
                                 - SumOver(ExpectedPayments, Outstanding)

(* The events of the forecast by due date; a stable sort of the            *)
(* collections before the payments.                                        *)
Earlier(i, j) ==
  LET rank(k) == IF k \in ExpectedCollections THEN 0 ELSE 1
  IN \/ invoices[i].due < invoices[j].due
     \/ invoices[i].due = invoices[j].due /\ rank(i) < rank(j)
     \/ invoices[i].due = invoices[j].due /\ rank(i) = rank(j) /\ i < j

(* A mutant of Events: the two lists are joined and not sorted by date. *)
EventsUnsorted ==
  SetToSortSeq(ExpectedCollections \cup ExpectedPayments,
               LAMBDA i, j : \/ i \in ExpectedCollections /\ j \in ExpectedPayments
                             \/ (i \in ExpectedCollections) = (j \in ExpectedCollections) /\ i < j)

Events == CHOOSE events \in SetToSeqs(ExpectedCollections \cup ExpectedPayments) :
            \A m, n \in DOMAIN events : m < n => Earlier(events[m], events[n])

(* The first day the running balance is short, and a largest bill by then. *)
ShortDay(events) ==
  LET delta(i) == IF i \in ExpectedCollections THEN Outstanding(i) ELSE -Outstanding(i)
      running[n \in 0 .. Len(events)] == IF n = 0 THEN CashAvailable ELSE running[n - 1] + delta(events[n])
      deficits == {n \in DOMAIN events : running[n] < 0}
  IN IF deficits = {} THEN NoDay ELSE invoices[events[Min(deficits)]].due

Largest(bills) == {i \in bills : \A j \in bills : Outstanding(j) <= Outstanding(i)}

ForecastCashDeficit ==
  LET short == ShortDay(Events)
  IN [short |-> short, trigger |-> Largest({i \in ExpectedPayments : invoices[i].due <= short})]

(* A dealer with an invoice past its due date, and how long the oldest is. *)
OverdueDealers == {p \in Dealers : \E i \in Open({p}) : invoices[i].due < today}
DaysOverdue(p) == Max({today - invoices[i].due : i \in Open({p})})

RiskLevel(p) == IF DaysOverdue(p) > CallAfter THEN "High"
                ELSE IF DaysOverdue(p) >= FollowUpAfter THEN "Medium" ELSE "Low"

DealerRiskReport == [level \in {"High", "Medium", "Low"} |-> {p \in OverdueDealers : RiskLevel(p) = level}]

(* The other menu replies, from the same snapshot. *)
CashPosition == [now |-> CashAvailable, net |-> NetCashPosition, shortage |-> NetCashPosition < 0]

CollectionsReport == [lines |-> ExpectedCollections, total |-> SumOver(ExpectedCollections, Outstanding)]

IsCashSufficient(i) == CashAvailable >= Outstanding(i)
Urgent(i) == invoices[i].due - today <= UrgentDays
SuppliersReport == [lines |-> ExpectedPayments, total |-> SumOver(ExpectedPayments, Outstanding),
                    cashShort |-> {i \in ExpectedPayments : Urgent(i) /\ ~ IsCashSufficient(i)}]

BusinessSummary == [position |-> CashPosition, expectedIn |-> CollectionsReport.total,
                    expectedOut |-> SuppliersReport.total, overdue |-> Cardinality(OverdueDealers)]

(* What to do first, for dealers with the given credit limits: whom to     *)
(* call, whom to remind, and whether the till runs short.                  *)
NoLimit == -1
CallDealer(p, limit) == /\ p \in OverdueDealers /\ DaysOverdue(p) > CallAfter
                        /\ limit[p] = NoLimit \/ CalculatePartyOutstanding(p) > limit[p]
FollowUpReminder(p) == p \in OverdueDealers /\ DaysOverdue(p) \in FollowUpAfter .. CallAfter

BuildRecommendations(limit) ==
  [cashDeficit |-> CashPosition.shortage, criticalPayment |-> SuppliersReport.cashShort,
   callDealer |-> {p \in Dealers : CallDealer(p, limit)}, followUp |-> {p \in Dealers : FollowUpReminder(p)}]

-----------------------------------------------------------------------------
Init == /\ invoices = [i \in {} |-> {}] /\ payments = [p \in {} |-> {}]
        /\ today = 1

(* create_order, the files and the opening bills; only an order has items, *)
(* and only a dealer orders.                                               *)
RaiseInvoice ==
  \E i \in InvoiceIds \ DOMAIN invoices, date \in Days, due \in DueDays, total \in 1 .. MaxTotal :
    \E party \in IF i \in Itemised THEN Dealers ELSE Parties :
       /\ invoices' = [j \in DOMAIN invoices \cup {i} |->
                         IF j = i THEN [party |-> party, date |-> date, due |-> due, total |-> total,
                                        items |-> IF i \in Itemised THEN total ELSE 0, voided |-> FALSE]
                         ELSE invoices[j]]
       /\ UNCHANGED <<payments, today>>

RecordPayment ==
  \E p \in PaymentIds \ DOMAIN payments, i \in Open(Parties), date \in Days :
    \E amount \in 1 .. Outstanding(i) :
       /\ payments' = [q \in DOMAIN payments \cup {p} |->
                         IF q = p THEN [invoice |-> i, amount |-> amount, date |-> date] ELSE payments[q]]
       /\ UNCHANGED <<invoices, today>>

(* A mutant of VoidOrder: an order that is partly paid can be voided. *)
VoidPaidOrder ==
  \E i \in Live(Parties) :
       /\ invoices' = [invoices EXCEPT ![i].voided = TRUE]
       /\ UNCHANGED <<payments, today>>

(* A row without items may be an opening bill, which is voided alike. *)
VoidOrder ==
  \E i \in Live(Parties) :
       /\ Paid(i) = 0
       /\ invoices' = [invoices EXCEPT ![i].voided = TRUE]
       /\ UNCHANGED <<payments, today>>

VoidPayment ==
  \E p \in DOMAIN payments :
       /\ payments' = [q \in DOMAIN payments \ {p} |-> payments[q]]
       /\ UNCHANGED <<invoices, today>>

(* The header of an invoice without payments, voided or not: its total,    *)
(* which leaves the items as they were, its date, which leaves the due day *)
(* as it was, or its party.                                                *)
Corrections(row) ==
  {[row EXCEPT !.total = total] : total \in 1 .. MaxTotal}
    \cup {[row EXCEPT !.date = date] : date \in Days}
    \cup {[row EXCEPT !.party = party] : party \in IF row.party \in Dealers THEN Dealers ELSE Suppliers}

EditInvoice ==
  \E i \in DOMAIN invoices :
    /\ Paid(i) = 0
    /\ \E row \in Corrections(invoices[i]) : invoices' = [invoices EXCEPT ![i] = row]
    /\ UNCHANGED <<payments, today>>

(* The day of a payment, or its amount, up to what the others leave. *)
EditPayment ==
  \E p \in DOMAIN payments :
    LET left == Outstanding(payments[p].invoice) + payments[p].amount
    IN /\ \/ \E amount \in 1 .. left : payments' = [payments EXCEPT ![p].amount = amount]
          \/ \E date \in Days : payments' = [payments EXCEPT ![p].date = date]
       /\ UNCHANGED <<invoices, today>>

(* The founder puts a supplier's bill off, in answer to its reminder. *)
MoveDueDate ==
  \E i \in DOMAIN invoices, due \in DueDays :
    /\ invoices[i].party \in Suppliers /\ due >= today
    /\ invoices' = [invoices EXCEPT ![i].due = due]
    /\ UNCHANGED <<payments, today>>

(* The operator deletes an invoice, or all of a party with the party, and  *)
(* their payments go with them.                                            *)
Delete ==
  \E gone \in {{i} : i \in DOMAIN invoices}
                \cup {{i \in DOMAIN invoices : invoices[i].party = p} : p \in Parties} :
    /\ invoices' = [i \in DOMAIN invoices \ gone |-> invoices[i]]
    /\ payments' = [p \in {q \in DOMAIN payments : payments[q].invoice \notin gone} |-> payments[p]]
    /\ UNCHANGED today

NextDay == today < LastDay /\ today' = today + 1 /\ UNCHANGED <<invoices, payments>>

Next == \/ RaiseInvoice \/ RecordPayment \/ VoidOrder \/ VoidPayment
        \/ EditInvoice \/ EditPayment \/ MoveDueDate \/ Delete
        \/ NextDay

Spec == Init /\ [][Next]_vars

-----------------------------------------------------------------------------
(* Types of the variables. *)
TypeOK ==
  /\ DOMAIN invoices \subseteq InvoiceIds /\ DOMAIN payments \subseteq PaymentIds
  /\ \A i \in DOMAIN invoices : invoices[i].party \in Parties /\ invoices[i].total \in 1 .. MaxTotal
  /\ \A p \in DOMAIN payments : payments[p].invoice \in DOMAIN invoices /\ payments[p].date \in Days
  /\ today \in Days

(* Whichever report a balance is read from, it is the same: the assistant, *)
(* the chat, the aging, the statement and the export compute what a party  *)
(* owes in six ways.  All but two count what is on file, whatever day it   *)
(* is dated: the figure of a past day, taken today, is the same unless a   *)
(* row of the party's is dated ahead, and the month's statement a dealer   *)
(* gets unless one is dated after the month.  And a statement carries      *)
(* forward: it opens with what the one before it closed with, which is     *)
(* what was owed that day but for receipts older than the invoice they     *)
(* were put on.                                                            *)
Advances(p, day) == SumOver({i \in Live({p}) : invoices[i].date > day}, LAMBDA i : PaidOn(i, 1 .. day))
DatedAfter(p, day) == \E i \in Live({p}) : invoices[i].date > day \/ PaidOn(i, (day + 1) .. LastDay) # 0
StatementsCarryForward(p) ==
  \A day \in Days :
     /\ Statement(p, day + 1, LastDay).opening = Statement(p, 1, day).closing
     /\ Statement(p, day + 1, LastDay).opening = OutstandingAsOf(p, day) - Advances(p, day)
     /\ Statement(p, day, LastDay).closing = CalculatePartyOutstanding(p)
BalancesAgree ==
  /\ \A p \in Parties :
       LET owed == CalculatePartyOutstanding(p)
       IN /\ owed = SumOver(0 .. 4, LAMBDA b : AgingRow(p)[b])
          /\ owed = OutstandingAsOf(p, LastDay)
          /\ owed = OutstandingAsOf(p, today) \/ DatedAfter(p, today)
          /\ StatementsCarryForward(p)
  /\ \A d \in Directions :
       /\ \A p \in Side(d) : AllParties(d)[p] = CalculatePartyOutstanding(p)
       /\ PartySheet(d) = OpenInvoicesSheet(d)
       /\ PartySheet(d) = SumOver(TopParties(d), CalculatePartyOutstanding)
       /\ PartySheet(d) = AgingReport(d).total
  /\ InvoicesSheet.outstanding = PartySheet("receivable") + PartySheet("payable")
  /\ \A p \in Dealers :
       LET told == DealerBalanceReply(p)
       IN /\ \A first \in 1 .. today, last \in today .. LastDay :  \* whatever month it is
               told.outstanding = DealerStatement(p, first, last).closing \/ DatedAfter(p, last)
          /\ told.outstanding > 0 <=> told.nextDue # NoDay
          /\ p \in OverdueDealers <=> told.nextDue < today
          /\ p \in OverdueDealers => DaysOverdue(p) = today - told.nextDue
          /\ p \in DOMAIN TrendWorkbook => TrendWorkbook[p].owed =
               Statement(p, 1, LastDay).closing
                 - (Statement(p, 1, today - ActivityDays).closing + Advances(p, today - ActivityDays))

(* Cash is cash in every report, and sales are sales: the registers, the   *)
(* day book, the export, the trends and the days' movements are sums of    *)
(* the same rows over the same days, none counted twice or dropped for     *)
(* having no items.  The sales register shows an order as it was placed,   *)
(* the others as it was corrected: they differ by the corrections.         *)
Corrected(direction, D) ==
  SumOver(RegisterRows(direction, D) \cap Itemised, LAMBDA i : invoices[i].total - invoices[i].items)
FlowsAgree ==
  LET w == WindowPair(TrendDays)
      a == WindowPair(ActivityDays)
      registered(direction, D) == Register(direction, D) + Corrected(direction, D)
  IN /\ PaymentRegister(Days).net = CashAvailable - OpeningBalance
     /\ PaymentRegister(Days).net = SumOver(Days, CashMovement)
     /\ PaymentsSheet = DayBook(Days).payments
     /\ PaymentsSheet = InvoicesSheet.paid
     /\ registered("receivable", Days) = SumOver(Days, SalesAndMargin)
     /\ registered("receivable", Days) + registered("payable", Days) = DayBook(Days).invoices
     /\ DayBook(Days).invoices = InvoicesSheet.amount
     /\ CashTrend(w.current) + CashTrend(w.prior) = PaymentRegister(w.current \cup w.prior).net
     /\ SalesTotal(w.current) + SalesTotal(w.prior) = registered("receivable", w.current \cup w.prior)
     /\ TrendReport.net = TrendReport.collections - TrendReport.payments
     /\ TrendReport.sales = Change(registered("receivable", w.current), registered("receivable", w.prior))
     /\ (\A p \in Dealers : DealerTrend(p).listed) =>
          Change(SalesTotal(a.current), SalesTotal(a.prior)) =
          SumOver(TopMovers.rising \cup TopMovers.falling, LAMBDA p : TrendWorkbook[p].value)
     /\ \A shown \in ListedPayments(ListCap) :
          \A p \in Dealers : DealerBalanceReply(p).lastPayment \in Days =>
             \E q \in shown : payments[q].date >= DealerBalanceReply(p).lastPayment
     /\ \A shown \in ListedInvoices(Cardinality(DOMAIN invoices)) :
          SumOver(shown \cap Live(Parties), LAMBDA i : invoices[i].total) = InvoicesSheet.amount

(* The forecast misses no shortage: it names a day no later than any on    *)
(* which the till cannot cover the bills due by then, and some day when    *)
(* anything is expected and the week ends below nothing.  While the till   *)
(* holds something, it names exactly the first such day, with a bill to    *)
(* blame, and is silent otherwise; a till that is overdrawn already may    *)
(* have it name a collection's day, or be silent as nothing is expected.   *)
(* A dealer late enough to matter is on exactly one list of the briefing,  *)
(* whatever the limits, unless he keeps within his own; and the summary    *)
(* counts whom the aging shows as overdue.                                 *)
WarningsCover ==
  LET net(day) == CashAvailable
                    + SumOver({i \in ExpectedCollections : invoices[i].due <= day}, Outstanding)
                    - SumOver({i \in ExpectedPayments : invoices[i].due <= day}, Outstanding)
      short == {invoices[i].due : i \in {j \in ExpectedPayments : net(invoices[j].due) < 0}}
      forecast == ForecastCashDeficit
      late == {p \in Dealers : SumOver(1 .. 4, LAMBDA b : AgingRow(p)[b]) > 0}
      summary == BusinessSummary
  IN /\ \A day \in short : forecast.short <= day
     /\ CashAvailable >= 0 =>
          /\ forecast.short = IF short = {} THEN NoDay ELSE Min(short)
          /\ forecast.short # NoDay => forecast.trigger # {}
     /\ summary.position.shortage =>
          (forecast.short # NoDay <=> ExpectedCollections \cup ExpectedPayments # {})
     /\ summary.position.net = summary.position.now + summary.expectedIn - summary.expectedOut
     /\ summary.overdue = Cardinality(late)
     /\ OverdueDealers = UNION {DealerRiskReport[level] : level \in DOMAIN DealerRiskReport}
     /\ \A limit \in [Dealers -> {NoLimit} \cup 1 .. MaxTotal] :
          LET told == BuildRecommendations(limit)
              within == {p \in DealerRiskReport["High"] :
                           limit[p] # NoLimit /\ DealerBalanceReply(p).outstanding <= limit[p]}
          IN /\ told.callDealer \cap told.followUp = {}
             /\ told.callDealer \cup told.followUp
                  = (DealerRiskReport["High"] \ within) \cup DealerRiskReport["Medium"]
             /\ told.cashDeficit /\ CashAvailable >= 0 => forecast.short # NoDay
=============================================================================
