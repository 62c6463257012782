------------------------------- MODULE Ledger --------------------------------
(***************************************************************************)
(* Invoices, payments and stock: every operation that writes them, as the  *)
(* services under app/services/writes, the importer, the follow-up and the *)
(* admin API do.                                                           *)
(*                                                                         *)
(* An operation is one database transaction.  It reads the rows it needs,  *)
(* validates against what it read, writes, and the caller commits.  No row *)
(* is locked, so what it read may be out of date when it commits: a        *)
(* session first takes the books as they are (Read), and later commits one *)
(* operation computed from the books it took.  An operation the code       *)
(* refuses with a ValueError rolls back (Abort).                           *)
(*                                                                         *)
(* With one session operations are serial.  All amounts are in the         *)
(* smallest unit the database keeps; one product stands for the catalogue. *)
(***************************************************************************)
EXTENDS Integers, FiniteSets, Functions

CONSTANTS
    Dealers, Suppliers, \* parties invoices are with
    InvoiceIds,         \* bound: invoices on file, numbers in invoice_number order
    PaymentIds,         \* bound: payments on file
    Sessions,           \* concurrent transactions
    Idle,               \* a session without a transaction
    MaxTotal,           \* bound: an invoice's total
    MaxDate,            \* bound: invoice dates
    MaxStock            \* bound: the product's stock, either way

ASSUME BoundsAssumption ==
    /\ InvoiceIds \subseteq Nat
    /\ MaxTotal \in Nat /\ MaxDate \in Nat /\ MaxStock \in Nat
    /\ Dealers \cap Suppliers = {}

VARIABLES
    invoices,   \* invoice -> its row
    payments,   \* payment -> its invoice and amount
    stock,      \* Product.stock_quantity
    seen        \* session -> the books it has read, or Idle

vars == <<invoices, payments, stock, seen>>

Parties == Dealers \cup Suppliers
Sources == {"order", "opening", "csv_import"}

Invoice == [party : Parties, date : 1 .. MaxDate, total : 0 .. MaxTotal,
            status : {"Pending", "Partially_Paid", "Paid", "Cancelled"},
            source : Sources, quantity : 0 .. 1]

IsBooks(b) ==
    /\ DOMAIN b.invoices \subseteq InvoiceIds
    /\ \A i \in DOMAIN b.invoices : b.invoices[i] \in Invoice
    /\ DOMAIN b.payments \subseteq PaymentIds
    /\ \A p \in DOMAIN b.payments :
          b.payments[p].invoice \in DOMAIN b.invoices /\ b.payments[p].amount \in Nat
    /\ b.stock \in -MaxStock .. MaxStock

Current == [invoices |-> invoices, payments |-> payments, stock |-> stock]

\* Every payment is of an invoice on file: payments.invoice_id cascades.
TypeOK == IsBooks(Current) /\ \A s \in Sessions : seen[s] = Idle \/ IsBooks(seen[s])

Init == /\ invoices = [i \in {} |-> {}] /\ payments = [p \in {} |-> {}]
        /\ stock = 0
        /\ seen = [s \in Sessions |-> Idle]

----------------------------------------------------------------------------
\* What an operation computes from the books b it has read.

Open == {"Pending", "Partially_Paid"}

PaymentsOf(b, i) == {p \in DOMAIN b.payments : b.payments[p].invoice = i}

Paid(b, i) == SumFunctionOnSet([p \in DOMAIN b.payments |-> b.payments[p].amount],
                               PaymentsOf(b, i))

Outstanding(b, i) == b.invoices[i].total - Paid(b, i)

HasPayment(b, i) == PaymentsOf(b, i) # {}

\* recompute_invoice_status
Recomputed(paid, total) == CASE paid <= 0     -> "Pending"
                             [] paid >= total /\ paid > 0 -> "Paid"
                             [] OTHER         -> "Partially_Paid"

\* open_invoices_with_outstanding
OpenInvoices(b, party) ==
    {i \in DOMAIN b.invoices : b.invoices[i].party = party /\ b.invoices[i].status \in Open}

\* ORDER BY invoice_date, invoice_number
Older(b, i, j) == \/ b.invoices[i].date < b.invoices[j].date
                  \/ b.invoices[i].date = b.invoices[j].date /\ i < j

Total(b, S) == SumFunctionOnSet([i \in S |-> Outstanding(b, i)], S)

AtLeastZero(n) == IF n < 0 THEN 0 ELSE n
Least(m, n) == IF m < n THEN m ELSE n

\* A mutant of Share: the newest invoice is paid first.
ShareNewestFirst(b, S, amount, i) ==
    LET after == SumFunctionOnSet([j \in S |-> AtLeastZero(Outstanding(b, j))],
                                  {j \in S : Older(b, i, j)})
    IN  AtLeastZero(Least(AtLeastZero(Outstanding(b, i)), amount - after))

\* allocate_payment_fifo: what each of the invoices S gets of an amount.  The
\* oldest is paid first, and each gets what the older ones leave.
Share(b, S, amount, i) ==
    LET before == SumFunctionOnSet([j \in S |-> AtLeastZero(Outstanding(b, j))],
                                   {j \in S : Older(b, j, i)})
    IN  AtLeastZero(Least(AtLeastZero(Outstanding(b, i)), amount - before))

Split(b, S, amount) ==
    [i \in {j \in S : Share(b, S, amount, j) > 0} |-> Share(b, S, amount, i)]

\* More than is outstanding is refused, or cut down by a file import.
Accepts(b, S, amount, partly) ==
    /\ S # {} /\ amount > 0
    /\ amount <= Total(b, S) \/ (partly /\ Total(b, S) > 0)

----------------------------------------------------------------------------
\* What an operation writes.  New rows get ids nobody has seen.

FreshInvoices == InvoiceIds \ (DOMAIN invoices
                    \cup UNION {DOMAIN seen[s].invoices : s \in {r \in Sessions : seen[r] # Idle}})
FreshPayments == PaymentIds \ (DOMAIN payments
                    \cup UNION {DOMAIN seen[s].payments : s \in {r \in Sessions : seen[r] # Idle}})

\* The session writes a status only if it is not the one it read.
SetStatus(b, i, status) ==
    [invoices[i] EXCEPT !.status = IF status = b.invoices[i].status THEN @ ELSE status]

\* One payment for each invoice of a split, whose status follows.
Pay(b, split) ==
    /\ DOMAIN split \subseteq DOMAIN invoices
    /\ Injection(DOMAIN split, FreshPayments) # {}
    /\ LET id  == CHOOSE f \in Injection(DOMAIN split, FreshPayments) : TRUE
           new == {id[i] : i \in DOMAIN split}
       IN  payments' = [p \in DOMAIN payments \cup new |->
                           IF p \in new
                           THEN LET i == CHOOSE j \in DOMAIN split : id[j] = p
                                IN  [invoice |-> i, amount |-> split[i]]
                           ELSE payments[p]]
    /\ invoices' = [i \in DOMAIN invoices |->
                       IF i \in DOMAIN split
                       THEN SetStatus(b, i, IF split[i] = Outstanding(b, i)
                                            THEN "Paid" ELSE "Partially_Paid")
                       ELSE invoices[i]]

\* A new invoice, with what is already paid of it.
Insert(i, row, paid) ==
    /\ invoices' = [j \in DOMAIN invoices \cup {i} |-> IF j = i THEN row ELSE invoices[j]]
    /\ IF paid = 0
       THEN UNCHANGED payments
       ELSE /\ FreshPayments # {}
            /\ payments' = [p \in DOMAIN payments \cup {CHOOSE q \in FreshPayments : TRUE} |->
                               IF p \in DOMAIN payments THEN payments[p]
                               ELSE [invoice |-> i, amount |-> paid]]

----------------------------------------------------------------------------
\* The operations.  b is the books the session has read.

\* create_order, with an advance: never more than the order's total.
CreateOrder(b) ==
    \E i \in FreshInvoices, dealer \in Dealers, date \in 1 .. MaxDate, total \in 0 .. MaxTotal :
        \E advance \in 0 .. total :
            /\ stock' = b.stock - 1
            /\ Insert(i, [party |-> dealer, date |-> date, total |-> total,
                          status |-> Recomputed(advance, total),
                          source |-> "order", quantity |-> 1], advance)

\* _import_invoice_row: a file may say how much is already paid.
ImportInvoice(b) ==
    \E i \in FreshInvoices, party \in Parties, date \in 1 .. MaxDate, total \in 1 .. MaxTotal :
        \E paid \in 0 .. total :
            /\ Insert(i, [party |-> party, date |-> date, total |-> total,
                          status |-> Recomputed(paid, total),
                          source |-> "csv_import", quantity |-> 0], paid)
            /\ UNCHANGED stock

\* _add_opening_invoice
OpeningInvoice(b) ==
    \E i \in FreshInvoices, party \in Parties, date \in 1 .. MaxDate, total \in 1 .. MaxTotal :
        /\ Insert(i, [party |-> party, date |-> date, total |-> total, status |-> "Pending",
                      source |-> "opening", quantity |-> 0], 0)
        /\ UNCHANGED stock

\* record_payment: of one invoice, or of all the party has open.
RecordPayment(b) ==
    \E party \in Parties :
        \E S \in {OpenInvoices(b, party)} \cup {{i} : i \in OpenInvoices(b, party)} :
            \E amount \in 1 .. AtLeastZero(Total(b, S)) :
                /\ Accepts(b, S, amount, FALSE)
                /\ Pay(b, Split(b, S, amount))
                /\ UNCHANGED stock

\* run_payment_import, for a receipt too large for what is on file.  One that
\* is not is recorded as RecordPayment does.
ImportPayment(b) ==
    \E party \in Parties :
        LET S      == OpenInvoices(b, party)
            amount == Total(b, S) + 1
        IN  /\ Accepts(b, S, amount, TRUE)
            /\ Pay(b, Split(b, S, Least(amount, Total(b, S))))
            /\ UNCHANGED stock

\* _record_payment_and_close: "paid in full", or an amount that is cut down
\* to what is outstanding.
FollowUpPayment(b) ==
    \E i \in {j \in DOMAIN b.invoices : b.invoices[j].party \in Dealers
                                          /\ b.invoices[j].status \in Open} :
        \E amount \in {Outstanding(b, i)} \cup 1 .. MaxTotal :
            /\ Pay(b, [j \in {i} |-> Least(amount, Outstanding(b, i))])
            /\ UNCHANGED stock

\* void_payment and the admin API's delete_payment: the invoice's status is
\* recomputed from the payments that are left.
RemovePayment(b) ==
    \E p \in DOMAIN b.payments :
        LET i == b.payments[p].invoice
        IN  /\ i \in DOMAIN invoices
            /\ payments' = [q \in DOMAIN payments \ {p} |-> payments[q]]
            /\ invoices' = [invoices EXCEPT ![i] =
                               SetStatus(b, i, Recomputed(Paid(b, i) - b.payments[p].amount,
                                                          b.invoices[i].total))]
            /\ UNCHANGED stock

\* A mutant of VoidOrder: the stock does not come back.
VoidOrderKeepsStock(b) ==
    \E i \in DOMAIN b.invoices \cap DOMAIN invoices :
        /\ b.invoices[i].source # "csv_import"
        /\ b.invoices[i].status # "Cancelled" /\ ~HasPayment(b, i)
        /\ invoices' = [invoices EXCEPT ![i].status = "Cancelled"]
        /\ UNCHANGED <<payments, stock>>

\* void_order: refused once anything is paid; the stock comes back.
VoidOrder(b) ==
    \E i \in DOMAIN b.invoices \cap DOMAIN invoices :
        /\ b.invoices[i].source # "csv_import"
        /\ b.invoices[i].status # "Cancelled" /\ ~HasPayment(b, i)
        /\ invoices' = [invoices EXCEPT ![i].status = "Cancelled"]
        /\ stock' = IF b.invoices[i].quantity = 0 THEN stock
                    ELSE b.stock + b.invoices[i].quantity
        /\ UNCHANGED payments

\* edit_invoice: refused once anything is paid, but not of a voided one.
EditInvoice(b) ==
    \E i \in DOMAIN b.invoices \cap DOMAIN invoices :
        /\ ~HasPayment(b, i)
        /\ \/ \E total \in 1 .. MaxTotal : invoices' = [invoices EXCEPT ![i].total = total]
           \/ \E date \in 1 .. MaxDate : invoices' = [invoices EXCEPT ![i].date = date]
           \/ \E party \in IF b.invoices[i].party \in Dealers THEN Dealers ELSE Suppliers :
                 invoices' = [invoices EXCEPT ![i].party = party]
        /\ UNCHANGED <<payments, stock>>

\* A mutant of EditPayment: the other payments are not counted.
EditPaymentAlone(b) ==
    \E p \in DOMAIN b.payments \cap DOMAIN payments :
        LET i == b.payments[p].invoice
        IN  \E amount \in 1 .. b.invoices[i].total :
                /\ payments' = [payments EXCEPT ![p].amount = amount]
                /\ invoices' = [invoices EXCEPT ![i] =
                                   SetStatus(b, i, Recomputed(amount, b.invoices[i].total))]
                /\ UNCHANGED stock

\* edit_payment: with the other payments, no more than the total.
EditPayment(b) ==
    \E p \in DOMAIN b.payments \cap DOMAIN payments :
        LET i      == b.payments[p].invoice
            others == Paid(b, i) - b.payments[p].amount
        IN  \E amount \in 1 .. AtLeastZero(b.invoices[i].total - others) :
                /\ payments' = [payments EXCEPT ![p].amount = amount]
                /\ invoices' = [invoices EXCEPT ![i] =
                                   SetStatus(b, i, Recomputed(others + amount,
                                                              b.invoices[i].total))]
                /\ UNCHANGED stock

\* A mutant of Delete: the payments stay behind.
DeleteOrphans(S) ==
    /\ invoices' = [i \in DOMAIN invoices \ S |-> invoices[i]]
    /\ UNCHANGED <<payments, stock>>

\* delete_invoice, and delete_dealer and delete_supplier for all of a party's:
\* the payments go too, the stock stays.
Delete(S) ==
    /\ invoices' = [i \in DOMAIN invoices \ S |-> invoices[i]]
    /\ payments' = [p \in {q \in DOMAIN payments : payments[q].invoice \notin S} |-> payments[p]]
    /\ UNCHANGED stock

DeleteInvoice(b) == \E i \in DOMAIN b.invoices : Delete({i})

DeleteParty(b) ==
    \E party \in Parties : Delete({i \in DOMAIN invoices : invoices[i].party = party})

\* apply_stock_take and "update stock": a count, or a difference.
AdjustStock(b) ==
    /\ \E value \in -MaxStock .. MaxStock : stock' = value
    /\ UNCHANGED <<invoices, payments>>

----------------------------------------------------------------------------
Read(s) == /\ seen[s] = Idle
           /\ seen' = [seen EXCEPT ![s] = Current]
           /\ UNCHANGED <<invoices, payments, stock>>

Abort(s) == /\ seen[s] # Idle
            /\ seen' = [seen EXCEPT ![s] = Idle]
            /\ UNCHANGED <<invoices, payments, stock>>

Commit(s) ==
    /\ seen[s] # Idle
    /\ seen' = [seen EXCEPT ![s] = Idle]
    /\ \/ CreateOrder(seen[s]) \/ ImportInvoice(seen[s]) \/ OpeningInvoice(seen[s])
       \/ RecordPayment(seen[s]) \/ ImportPayment(seen[s]) \/ FollowUpPayment(seen[s])
       \/ RemovePayment(seen[s]) \/ VoidOrder(seen[s])
       \/ EditInvoice(seen[s]) \/ EditPayment(seen[s])
       \/ DeleteInvoice(seen[s]) \/ DeleteParty(seen[s])
       \/ AdjustStock(seen[s])
    /\ stock' \in -MaxStock .. MaxStock

Next == \E s \in Sessions : Read(s) \/ Abort(s) \/ Commit(s)

Spec == Init /\ [][Next]_vars

----------------------------------------------------------------------------
(***************************************************************************)
(* Properties.                                                             *)
(***************************************************************************)

\* The ledger keeps the promises of Books: no account is ever overpaid, every
\* status is the one its payments call for, totals change only while nothing
\* is paid, and a cancelled invoice is never paid or revived.
Accounts == [i \in DOMAIN invoices |->
                [total |-> invoices[i].total, paid |-> Paid(Current, i),
                 status |-> invoices[i].status]]

Book == INSTANCE Books WITH Ids <- InvoiceIds, accounts <- Accounts

ImplementsBooks == Book!Spec

\* The two ways the reports compute what a party owes agree: from the open
\* invoices (party_outstanding), and from everything but the cancelled ones
\* (the ledger report and the figures as of a date).
OutstandingFiguresAgree ==
    \A party \in Parties :
        LET all == {i \in DOMAIN invoices : invoices[i].party = party}
        IN  Total(Current, {i \in all : invoices[i].status \in Open})
               = Total(Current, {i \in all : invoices[i].status # "Cancelled"})

\* A receipt spread over several invoices leaves only the newest of them
\* partly paid, and passes over no older open one of the same party.
SpreadPaysOldestFirst ==
    [][LET paidNow == {i \in DOMAIN invoices \cap DOMAIN invoices' :
                          Paid(Current', i) > Paid(Current, i)}
       IN  Cardinality(paidNow) > 1 =>
              \A j \in paidNow, i \in DOMAIN invoices :
                  (/\ invoices[i].party = invoices[j].party
                   /\ invoices[i].status \in Open /\ Outstanding(Current, i) > 0
                   /\ Older(Current, i, j))
                      => invoices'[i].status = "Paid"]_vars

\* An order takes from the stock what its voiding gives back, whatever is
\* edited, paid or voided in between: only a stock take or deleting invoices
\* changes the stock and the goods in live orders together.
Goods(rows) == SumFunctionOnSet([i \in DOMAIN rows |-> rows[i].quantity],
                                {i \in DOMAIN rows : rows[i].status # "Cancelled"})
StockFollowsOrders ==
    [][(/\ DOMAIN invoices \subseteq DOMAIN invoices'
        /\ <<invoices, payments>> # <<invoices', payments'>>)
          => stock' + Goods(invoices') = stock + Goods(invoices)]_vars

\* company_export: "a Cancelled invoice can never have a Payment against it".
CancelledHasNoPayment ==
    \A p \in DOMAIN payments :
        payments[p].amount > 0 => invoices[payments[p].invoice].status # "Cancelled"
=============================================================================
