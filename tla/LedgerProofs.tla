----------------------------- MODULE LedgerProofs -----------------------------
(***************************************************************************)
(* The books of Ledger, for any invoices, payments, parties and amounts;   *)
(* then what is reported of books, the days of DailyRows and the figures   *)
(* of Reports; and at the end the whole, Accounts.                         *)
(*                                                                         *)
(* Every handler is an operator from books to books.  Sound says of books  *)
(* that every invoice has the status its payments call for; it is kept by  *)
(* each operation as long as the books it was computed from are the books  *)
(* it is written to, which one session at a time (Serial) is enough for.   *)
(* MCLedgerRace shows the same invariant broken by two.                    *)
(*                                                                         *)
(* The figures of Reports are sums over the same rows, cut in different    *)
(* ways; the rows fit together by ReportInv, and from then on a theorem    *)
(* about two reports is one about two partitions of a set.                 *)
(***************************************************************************)
EXTENDS Accounts, RowTheorems, TLAPS

(* What is on file of an invoice, as Books sees it. *)
AccountOf(b, i) == [total |-> b.invoices[i].total, paid |-> Paid(b, i),
                    status |-> b.invoices[i].status]

(* The rows are rows, and finitely many. *)
Sane(b) ==
  /\ IsFiniteSet(DOMAIN b.invoices) /\ DOMAIN b.invoices \subseteq InvoiceIds
  /\ b.invoices \in [DOMAIN b.invoices -> Invoice]
  /\ IsFiniteSet(DOMAIN b.payments) /\ DOMAIN b.payments \subseteq PaymentIds
  /\ b.payments \in [DOMAIN b.payments -> [invoice : DOMAIN b.invoices, amount : Nat]]
  /\ b.stock \in -MaxStock .. MaxStock

(* The status of an invoice is the one its payments call for; what is paid  *)
(* has a payment, if only one of nothing, and what is cancelled has none.   *)
Fits(b, i) ==
  /\ Book!Balanced(AccountOf(b, i))
  /\ b.invoices[i].status \in {"Paid", "Partially_Paid"} => HasPayment(b, i)
  /\ b.invoices[i].status = "Cancelled" => ~ HasPayment(b, i)

Sound(b) == Sane(b) /\ \A i \in DOMAIN b.invoices : Fits(b, i)

-----------------------------------------------------------------------------
(* The sums of payments. *)

(* What is paid is a number, and none without a payment. *)
LEMMA PaidIsNat ==
  ASSUME NEW b, Sane(b), NEW i
  PROVE  /\ Paid(b, i) \in Nat
         /\ IsFiniteSet(PaymentsOf(b, i))
         /\ ~ HasPayment(b, i) => Paid(b, i) = 0
<1> DEFINE amounts == [p \in DOMAIN b.payments |-> b.payments[p].amount]
<1>1. IsFiniteSet(PaymentsOf(b, i))
  BY FS_Subset DEF Sane, PaymentsOf
<1>2. \A p \in PaymentsOf(b, i) : amounts[p] \in Nat
  BY DEF Sane, PaymentsOf
<1>3. Paid(b, i) = SumFunctionOnSet(amounts, PaymentsOf(b, i))
  BY DEF Paid
<1> HIDE DEF amounts
<1>4. Paid(b, i) \in Nat
  BY <1>1, <1>2, <1>3, SumOfSome
<1> QED BY <1>1, <1>3, <1>4, SumEmpty DEF HasPayment

(* It stays the same while the invoice has the same payments. *)
LEMMA PaidTheSame ==
  ASSUME NEW b, Sane(b), NEW c, NEW i, PaymentsOf(c, i) = PaymentsOf(b, i),
         \A p \in PaymentsOf(b, i) : c.payments[p].amount = b.payments[p].amount
  PROVE  Paid(c, i) = Paid(b, i) /\ (HasPayment(c, i) <=> HasPayment(b, i))
<1> DEFINE old == [p \in DOMAIN b.payments |-> b.payments[p].amount]
           new == [p \in DOMAIN c.payments |-> c.payments[p].amount]
<1>1. \A p \in PaymentsOf(b, i) : old[p] = new[p]
  <2>1. \A p \in PaymentsOf(b, i) : p \in DOMAIN b.payments
    BY DEF PaymentsOf
  <2>2. \A p \in PaymentsOf(c, i) : p \in DOMAIN c.payments
    BY DEF PaymentsOf
  <2> QED BY <2>1, <2>2
<1>2. Paid(b, i) = SumFunctionOnSet(old, PaymentsOf(b, i))
      /\ Paid(c, i) = SumFunctionOnSet(new, PaymentsOf(b, i))
  BY DEF Paid
<1>3. IsFiniteSet(PaymentsOf(b, i))
  BY PaidIsNat
<1> HIDE DEF old, new
<1> QED BY <1>1, <1>2, <1>3, SumsAreEqual DEF HasPayment

(* One payment more adds its amount. *)
LEMMA PaidWithOneMore ==
  ASSUME NEW b, Sane(b), NEW c, NEW i, NEW p, p \notin PaymentsOf(b, i),
         PaymentsOf(c, i) = PaymentsOf(b, i) \cup {p}, c.payments[p].amount \in Nat,
         \A q \in PaymentsOf(b, i) : c.payments[q].amount = b.payments[q].amount
  PROVE  Paid(c, i) = Paid(b, i) + c.payments[p].amount /\ HasPayment(c, i)
<1> DEFINE old == [q \in DOMAIN b.payments |-> b.payments[q].amount]
           new == [q \in DOMAIN c.payments |-> c.payments[q].amount]
           P == PaymentsOf(b, i)
           Q == PaymentsOf(c, i)
<1>1. \A q \in P : old[q] \in Nat /\ old[q] = new[q]
  <2>1. \A q \in P : q \in DOMAIN b.payments /\ b.payments[q].amount \in Nat
    BY DEF PaymentsOf, Sane
  <2>2. \A q \in Q : q \in DOMAIN c.payments
    BY DEF PaymentsOf
  <2> QED BY <2>1, <2>2
<1>2. new[p] = c.payments[p].amount
  BY DEF PaymentsOf
<1>3. Paid(b, i) = SumFunctionOnSet(old, P) /\ Paid(c, i) = SumFunctionOnSet(new, Q)
  BY DEF Paid
<1>4. IsFiniteSet(P) /\ IsFiniteSet(Q) /\ Q \ {p} = P /\ p \in Q /\ Q # {}
  BY PaidIsNat, FS_AddElement
<1>5. \A q \in Q : new[q] \in Int
  <2>1. \A q \in Q : q \in P \/ q = p
    OBVIOUS
  <2> HIDE DEF old, new, P, Q
  <2> QED BY <1>1, <1>2, <2>1
<1>9. HasPayment(c, i)
  BY <1>4 DEF HasPayment
<1> HIDE DEF old, new, P, Q
<1>6. SumFunctionOnSet(new, Q) = new[p] + SumFunctionOnSet(new, P)
  BY <1>4, <1>5, SumWithout
<1>7. SumFunctionOnSet(new, P) = SumFunctionOnSet(old, P)
  BY <1>1, <1>4, SumsAreEqual
<1>8. SumFunctionOnSet(old, P) \in Int
  BY <1>1, <1>4, SumIsInteger
<1> QED BY <1>2, <1>3, <1>4, <1>5, <1>6, <1>7, <1>8, <1>9

(* A payment taken away, or entered anew, takes its old amount with it. *)
LEMMA PaidButOne ==
  ASSUME NEW b, Sane(b), NEW c, NEW i, NEW p \in PaymentsOf(b, i),
         PaymentsOf(c, i) \ {p} = PaymentsOf(b, i) \ {p},
         \A q \in PaymentsOf(b, i) \ {p} : c.payments[q].amount = b.payments[q].amount,
         p \in PaymentsOf(c, i) => c.payments[p].amount \in Nat
  PROVE  /\ Paid(b, i) - b.payments[p].amount \in Nat
         /\ p \notin PaymentsOf(c, i) => Paid(c, i) = Paid(b, i) - b.payments[p].amount
         /\ p \in PaymentsOf(c, i) =>
              Paid(c, i) = Paid(b, i) - b.payments[p].amount + c.payments[p].amount
<1> DEFINE old == [q \in DOMAIN b.payments |-> b.payments[q].amount]
           new == [q \in DOMAIN c.payments |-> c.payments[q].amount]
           P == PaymentsOf(b, i)
           Q == PaymentsOf(c, i)
           R == P \ {p}
<1>1. \A q \in P : old[q] \in Nat /\ old[q] = b.payments[q].amount
  BY DEF PaymentsOf, Sane
<1>2. \A q \in Q : new[q] = c.payments[q].amount
  BY DEF PaymentsOf
<1>3. Paid(b, i) = SumFunctionOnSet(old, P) /\ Paid(c, i) = SumFunctionOnSet(new, Q)
  BY DEF Paid
<1>4. IsFiniteSet(P)
  BY PaidIsNat
<1>5. Q \ {p} = R /\ \A q \in R : q \in P /\ q \in Q /\ new[q] = old[q]
  BY <1>1, <1>2
<1>6. p \in Q => new[p] \in Nat
  BY <1>2
<1>7. p \in P
  OBVIOUS
<1> HIDE DEF old, new, P, Q
<1>8. IsFiniteSet(R)
  BY <1>4, FS_Subset
<1> HIDE DEF R
<1>9. SumFunctionOnSet(old, P) = old[p] + SumFunctionOnSet(old, R)
  BY <1>1, <1>4, <1>7, SumWithout DEF R
<1>10. SumFunctionOnSet(old, R) \in Nat
  BY <1>1, <1>5, <1>8, SumOfSome
<1>11. SumFunctionOnSet(new, R) = SumFunctionOnSet(old, R)
  BY <1>5, <1>8, SumsAreEqual
<1>12. p \notin Q => SumFunctionOnSet(new, Q) = SumFunctionOnSet(old, R)
  <2>1. ASSUME p \notin Q PROVE Q = R
    BY <1>5, <2>1
  <2> QED BY <1>11, <2>1
<1>13. p \in Q => SumFunctionOnSet(new, Q) = new[p] + SumFunctionOnSet(old, R)
  <2> SUFFICES ASSUME p \in Q PROVE SumFunctionOnSet(new, Q) = new[p] + SumFunctionOnSet(old, R)
    OBVIOUS
  <2>1. Q = R \cup {p}
    BY <1>5
  <2>2. IsFiniteSet(Q)
    BY <1>8, <2>1, FS_AddElement
  <2>3. \A q \in Q : new[q] \in Int
    BY <1>1, <1>5, <1>6, <2>1
  <2>4. SumFunctionOnSet(new, Q) = new[p] + SumFunctionOnSet(new, Q \ {p})
    BY <2>2, <2>3, SumWithout
  <2> QED BY <1>5, <1>11, <2>4
<1>14. old[p] = b.payments[p].amount /\ old[p] \in Nat
  BY <1>1, <1>7
<1>15. p \in Q => new[p] = c.payments[p].amount /\ new[p] \in Nat
  BY <1>2, <1>6
<1>16. (p \in Q <=> p \in PaymentsOf(c, i))
  BY DEF Q
<1> QED BY <1>3, <1>9, <1>10, <1>12, <1>13, <1>14, <1>15, <1>16

-----------------------------------------------------------------------------
(* The operations, as relations between the books b before and c after.     *)

Untouched(b, c, j) == /\ c.invoices[j] = b.invoices[j] /\ Paid(c, j) = Paid(b, j)
                      /\ HasPayment(c, j) <=> HasPayment(b, j)

(* Such an invoice fits its payments still. *)
LEMMA UntouchedFits ==
  ASSUME NEW b, NEW c, NEW j, Untouched(b, c, j), Fits(b, j)
  PROVE  Fits(c, j) /\ AccountOf(c, j) = AccountOf(b, j)
BY DEF Untouched, Fits, AccountOf

(* A new invoice, with what is paid of it. *)
Inserted(b, c, i, row, paid) ==
  /\ i \in InvoiceIds \ DOMAIN b.invoices
  /\ row \in Invoice /\ paid \in 0 .. row.total /\ row.status = Recomputed(paid, row.total)
  /\ c.invoices = [j \in DOMAIN b.invoices \cup {i} |-> IF j = i THEN row ELSE b.invoices[j]]
  /\ \/ paid = 0 /\ c.payments = b.payments
     \/ /\ paid # 0
        /\ \E p \in PaymentIds \ DOMAIN b.payments :
             c.payments = [q \in DOMAIN b.payments \cup {p} |->
                             IF q \in DOMAIN b.payments THEN b.payments[q]
                             ELSE [invoice |-> i, amount |-> paid]]
  /\ c.stock \in -MaxStock .. MaxStock

(* A new invoice disturbs no other, and fits what was paid of it. *)
LEMMA InsertedIsSound ==
  ASSUME BoundsAssumption, NEW b, Sound(b), NEW c, NEW i, NEW row, NEW paid,
         Inserted(b, c, i, row, paid)
  PROVE  /\ Sound(c)
         /\ \A j \in DOMAIN b.invoices : Untouched(b, c, j)
         /\ Paid(c, i) = paid
<1>1. Sane(b)
  BY DEF Sound
<1>2. i \in InvoiceIds /\ i \notin DOMAIN b.invoices /\ PaymentsOf(b, i) = {}
  BY <1>1 DEF Sane, PaymentsOf, Inserted
<1>3. paid \in Nat /\ row.total \in Nat /\ paid <= row.total
  BY DEF Invoice, BoundsAssumption, Inserted
<1>4. c.payments # b.payments =>
        /\ paid # 0
        /\ \E p \in PaymentIds \ DOMAIN b.payments :
              /\ DOMAIN c.payments = DOMAIN b.payments \cup {p}
              /\ \A q \in DOMAIN b.payments : c.payments[q] = b.payments[q]
              /\ c.payments[p] = [invoice |-> i, amount |-> paid]
              /\ c.payments \in [DOMAIN c.payments -> {c.payments[q] : q \in DOMAIN c.payments}]
  BY DEF Inserted
<1>5. /\ DOMAIN c.invoices = DOMAIN b.invoices \cup {i}
      /\ c.invoices[i] = row
      /\ \A j \in DOMAIN b.invoices : c.invoices[j] = b.invoices[j]
  BY <1>2 DEF Inserted
<1>6. Sane(c)
  <2>1. /\ IsFiniteSet(DOMAIN c.invoices) /\ DOMAIN c.invoices \subseteq InvoiceIds
        /\ c.invoices \in [DOMAIN c.invoices -> Invoice]
    BY <1>1, <1>2, FS_AddElement DEF Sane, Inserted
  <2>2. /\ IsFiniteSet(DOMAIN c.payments) /\ DOMAIN c.payments \subseteq PaymentIds
        /\ c.payments \in [DOMAIN c.payments -> [invoice : DOMAIN c.invoices, amount : Nat]]
    <3>1. CASE c.payments = b.payments
      BY <1>1, <1>5, <3>1 DEF Sane
    <3>2. CASE c.payments # b.payments
      BY <1>1, <1>3, <1>4, <1>5, <3>2, FS_AddElement DEF Sane
    <3> QED BY <3>1, <3>2
  <2> QED BY <2>1, <2>2 DEF Sane, Inserted
<1>7. ASSUME NEW j \in DOMAIN b.invoices PROVE Untouched(b, c, j)
  <2>1. PaymentsOf(c, j) = PaymentsOf(b, j)
    BY <1>2, <1>4, <1>7 DEF PaymentsOf
  <2>2. \A p \in PaymentsOf(b, j) : c.payments[p].amount = b.payments[p].amount
    BY <1>4 DEF PaymentsOf
  <2> QED BY <1>1, <1>5, <1>7, <2>1, <2>2, PaidTheSame DEF Untouched
<1>8. Paid(c, i) = paid /\ (HasPayment(c, i) <=> paid # 0)
  <2>1. CASE c.payments = b.payments
    <3>1. paid = 0
      BY <2>1 DEF Inserted
    <3>2. ~ HasPayment(c, i)
      BY <1>2, <2>1 DEF PaymentsOf, HasPayment
    <3> QED BY <1>6, <3>1, <3>2, PaidIsNat
  <2>2. CASE c.payments # b.payments
    <3>1. PICK p \in PaymentIds \ DOMAIN b.payments :
              /\ DOMAIN c.payments = DOMAIN b.payments \cup {p}
              /\ \A q \in DOMAIN b.payments : c.payments[q] = b.payments[q]
              /\ c.payments[p] = [invoice |-> i, amount |-> paid]
      BY <1>4, <2>2
    <3>2. Paid(b, i) = 0
      BY <1>1, <1>2, PaidIsNat DEF HasPayment
    <3>3. PaymentsOf(c, i) = PaymentsOf(b, i) \cup {p} /\ c.payments[p].amount = paid
      BY <1>1, <1>2, <3>1 DEF PaymentsOf, Sane
    <3>4. Paid(c, i) = Paid(b, i) + c.payments[p].amount /\ HasPayment(c, i)
      BY <1>1, <1>2, <1>3, <3>3, PaidWithOneMore
    <3> QED BY <1>3, <1>4, <2>2, <3>2, <3>3, <3>4
  <2> QED BY <2>1, <2>2
<1>9. Fits(c, i)
  BY <1>3, <1>5, <1>8 DEF Fits, AccountOf, Book!Balanced, Recomputed, Inserted
<1>10. \A j \in DOMAIN b.invoices : Fits(c, j)
  BY <1>7, UntouchedFits DEF Sound
<1> QED BY <1>5, <1>6, <1>7, <1>8, <1>9, <1>10 DEF Sound

(* Payments of open invoices, none of more than is outstanding. *)
PaidUp(b, c, split, id, new) ==
  /\ DOMAIN split \subseteq DOMAIN b.invoices
  /\ \A i \in DOMAIN split : /\ b.invoices[i].status \in Open
                             /\ split[i] \in Nat /\ split[i] <= Outstanding(b, i)
                             /\ split[i] = Outstanding(b, i) \/ split[i] > 0
  /\ id \in Injection(DOMAIN split, PaymentIds \ DOMAIN b.payments)
  /\ new = {id[i] : i \in DOMAIN split}
  /\ c.payments = [p \in DOMAIN b.payments \cup new |->
                     IF p \in new
                     THEN LET i == CHOOSE j \in DOMAIN split : id[j] = p
                          IN  [invoice |-> i, amount |-> split[i]]
                     ELSE b.payments[p]]
  /\ c.invoices = [i \in DOMAIN b.invoices |->
                     IF i \in DOMAIN split
                     THEN [b.invoices[i] EXCEPT !.status = IF split[i] = Outstanding(b, i)
                                                           THEN "Paid" ELSE "Partially_Paid"]
                     ELSE b.invoices[i]]
  /\ c.stock = b.stock

(* A receipt adds to each of its invoices what was split off for it. *)
LEMMA PaidUpIsSound ==
  ASSUME BoundsAssumption, NEW b, Sound(b), NEW c, NEW split, NEW id, NEW new,
         PaidUp(b, c, split, id, new)
  PROVE  /\ Sound(c)
         /\ \A j \in DOMAIN b.invoices \ DOMAIN split : Untouched(b, c, j)
         /\ \A i \in DOMAIN split : Paid(c, i) = Paid(b, i) + split[i]
<1>1. Sane(b)
  BY DEF Sound
<1>2. /\ id \in [DOMAIN split -> PaymentIds \ DOMAIN b.payments]
      /\ \A i, j \in DOMAIN split : id[i] = id[j] => i = j
      /\ new = {id[i] : i \in DOMAIN split}
  BY DEF Injection, IsInjective, PaidUp
<1>3. ASSUME NEW i \in DOMAIN split
      PROVE  /\ id[i] \in new /\ id[i] \notin DOMAIN b.payments /\ id[i] \in DOMAIN c.payments
             /\ c.payments[id[i]].invoice = i /\ c.payments[id[i]].amount = split[i]
             /\ c.payments[id[i]] = [invoice |-> i, amount |-> split[i]]
  <2>1. id[i] \in new /\ id[i] \notin DOMAIN b.payments
    BY <1>2, <1>3
  <2> DEFINE who(p) == CHOOSE j \in DOMAIN split : id[j] = p
  <2>2. who(id[i]) = i
    BY <1>2, <1>3
  <2>3. c.payments = [p \in DOMAIN b.payments \cup new |->
                        IF p \in new THEN [invoice |-> who(p), amount |-> split[who(p)]]
                        ELSE b.payments[p]]
    BY DEF PaidUp
  <2> HIDE DEF who
  <2>4. id[i] \in DOMAIN c.payments
        /\ c.payments[id[i]] = [invoice |-> who(id[i]), amount |-> split[who(id[i])]]
    BY <2>1, <2>3
  <2> QED BY <2>1, <2>2, <2>4
<1>4. \A p \in DOMAIN b.payments : p \in DOMAIN c.payments /\ p \notin new /\ c.payments[p] = b.payments[p]
  BY <1>2 DEF PaidUp
<1>5. DOMAIN c.payments = DOMAIN b.payments \cup new /\ DOMAIN c.invoices = DOMAIN b.invoices
  BY DEF PaidUp
<1>6. \A p \in new : \E i \in DOMAIN split : p = id[i]
  BY <1>2
<1>7. /\ DOMAIN split \subseteq DOMAIN b.invoices
      /\ \A i \in DOMAIN b.invoices \ DOMAIN split : c.invoices[i] = b.invoices[i]
  BY DEF PaidUp
<1>8. ASSUME NEW i \in DOMAIN split
      PROVE  /\ i \in DOMAIN b.invoices /\ b.invoices[i].status \in Open /\ split[i] \in Nat
             /\ split[i] <= Outstanding(b, i) /\ (split[i] = Outstanding(b, i) \/ split[i] > 0)
             /\ c.invoices[i] = [b.invoices[i] EXCEPT !.status = IF split[i] = Outstanding(b, i)
                                                            THEN "Paid" ELSE "Partially_Paid"]
  BY <1>8 DEF PaidUp
<1>9. ASSUME NEW i \in DOMAIN split
      PROVE  /\ b.invoices[i].total \in Nat /\ c.invoices[i] \in Invoice
             /\ c.invoices[i].total = b.invoices[i].total
             /\ c.invoices[i].status = IF split[i] = Outstanding(b, i) THEN "Paid" ELSE "Partially_Paid"
  <2>1. b.invoices[i] \in Invoice
    BY <1>1, <1>8 DEF Sane
  <2> HIDE DEF Outstanding
  <2>2. PICK s \in {"Paid", "Partially_Paid"} :
             /\ c.invoices[i] = [b.invoices[i] EXCEPT !.status = s]
             /\ s = IF split[i] = Outstanding(b, i) THEN "Paid" ELSE "Partially_Paid"
    BY <1>8, <1>9
  <2> QED BY <2>1, <2>2 DEF Invoice, BoundsAssumption
<1>10. IsFiniteSet(new)
  <2>1. IsFiniteSet(DOMAIN split)
    BY <1>1, <1>7, FS_Subset DEF Sane
  <2>2. id \in [DOMAIN split -> new] /\ \A p \in new : \E i \in DOMAIN split : id[i] = p
    BY <1>2, <1>6
  <2>3. id \in Surjection(DOMAIN split, new)
    BY <2>2 DEF Surjection
  <2> QED BY <2>1, <2>3, FS_Surjection
<1>11. Sane(c)
  <2>1. IsFiniteSet(DOMAIN c.invoices) /\ DOMAIN c.invoices \subseteq InvoiceIds
    BY <1>1, <1>5 DEF Sane
  <2>2. c.invoices \in [DOMAIN c.invoices -> Invoice]
    <3>1. \A i \in DOMAIN b.invoices \ DOMAIN split : c.invoices[i] \in Invoice
      BY <1>1, <1>7 DEF Sane
    <3>2. \A i \in DOMAIN c.invoices : c.invoices[i] \in Invoice
      BY <1>5, <1>9, <3>1
    <3>3. c.invoices = [i \in DOMAIN c.invoices |-> c.invoices[i]]
      BY DEF PaidUp
    <3> QED BY <3>2, <3>3
  <2>3. IsFiniteSet(DOMAIN c.payments)
    <3>1. IsFiniteSet(DOMAIN b.payments)
      BY <1>1 DEF Sane
    <3>2. IsFiniteSet(DOMAIN b.payments \cup new)
      BY <1>10, <3>1, FS_Union
    <3> QED BY <1>5, <3>2
  <2>4. DOMAIN c.payments \subseteq PaymentIds
    BY <1>1, <1>2, <1>5 DEF Sane
  <2>5. \A p \in DOMAIN c.payments : c.payments[p] \in [invoice : DOMAIN c.invoices, amount : Nat]
    <3>1. ASSUME NEW i \in DOMAIN split
          PROVE  c.payments[id[i]] \in [invoice : DOMAIN c.invoices, amount : Nat]
      <4>1. i \in DOMAIN c.invoices /\ split[i] \in Nat
        BY <1>5, <1>8, <3>1
      <4>2. c.payments[id[i]] = [invoice |-> i, amount |-> split[i]]
        BY <1>3, <3>1
      <4> QED BY <4>1, <4>2
    <3>2. ASSUME NEW p \in DOMAIN b.payments PROVE c.payments[p] \in [invoice : DOMAIN c.invoices, amount : Nat]
      BY <1>1, <1>4, <1>5, <3>2 DEF Sane
    <3> QED BY <1>5, <1>6, <3>1, <3>2
  <2>6. c.payments = [p \in DOMAIN c.payments |-> c.payments[p]]
    BY DEF PaidUp
  <2>7. c.stock \in -MaxStock .. MaxStock
    BY <1>1 DEF Sane, PaidUp
  <2>8. c.payments \in [DOMAIN c.payments -> [invoice : DOMAIN c.invoices, amount : Nat]]
    BY <2>5, <2>6
  <2> QED BY <2>1, <2>2, <2>3, <2>4, <2>7, <2>8 DEF Sane
<1>12. ASSUME NEW j \in DOMAIN b.invoices \ DOMAIN split PROVE Untouched(b, c, j)
  <2>1. PaymentsOf(c, j) = PaymentsOf(b, j)
    <3>1. ASSUME NEW p \in new PROVE c.payments[p].invoice # j
      <4>1. PICK i \in DOMAIN split : p = id[i]
        BY <1>6
      <4>2. c.payments[id[i]].invoice = i
        BY <1>3
      <4> QED BY <1>12, <4>1, <4>2
    <3> QED BY <1>4, <1>5, <3>1 DEF PaymentsOf
  <2>2. \A p \in PaymentsOf(b, j) : c.payments[p].amount = b.payments[p].amount
    BY <1>4 DEF PaymentsOf
  <2> QED BY <1>1, <1>7, <1>12, <2>1, <2>2, PaidTheSame DEF Untouched
<1>13. ASSUME NEW i \in DOMAIN split
       PROVE  Paid(c, i) = Paid(b, i) + split[i] /\ HasPayment(c, i)
  <2>1. PaymentsOf(c, i) = PaymentsOf(b, i) \cup {id[i]} /\ id[i] \notin PaymentsOf(b, i)
    <3>1. ASSUME NEW p \in new PROVE c.payments[p].invoice = i <=> p = id[i]
      <4>1. PICK j \in DOMAIN split : p = id[j]
        BY <1>6
      <4>2. c.payments[id[j]].invoice = j
        BY <1>3
      <4> QED BY <1>2, <1>13, <4>1, <4>2
    <3>2. id[i] \in new /\ id[i] \notin DOMAIN b.payments
      BY <1>3, <1>13
    <3> QED BY <1>4, <1>5, <3>1, <3>2 DEF PaymentsOf
  <2>2. \A p \in PaymentsOf(b, i) : c.payments[p].amount = b.payments[p].amount
    BY <1>4 DEF PaymentsOf
  <2>3. c.payments[id[i]].amount = split[i]
    BY <1>3, <1>13
  <2>4. split[i] \in Nat
    BY <1>8, <1>13
  <2> QED BY <1>1, <2>1, <2>2, <2>3, <2>4, PaidWithOneMore
<1>14. ASSUME NEW i \in DOMAIN split PROVE Fits(c, i)
  <2>1. Paid(b, i) \in Nat
    BY <1>1, PaidIsNat
  <2>2. /\ split[i] \in Nat /\ split[i] <= Outstanding(b, i)
        /\ split[i] = Outstanding(b, i) \/ split[i] > 0
    BY <1>8, <1>14
  <2>3. /\ b.invoices[i].total \in Nat /\ c.invoices[i].total = b.invoices[i].total
        /\ c.invoices[i].status = IF split[i] = Outstanding(b, i) THEN "Paid" ELSE "Partially_Paid"
    BY <1>9, <1>14
  <2>4. Paid(c, i) = Paid(b, i) + split[i] /\ HasPayment(c, i)
    BY <1>13, <1>14
  <2>5. CASE split[i] = Outstanding(b, i)
    BY <2>1, <2>3, <2>4, <2>5 DEF Fits, AccountOf, Book!Balanced, Outstanding
  <2>6. CASE split[i] # Outstanding(b, i)
    <3>1. /\ Paid(c, i) > 0 /\ Paid(c, i) < c.invoices[i].total
      BY <2>1, <2>2, <2>3, <2>4, <2>6 DEF Outstanding
    <3>2. c.invoices[i].status = "Partially_Paid"
      BY <2>3, <2>6
    <3>3. Paid(c, i) \in Nat /\ c.invoices[i].total \in Nat
      BY <2>1, <2>2, <2>3, <2>4
    <3>4. Book!Balanced(AccountOf(c, i))
      BY <3>1, <3>2, <3>3 DEF AccountOf, Book!Balanced
    <3> QED BY <2>4, <3>2, <3>4 DEF Fits
  <2> QED BY <2>5, <2>6
<1>15. Sound(c)
  <2>1. \A j \in DOMAIN b.invoices \ DOMAIN split : Fits(c, j)
    BY <1>12, UntouchedFits DEF Sound
  <2> QED BY <1>5, <1>11, <1>14, <2>1 DEF Sound
<1> QED BY <1>12, <1>13, <1>15

(* The payments of one invoice are corrected, and its status recomputed.    *)
Recounted(b, c, i) ==
  /\ i \in DOMAIN b.invoices /\ HasPayment(b, i)
  /\ IsFiniteSet(DOMAIN c.payments) /\ DOMAIN c.payments \subseteq DOMAIN b.payments
  /\ c.payments \in [DOMAIN c.payments -> [invoice : DOMAIN b.invoices, amount : Nat]]
  /\ \A q \in DOMAIN c.payments : c.payments[q].invoice = b.payments[q].invoice
  /\ \A q \in DOMAIN b.payments :
        \/ q \in DOMAIN c.payments /\ c.payments[q] = b.payments[q]
        \/ b.payments[q].invoice = i
  /\ Paid(c, i) <= b.invoices[i].total
  /\ c.invoices = [b.invoices EXCEPT ![i] =
                     [b.invoices[i] EXCEPT !.status = Recomputed(Paid(c, i), b.invoices[i].total)]]
  /\ c.stock = b.stock

(* A payment changed disturbs the status of its own invoice only. *)
LEMMA RecountedIsSound ==
  ASSUME BoundsAssumption, NEW b, Sound(b), NEW c, NEW i, Recounted(b, c, i)
  PROVE  /\ Sound(c)
         /\ \A j \in DOMAIN b.invoices \ {i} : Untouched(b, c, j)
         /\ c.invoices[i].total = b.invoices[i].total /\ c.invoices[i].status # "Cancelled"
<1>1. Sane(b)
  BY DEF Sound
<1>2. i \in DOMAIN b.invoices /\ b.invoices[i] \in Invoice /\ b.invoices[i].total \in Nat
  BY <1>1 DEF Recounted, Sane, Invoice, BoundsAssumption
<1> DEFINE status == Recomputed(Paid(c, i), b.invoices[i].total)
<1>3. /\ c.invoices = [b.invoices EXCEPT ![i] = [b.invoices[i] EXCEPT !.status = status]]
      /\ Paid(c, i) <= b.invoices[i].total
  BY DEF Recounted
<1>4. status \in {"Pending", "Partially_Paid", "Paid"}
  BY DEF Recomputed
<1> HIDE DEF status
<1>5. /\ DOMAIN c.invoices = DOMAIN b.invoices
      /\ c.invoices[i] \in Invoice
      /\ c.invoices[i].total = b.invoices[i].total /\ c.invoices[i].status = status
      /\ c.invoices \in [DOMAIN b.invoices -> Invoice]
      /\ \A j \in DOMAIN b.invoices \ {i} : c.invoices[j] = b.invoices[j]
  BY <1>1, <1>2, <1>3, <1>4 DEF Sane, Invoice
<1>6. Sane(c)
  BY <1>1, <1>5 DEF Sane, Recounted
<1>7. ASSUME NEW j \in DOMAIN b.invoices \ {i} PROVE Untouched(b, c, j)
  <2>1. PaymentsOf(c, j) = PaymentsOf(b, j)
        /\ \A q \in PaymentsOf(b, j) : c.payments[q] = b.payments[q]
    BY <1>7 DEF PaymentsOf, Recounted
  <2> QED BY <1>1, <1>5, <1>7, <2>1, PaidTheSame DEF Untouched
<1>8. Fits(c, i)
  <2>1. Paid(c, i) \in Nat /\ (~ HasPayment(c, i) => Paid(c, i) = 0)
    BY <1>6, PaidIsNat
  <2>2. Book!Balanced(AccountOf(c, i))
    BY <1>2, <1>3, <1>5, <2>1 DEF AccountOf, Book!Balanced, Recomputed, status
  <2>3. status \in {"Paid", "Partially_Paid"} => Paid(c, i) > 0
    BY <1>2, <2>1 DEF Recomputed, status
  <2> QED BY <1>4, <1>5, <2>1, <2>2, <2>3 DEF Fits
<1>9. Sound(c)
  BY <1>5, <1>6, <1>7, <1>8, UntouchedFits DEF Sound
<1> QED BY <1>4, <1>5, <1>7, <1>9

(* A payment is taken back.                                                 *)
TakenBack(b, c, p, i) ==
  /\ p \in DOMAIN b.payments /\ i = b.payments[p].invoice
  /\ c.payments = [q \in DOMAIN b.payments \ {p} |-> b.payments[q]]
  /\ c.invoices = [b.invoices EXCEPT ![i] =
                     [b.invoices[i] EXCEPT !.status =
                        Recomputed(Paid(b, i) - b.payments[p].amount, b.invoices[i].total)]]
  /\ c.stock = b.stock

(* A payment removed is such a change. *)
LEMMA TakenBackIsRecounted ==
  ASSUME BoundsAssumption, NEW b, Sound(b), NEW c, NEW p, NEW i, TakenBack(b, c, p, i)
  PROVE  Recounted(b, c, i)
<1>1. Sane(b)
  BY DEF Sound
<1>2. /\ p \in DOMAIN b.payments /\ i \in DOMAIN b.invoices /\ b.payments[p].invoice = i
      /\ b.payments[p].amount \in Nat /\ b.invoices[i].total \in Nat
  BY <1>1 DEF Sane, TakenBack, Invoice, BoundsAssumption
<1>3. DOMAIN c.payments = DOMAIN b.payments \ {p}
      /\ \A q \in DOMAIN c.payments : c.payments[q] = b.payments[q]
  BY DEF TakenBack
<1>4. IsFiniteSet(DOMAIN c.payments)
  BY <1>1, <1>3, FS_Subset DEF Sane
<1>5. c.payments \in [DOMAIN c.payments -> [invoice : DOMAIN b.invoices, amount : Nat]]
  BY <1>1, <1>3 DEF Sane, TakenBack
<1>6. /\ p \in PaymentsOf(b, i) /\ p \notin PaymentsOf(c, i)
      /\ PaymentsOf(c, i) \ {p} = PaymentsOf(b, i) \ {p}
      /\ \A q \in PaymentsOf(b, i) \ {p} : c.payments[q].amount = b.payments[q].amount
  BY <1>2, <1>3 DEF PaymentsOf
<1>7. Paid(c, i) = Paid(b, i) - b.payments[p].amount /\ Paid(b, i) \in Nat
  BY <1>1, <1>6, PaidButOne, PaidIsNat
<1>8. Paid(b, i) <= b.invoices[i].total
  BY <1>2 DEF Sound, Fits, AccountOf, Book!Balanced
<1>9. Paid(c, i) <= b.invoices[i].total
  BY <1>2, <1>7, <1>8
<1>10. c.invoices = [b.invoices EXCEPT ![i] =
                       [b.invoices[i] EXCEPT !.status = Recomputed(Paid(c, i), b.invoices[i].total)]]
       /\ c.stock = b.stock
  BY <1>7 DEF TakenBack
<1>11. /\ \A q \in DOMAIN c.payments : c.payments[q].invoice = b.payments[q].invoice
       /\ \A q \in DOMAIN b.payments :
            \/ q \in DOMAIN c.payments /\ c.payments[q] = b.payments[q]
            \/ b.payments[q].invoice = i
  BY <1>2, <1>3
<1>12. HasPayment(b, i)
  BY <1>6 DEF HasPayment
<1> QED BY <1>2, <1>3, <1>4, <1>5, <1>9, <1>10, <1>11, <1>12 DEF Recounted

(* A payment's amount is corrected.                                         *)
Reentered(b, c, p, i, amount) ==
  /\ p \in DOMAIN b.payments /\ i = b.payments[p].invoice
  /\ amount \in Nat /\ Paid(b, i) - b.payments[p].amount + amount <= b.invoices[i].total
  /\ c.payments = [b.payments EXCEPT ![p].amount = amount]
  /\ c.invoices = [b.invoices EXCEPT ![i] =
                     [b.invoices[i] EXCEPT !.status =
                        Recomputed(Paid(b, i) - b.payments[p].amount + amount,
                                   b.invoices[i].total)]]
  /\ c.stock = b.stock

(* A payment edited is another. *)
LEMMA ReenteredIsRecounted ==
  ASSUME BoundsAssumption, NEW b, Sound(b), NEW c, NEW p, NEW i, NEW amount,
         Reentered(b, c, p, i, amount)
  PROVE  Recounted(b, c, i)
<1>1. Sane(b)
  BY DEF Sound
<1>2. /\ p \in DOMAIN b.payments /\ i \in DOMAIN b.invoices /\ b.payments[p].invoice = i
      /\ b.payments[p].amount \in Nat /\ b.invoices[i].total \in Nat /\ amount \in Nat
  BY <1>1 DEF Sane, Reentered, Invoice, BoundsAssumption
<1>3. /\ DOMAIN c.payments = DOMAIN b.payments
      /\ \A q \in DOMAIN b.payments \ {p} : c.payments[q] = b.payments[q]
      /\ c.payments[p].invoice = i /\ c.payments[p].amount = amount
  BY <1>1, <1>2 DEF Reentered, Sane
<1>4. c.payments \in [DOMAIN c.payments -> [invoice : DOMAIN b.invoices, amount : Nat]]
  BY <1>1, <1>2, <1>3 DEF Sane, Reentered
<1>5. IsFiniteSet(DOMAIN c.payments)
  BY <1>1, <1>3 DEF Sane
<1>6. /\ p \in PaymentsOf(b, i) /\ p \in PaymentsOf(c, i)
      /\ PaymentsOf(c, i) \ {p} = PaymentsOf(b, i) \ {p}
      /\ \A q \in PaymentsOf(b, i) \ {p} : c.payments[q].amount = b.payments[q].amount
  BY <1>2, <1>3 DEF PaymentsOf
<1>7. Paid(c, i) = Paid(b, i) - b.payments[p].amount + amount
  BY <1>1, <1>2, <1>3, <1>6, PaidButOne
<1>8. /\ Paid(c, i) <= b.invoices[i].total
      /\ c.invoices = [b.invoices EXCEPT ![i] =
                         [b.invoices[i] EXCEPT !.status = Recomputed(Paid(c, i), b.invoices[i].total)]]
      /\ c.stock = b.stock
  BY <1>7 DEF Reentered
<1>9. /\ \A q \in DOMAIN c.payments : c.payments[q].invoice = b.payments[q].invoice
      /\ \A q \in DOMAIN b.payments :
            \/ q \in DOMAIN c.payments /\ c.payments[q] = b.payments[q]
            \/ b.payments[q].invoice = i
  BY <1>2, <1>3
<1>10. HasPayment(b, i)
  BY <1>6 DEF HasPayment
<1> QED BY <1>2, <1>3, <1>4, <1>5, <1>8, <1>9, <1>10 DEF Recounted

(* The row of an invoice is corrected, none of its payments.                *)
Revised(b, c, i, row) ==
  /\ i \in DOMAIN b.invoices /\ row \in Invoice
  /\ Book!Balanced([total |-> row.total, paid |-> Paid(b, i), status |-> row.status])
  /\ row.status \in {"Paid", "Partially_Paid"} => HasPayment(b, i)
  /\ row.status = "Cancelled" => ~ HasPayment(b, i)
  /\ c.invoices = [b.invoices EXCEPT ![i] = row]
  /\ c.payments = b.payments
  /\ c.stock \in -MaxStock .. MaxStock

(* A row changed that keeps its payments. *)
LEMMA RevisedIsSound ==
  ASSUME NEW b, Sound(b), NEW c, NEW i, NEW row, Revised(b, c, i, row)
  PROVE  /\ Sound(c) /\ c.invoices[i] = row /\ Paid(c, i) = Paid(b, i)
         /\ \A j \in DOMAIN b.invoices \ {i} : Untouched(b, c, j)
<1>1. Sane(b)
  BY DEF Sound
<1>2. /\ DOMAIN c.invoices = DOMAIN b.invoices /\ c.invoices[i] = row
      /\ c.invoices \in [DOMAIN b.invoices -> Invoice]
      /\ \A j \in DOMAIN b.invoices \ {i} : c.invoices[j] = b.invoices[j]
  BY <1>1 DEF Sane, Revised
<1>3. Sane(c)
  BY <1>1, <1>2 DEF Sane, Revised
<1>4. \A j : Paid(c, j) = Paid(b, j) /\ (HasPayment(c, j) <=> HasPayment(b, j))
  BY DEF Revised, Paid, HasPayment, PaymentsOf
<1>5. \A j \in DOMAIN b.invoices \ {i} : Untouched(b, c, j)
  BY <1>2, <1>4 DEF Untouched
<1>6. Fits(c, i)
  BY <1>2, <1>4 DEF Revised, Fits, AccountOf
<1>7. Sound(c)
  BY <1>2, <1>3, <1>5, <1>6, UntouchedFits DEF Sound
<1> QED BY <1>2, <1>4, <1>5, <1>7

(* Invoices are deleted with their payments.                                *)
Deleted(b, c, S) ==
  /\ c.invoices = [i \in DOMAIN b.invoices \ S |-> b.invoices[i]]
  /\ c.payments = [p \in {q \in DOMAIN b.payments : b.payments[q].invoice \notin S} |-> b.payments[p]]
  /\ c.stock = b.stock

(* Parties deleted with all their invoices and payments. *)
LEMMA DeletedIsSound ==
  ASSUME NEW b, Sound(b), NEW c, NEW S, Deleted(b, c, S)
  PROVE  Sound(c) /\ \A j \in DOMAIN b.invoices \ S : Untouched(b, c, j)
<1>1. Sane(b)
  BY DEF Sound
<1>2. /\ DOMAIN c.invoices = DOMAIN b.invoices \ S
      /\ c.invoices \in [DOMAIN c.invoices -> Invoice]
      /\ \A j \in DOMAIN b.invoices \ S : c.invoices[j] = b.invoices[j]
  BY <1>1 DEF Sane, Deleted
<1>3. /\ DOMAIN c.payments = {q \in DOMAIN b.payments : b.payments[q].invoice \notin S}
      /\ \A q \in DOMAIN c.payments : c.payments[q] = b.payments[q]
      /\ c.payments = [q \in DOMAIN c.payments |-> c.payments[q]]
  BY DEF Deleted
<1>4. IsFiniteSet(DOMAIN c.invoices)
  BY <1>1, <1>2, FS_Subset DEF Sane
<1>5. IsFiniteSet(DOMAIN c.payments)
  BY <1>1, <1>3, FS_Subset DEF Sane
<1>6. \A q \in DOMAIN c.payments : c.payments[q] \in [invoice : DOMAIN c.invoices, amount : Nat]
  <2> TAKE q \in DOMAIN c.payments
  <2>1. b.payments[q] \in [invoice : DOMAIN b.invoices, amount : Nat] /\ b.payments[q].invoice \notin S
    BY <1>1, <1>3 DEF Sane
  <2> QED BY <1>2, <1>3, <2>1
<1>7. Sane(c)
  <2>1. c.payments \in [DOMAIN c.payments -> [invoice : DOMAIN c.invoices, amount : Nat]]
    BY <1>3, <1>6
  <2>2. DOMAIN c.payments \subseteq PaymentIds /\ DOMAIN c.invoices \subseteq InvoiceIds
    BY <1>1, <1>2, <1>3 DEF Sane
  <2>3. c.stock \in -MaxStock .. MaxStock
    BY <1>1 DEF Sane, Deleted
  <2> QED BY <1>2, <1>4, <1>5, <2>1, <2>2, <2>3 DEF Sane
<1>8. ASSUME NEW j \in DOMAIN b.invoices \ S PROVE Untouched(b, c, j)
  <2>1. PaymentsOf(c, j) = PaymentsOf(b, j)
        /\ \A q \in PaymentsOf(b, j) : c.payments[q] = b.payments[q]
    BY <1>3, <1>8 DEF PaymentsOf
  <2> QED BY <1>1, <1>2, <1>8, <2>1, PaidTheSame DEF Untouched
<1>9. Sound(c)
  BY <1>2, <1>7, <1>8, UntouchedFits DEF Sound
<1> QED BY <1>8, <1>9

(* Only the stock is counted.                                               *)
LEMMA CountedIsSound ==
  ASSUME NEW b, Sound(b), NEW c, c.invoices = b.invoices, c.payments = b.payments,
         c.stock \in -MaxStock .. MaxStock
  PROVE  Sound(c) /\ \A j \in DOMAIN b.invoices : Untouched(b, c, j)
<1>1. \A j : Paid(c, j) = Paid(b, j) /\ (HasPayment(c, j) <=> HasPayment(b, j))
  BY DEF Paid, HasPayment, PaymentsOf
<1>2. \A j \in DOMAIN b.invoices : Untouched(b, c, j)
  BY <1>1 DEF Untouched
<1> QED BY <1>2, UntouchedFits DEF Sound, Sane

-----------------------------------------------------------------------------
(* What a receipt is spread over.                                           *)

(* What is owed is a number. *)
LEMMA OutstandingIsInt ==
  ASSUME BoundsAssumption, NEW b, Sane(b), NEW i \in DOMAIN b.invoices
  PROVE  Outstanding(b, i) \in Int
<1>1. b.invoices[i].total \in Nat
  BY DEF Sane, Invoice, BoundsAssumption
<1> QED BY <1>1, PaidIsNat DEF Outstanding

(* No invoice gets more than is outstanding of it.                          *)
LEMMA ShareIsOwed ==
  ASSUME BoundsAssumption, NEW b, Sane(b), NEW S \in SUBSET DOMAIN b.invoices,
         NEW amount \in Int, NEW i \in S
  PROVE  Share(b, S, amount, i) > 0 =>
           Share(b, S, amount, i) \in Nat /\ Share(b, S, amount, i) <= Outstanding(b, i)
<1> DEFINE owed == [j \in S |-> AtLeastZero(Outstanding(b, j))]
           older == {j \in S : Older(b, j, i)}
<1>1. \A j \in S : owed[j] \in Nat
  <2> TAKE j \in S
  <2>1. Outstanding(b, j) \in Int
    BY OutstandingIsInt
  <2> QED BY <2>1 DEF AtLeastZero
<1>2. IsFiniteSet(older) /\ older \subseteq S
  BY FS_Subset DEF Sane
<1>3. Share(b, S, amount, i) =
        AtLeastZero(Least(AtLeastZero(Outstanding(b, i)), amount - SumFunctionOnSet(owed, older)))
  BY DEF Share
<1>4. Outstanding(b, i) \in Int
  BY OutstandingIsInt
<1> HIDE DEF owed, older
<1>5. SumFunctionOnSet(owed, older) \in Nat
  BY <1>1, <1>2, SumOfSome
<1> QED BY <1>3, <1>4, <1>5 DEF AtLeastZero, Least

(* What the older invoice is owed is paid before the newer one gets any.    *)
LEMMA OlderIsPaidFirst ==
  ASSUME BoundsAssumption, NEW b, Sane(b), NEW S \in SUBSET DOMAIN b.invoices,
         NEW amount \in Int, NEW i \in S, NEW j \in S,
         Older(b, i, j), Share(b, S, amount, j) > 0, Outstanding(b, i) > 0
  PROVE  Share(b, S, amount, i) = Outstanding(b, i)
<1> DEFINE owed == [k \in S |-> AtLeastZero(Outstanding(b, k))]
           beforeI == {k \in S : Older(b, k, i)}
           beforeJ == {k \in S : Older(b, k, j)}
           withI == beforeI \cup {i}
<1>1. \A k \in S : owed[k] \in Nat
  <2> TAKE k \in S
  <2>1. Outstanding(b, k) \in Int
    BY OutstandingIsInt
  <2> QED BY <2>1 DEF AtLeastZero
<1>2. IsFiniteSet(beforeI) /\ IsFiniteSet(beforeJ) /\ beforeI \subseteq S /\ beforeJ \subseteq S
  BY FS_Subset DEF Sane
<1>3. \A k \in S : k \in Int /\ b.invoices[k].date \in Int
  <2> TAKE k \in S
  <2>1. b.invoices[k] \in Invoice /\ k \in Nat
    BY DEF Sane, BoundsAssumption
  <2>2. b.invoices[k].date \in 1 .. MaxDate
    BY <2>1 DEF Invoice
  <2> QED BY <2>1, <2>2 DEF BoundsAssumption
<1>4. i \notin beforeI
  BY <1>3 DEF Older
<1>5. withI \subseteq beforeJ
  BY <1>3 DEF Older
<1>6. withI \ {i} = beforeI
  BY <1>4
<1>7. /\ Share(b, S, amount, i) =
           AtLeastZero(Least(AtLeastZero(Outstanding(b, i)), amount - SumFunctionOnSet(owed, beforeI)))
      /\ Share(b, S, amount, j) =
           AtLeastZero(Least(AtLeastZero(Outstanding(b, j)), amount - SumFunctionOnSet(owed, beforeJ)))
  BY DEF Share
<1>8. Outstanding(b, i) \in Int /\ Outstanding(b, j) \in Int
  BY OutstandingIsInt
<1>9. owed[i] = Outstanding(b, i)
  BY <1>8 DEF AtLeastZero
<1>10. i \in withI
  OBVIOUS
<1>11. withI \subseteq S
  BY <1>2
<1> HIDE DEF owed, beforeI, beforeJ, withI
<1>12. IsFiniteSet(withI)
  BY <1>2, <1>5, FS_Subset
<1>13. SumFunctionOnSet(owed, withI) = owed[i] + SumFunctionOnSet(owed, beforeI)
  <2>1. \A k \in withI : owed[k] \in Int
    BY <1>1, <1>11
  <2> QED BY <1>6, <1>10, <1>12, <2>1, SumWithout
<1>14. SumFunctionOnSet(owed, withI) <= SumFunctionOnSet(owed, beforeJ)
       /\ SumFunctionOnSet(owed, withI) \in Nat /\ SumFunctionOnSet(owed, beforeJ) \in Nat
  <2>1. \A k \in beforeJ : owed[k] \in Nat
    BY <1>1, <1>2
  <2> QED BY <1>2, <1>5, <2>1, SumOfSome
<1>15. SumFunctionOnSet(owed, beforeI) \in Nat
  <2>1. \A k \in beforeI : owed[k] \in Nat
    BY <1>1, <1>2
  <2> QED BY <1>2, <2>1, SumOfSome
<1> QED BY <1>7, <1>8, <1>9, <1>13, <1>14, <1>15 DEF AtLeastZero, Least

-----------------------------------------------------------------------------
(* What a transaction does to the books when it is the only one.            *)

OneReceipt(b, split) ==
  \/ \E i : DOMAIN split \subseteq {i}
  \/ \E party : \E amount \in Int : split = Split(b, OpenInvoices(b, party), amount)

SameOrder(old, row) == row.status = old.status /\ row.quantity = old.quantity

Effect(b, c) ==
  \/ \E i, row, paid : Inserted(b, c, i, row, paid) /\ c.stock + row.quantity = b.stock
  \/ \E split, id, new : PaidUp(b, c, split, id, new) /\ OneReceipt(b, split)
  \/ \E i : Recounted(b, c, i)
  \/ \E i, row : /\ Revised(b, c, i, row)
                 /\ SameOrder(b.invoices[i], row) /\ c.stock = b.stock
                 /\ row.total = b.invoices[i].total \/ ~ HasPayment(b, i)
  \/ \E i, row : /\ Revised(b, c, i, row)
                 /\ row = [b.invoices[i] EXCEPT !.status = "Cancelled"]
                 /\ b.invoices[i].status # "Cancelled"
                 /\ c.stock = b.stock + row.quantity
  \/ \E S : Deleted(b, c, S)
  \/ /\ c.invoices = b.invoices /\ c.payments = b.payments
     /\ c.stock \in -MaxStock .. MaxStock

(* The transactions that insert an invoice insert one. *)
LEMMA InsertHasEffect ==
  ASSUME BoundsAssumption, NEW i \in FreshInvoices, NEW row \in Invoice, NEW paid \in 0 .. row.total,
         row.status = Recomputed(paid, row.total),
         Insert(i, row, paid), stock' + row.quantity = stock, stock' \in -MaxStock .. MaxStock
  PROVE  Effect(Current, Current')
<1>1. FreshInvoices \subseteq InvoiceIds \ DOMAIN invoices
      /\ FreshPayments \subseteq PaymentIds \ DOMAIN payments
  BY DEF FreshInvoices, FreshPayments
<1>2. /\ Current.invoices = invoices /\ Current.payments = payments /\ Current.stock = stock
      /\ (Current').invoices = invoices' /\ (Current').payments = payments' /\ (Current').stock = stock'
  BY DEF Current
<1>3. CASE paid = 0
  BY <1>1, <1>2, <1>3 DEF Insert, Effect, Inserted
<1>4. CASE paid # 0
  <2>1. (CHOOSE q \in FreshPayments : TRUE) \in FreshPayments
    BY <1>4 DEF Insert
  <2>2. PICK p \in PaymentIds \ DOMAIN payments :
             payments' = [q \in DOMAIN payments \cup {p} |->
                            IF q \in DOMAIN payments THEN payments[q]
                            ELSE [invoice |-> i, amount |-> paid]]
    BY <1>1, <1>4, <2>1 DEF Insert
  <2>3. invoices' = [j \in DOMAIN invoices \cup {i} |-> IF j = i THEN row ELSE invoices[j]]
    BY DEF Insert
  <2>4. Inserted(Current, Current', i, row, paid)
    BY <1>1, <1>2, <1>4, <2>2, <2>3 DEF Inserted
  <2> QED BY <1>2, <2>4 DEF Effect
<1> QED BY <1>3, <1>4

(* An order. *)
LEMMA CreateOrderHasEffect ==
  ASSUME BoundsAssumption, CreateOrder(Current), stock' \in -MaxStock .. MaxStock, stock \in Int
  PROVE  Effect(Current, Current')
<1>1. PICK i \in FreshInvoices, dealer \in Dealers, date \in 1 .. MaxDate, total \in 0 .. MaxTotal :
        \E advance \in 0 .. total :
            /\ stock' = Current.stock - 1
            /\ Insert(i, [party |-> dealer, date |-> date, total |-> total,
                          status |-> Recomputed(advance, total),
                          source |-> "order", quantity |-> 1], advance)
  BY DEF CreateOrder
<1>2. PICK advance \in 0 .. total :
            /\ stock' = stock - 1
            /\ Insert(i, [party |-> dealer, date |-> date, total |-> total,
                          status |-> Recomputed(advance, total),
                          source |-> "order", quantity |-> 1], advance)
  BY <1>1 DEF Current
<1> DEFINE row == [party |-> dealer, date |-> date, total |-> total,
                   status |-> Recomputed(advance, total), source |-> "order", quantity |-> 1]
<1>3. row \in Invoice /\ row.quantity = 1 /\ row.total = total /\ row.status = Recomputed(advance, total)
  <2>1. Recomputed(advance, total) \in {"Pending", "Partially_Paid", "Paid", "Cancelled"}
    BY DEF Recomputed
  <2> QED BY <2>1 DEF Invoice, Sources, Parties
<1>4. Insert(i, row, advance)
  BY <1>2
<1>5. stock' + row.quantity = stock
  BY <1>2, <1>3
<1> HIDE DEF row
<1> QED BY <1>3, <1>4, <1>5, InsertHasEffect

(* An invoice of an imported file. *)
LEMMA ImportInvoiceHasEffect ==
  ASSUME BoundsAssumption, ImportInvoice(Current), stock' \in -MaxStock .. MaxStock, stock \in Int
  PROVE  Effect(Current, Current')
<1>1. PICK i \in FreshInvoices, party \in Parties, date \in 1 .. MaxDate, total \in 1 .. MaxTotal :
        \E paid \in 0 .. total :
            /\ Insert(i, [party |-> party, date |-> date, total |-> total,
                          status |-> Recomputed(paid, total),
                          source |-> "csv_import", quantity |-> 0], paid)
            /\ UNCHANGED stock
  BY DEF ImportInvoice
<1>2. PICK paid \in 0 .. total :
            /\ Insert(i, [party |-> party, date |-> date, total |-> total,
                          status |-> Recomputed(paid, total),
                          source |-> "csv_import", quantity |-> 0], paid)
            /\ UNCHANGED stock
  BY <1>1
<1> DEFINE row == [party |-> party, date |-> date, total |-> total,
                   status |-> Recomputed(paid, total), source |-> "csv_import", quantity |-> 0]
<1>3. row \in Invoice /\ row.quantity = 0 /\ row.total = total /\ row.status = Recomputed(paid, total)
  <2>1. Recomputed(paid, total) \in {"Pending", "Partially_Paid", "Paid", "Cancelled"}
    BY DEF Recomputed
  <2> QED BY <2>1 DEF Invoice, Sources, BoundsAssumption
<1>4. Insert(i, row, paid)
  BY <1>2
<1>5. stock' + row.quantity = stock
  BY <1>2, <1>3
<1> HIDE DEF row
<1> QED BY <1>3, <1>4, <1>5, InsertHasEffect

(* An opening balance. *)
LEMMA OpeningInvoiceHasEffect ==
  ASSUME BoundsAssumption, OpeningInvoice(Current), stock' \in -MaxStock .. MaxStock, stock \in Int
  PROVE  Effect(Current, Current')
<1>1. PICK i \in FreshInvoices, party \in Parties, date \in 1 .. MaxDate, total \in 1 .. MaxTotal :
        /\ Insert(i, [party |-> party, date |-> date, total |-> total, status |-> "Pending",
                      source |-> "opening", quantity |-> 0], 0)
        /\ UNCHANGED stock
  BY DEF OpeningInvoice
<1> DEFINE row == [party |-> party, date |-> date, total |-> total, status |-> "Pending",
                   source |-> "opening", quantity |-> 0]
<1>2. /\ row \in Invoice /\ row.quantity = 0 /\ row.total = total /\ 0 \in 0 .. row.total
      /\ row.status = Recomputed(0, row.total)
  BY DEF Invoice, Sources, BoundsAssumption, Recomputed
<1>3. Insert(i, row, 0)
  BY <1>1
<1>4. stock' + row.quantity = stock
  BY <1>1, <1>2
<1> HIDE DEF row
<1> QED BY <1>2, <1>3, <1>4, InsertHasEffect

(* The transactions that pay invoices pay no more than is owed. *)
LEMMA PayHasEffect ==
  ASSUME Sound(Current), NEW split, Pay(Current, split), UNCHANGED stock,
         \A i \in DOMAIN split :
            /\ invoices[i].status \in Open
            /\ split[i] \in Nat /\ split[i] <= Outstanding(Current, i)
            /\ split[i] = Outstanding(Current, i) \/ split[i] > 0,
         OneReceipt(Current, split)
  PROVE  Effect(Current, Current')
<1>1. FreshPayments \subseteq PaymentIds \ DOMAIN payments
  BY DEF FreshPayments
<1>2. /\ Current.invoices = invoices /\ Current.payments = payments /\ Current.stock = stock
      /\ (Current').invoices = invoices' /\ (Current').payments = payments' /\ (Current').stock = stock'
  BY DEF Current
<1> DEFINE id == CHOOSE f \in Injection(DOMAIN split, FreshPayments) : TRUE
           new == {id[i] : i \in DOMAIN split}
<1>3. id \in Injection(DOMAIN split, FreshPayments)
  BY DEF Pay
<1>4. id \in Injection(DOMAIN split, PaymentIds \ DOMAIN payments)
  <2>1. id \in [DOMAIN split -> FreshPayments] /\ IsInjective(id)
    BY <1>3 DEF Injection, IsInjective
  <2> HIDE DEF id
  <2>2. id \in [DOMAIN split -> PaymentIds \ DOMAIN payments]
    BY <1>1, <2>1
  <2> QED BY <2>1, <2>2 DEF Injection, IsInjective
<1>5. payments' = [p \in DOMAIN payments \cup new |->
                     IF p \in new
                     THEN LET i == CHOOSE j \in DOMAIN split : id[j] = p
                          IN  [invoice |-> i, amount |-> split[i]]
                     ELSE payments[p]]
  BY DEF Pay
<1>6. invoices' = [i \in DOMAIN invoices |->
                     IF i \in DOMAIN split
                     THEN [invoices[i] EXCEPT !.status = IF split[i] = Outstanding(Current, i)
                                                         THEN "Paid" ELSE "Partially_Paid"]
                     ELSE invoices[i]]
  <2>1. \A i \in DOMAIN invoices : \A status :
          SetStatus(Current, i, status) = [invoices[i] EXCEPT !.status = status]
    <3>1. \A i \in DOMAIN invoices : invoices[i] \in Invoice
      BY <1>2 DEF Sound, Sane
    <3> QED BY <1>2, <3>1 DEF SetStatus, Invoice
  <2> QED BY <2>1 DEF Pay
<1>7. DOMAIN split \subseteq DOMAIN invoices
  BY DEF Pay
<1> HIDE DEF id, new
<1>8. PaidUp(Current, Current', split, id, new)
  BY <1>2, <1>4, <1>5, <1>6, <1>7 DEF PaidUp, new
<1> QED BY <1>8 DEF Effect

(* What several invoices owe together is a number. *)
LEMMA TotalIsInt ==
  ASSUME BoundsAssumption, NEW b, Sane(b), NEW S \in SUBSET DOMAIN b.invoices
  PROVE  Total(b, S) \in Int
<1> DEFINE owed == [i \in S |-> Outstanding(b, i)]
<1>1. \A i \in S : owed[i] \in Int
  BY OutstandingIsInt
<1>2. IsFiniteSet(S)
  BY FS_Subset DEF Sane
<1>3. Total(b, S) = SumFunctionOnSet(owed, S)
  BY DEF Total
<1> HIDE DEF owed
<1> QED BY <1>1, <1>2, <1>3, SumIsInteger

(* A receipt split over the open invoices of a party. *)
LEMMA SplitHasEffect ==
  ASSUME BoundsAssumption, Sound(Current), NEW party, NEW amount \in Int,
         NEW S \in {OpenInvoices(Current, party)} \cup {{i} : i \in OpenInvoices(Current, party)},
         Pay(Current, Split(Current, S, amount)), UNCHANGED stock
  PROVE  Effect(Current, Current')
<1> DEFINE split == Split(Current, S, amount)
<1>1. Current.invoices = invoices /\ Sane(Current)
  BY DEF Current, Sound
<1>2. S \in SUBSET DOMAIN Current.invoices /\ \A i \in S : invoices[i].status \in Open
  BY <1>1 DEF OpenInvoices
<1>3. DOMAIN split \subseteq S
      /\ \A i \in DOMAIN split : split[i] = Share(Current, S, amount, i) /\ split[i] > 0
  BY DEF Split
<1>4. \A i \in DOMAIN split : split[i] \in Nat /\ split[i] <= Outstanding(Current, i)
  BY <1>1, <1>2, <1>3, ShareIsOwed
<1>5. OneReceipt(Current, split)
  <2>1. CASE S = OpenInvoices(Current, party)
    BY <2>1 DEF OneReceipt
  <2>2. CASE S \in {{i} : i \in OpenInvoices(Current, party)}
    BY <1>3, <2>2 DEF OneReceipt
  <2> QED BY <2>1, <2>2
<1>6. Pay(Current, split)
  OBVIOUS
<1> HIDE DEF split
<1> QED BY <1>2, <1>3, <1>4, <1>5, <1>6, PayHasEffect

(* A payment the founder records. *)
LEMMA RecordPaymentHasEffect ==
  ASSUME BoundsAssumption, Sound(Current), RecordPayment(Current)
  PROVE  Effect(Current, Current')
<1> DEFINE Spread(S) == \E amount \in 1 .. AtLeastZero(Total(Current, S)) :
                          Pay(Current, Split(Current, S, amount)) /\ UNCHANGED stock
<1>1. PICK party \in Parties :
        \E S \in {OpenInvoices(Current, party)} \cup {{i} : i \in OpenInvoices(Current, party)} : Spread(S)
  BY DEF RecordPayment
<1>2. PICK S \in {OpenInvoices(Current, party)} \cup {{i} : i \in OpenInvoices(Current, party)} : Spread(S)
  BY <1>1
<1>3. PICK amount \in 1 .. AtLeastZero(Total(Current, S)) :
        Pay(Current, Split(Current, S, amount)) /\ UNCHANGED stock
  BY <1>2
<1>4. Total(Current, S) \in Int
  BY TotalIsInt DEF Sound, OpenInvoices
<1>5. amount \in Int
  BY <1>4 DEF AtLeastZero
<1> HIDE DEF Spread
<1> QED BY <1>3, <1>5, SplitHasEffect

(* A payment of an imported file. *)
LEMMA ImportPaymentHasEffect ==
  ASSUME BoundsAssumption, Sound(Current), ImportPayment(Current)
  PROVE  Effect(Current, Current')
<1>1. PICK party \in Parties :
        LET S      == OpenInvoices(Current, party)
            amount == Total(Current, S) + 1
        IN  Pay(Current, Split(Current, S, Least(amount, Total(Current, S)))) /\ UNCHANGED stock
  BY DEF ImportPayment
<1> DEFINE S == OpenInvoices(Current, party)
           amount == Least(Total(Current, S) + 1, Total(Current, S))
<1>2. Total(Current, S) \in Int
  BY TotalIsInt DEF Sound, OpenInvoices
<1>3. amount \in Int
  BY <1>2 DEF Least
<1>4. Pay(Current, Split(Current, S, amount)) /\ UNCHANGED stock
  BY <1>1
<1>5. S \in {OpenInvoices(Current, party)} \cup {{i} : i \in OpenInvoices(Current, party)}
  OBVIOUS
<1> HIDE DEF S, amount
<1> QED BY <1>3, <1>4, <1>5, SplitHasEffect

(* A payment the follow-up hears of. *)
LEMMA FollowUpPaymentHasEffect ==
  ASSUME BoundsAssumption, Sound(Current), FollowUpPayment(Current)
  PROVE  Effect(Current, Current')
<1>0. PICK i \in DOMAIN invoices :
        /\ invoices[i].status \in Open
        /\ \E amount \in {Outstanding(Current, i)} \cup 1 .. MaxTotal :
              /\ Pay(Current, [j \in {i} |-> Least(amount, Outstanding(Current, i))])
              /\ UNCHANGED stock
  BY DEF FollowUpPayment, Current
<1>1. PICK amount \in {Outstanding(Current, i)} \cup 1 .. MaxTotal :
        /\ invoices[i].status \in Open
        /\ Pay(Current, [j \in {i} |-> Least(amount, Outstanding(Current, i))])
        /\ UNCHANGED stock
  BY <1>0
<1> DEFINE split == [j \in {i} |-> Least(amount, Outstanding(Current, i))]
<1>2. Outstanding(Current, i) \in Nat
  <2>1. i \in DOMAIN Current.invoices
    BY DEF Current
  <2>2. Paid(Current, i) <= Current.invoices[i].total
    BY <2>1 DEF Sound, Fits, AccountOf, Book!Balanced
  <2>3. Outstanding(Current, i) \in Int /\ Paid(Current, i) \in Nat
    BY <2>1, OutstandingIsInt, PaidIsNat DEF Sound
  <2>4. Current.invoices[i].total \in Nat
    BY <2>1 DEF Sound, Sane, Invoice, BoundsAssumption
  <2> QED BY <2>2, <2>3, <2>4 DEF Outstanding
<1>3. /\ split[i] \in Nat /\ split[i] <= Outstanding(Current, i)
      /\ split[i] = Outstanding(Current, i) \/ split[i] > 0
  BY <1>2 DEF Least, BoundsAssumption
<1>4. DOMAIN split = {i} /\ Pay(Current, split)
  BY <1>1
<1>5. OneReceipt(Current, split)
  BY <1>4 DEF OneReceipt
<1> HIDE DEF split
<1> QED BY <1>1, <1>3, <1>4, <1>5, PayHasEffect

(* A payment removed. *)
LEMMA RemovePaymentHasEffect ==
  ASSUME BoundsAssumption, Sound(Current), RemovePayment(Current)
  PROVE  Effect(Current, Current')
<1>1. /\ Current.invoices = invoices /\ Current.payments = payments /\ Current.stock = stock
      /\ (Current').invoices = invoices' /\ (Current').payments = payments' /\ (Current').stock = stock'
  BY DEF Current
<1>2. PICK p \in DOMAIN payments :
        LET i == payments[p].invoice
        IN  /\ i \in DOMAIN invoices
            /\ payments' = [q \in DOMAIN payments \ {p} |-> payments[q]]
            /\ invoices' = [invoices EXCEPT ![i] =
                               SetStatus(Current, i, Recomputed(Paid(Current, i) - payments[p].amount,
                                                                invoices[i].total))]
            /\ UNCHANGED stock
  BY <1>1 DEF RemovePayment
<1> DEFINE i == payments[p].invoice
<1>3. \A status : SetStatus(Current, i, status) = [invoices[i] EXCEPT !.status = status]
  <2>1. invoices[i] \in Invoice
    BY <1>1, <1>2 DEF Sound, Sane
  <2> QED BY <1>1, <2>1 DEF SetStatus, Invoice
<1>4. TakenBack(Current, Current', p, i)
  BY <1>1, <1>2, <1>3 DEF TakenBack
<1>5. Recounted(Current, Current', i)
  BY <1>4, TakenBackIsRecounted
<1> QED BY <1>5 DEF Effect

(* A payment edited. *)
LEMMA EditPaymentHasEffect ==
  ASSUME BoundsAssumption, Sound(Current), EditPayment(Current)
  PROVE  Effect(Current, Current')
<1>1. /\ Current.invoices = invoices /\ Current.payments = payments /\ Current.stock = stock
      /\ (Current').invoices = invoices' /\ (Current').payments = payments' /\ (Current').stock = stock'
  BY DEF Current
<1>2. PICK p \in DOMAIN payments :
        LET i      == payments[p].invoice
            others == Paid(Current, i) - payments[p].amount
        IN  \E amount \in 1 .. AtLeastZero(invoices[i].total - others) :
                /\ payments' = [payments EXCEPT ![p].amount = amount]
                /\ invoices' = [invoices EXCEPT ![i] =
                                   SetStatus(Current, i, Recomputed(others + amount, invoices[i].total))]
                /\ UNCHANGED stock
  BY <1>1 DEF EditPayment
<1> DEFINE i == payments[p].invoice
           others == Paid(Current, i) - payments[p].amount
<1>3. PICK amount \in 1 .. AtLeastZero(invoices[i].total - others) :
                /\ payments' = [payments EXCEPT ![p].amount = amount]
                /\ invoices' = [invoices EXCEPT ![i] =
                                   SetStatus(Current, i, Recomputed(others + amount, invoices[i].total))]
                /\ UNCHANGED stock
  BY <1>2
<1>4. /\ i \in DOMAIN invoices /\ invoices[i] \in Invoice /\ payments[p].amount \in Nat
      /\ invoices[i].total \in Nat /\ Paid(Current, i) \in Nat
  BY <1>1, PaidIsNat DEF Sound, Sane, Invoice, BoundsAssumption
<1>5. \A status : SetStatus(Current, i, status) = [invoices[i] EXCEPT !.status = status]
  BY <1>1, <1>4 DEF SetStatus, Invoice
<1>6. amount \in Nat /\ others + amount <= invoices[i].total
  BY <1>4 DEF AtLeastZero
<1>7. Reentered(Current, Current', p, i, amount)
  BY <1>1, <1>3, <1>5, <1>6 DEF Reentered
<1>8. Recounted(Current, Current', i)
  BY <1>7, ReenteredIsRecounted
<1> QED BY <1>8 DEF Effect

(* An order voided. *)
LEMMA VoidOrderHasEffect ==
  ASSUME BoundsAssumption, Sound(Current), VoidOrder(Current), stock' \in -MaxStock .. MaxStock
  PROVE  Effect(Current, Current')
<1>1. /\ Current.invoices = invoices /\ Current.payments = payments /\ Current.stock = stock
      /\ (Current').invoices = invoices' /\ (Current').payments = payments' /\ (Current').stock = stock'
  BY DEF Current
<1>2. PICK i \in DOMAIN invoices :
        /\ invoices[i].status # "Cancelled" /\ ~HasPayment(Current, i)
        /\ invoices' = [invoices EXCEPT ![i].status = "Cancelled"]
        /\ stock' = IF invoices[i].quantity = 0 THEN stock ELSE stock + invoices[i].quantity
        /\ UNCHANGED payments
  BY <1>1 DEF VoidOrder
<1> DEFINE row == [invoices[i] EXCEPT !.status = "Cancelled"]
<1>3. invoices[i] \in Invoice /\ stock \in Int /\ Sane(Current)
  BY <1>1 DEF Sound, Sane, BoundsAssumption
<1>4. /\ row \in Invoice /\ row.status = "Cancelled" /\ row.quantity = invoices[i].quantity
      /\ row.quantity \in Int /\ row.total \in Nat
  BY <1>3 DEF Invoice, BoundsAssumption
<1>5. stock' = stock + row.quantity
  BY <1>2, <1>3, <1>4
<1>6. Paid(Current, i) = 0
  BY <1>2, <1>3, PaidIsNat
<1>7. invoices' = [invoices EXCEPT ![i] = row]
  BY <1>2
<1>8. row = [Current.invoices[i] EXCEPT !.status = "Cancelled"]
  BY <1>1
<1> HIDE DEF row
<1>9. Book!Balanced([total |-> row.total, paid |-> Paid(Current, i), status |-> row.status])
  BY <1>4, <1>6 DEF Book!Balanced
<1>10. Revised(Current, Current', i, row)
  BY <1>1, <1>2, <1>4, <1>7, <1>9 DEF Revised
<1> QED BY <1>1, <1>2, <1>5, <1>8, <1>10 DEF Effect

(* An invoice edited. *)
LEMMA EditInvoiceHasEffect ==
  ASSUME BoundsAssumption, Sound(Current), EditInvoice(Current)
  PROVE  Effect(Current, Current')
<1>1. /\ Current.invoices = invoices /\ Current.payments = payments /\ Current.stock = stock
      /\ (Current').invoices = invoices' /\ (Current').payments = payments' /\ (Current').stock = stock'
  BY DEF Current
<1>2. PICK i \in DOMAIN invoices :
        /\ ~HasPayment(Current, i)
        /\ \/ \E total \in 1 .. MaxTotal : invoices' = [invoices EXCEPT ![i].total = total]
           \/ \E date \in 1 .. MaxDate : invoices' = [invoices EXCEPT ![i].date = date]
           \/ \E party \in IF invoices[i].party \in Dealers THEN Dealers ELSE Suppliers :
                 invoices' = [invoices EXCEPT ![i].party = party]
        /\ UNCHANGED <<payments, stock>>
  BY <1>1 DEF EditInvoice
<1>3. invoices[i] \in Invoice /\ Sane(Current) /\ stock \in -MaxStock .. MaxStock
  BY <1>1 DEF Sound, Sane
<1>4. PICK row \in Invoice : /\ invoices' = [invoices EXCEPT ![i] = row]
                             /\ SameOrder(invoices[i], row)
  <2>1. ASSUME NEW total \in 1 .. MaxTotal
        PROVE  [invoices[i] EXCEPT !.total = total] \in Invoice
               /\ SameOrder(invoices[i], [invoices[i] EXCEPT !.total = total])
    BY <1>3 DEF Invoice, SameOrder, BoundsAssumption
  <2>2. ASSUME NEW date \in 1 .. MaxDate
        PROVE  [invoices[i] EXCEPT !.date = date] \in Invoice
               /\ SameOrder(invoices[i], [invoices[i] EXCEPT !.date = date])
    BY <1>3 DEF Invoice, SameOrder
  <2>3. ASSUME NEW party \in Parties
        PROVE  [invoices[i] EXCEPT !.party = party] \in Invoice
               /\ SameOrder(invoices[i], [invoices[i] EXCEPT !.party = party])
    BY <1>3 DEF Invoice, SameOrder
  <2>4. CASE \E total \in 1 .. MaxTotal : invoices' = [invoices EXCEPT ![i].total = total]
    BY <2>1, <2>4
  <2>5. CASE \E date \in 1 .. MaxDate : invoices' = [invoices EXCEPT ![i].date = date]
    BY <2>2, <2>5
  <2>6. CASE \E party \in Parties : invoices' = [invoices EXCEPT ![i].party = party]
    BY <2>3, <2>6
  <2> QED BY <1>2, <2>4, <2>5, <2>6 DEF Parties
<1>5. invoices[i].status \in {"Pending", "Cancelled"} /\ Paid(Current, i) = 0
  <2>1. Fits(Current, i)
    BY <1>1 DEF Sound
  <2>2. invoices[i].status \in {"Pending", "Partially_Paid", "Paid", "Cancelled"}
    BY <1>3 DEF Invoice
  <2> QED BY <1>1, <1>2, <1>3, <2>1, <2>2, PaidIsNat DEF Fits
<1>6. row.status = invoices[i].status /\ row.total \in Nat
  BY <1>4 DEF SameOrder, Invoice, BoundsAssumption
<1>7. Book!Balanced([total |-> row.total, paid |-> Paid(Current, i), status |-> row.status])
  BY <1>5, <1>6 DEF Book!Balanced
<1>8. Revised(Current, Current', i, row)
  BY <1>1, <1>2, <1>3, <1>4, <1>5, <1>6, <1>7 DEF Revised
<1> QED BY <1>1, <1>2, <1>4, <1>8 DEF Effect

(* Parties deleted. *)
LEMMA DeleteHasEffect ==
  ASSUME NEW S, Delete(S)
  PROVE  Effect(Current, Current')
<1>1. Deleted(Current, Current', S)
  BY DEF Delete, Deleted, Current
<1> QED BY <1>1 DEF Effect

(* So every transaction that reads the current books has one of the effects. *)
LEMMA CommitHasEffect ==
  ASSUME BoundsAssumption, Sound(Current), NEW s, seen[s] = Current, Commit(s)
  PROVE  Effect(Current, Current')
<1>1. stock' \in -MaxStock .. MaxStock
  BY DEF Commit
<1>2. stock \in Int
  BY DEF Sound, Sane, Current, BoundsAssumption
<1>3. CASE CreateOrder(Current)
  BY <1>1, <1>2, <1>3, CreateOrderHasEffect
<1>4. CASE ImportInvoice(Current)
  BY <1>1, <1>2, <1>4, ImportInvoiceHasEffect
<1>5. CASE OpeningInvoice(Current)
  BY <1>1, <1>2, <1>5, OpeningInvoiceHasEffect
<1>6. CASE RecordPayment(Current)
  BY <1>6, RecordPaymentHasEffect
<1>7. CASE ImportPayment(Current)
  BY <1>7, ImportPaymentHasEffect
<1>8. CASE FollowUpPayment(Current)
  BY <1>8, FollowUpPaymentHasEffect
<1>9. CASE RemovePayment(Current)
  BY <1>9, RemovePaymentHasEffect
<1>10. CASE VoidOrder(Current)
  BY <1>1, <1>10, VoidOrderHasEffect
<1>11. CASE EditInvoice(Current)
  BY <1>11, EditInvoiceHasEffect
<1>12. CASE EditPayment(Current)
  BY <1>12, EditPaymentHasEffect
<1>13. CASE DeleteInvoice(Current)
  BY <1>13, DeleteHasEffect DEF DeleteInvoice
<1>14. CASE DeleteParty(Current)
  BY <1>14, DeleteHasEffect DEF DeleteParty
<1>15. CASE AdjustStock(Current)
  BY <1>1, <1>15 DEF AdjustStock, Effect, Current
<1> QED BY <1>3, <1>4, <1>5, <1>6, <1>7, <1>8, <1>9, <1>10, <1>11, <1>12, <1>13, <1>14, <1>15
        DEF Commit

-----------------------------------------------------------------------------
(* The invariant of one session at a time.                                  *)

(* Every effect leaves the books sound. *)
LEMMA EffectIsSound ==
  ASSUME BoundsAssumption, NEW b, Sound(b), NEW c, Effect(b, c)
  PROVE  Sound(c)
<1>1. CASE \E i, row, paid : Inserted(b, c, i, row, paid)
  BY <1>1, InsertedIsSound
<1>2. CASE \E split, id, new : PaidUp(b, c, split, id, new)
  BY <1>2, PaidUpIsSound
<1>3. CASE \E i : Recounted(b, c, i)
  BY <1>3, RecountedIsSound
<1>4. CASE \E i, row : Revised(b, c, i, row)
  BY <1>4, RevisedIsSound
<1>5. CASE \E S : Deleted(b, c, S)
  BY <1>5, DeletedIsSound
<1>6. CASE c.invoices = b.invoices /\ c.payments = b.payments /\ c.stock \in -MaxStock .. MaxStock
  BY <1>6, CountedIsSound
<1> QED BY <1>1, <1>2, <1>3, <1>4, <1>5, <1>6 DEF Effect

(* The books on file are sound, and the session has read them as they are.  *)
SoundAndSeen == /\ Sound(Current)
                /\ DOMAIN seen = Sessions /\ \A s \in Sessions : seen[s] \in {Idle, Current}

(* One session at a time: the database's transactions follow one another.   *)
Serial == \E s : Sessions = {s}

(* The empty books are sound. *)
LEMMA InitIsSound ==
  ASSUME BoundsAssumption, Init
  PROVE  SoundAndSeen
<1>1. Current.invoices = [i \in {} |-> {}] /\ Current.payments = [i \in {} |-> {}] /\ Current.stock = 0
  BY DEF Init, Current
<1>2. DOMAIN Current.invoices = {} /\ DOMAIN Current.payments = {}
  BY <1>1
<1>3. Sane(Current)
  BY <1>1, <1>2, FS_EmptySet DEF Sane, BoundsAssumption
<1> QED BY <1>2, <1>3 DEF Sound, SoundAndSeen, Init

(* With one session at a time, a commit writes upon what it has read. *)
LEMMA NextHasEffect ==
  ASSUME BoundsAssumption, Serial, SoundAndSeen, [Next]_vars
  PROVE  /\ SoundAndSeen'
         /\ Effect(Current, Current') \/ UNCHANGED <<invoices, payments, stock>>
<1>1. PICK t : Sessions = {t}
  BY DEF Serial
<1>2. CASE UNCHANGED vars
  BY <1>2 DEF vars, SoundAndSeen, Current
<1>3. CASE Read(t)
  BY <1>1, <1>3 DEF Read, SoundAndSeen, Current
<1>4. CASE Abort(t)
  BY <1>1, <1>4 DEF Abort, SoundAndSeen, Current
<1>5. CASE Commit(t)
  <2>1. seen[t] = Current /\ seen' = [seen EXCEPT ![t] = Idle] /\ DOMAIN seen = Sessions
    BY <1>1, <1>5 DEF SoundAndSeen, Commit
  <2>2. Effect(Current, Current')
    BY <1>5, <2>1, CommitHasEffect DEF SoundAndSeen
  <2>3. Sound(Current')
    BY <2>2, EffectIsSound DEF SoundAndSeen
  <2>4. DOMAIN seen' = Sessions /\ \A s \in Sessions : seen'[s] \in {Idle, Current'}
    BY <1>1, <2>1
  <2> QED BY <2>2, <2>3, <2>4 DEF SoundAndSeen
<1> QED BY <1>1, <1>2, <1>3, <1>4, <1>5 DEF Next

-----------------------------------------------------------------------------
(* Every effect is a step of Books, or leaves the accounts as they are.     *)

(* The accounts of Books, before a step and after it. *)
LEMMA AccountsAre ==
  /\ Accounts = [i \in DOMAIN Current.invoices |-> AccountOf(Current, i)]
  /\ Accounts' = [i \in DOMAIN (Current').invoices |-> AccountOf(Current', i)]
<1>1. /\ Current.invoices = invoices /\ (Current').invoices = invoices'
  BY DEF Current
<1> QED BY <1>1 DEF Accounts, AccountOf

(* Each is one, and balanced. *)
LEMMA AccountIsAccount ==
  ASSUME BoundsAssumption, NEW b, Sound(b), NEW i \in DOMAIN b.invoices
  PROVE  /\ AccountOf(b, i) \in Book!Account /\ Book!Balanced(AccountOf(b, i))
         /\ AccountOf(b, i).total = b.invoices[i].total
         /\ AccountOf(b, i).paid = Paid(b, i)
         /\ AccountOf(b, i).status = b.invoices[i].status
<1>1. b.invoices[i] \in Invoice /\ Sane(b) /\ Fits(b, i)
  BY DEF Sound, Sane
<1>2. b.invoices[i].total \in Nat /\ b.invoices[i].status \in Book!Statuses
  BY <1>1 DEF Invoice, BoundsAssumption, Book!Statuses
<1>3. Paid(b, i) \in Nat
  BY <1>1, PaidIsNat
<1> QED BY <1>1, <1>2, <1>3 DEF AccountOf, Book!Account, Fits

(* Every effect is a step of Books, or a stutter of it. *)
LEMMA EffectIsABookStep ==
  ASSUME BoundsAssumption, Sound(Current), Effect(Current, Current')
  PROVE  Book!Next \/ UNCHANGED Accounts
<1> DEFINE b == Current
           c == Current'
<1>1. /\ DOMAIN Accounts = DOMAIN b.invoices /\ \A j \in DOMAIN b.invoices : Accounts[j] = AccountOf(b, j)
      /\ DOMAIN Accounts' = DOMAIN c.invoices /\ \A j \in DOMAIN c.invoices : Accounts'[j] = AccountOf(c, j)
      /\ Accounts = [j \in DOMAIN Accounts |-> Accounts[j]]
      /\ Accounts' = [j \in DOMAIN Accounts' |-> Accounts'[j]]
  BY AccountsAre
<1>2. Sound(b) /\ Sound(c) /\ Effect(b, c)
  BY EffectIsSound
<1>3. DOMAIN b.invoices \subseteq InvoiceIds /\ DOMAIN c.invoices \subseteq InvoiceIds
  BY <1>2 DEF Sound, Sane
<1> HIDE DEF b, c
<1>4. ASSUME NEW j \in DOMAIN b.invoices, j \in DOMAIN c.invoices, Untouched(b, c, j)
      PROVE  Accounts'[j] = Accounts[j]
  BY <1>1, <1>2, <1>4, UntouchedFits DEF Sound
<1>5. ASSUME NEW i, NEW row, NEW paid, Inserted(b, c, i, row, paid)
      PROVE  Book!Next
  <2>1. /\ DOMAIN c.invoices = DOMAIN b.invoices \cup {i} /\ i \notin DOMAIN b.invoices
        /\ i \in InvoiceIds /\ c.invoices[i] = row /\ row.status = Recomputed(paid, row.total)
    BY <1>5 DEF Inserted
  <2>2. \A j \in DOMAIN b.invoices : Untouched(b, c, j)
    BY <1>2, <1>5, InsertedIsSound
  <2>3. Accounts'[i] \in Book!Account /\ Book!Balanced(Accounts'[i]) /\ Accounts'[i].status = row.status
    BY <1>1, <1>2, <2>1, AccountIsAccount
  <2>4. row.status # "Cancelled"
    BY <2>1 DEF Recomputed
  <2>5. Book!Open(i)
    BY <1>1, <1>4, <2>1, <2>2, <2>3, <2>4 DEF Book!Open, Book!OthersStay
  <2> QED BY <2>1, <2>5 DEF Book!Next
<1>6. ASSUME NEW split, NEW id, NEW new, PaidUp(b, c, split, id, new)
      PROVE  Book!Next
  <2>1. /\ DOMAIN c.invoices = DOMAIN b.invoices /\ DOMAIN split \subseteq DOMAIN b.invoices
    BY <1>6 DEF PaidUp
  <2>2. /\ \A j \in DOMAIN b.invoices \ DOMAIN split : Untouched(b, c, j)
        /\ \A i \in DOMAIN split : Paid(c, i) = Paid(b, i) + split[i]
    BY <1>2, <1>6, PaidUpIsSound
  <2>3. ASSUME NEW i \in DOMAIN split
        PROVE  Accounts'[i] \in Book!Account /\ Book!Settled(Accounts[i], Accounts'[i])
    <3>1. /\ b.invoices[i].status \in Open /\ split[i] \in Nat /\ i \in DOMAIN b.invoices
          /\ i \in DOMAIN c.invoices
      BY <1>6, <2>1, <2>3 DEF PaidUp
    <3>2. b.invoices[i] \in Invoice
      BY <1>2, <3>1 DEF Sound, Sane
    <3>3. /\ c.invoices[i].total = b.invoices[i].total
          /\ c.invoices[i].status \in {"Partially_Paid", "Paid"}
      <4>1. PICK s \in {"Paid", "Partially_Paid"} : c.invoices[i] = [b.invoices[i] EXCEPT !.status = s]
        BY <1>6, <2>3, <3>1 DEF PaidUp
      <4> QED BY <3>2, <4>1 DEF Invoice
    <3>4. Paid(b, i) \in Nat /\ Paid(c, i) = Paid(b, i) + split[i]
      BY <1>2, <2>2, <2>3, PaidIsNat DEF Sound
    <3>5. /\ Accounts'[i] \in Book!Account /\ Book!Balanced(Accounts'[i])
          /\ Accounts[i].total = b.invoices[i].total /\ Accounts'[i].total = c.invoices[i].total
          /\ Accounts[i].paid = Paid(b, i) /\ Accounts'[i].paid = Paid(c, i)
          /\ Accounts[i].status = b.invoices[i].status /\ Accounts'[i].status = c.invoices[i].status
      BY <1>1, <1>2, <3>1, AccountIsAccount
    <3>6. Accounts'[i].paid >= Accounts[i].paid
      BY <3>1, <3>4, <3>5
    <3> QED BY <3>1, <3>3, <3>5, <3>6 DEF Book!Settled, Book!OpenStatuses, Open
  <2>4. Book!Settle(DOMAIN split)
    BY <1>1, <1>4, <2>1, <2>2, <2>3 DEF Book!Settle, Book!OthersStay
  <2> QED BY <1>1, <2>1, <2>4 DEF Book!Next
<1>7. ASSUME NEW i, Recounted(b, c, i)
      PROVE  Book!Next
  <2>1. /\ \A j \in DOMAIN b.invoices \ {i} : Untouched(b, c, j)
        /\ c.invoices[i].total = b.invoices[i].total /\ c.invoices[i].status # "Cancelled"
    BY <1>2, <1>7, RecountedIsSound
  <2>2. i \in DOMAIN b.invoices /\ DOMAIN c.invoices = DOMAIN b.invoices
    BY <1>7 DEF Recounted
  <2>3. b.invoices[i].status # "Cancelled"
    BY <1>2, <1>7, <2>2 DEF Recounted, Sound, Fits
  <2>4. /\ Accounts'[i] \in Book!Account /\ Book!Balanced(Accounts'[i])
        /\ Accounts[i].total = b.invoices[i].total /\ Accounts'[i].total = c.invoices[i].total
        /\ Accounts[i].status = b.invoices[i].status /\ Accounts'[i].status = c.invoices[i].status
    BY <1>1, <1>2, <2>2, AccountIsAccount
  <2>5. Book!Corrected(Accounts[i], Accounts'[i])
    BY <2>1, <2>3, <2>4 DEF Book!Corrected
  <2>6. Book!Amend(i)
    BY <1>1, <1>4, <2>1, <2>2, <2>4, <2>5 DEF Book!Amend, Book!OthersStay
  <2> QED BY <1>1, <2>2, <2>6 DEF Book!Next
<1>8. ASSUME NEW i, NEW row, Revised(b, c, i, row), SameOrder(b.invoices[i], row),
             row.total = b.invoices[i].total \/ ~ HasPayment(b, i)
      PROVE  Book!Next \/ UNCHANGED Accounts
  <2>1. /\ c.invoices[i] = row /\ Paid(c, i) = Paid(b, i)
        /\ \A j \in DOMAIN b.invoices \ {i} : Untouched(b, c, j)
    BY <1>2, <1>8, RevisedIsSound
  <2>2. i \in DOMAIN b.invoices /\ DOMAIN c.invoices = DOMAIN b.invoices
    BY <1>8 DEF Revised
  <2>3. /\ Accounts[i] = AccountOf(b, i) /\ Accounts'[i] = AccountOf(c, i)
        /\ AccountOf(c, i) \in Book!Account
        /\ \A j \in DOMAIN b.invoices \ {i} : Accounts'[j] = Accounts[j]
    BY <1>1, <1>2, <1>4, <2>1, <2>2, AccountIsAccount
  <2>4. AccountOf(c, i) = [AccountOf(b, i) EXCEPT !.total = row.total]
    BY <1>8, <2>1 DEF AccountOf, SameOrder
  <2>5. CASE row.total = b.invoices[i].total
    <3>1. Accounts'[i] = Accounts[i]
      BY <2>3, <2>4, <2>5 DEF AccountOf
    <3> QED BY <1>1, <2>2, <2>3, <3>1
  <2>6. CASE ~ HasPayment(b, i)
    <3>1. b.invoices[i].status \in {"Pending", "Cancelled"}
      <4>1. Fits(b, i) /\ b.invoices[i] \in Invoice
        BY <1>2, <2>2 DEF Sound, Sane
      <4> QED BY <2>6, <4>1 DEF Fits, Invoice
    <3>2. Book!Retotalled(Accounts[i], Accounts'[i])
      BY <2>3, <2>4, <3>1 DEF AccountOf, Book!Retotalled
    <3>3. Book!Amend(i)
      BY <1>1, <2>2, <2>3, <3>2 DEF Book!Amend, Book!OthersStay
    <3> QED BY <1>1, <2>2, <3>3 DEF Book!Next
  <2> QED BY <1>8, <2>5, <2>6
<1>9. ASSUME NEW i, NEW row, Revised(b, c, i, row), b.invoices[i].status # "Cancelled",
             row = [b.invoices[i] EXCEPT !.status = "Cancelled"]
      PROVE  Book!Next
  <2>1. /\ c.invoices[i] = row /\ Paid(c, i) = Paid(b, i)
        /\ \A j \in DOMAIN b.invoices \ {i} : Untouched(b, c, j)
    BY <1>2, <1>9, RevisedIsSound
  <2>2. i \in DOMAIN b.invoices /\ DOMAIN c.invoices = DOMAIN b.invoices
    BY <1>9 DEF Revised
  <2>3. /\ Accounts[i] = AccountOf(b, i) /\ Accounts'[i] = AccountOf(c, i)
        /\ AccountOf(c, i) \in Book!Account
        /\ \A j \in DOMAIN b.invoices \ {i} : Accounts'[j] = Accounts[j]
    BY <1>1, <1>2, <1>4, <2>1, <2>2, AccountIsAccount
  <2>4. row.status = "Cancelled" /\ row.total = b.invoices[i].total
    BY <1>2, <1>9, <2>2 DEF Sound, Sane, Invoice
  <2>5. AccountOf(c, i) = [AccountOf(b, i) EXCEPT !.status = "Cancelled"]
    BY <2>1, <2>4 DEF AccountOf
  <2>6. Paid(b, i) = 0
    BY <1>9, <2>4, PaidIsNat, <1>2 DEF Revised, Sound
  <2>7. Book!Voided(Accounts[i], Accounts'[i])
    BY <1>9, <2>3, <2>5, <2>6 DEF Book!Voided, AccountOf
  <2>8. Book!Amend(i)
    BY <1>1, <2>2, <2>3, <2>7 DEF Book!Amend, Book!OthersStay
  <2> QED BY <1>1, <2>2, <2>8 DEF Book!Next
<1>10. ASSUME NEW S, Deleted(b, c, S)
       PROVE  Book!Next
  <2>1. \A j \in DOMAIN b.invoices \ S : Untouched(b, c, j)
    BY <1>2, <1>10, DeletedIsSound
  <2>2. DOMAIN c.invoices = DOMAIN b.invoices \ S
    BY <1>10 DEF Deleted
  <2> DEFINE D == S \cap DOMAIN b.invoices
  <2>3. Accounts' = [j \in DOMAIN Accounts \ D |-> Accounts[j]]
    BY <1>1, <1>4, <2>1, <2>2
  <2>4. D \in SUBSET DOMAIN Accounts
    BY <1>1
  <2> QED BY <2>3, <2>4 DEF Book!Next, Book!Drop
<1>11. ASSUME c.invoices = b.invoices, c.payments = b.payments, c.stock \in -MaxStock .. MaxStock
       PROVE  UNCHANGED Accounts
  <2>1. \A j \in DOMAIN b.invoices : Untouched(b, c, j)
    BY <1>2, <1>11, CountedIsSound
  <2> QED BY <1>1, <1>4, <1>11, <2>1
<1> QED BY <1>2, <1>5, <1>6, <1>7, <1>8, <1>9, <1>10, <1>11 DEF Effect

-----------------------------------------------------------------------------
(* The theorems.                                                            *)

(* However the services' transactions follow one another, the rows are of   *)
(* their types and the status of every invoice is the one its payments call *)
(* for (services/writes).                                                   *)
THEOREM LedgerIsSound ==
  ASSUME Serial
  PROVE  Spec => []SoundAndSeen
<1>1. Init => SoundAndSeen
  BY BoundsAssumption, InitIsSound
<1>2. SoundAndSeen /\ [Next]_vars => SoundAndSeen'
  BY BoundsAssumption, NextHasEffect
<1> QED BY <1>1, <1>2, PTL DEF Spec

(* Every payment is of an invoice on file, and every row of its type.       *)
THEOREM LedgerTypesAreRight ==
  ASSUME Serial
  PROVE  Spec => []TypeOK
<1>1. \A b : Sound(b) => IsBooks(b)
  <2> TAKE b
  <2> SUFFICES ASSUME Sound(b) PROVE IsBooks(b)
    OBVIOUS
  <2>1. \A p \in DOMAIN b.payments : b.payments[p] \in [invoice : DOMAIN b.invoices, amount : Nat]
    BY DEF Sound, Sane
  <2> QED BY <2>1 DEF Sound, Sane, IsBooks
<1>2. SoundAndSeen => TypeOK
  <2> SUFFICES ASSUME SoundAndSeen PROVE TypeOK
    OBVIOUS
  <2>1. IsBooks(Current)
    BY <1>1 DEF SoundAndSeen
  <2>2. \A s \in Sessions : seen[s] = Idle \/ seen[s] = Current
    BY DEF SoundAndSeen
  <2> QED BY <2>1, <2>2 DEF TypeOK
<1> QED BY <1>2, LedgerIsSound, PTL

(* Ledger implements Books: no account is ever overpaid, a total changes    *)
(* only while nothing is paid, a cancelled invoice is never paid.           *)
THEOREM LedgerImplementsBooks ==
  ASSUME Serial
  PROVE  Spec => ImplementsBooks
<1>1. Init => Book!Init
  BY DEF Init, Book!Init, Accounts
<1>2. SoundAndSeen /\ [Next]_vars => [Book!Next]_Accounts
  <2> SUFFICES ASSUME SoundAndSeen, [Next]_vars PROVE Book!Next \/ UNCHANGED Accounts
    OBVIOUS
  <2>1. CASE Effect(Current, Current')
    BY <2>1, BoundsAssumption, EffectIsABookStep DEF SoundAndSeen
  <2>2. CASE UNCHANGED <<invoices, payments, stock>>
    <3>1. Current' = Current
      BY <2>2 DEF Current
    <3> QED BY <3>1, AccountsAre
  <2> QED BY <2>1, <2>2, BoundsAssumption, NextHasEffect
<1> QED BY <1>1, <1>2, LedgerIsSound, PTL DEF Spec, ImplementsBooks, Book!Spec

-----------------------------------------------------------------------------
(* What Books promises, for whatever accounts.                             *)

CONSTANT Ids
VARIABLE accounts
Promise == INSTANCE Books

(* Each change of one account leaves it balanced. *)
LEMMA ChangesBalance ==
  ASSUME NEW a \in Promise!Account, Promise!Balanced(a), NEW new \in Promise!Account,
         Promise!Settled(a, new) \/ Promise!Corrected(a, new) \/ Promise!Retotalled(a, new) \/ Promise!Voided(a, new)
  PROVE  Promise!Balanced(new)
<1>1. CASE Promise!Settled(a, new)
  BY <1>1 DEF Promise!Settled
<1>2. CASE Promise!Corrected(a, new)
  BY <1>2 DEF Promise!Corrected
<1>3. CASE Promise!Retotalled(a, new)
  <2>1. new.paid = a.paid /\ new.status = a.status /\ a.paid = 0 /\ new.total \in Nat
    BY <1>3 DEF Promise!Retotalled, Promise!Balanced, Promise!Account
  <2> QED
    BY <1>3, <2>1 DEF Promise!Retotalled, Promise!Balanced
<1>4. CASE Promise!Voided(a, new)
  <2>1. new.paid = 0 /\ new.status = "Cancelled" /\ new.total \in Nat
    BY <1>4 DEF Promise!Voided, Promise!Account
  <2> QED
    BY <2>1 DEF Promise!Balanced
<1> QED
  BY <1>1, <1>2, <1>3, <1>4

(* So every step keeps them sound. *)
LEMMA PromiseStep == Promise!Sound /\ [Promise!Next]_accounts => Promise!Sound'
<1> SUFFICES ASSUME Promise!Sound, [Promise!Next]_accounts
             PROVE  Promise!Sound'
  OBVIOUS
<1> USE DEF Promise!Sound, Promise!TypeOK
<1>1. ASSUME NEW i \in Ids, Promise!Open(i)
      PROVE  Promise!Sound'
  BY <1>1 DEF Promise!Open, Promise!OthersStay
<1>2. ASSUME NEW S \in SUBSET DOMAIN accounts, Promise!Settle(S)
      PROVE  Promise!Sound'
  <2>1. \A i \in S : accounts'[i] \in Promise!Account /\ Promise!Balanced(accounts'[i])
    BY <1>2, ChangesBalance DEF Promise!Settle
  <2> QED
    BY <1>2, <2>1 DEF Promise!Settle, Promise!OthersStay
<1>3. ASSUME NEW S \in SUBSET DOMAIN accounts, Promise!Drop(S)
      PROVE  Promise!Sound'
  BY <1>3 DEF Promise!Drop
<1>4. ASSUME NEW i \in DOMAIN accounts, Promise!Amend(i)
      PROVE  Promise!Sound'
  <2>1. accounts'[i] \in Promise!Account /\ Promise!Balanced(accounts'[i])
    BY <1>4, ChangesBalance DEF Promise!Amend
  <2> QED
    BY <1>4, <2>1 DEF Promise!Amend, Promise!OthersStay
<1>5. CASE UNCHANGED accounts
  BY <1>5
<1> QED
  BY <1>1, <1>2, <1>3, <1>4, <1>5 DEF Promise!Next

(* No account is ever overpaid, its status is the one its payments call for, *)
(* and a cancelled one has none.                                             *)
THEOREM BooksAreSound == Promise!Spec => []Promise!Sound
<1>1. Promise!Init => Promise!Sound
  BY DEF Promise!Init, Promise!Sound, Promise!TypeOK
<1> QED
  BY <1>1, PromiseStep, PTL DEF Promise!Spec

(* A cancelled invoice stays cancelled for as long as it is on file. *)
THEOREM CancelledIsFinal ==
  Promise!Spec => [][\A i \in DOMAIN accounts :
                accounts[i].status = "Cancelled" /\ i \in DOMAIN accounts'
                   => accounts'[i].status = "Cancelled"]_accounts
<1>1. ASSUME Promise!Sound, Promise!Next
      PROVE  \A i \in DOMAIN accounts :
                accounts[i].status = "Cancelled" /\ i \in DOMAIN accounts'
                   => accounts'[i].status = "Cancelled"
  <2> TAKE i \in DOMAIN accounts
  <2> HAVE accounts[i].status = "Cancelled" /\ i \in DOMAIN accounts'
  <2>1. ASSUME NEW j \in Ids, Promise!Open(j)
        PROVE  accounts'[i].status = "Cancelled"
    BY <2>1 DEF Promise!Open, Promise!OthersStay
  <2>2. ASSUME NEW S \in SUBSET DOMAIN accounts, Promise!Settle(S)
        PROVE  accounts'[i].status = "Cancelled"
    BY <2>2 DEF Promise!Settle, Promise!Settled, Promise!OthersStay, Promise!OpenStatuses
  <2>3. ASSUME NEW S \in SUBSET DOMAIN accounts, Promise!Drop(S)
        PROVE  accounts'[i].status = "Cancelled"
    BY <2>3 DEF Promise!Drop
  <2>4. ASSUME NEW j \in DOMAIN accounts, Promise!Amend(j)
        PROVE  accounts'[i].status = "Cancelled"
    <3>1. CASE i = j
      <4>1. Promise!Retotalled(accounts[i], accounts'[i])
        BY <2>4, <3>1 DEF Promise!Amend, Promise!Corrected, Promise!Voided
      <4> QED
        BY <1>1, <4>1 DEF Promise!Retotalled, Promise!Sound, Promise!TypeOK, Promise!Account
    <3>2. CASE i # j
      BY <2>4, <3>2 DEF Promise!Amend, Promise!OthersStay
    <3> QED
      BY <3>1, <3>2
  <2> QED
    BY <1>1, <2>1, <2>2, <2>3, <2>4 DEF Promise!Next
<1> QED
  BY <1>1, BooksAreSound, PTL DEF Promise!Spec

-----------------------------------------------------------------------------
(* company_export: "a Cancelled invoice can never have a Payment against    *)
(* it" holds while transactions follow one another.                         *)
THEOREM SerialCancelledHasNoPayment ==
  ASSUME Serial
  PROVE  Spec => []CancelledHasNoPayment
<1>1. SoundAndSeen => CancelledHasNoPayment
  <2> SUFFICES ASSUME SoundAndSeen, NEW p \in DOMAIN payments
               PROVE  invoices[payments[p].invoice].status # "Cancelled"
    BY DEF CancelledHasNoPayment
  <2>1. p \in PaymentsOf(Current, payments[p].invoice)
    BY DEF PaymentsOf, Current
  <2>2. payments[p].invoice \in DOMAIN invoices
    BY DEF SoundAndSeen, Sound, Sane, Current
  <2>3. Fits(Current, payments[p].invoice)
    BY <2>2 DEF SoundAndSeen, Sound, Current
  <2> QED BY <2>1, <2>3 DEF Fits, HasPayment, Current
<1> QED BY <1>1, LedgerIsSound, PTL

-----------------------------------------------------------------------------
(* The goods in the orders that are not voided.                             *)

Live(orders) == {i \in DOMAIN orders : orders[i].status # "Cancelled"}

(* The goods of the live orders stay the same with them. *)
LEMMA GoodsAreTheSame ==
  ASSUME NEW orders, NEW others, IsFiniteSet(Live(orders)), Live(others) = Live(orders),
         \A i \in Live(orders) : others[i].quantity = orders[i].quantity
  PROVE  Goods(others) = Goods(orders)
<1> DEFINE f == [i \in DOMAIN orders |-> orders[i].quantity]
           g == [i \in DOMAIN others |-> others[i].quantity]
           L == Live(orders)
<1>1. Goods(orders) = SumFunctionOnSet(f, L) /\ Goods(others) = SumFunctionOnSet(g, L)
  BY DEF Goods, Live
<1>2. \A i \in L : f[i] = g[i]
  <2>1. L \subseteq DOMAIN orders /\ L \subseteq DOMAIN others
    BY DEF Live
  <2> QED BY <2>1
<1> HIDE DEF f, g, L
<1>3. IsFiniteSet(L)
  BY DEF L
<1> QED BY <1>1, <1>2, <1>3, SumsAreEqual

(* One live order more adds its quantity. *)
LEMMA GoodsWithOneMore ==
  ASSUME NEW orders, NEW more, NEW i, IsFiniteSet(Live(orders)), i \notin Live(orders),
         Live(more) = Live(orders) \cup {i},
         \A j \in Live(more) : more[j].quantity \in Int,
         \A j \in Live(orders) : orders[j].quantity = more[j].quantity
  PROVE  Goods(more) = Goods(orders) + more[i].quantity /\ Goods(orders) \in Int
<1> DEFINE f == [j \in DOMAIN orders |-> orders[j].quantity]
           g == [j \in DOMAIN more |-> more[j].quantity]
           L == Live(orders)
           M == Live(more)
<1>1. Goods(orders) = SumFunctionOnSet(f, L) /\ Goods(more) = SumFunctionOnSet(g, M)
  BY DEF Goods, Live
<1>2. L \subseteq DOMAIN orders /\ M \subseteq DOMAIN more
  BY DEF Live
<1>3. /\ \A j \in L : f[j] = g[j]
      /\ \A j \in M : g[j] \in Int
      /\ g[i] = more[i].quantity
  BY <1>2
<1>4. IsFiniteSet(L) /\ IsFiniteSet(M) /\ i \in M /\ M \ {i} = L
  BY FS_AddElement
<1> HIDE DEF f, g, L, M
<1>5. SumFunctionOnSet(g, M) = g[i] + SumFunctionOnSet(g, L)
  BY <1>3, <1>4, SumWithout
<1>6. SumFunctionOnSet(f, L) = SumFunctionOnSet(g, L)
  BY <1>3, <1>4, SumsAreEqual
<1>7. SumFunctionOnSet(g, L) \in Int
  BY <1>3, <1>4, SumIsInteger
<1>8. g[i] \in Int
  BY <1>3, <1>4
<1> QED BY <1>1, <1>3, <1>5, <1>6, <1>7, <1>8

(* Every effect takes from the stock what its orders gain. *)
LEMMA EffectKeepsStock ==
  ASSUME BoundsAssumption, NEW b, Sound(b), NEW c, Effect(b, c),
         DOMAIN b.invoices \subseteq DOMAIN c.invoices,
         <<b.invoices, b.payments>> # <<c.invoices, c.payments>>
  PROVE  c.stock + Goods(c.invoices) = b.stock + Goods(b.invoices)
<1>1. Sane(b) /\ Sane(c)
  BY EffectIsSound DEF Sound
<1>2. /\ IsFiniteSet(Live(b.invoices)) /\ IsFiniteSet(Live(c.invoices))
      /\ \A i \in Live(b.invoices) : b.invoices[i].quantity \in Int
      /\ \A i \in Live(c.invoices) : c.invoices[i].quantity \in Int
      /\ b.stock \in Int /\ c.stock \in Int
  <2>1. IsFiniteSet(Live(b.invoices)) /\ IsFiniteSet(Live(c.invoices))
    BY <1>1, FS_Subset DEF Sane, Live
  <2> QED BY <1>1, <2>1 DEF Sane, Live, Invoice, BoundsAssumption
<1>3. ASSUME NEW i, NEW row, NEW paid, Inserted(b, c, i, row, paid), c.stock + row.quantity = b.stock
      PROVE  c.stock + Goods(c.invoices) = b.stock + Goods(b.invoices)
  <2>1. /\ DOMAIN c.invoices = DOMAIN b.invoices \cup {i} /\ i \notin DOMAIN b.invoices
        /\ c.invoices[i] = row /\ row.status = Recomputed(paid, row.total)
        /\ \A j \in DOMAIN b.invoices : c.invoices[j] = b.invoices[j]
    BY <1>3 DEF Inserted
  <2>2. row.status # "Cancelled"
    BY <2>1 DEF Recomputed
  <2>3. /\ Live(c.invoices) = Live(b.invoices) \cup {i} /\ i \notin Live(b.invoices)
        /\ \A j \in Live(b.invoices) : b.invoices[j].quantity = c.invoices[j].quantity
    BY <2>1, <2>2 DEF Live
  <2>4. Goods(c.invoices) = Goods(b.invoices) + row.quantity /\ Goods(b.invoices) \in Int
    BY <1>2, <2>1, <2>3, GoodsWithOneMore
  <2>5. row.quantity \in Int
    BY <1>2, <2>1, <2>3
  <2> QED BY <1>2, <1>3, <2>4, <2>5
<1>4. ASSUME NEW split, NEW id, NEW new, PaidUp(b, c, split, id, new)
      PROVE  c.stock + Goods(c.invoices) = b.stock + Goods(b.invoices)
  <2>1. DOMAIN c.invoices = DOMAIN b.invoices /\ c.stock = b.stock
    BY <1>4 DEF PaidUp
  <2>2. ASSUME NEW j \in DOMAIN b.invoices
        PROVE  /\ c.invoices[j].quantity = b.invoices[j].quantity
               /\ c.invoices[j].status = "Cancelled" <=> b.invoices[j].status = "Cancelled"
    <3>1. b.invoices[j] \in Invoice
      BY <1>1 DEF Sane
    <3>2. CASE j \notin DOMAIN split
      BY <1>4, <3>2 DEF PaidUp
    <3>3. CASE j \in DOMAIN split
      <4>1. PICK s \in {"Paid", "Partially_Paid"} : c.invoices[j] = [b.invoices[j] EXCEPT !.status = s]
        BY <1>4, <3>3 DEF PaidUp
      <4>2. b.invoices[j].status \in Open
        BY <1>4, <3>3 DEF PaidUp
      <4> QED BY <3>1, <4>1, <4>2 DEF Invoice, Open
    <3> QED BY <3>2, <3>3
  <2>3. /\ Live(c.invoices) = Live(b.invoices)
        /\ \A j \in Live(b.invoices) : c.invoices[j].quantity = b.invoices[j].quantity
    BY <2>1, <2>2 DEF Live
  <2> QED BY <1>2, <2>1, <2>3, GoodsAreTheSame
<1>5. ASSUME NEW i, Recounted(b, c, i)
      PROVE  c.stock + Goods(c.invoices) = b.stock + Goods(b.invoices)
  <2>1. /\ i \in DOMAIN b.invoices /\ b.invoices[i] \in Invoice
        /\ b.invoices[i].status # "Cancelled"
        /\ c.stock = b.stock
    BY <1>1, <1>5 DEF Sound, Sane, Fits, Recounted
  <2>2. c.invoices[i].status # "Cancelled"
    BY <1>5, RecountedIsSound
  <2>3. /\ DOMAIN c.invoices = DOMAIN b.invoices
        /\ c.invoices[i].quantity = b.invoices[i].quantity
        /\ \A j \in DOMAIN b.invoices \ {i} : c.invoices[j] = b.invoices[j]
    BY <1>5, <2>1 DEF Recounted, Invoice
  <2>4. /\ Live(c.invoices) = Live(b.invoices)
        /\ \A j \in Live(b.invoices) : c.invoices[j].quantity = b.invoices[j].quantity
    BY <2>1, <2>2, <2>3 DEF Live
  <2> QED BY <1>2, <2>1, <2>4, GoodsAreTheSame
<1>6. ASSUME NEW i, NEW row, Revised(b, c, i, row), SameOrder(b.invoices[i], row), c.stock = b.stock
      PROVE  c.stock + Goods(c.invoices) = b.stock + Goods(b.invoices)
  <2>1. /\ DOMAIN c.invoices = DOMAIN b.invoices /\ i \in DOMAIN b.invoices /\ c.invoices[i] = row
        /\ \A j \in DOMAIN b.invoices \ {i} : c.invoices[j] = b.invoices[j]
    BY <1>6 DEF Revised
  <2>2. /\ Live(c.invoices) = Live(b.invoices)
        /\ \A j \in Live(b.invoices) : c.invoices[j].quantity = b.invoices[j].quantity
    BY <1>6, <2>1 DEF Live, SameOrder
  <2> QED BY <1>2, <1>6, <2>2, GoodsAreTheSame
<1>7. ASSUME NEW i, NEW row, Revised(b, c, i, row), b.invoices[i].status # "Cancelled",
             row = [b.invoices[i] EXCEPT !.status = "Cancelled"], c.stock = b.stock + row.quantity
      PROVE  c.stock + Goods(c.invoices) = b.stock + Goods(b.invoices)
  <2>1. /\ DOMAIN c.invoices = DOMAIN b.invoices /\ i \in DOMAIN b.invoices /\ c.invoices[i] = row
        /\ \A j \in DOMAIN b.invoices \ {i} : c.invoices[j] = b.invoices[j]
    BY <1>7 DEF Revised
  <2>2. row.status = "Cancelled" /\ row.quantity = b.invoices[i].quantity
    BY <1>1, <1>7, <2>1 DEF Sane, Invoice
  <2>3. /\ Live(b.invoices) = Live(c.invoices) \cup {i} /\ i \notin Live(c.invoices)
        /\ \A j \in Live(c.invoices) : c.invoices[j].quantity = b.invoices[j].quantity
    <3>1. i \in Live(b.invoices) /\ i \notin Live(c.invoices)
      BY <1>7, <2>1, <2>2 DEF Live
    <3>2. \A j : j # i => (j \in Live(b.invoices) <=> j \in Live(c.invoices))
      BY <2>1 DEF Live
    <3>3. \A j \in Live(c.invoices) : j \in DOMAIN b.invoices \ {i}
      BY <2>1, <3>1 DEF Live
    <3> QED BY <2>1, <3>1, <3>2, <3>3
  <2>4. Goods(b.invoices) = Goods(c.invoices) + b.invoices[i].quantity /\ Goods(c.invoices) \in Int
    BY <1>2, <2>3, GoodsWithOneMore
  <2>5. b.invoices[i].quantity \in Int
    BY <1>2, <2>3
  <2> QED BY <1>2, <1>7, <2>2, <2>4, <2>5
<1>8. ASSUME NEW S, Deleted(b, c, S)
      PROVE  c.stock + Goods(c.invoices) = b.stock + Goods(b.invoices)
  <2>1. DOMAIN c.invoices = DOMAIN b.invoices \ S /\ c.stock = b.stock
        /\ \A j \in DOMAIN b.invoices \ S : c.invoices[j] = b.invoices[j]
    BY <1>8 DEF Deleted
  <2>2. DOMAIN b.invoices \ S = DOMAIN b.invoices
    BY <2>1
  <2>3. /\ Live(c.invoices) = Live(b.invoices)
        /\ \A j \in Live(b.invoices) : c.invoices[j].quantity = b.invoices[j].quantity
    BY <2>1, <2>2 DEF Live
  <2> QED BY <1>2, <2>1, <2>3, GoodsAreTheSame
<1> QED BY <1>3, <1>4, <1>5, <1>6, <1>7, <1>8 DEF Effect

(* An order takes from the stock what its voiding gives back, whatever is   *)
(* edited, paid or voided in between (services/writes).                     *)
THEOREM StockFollowsTheOrders ==
  ASSUME Serial
  PROVE  Spec => StockFollowsOrders
<1>1. SoundAndSeen /\ [Next]_vars =>
        [(/\ DOMAIN invoices \subseteq DOMAIN invoices'
          /\ <<invoices, payments>> # <<invoices', payments'>>)
            => stock' + Goods(invoices') = stock + Goods(invoices)]_vars
  <2> SUFFICES ASSUME SoundAndSeen, [Next]_vars,
                      DOMAIN invoices \subseteq DOMAIN invoices',
                      <<invoices, payments>> # <<invoices', payments'>>
               PROVE  stock' + Goods(invoices') = stock + Goods(invoices)
    OBVIOUS
  <2>1. /\ Current.invoices = invoices /\ Current.payments = payments /\ Current.stock = stock
        /\ (Current').invoices = invoices' /\ (Current').payments = payments' /\ (Current').stock = stock'
    BY DEF Current
  <2>2. Effect(Current, Current')
    BY BoundsAssumption, NextHasEffect
  <2>3. Sound(Current)
    BY DEF SoundAndSeen
  <2> QED BY <2>1, <2>2, <2>3, BoundsAssumption, EffectKeepsStock
<1> QED BY <1>1, LedgerIsSound, PTL DEF Spec, StockFollowsOrders

-----------------------------------------------------------------------------
(* A receipt that is spread over several invoices pays the oldest first.    *)

PaidNow(b, c) == {i \in DOMAIN b.invoices \cap DOMAIN c.invoices : Paid(c, i) > Paid(b, i)}

NoneIsPassedOver(b, c) ==
  \A j \in PaidNow(b, c), i \in DOMAIN b.invoices :
    (/\ b.invoices[i].party = b.invoices[j].party
     /\ b.invoices[i].status \in Open /\ Outstanding(b, i) > 0
     /\ Older(b, i, j))
      => c.invoices[i].status = "Paid"

(* A set within a singleton. *)
LEMMA AtMostOne ==
  ASSUME NEW S, NEW i, S \subseteq {i}
  PROVE  Cardinality(S) <= 1
<1>1. IsFiniteSet({i}) /\ Cardinality({i}) = 1
  BY FS_Singleton
<1> QED BY <1>1, FS_Subset

(* An invoice left alone was not paid. *)
LEMMA UntouchedIsNotPaid ==
  ASSUME NEW b, Sane(b), NEW c, NEW j, Untouched(b, c, j)
  PROVE  j \notin PaidNow(b, c)
<1>1. Paid(b, j) \in Nat /\ Paid(c, j) = Paid(b, j)
  BY PaidIsNat DEF Untouched
<1> QED BY <1>1 DEF PaidNow

(* Each invoice a party's receipt reaches is paid with what the older ones  *)
(* leave: all of them are paid.                                             *)
LEMMA SpreadIsInTurn ==
  ASSUME BoundsAssumption, NEW b, Sound(b), NEW c, NEW split, NEW id, NEW new,
         PaidUp(b, c, split, id, new), NEW party, NEW amount \in Int,
         split = Split(b, OpenInvoices(b, party), amount)
  PROVE  NoneIsPassedOver(b, c)
<1> DEFINE S == OpenInvoices(b, party)
<1>1. Sane(b) /\ S \in SUBSET DOMAIN b.invoices
  BY DEF Sound, OpenInvoices
<1>2. DOMAIN split = {k \in S : Share(b, S, amount, k) > 0}
      /\ \A k \in DOMAIN split : split[k] = Share(b, S, amount, k)
  BY DEF Split
<1> SUFFICES ASSUME NEW j \in PaidNow(b, c), NEW i \in DOMAIN b.invoices,
                    b.invoices[i].party = b.invoices[j].party,
                    b.invoices[i].status \in Open, Outstanding(b, i) > 0, Older(b, i, j)
             PROVE  c.invoices[i].status = "Paid"
  BY DEF NoneIsPassedOver
<1>3. j \in DOMAIN split
  <2>1. \A k \in DOMAIN b.invoices \ DOMAIN split : Untouched(b, c, k)
    BY PaidUpIsSound
  <2> QED BY <1>1, <2>1, UntouchedIsNotPaid DEF PaidNow
<1>4. j \in S /\ Share(b, S, amount, j) > 0
  BY <1>2, <1>3
<1>5. i \in S
  BY <1>4 DEF OpenInvoices
<1> HIDE DEF S
<1>6. Share(b, S, amount, i) = Outstanding(b, i)
  BY <1>1, <1>4, <1>5, OlderIsPaidFirst
<1>7. i \in DOMAIN split /\ split[i] = Outstanding(b, i)
  BY <1>2, <1>5, <1>6
<1>8. c.invoices[i] = [b.invoices[i] EXCEPT !.status = "Paid"]
  BY <1>7 DEF PaidUp
<1>9. b.invoices[i] \in Invoice
  BY <1>1 DEF Sane
<1> QED BY <1>8, <1>9 DEF Invoice

(* Of all effects only a spread receipt pays several invoices. *)
LEMMA EffectPaysOldestFirst ==
  ASSUME BoundsAssumption, NEW b, Sound(b), NEW c, Effect(b, c),
         Cardinality(PaidNow(b, c)) > 1
  PROVE  NoneIsPassedOver(b, c)
<1>1. Sane(b)
  BY DEF Sound
<1>2. \A i : ~ PaidNow(b, c) \subseteq {i}
  <2> SUFFICES ASSUME NEW i, PaidNow(b, c) \subseteq {i} PROVE FALSE
    OBVIOUS
  <2>1. Cardinality(PaidNow(b, c)) <= 1
    BY AtMostOne
  <2>2. Cardinality(PaidNow(b, c)) \in Nat
    BY FS_Subset, FS_Singleton, FS_CardinalityType
  <2> QED BY <2>1, <2>2
<1>3. ASSUME NEW i, \A j \in DOMAIN b.invoices \ {i} : j \in DOMAIN c.invoices => Untouched(b, c, j)
      PROVE  FALSE
  <2>1. \A j \in PaidNow(b, c) : j \in DOMAIN b.invoices /\ j \in DOMAIN c.invoices
    BY DEF PaidNow
  <2>2. \A j \in PaidNow(b, c) : j = i
    BY <1>1, <1>3, <2>1, UntouchedIsNotPaid
  <2> QED BY <1>2, <2>2
<1>4. CASE \E i, row, paid : Inserted(b, c, i, row, paid)
  BY <1>3, <1>4, InsertedIsSound
<1>5. ASSUME NEW split, NEW id, NEW new, PaidUp(b, c, split, id, new), OneReceipt(b, split)
      PROVE  NoneIsPassedOver(b, c)
  <2>1. \A j \in DOMAIN b.invoices \ DOMAIN split : Untouched(b, c, j)
    BY <1>5, PaidUpIsSound
  <2>2. ASSUME NEW i, DOMAIN split \subseteq {i} PROVE FALSE
    BY <1>3, <2>1, <2>2
  <2>3. PICK party : \E amount \in Int : split = Split(b, OpenInvoices(b, party), amount)
    BY <1>5, <2>2 DEF OneReceipt
  <2> QED BY <1>5, <2>3, SpreadIsInTurn
<1>6. CASE \E i : Recounted(b, c, i)
  BY <1>3, <1>6, RecountedIsSound
<1>7. CASE \E i, row : Revised(b, c, i, row)
  BY <1>3, <1>7, RevisedIsSound
<1>8. ASSUME NEW S, Deleted(b, c, S) PROVE FALSE
  <2>1. DOMAIN c.invoices = DOMAIN b.invoices \ S
    BY <1>8 DEF Deleted
  <2> QED BY <1>3, <1>8, <2>1, DeletedIsSound
<1>9. CASE c.invoices = b.invoices /\ c.payments = b.payments /\ c.stock \in -MaxStock .. MaxStock
  BY <1>3, <1>9, CountedIsSound
<1> QED BY <1>4, <1>5, <1>6, <1>7, <1>8, <1>9 DEF Effect

(* A receipt spread over several invoices leaves only the newest of them    *)
(* partly paid, and passes over no older open one of the same party         *)
(* (allocate_payment_fifo).                                                 *)
THEOREM ReceiptsPayOldestFirst ==
  ASSUME Serial
  PROVE  Spec => SpreadPaysOldestFirst
<1> DEFINE paidNow == {i \in DOMAIN invoices \cap DOMAIN invoices' : Paid(Current', i) > Paid(Current, i)}
           inTurn == \A j \in paidNow, i \in DOMAIN invoices :
                       (/\ invoices[i].party = invoices[j].party
                        /\ invoices[i].status \in Open /\ Outstanding(Current, i) > 0
                        /\ Older(Current, i, j))
                          => invoices'[i].status = "Paid"
<1>1. SoundAndSeen /\ [Next]_vars => [Cardinality(paidNow) > 1 => inTurn]_vars
  <2>1. /\ Current.invoices = invoices /\ Current.payments = payments
        /\ (Current').invoices = invoices' /\ (Current').payments = payments'
    BY DEF Current
  <2>2. paidNow = PaidNow(Current, Current') /\ (inTurn <=> NoneIsPassedOver(Current, Current'))
    BY <2>1 DEF PaidNow, NoneIsPassedOver
  <2>3. ASSUME SoundAndSeen, [Next]_vars, Cardinality(paidNow) > 1, ~ UNCHANGED vars
        PROVE  NoneIsPassedOver(Current, Current')
    <3>1. Sound(Current)
      BY <2>3 DEF SoundAndSeen
    <3>2. CASE Effect(Current, Current')
      BY <2>2, <2>3, <3>1, <3>2, BoundsAssumption, EffectPaysOldestFirst
    <3>3. CASE UNCHANGED <<invoices, payments, stock>>
      <4>1. Current' = Current
        BY <3>3 DEF Current
      <4>2. \A i \in DOMAIN Current.invoices : Paid(Current, i) \in Nat
        BY <3>1, PaidIsNat DEF Sound
      <4>3. PaidNow(Current, Current') \subseteq {0}
        BY <4>1, <4>2 DEF PaidNow
      <4>4. Cardinality(PaidNow(Current, Current')) <= 1
        BY <4>3, AtMostOne
      <4>5. Cardinality(PaidNow(Current, Current')) \in Nat
        BY <4>3, FS_Subset, FS_Singleton, FS_CardinalityType
      <4> QED BY <2>2, <2>3, <4>4, <4>5
    <3> QED BY <2>3, <3>2, <3>3, BoundsAssumption, NextHasEffect
  <2> QED BY <2>2, <2>3
<1> QED BY <1>1, LedgerIsSound, PTL DEF Spec, SpreadPaysOldestFirst

-----------------------------------------------------------------------------
(* The two ways the reports compute what a party owes.                      *)

(* Settled invoices add nothing to what is owed. *)
LEMMA TotalsAgree ==
  ASSUME BoundsAssumption, NEW b, Sane(b), NEW S \in SUBSET DOMAIN b.invoices, NEW R \in SUBSET S,
         \A i \in S \ R : Outstanding(b, i) = 0
  PROVE  Total(b, R) = Total(b, S)
<1> DEFINE f == [i \in S |-> Outstanding(b, i)]
           g == [i \in R |-> Outstanding(b, i)]
<1>1. Total(b, S) = SumFunctionOnSet(f, S) /\ Total(b, R) = SumFunctionOnSet(g, R)
  BY DEF Total
<1>2. \A i \in S : f[i] \in Int
  BY OutstandingIsInt
<1>3. /\ \A i \in R : f[i] = g[i]
      /\ \A i \in S \ R : f[i] = 0
  OBVIOUS
<1>4. IsFiniteSet(S) /\ IsFiniteSet(R) /\ IsFiniteSet(S \ R)
  BY FS_Subset DEF Sane
<1> HIDE DEF f, g
<1>5. SumFunctionOnSet(f, S) = SumFunctionOnSet(f, R) + SumFunctionOnSet(f, S \ R)
  BY <1>2, <1>4, SumOfBoth
<1>6. SumFunctionOnSet(f, R) = SumFunctionOnSet(g, R)
  BY <1>3, <1>4, SumsAreEqual
<1>7. SumFunctionOnSet(f, S \ R) = 0
  BY <1>3, <1>4, SumOfNothing
<1>8. SumFunctionOnSet(f, R) \in Int
  BY <1>2, <1>4, SumIsInteger
<1> QED BY <1>1, <1>5, <1>6, <1>7, <1>8

(* What a party owes is the same from its open invoices (party_outstanding) *)
(* and from all but the cancelled ones (the ledger report).                 *)
THEOREM SerialOutstandingFiguresAgree ==
  ASSUME Serial
  PROVE  Spec => []OutstandingFiguresAgree
<1>1. SoundAndSeen => OutstandingFiguresAgree
  <2> SUFFICES ASSUME SoundAndSeen, NEW party \in Parties
               PROVE  LET all == {i \in DOMAIN invoices : invoices[i].party = party}
                      IN  Total(Current, {i \in all : invoices[i].status \in Open})
                            = Total(Current, {i \in all : invoices[i].status # "Cancelled"})
    BY DEF OutstandingFiguresAgree
  <2> DEFINE all == {i \in DOMAIN invoices : invoices[i].party = party}
             R == {i \in all : invoices[i].status \in Open}
             S == {i \in all : invoices[i].status # "Cancelled"}
  <2>1. Current.invoices = invoices /\ Sane(Current) /\ Sound(Current)
    BY DEF Current, SoundAndSeen, Sound
  <2>2. R \in SUBSET S /\ S \in SUBSET DOMAIN Current.invoices
    BY <2>1 DEF Open
  <2>3. ASSUME NEW i \in S \ R PROVE Outstanding(Current, i) = 0
    <3>1. i \in DOMAIN invoices /\ invoices[i].status # "Cancelled" /\ invoices[i].status \notin Open
      BY <2>3
    <3>2. invoices[i] \in Invoice /\ Fits(Current, i)
      BY <2>1, <3>1 DEF Sound, Sane
    <3>3. invoices[i].status = "Paid" /\ invoices[i].total \in Nat
      BY <3>1, <3>2 DEF Invoice, Open, BoundsAssumption
    <3>4. Paid(Current, i) = invoices[i].total
      BY <2>1, <3>2, <3>3 DEF Fits, AccountOf, Book!Balanced
    <3> QED BY <2>1, <3>3, <3>4 DEF Outstanding
  <2> HIDE DEF R, S
  <2>4. Total(Current, R) = Total(Current, S)
    BY <2>1, <2>2, <2>3, BoundsAssumption, TotalsAgree
  <2> QED BY <2>4 DEF R, S
<1> QED BY <1>1, LedgerIsSound, PTL

-----------------------------------------------------------------------------
(* The rows of the days and the month's total.                             *)

(* DailyRows takes its sums from the same module of the library.           *)
LEMMA DailySum == ASSUME NEW f, NEW S PROVE Daily!SumFunctionOnSet(f, S) = SumFunctionOnSet(f, S)
  BY DEF SumFunctionOnSet, FoldFunctionOnSet, MapThenFoldSet,
         Daily!SumFunctionOnSet, Daily!FoldFunctionOnSet, Daily!MapThenFoldSet

(* A day that is not late has its row, at the latest when it is over, and   *)
(* the row says what the books do; nothing has moved on the days to come.   *)
RowsAreCurrent ==
    /\ \A d \in 1 .. day : d \notin late => /\ d < day => d \in DOMAIN rows
                                            /\ d \in DOMAIN rows => rows[d] = cash[d]
    /\ \A d \in Daily!Days : d > day => cash[d] = 0

DailyInv == Daily!TypeOK /\ RowsAreCurrent

(* The invariant is inductive. *)
LEMMA DailyInit == ASSUME Daily!BoundsAssumption PROVE Daily!Init => DailyInv
<1> SUFFICES ASSUME Daily!Init PROVE DailyInv
  OBVIOUS
<1>1. LastDay \in Nat /\ LastDay >= 1 /\ MaxCash \in Nat
  BY DEF Daily!BoundsAssumption
<1> QED
  BY <1>1 DEF Daily!Init, Daily!TypeOK, Daily!Days, DailyInv, RowsAreCurrent

(* A movement dated on a day with a row makes the row late. *)
LEMMA RecordKeeps ==
  ASSUME Daily!BoundsAssumption, DailyInv, NEW d \in Daily!Days, NEW amount \in {-1, 1}, Daily!Record(d, amount)
  PROVE  DailyInv'
<1>1. /\ d <= day /\ cash[d] + amount \in -MaxCash .. MaxCash
      /\ cash' = [cash EXCEPT ![d] = cash[d] + amount]
      /\ late' = IF d \in DOMAIN rows THEN late \cup {d} ELSE late
      /\ rows' = rows /\ delivered' = delivered /\ day' = day
  BY DEF Daily!Record
<1>2. Daily!TypeOK'
  BY <1>1 DEF DailyInv, Daily!TypeOK, Daily!Days
<1>3. \A e \in Daily!Days : e # d => cash'[e] = cash[e]
  BY <1>1 DEF DailyInv, Daily!TypeOK
<1>4. \A e \in 1 .. day : e \in Daily!Days
  BY DEF DailyInv, Daily!TypeOK, Daily!Days, Daily!BoundsAssumption
<1>5. RowsAreCurrent'
  BY <1>1, <1>3, <1>4 DEF DailyInv, RowsAreCurrent, Daily!TypeOK, Daily!Days
<1> QED
  BY <1>2, <1>5 DEF DailyInv

(* Finalizing today writes what the books say, and is not late. *)
LEMMA BriefKeeps ==
  ASSUME Daily!BoundsAssumption, DailyInv, NEW sent \in BOOLEAN, Daily!SendEveningBrief(sent)
  PROVE  DailyInv'
<1>1. /\ rows' = [d \in DOMAIN rows \cup {day} |-> IF d = day THEN cash[d] ELSE rows[d]]
      /\ delivered' \in {delivered, delivered \cup {day}}
      /\ late' = late \ {day} /\ cash' = cash /\ day' = day
  BY DEF Daily!SendEveningBrief, Daily!FinalizeDailySnapshot
<1>2. DOMAIN rows' = DOMAIN rows \cup {day} /\ \A d \in DOMAIN rows' : rows'[d] = IF d = day THEN cash[d] ELSE rows[d]
  BY <1>1
<1>3. Daily!TypeOK'
  BY <1>1, <1>2 DEF DailyInv, Daily!TypeOK, Daily!Days
<1>4. RowsAreCurrent'
  BY <1>1, <1>2 DEF DailyInv, RowsAreCurrent, Daily!Days
<1> QED
  BY <1>3, <1>4 DEF DailyInv

(* A day that ends without a row is late. *)
LEMMA NextDayKeeps == ASSUME Daily!BoundsAssumption, DailyInv, Daily!NextDay PROVE DailyInv'
<1>1. /\ day < LastDay /\ day' = day + 1 /\ late' = (IF day \in DOMAIN rows THEN late ELSE late \cup {day})
      /\ cash' = cash /\ rows' = rows /\ delivered' = delivered /\ day \in 1 .. LastDay /\ LastDay \in Nat
  BY DEF Daily!NextDay, DailyInv, Daily!TypeOK, Daily!Days, Daily!BoundsAssumption
<1>2. Daily!TypeOK'
  BY <1>1 DEF DailyInv, Daily!TypeOK, Daily!Days
<1>3. \A d \in 1 .. day' : d \in 1 .. day \/ d = day'
  BY <1>1
<1>4. day' \notin DOMAIN rows
  BY <1>1 DEF DailyInv, Daily!TypeOK
<1>5. RowsAreCurrent'
  BY <1>1, <1>3, <1>4 DEF DailyInv, RowsAreCurrent, Daily!Days
<1> QED
  BY <1>2, <1>5 DEF DailyInv

(* Every step keeps the invariant. *)
LEMMA DailyStep ==
  ASSUME Daily!BoundsAssumption PROVE DailyInv /\ [Daily!Next]_(Daily!vars) => DailyInv'
<1> SUFFICES ASSUME DailyInv, [Daily!Next]_(Daily!vars) PROVE DailyInv'
  OBVIOUS
<1>1. CASE UNCHANGED Daily!vars
  BY <1>1 DEF Daily!vars, DailyInv, Daily!TypeOK, RowsAreCurrent
<1> QED
  BY <1>1, RecordKeeps, BriefKeeps, NextDayKeeps DEF Daily!Next

(* With no day late the rows are the days before today, and today if it is *)
(* finalized; the days to come add nothing.                                *)
LEMMA RowsAddUp == ASSUME Daily!BoundsAssumption, DailyInv PROVE Daily!MonthCountsEveryDay
<1> SUFFICES ASSUME late = {}
             PROVE  /\ Daily!MonthToDateTotals = Daily!SumFunctionOnSet(cash, Daily!Days)
                    /\ day \in Daily!DailySummarySheet.lines => Daily!DailySummarySheet.total = Daily!MonthToDateTotals
  BY DEF Daily!MonthCountsEveryDay
<1> DEFINE R == DOMAIN rows
           D == 1 .. LastDay
           P == 1 .. day
<1>1. /\ LastDay \in Nat /\ day \in 1 .. LastDay /\ R \subseteq P /\ P \subseteq D
      /\ \A d \in D : cash[d] \in Int
  BY DEF Daily!BoundsAssumption, DailyInv, Daily!TypeOK, Daily!Days
<1>2. IsFiniteSet(D) /\ IsFiniteSet(P) /\ IsFiniteSet(R)
  <2>1. 1 \in Int /\ LastDay \in Int
    BY <1>1
  <2>2. IsFiniteSet(D)
    BY <2>1, FS_Interval
  <2> QED
    BY <1>1, <2>2, FS_Subset
<1>3. SumFunctionOnSet(rows, R) = SumFunctionOnSet(cash, R)
  BY <1>1, <1>2, SumsAreEqual DEF DailyInv, RowsAreCurrent
<1>4. SumFunctionOnSet(cash, D) = SumFunctionOnSet(cash, P)
  <2> HIDE DEF P, D
  <2>1. \A d \in D \ P : cash[d] = 0
    BY <1>1 DEF DailyInv, RowsAreCurrent, Daily!Days, P, D
  <2>2. SumFunctionOnSet(cash, D \ P) = 0
    BY <1>2, <2>1, FS_Subset, SumOfNothing
  <2>3. SumFunctionOnSet(cash, P) \in Int
    BY <1>1, <1>2, SumIsInteger
  <2>4. P \in SUBSET D
    BY <1>1
  <2>5. SumFunctionOnSet(cash, D) = SumFunctionOnSet(cash, P) + SumFunctionOnSet(cash, D \ P)
    BY <1>1, <1>2, <2>4, SumOfBoth
  <2> QED
    BY <2>2, <2>3, <2>5
<1>5. P \ {day} \subseteq R
  BY <1>1 DEF DailyInv, RowsAreCurrent
<1>6. SumFunctionOnSet(cash, P) = cash[day] + SumFunctionOnSet(cash, P \ {day})
  <2>1. day \in P /\ \A d \in P : cash[d] \in Int
    BY <1>1
  <2> QED
    BY <1>2, <2>1, SumWithout
<1>7. SumFunctionOnSet(cash, R) \in Int /\ cash[day] \in Int
  BY <1>1, <1>2, SumIsInteger
<1>8. Daily!MonthToDateTotals = SumFunctionOnSet(cash, R) + (IF day \in R THEN 0 ELSE cash[day])
  BY <1>3, DailySum DEF Daily!MonthToDateTotals
<1>9. CASE day \in R
  <2>1. R = P
    BY <1>1, <1>5, <1>9
  <2>2. Daily!MonthToDateTotals = SumFunctionOnSet(cash, R)
    BY <1>7, <1>8, <1>9
  <2> QED
    BY <1>3, <1>4, <2>1, <2>2, DailySum DEF Daily!DailySummarySheet, Daily!Days
<1>10. CASE day \notin R
  <2>1. R = P \ {day}
    BY <1>1, <1>5, <1>10
  <2>2. Daily!MonthToDateTotals = SumFunctionOnSet(cash, P)
    BY <1>6, <1>7, <1>8, <1>10, <2>1
  <2> QED
    BY <1>4, <1>10, <2>2, DailySum DEF Daily!DailySummarySheet, Daily!Days
<1> QED
  BY <1>9, <1>10

(* A month counts every day once, however often a day was finalized and    *)
(* whatever is dated back, unless a day is late (services/daily_snapshot).  *)
THEOREM MonthsAreWhole ==
  ASSUME Daily!BoundsAssumption
  PROVE  Daily!Spec => [](Daily!TypeOK /\ Daily!MonthCountsEveryDay)
<1>1. DailyInv => Daily!TypeOK /\ Daily!MonthCountsEveryDay
  BY RowsAddUp DEF DailyInv
<1> QED
  BY <1>1, DailyInit, DailyStep, PTL DEF Daily!Spec

-----------------------------------------------------------------------------
(* The figures of the reports.                                             *)

(* Reports takes its sums from the same module of the library.             *)
LEMMA ReportSum == ASSUME NEW f, NEW S PROVE Report!SumFunctionOnSet(f, S) = SumFunctionOnSet(f, S)
  BY DEF SumFunctionOnSet, FoldFunctionOnSet, MapThenFoldSet,
         Report!SumFunctionOnSet, Report!FoldFunctionOnSet, Report!MapThenFoldSet

(* And the sizes of its sets. *)
LEMMA ReportSize ==
  ASSUME NEW S PROVE Report!Cardinality(S) = Cardinality(S) /\ (Report!IsFiniteSet(S) <=> IsFiniteSet(S))
  BY Zenon DEF Report!Cardinality, Cardinality, Report!IsFiniteSet, IsFiniteSet

(* The rows on file, with what is worth, paid and owed of each. *)
OnFile == DOMAIN filed
Received == DOMAIN receipts
Filed == [party : Report!Parties, date : Report!Days, due : 0 .. Report!NoDay - 1, total : 1 .. MaxFiled,
          items : 0 .. MaxFiled, voided : BOOLEAN]
Receipt == [invoice : FiledIds, amount : Nat \ {0}, date : Report!Days]
Amounts == [q \in Received |-> receipts[q].amount]
Worth == [i \in OnFile |-> filed[i].total]
PaidIn(D) == [i \in OnFile |-> Report!PaidOn(i, D)]
Owed == [i \in OnFile |-> Report!Outstanding(i)]
ReceiptsFor(i, D) == {q \in Received : receipts[q].invoice = i /\ receipts[q].date \in D}

FiledFits == OnFile \subseteq FiledIds /\ \A i \in OnFile : filed[i] \in Filed
ReceiptsFit == /\ Received \subseteq ReceiptIds
               /\ \A q \in Received : receipts[q] \in Receipt /\ receipts[q].invoice \in OnFile

(* No invoice is paid more than it is worth, and a cancelled one not at all. *)
PaidFits == \A i \in OnFile : /\ Report!Paid(i) \in 0 .. filed[i].total
                              /\ filed[i].voided => Report!Paid(i) = 0

ReportInv == today \in Report!Days /\ FiledFits /\ ReceiptsFit /\ PaidFits

(* The constants are numbers, and the parties and rows finitely many. *)
LEMMA Bounds ==
  ASSUME Report!FiguresAssumption
  PROVE  /\ IsFiniteSet(Debtors) /\ IsFiniteSet(Creditors) /\ IsFiniteSet(FiledIds) /\ IsFiniteSet(ReceiptIds)
         /\ LastFiledDay \in Nat /\ LastFiledDay > 0 /\ MaxFiled \in Nat /\ DueDays \subseteq 0 .. Report!NoDay - 1
         /\ OpeningBalance \in Int /\ ForecastDays \in Nat /\ TrendDays \in Nat /\ ActivityDays \in Nat
         /\ AgeStep \in Nat /\ Report!NoDay = LastFiledDay + ForecastDays + 2
         /\ ListCap \in Nat /\ ListCap > 0
  BY ReportSize DEF Report!FiguresAssumption, Report!NoDay

(* What is paid of an invoice in some days is a sum of the receipts.       *)
LEMMA PaidOnIs ==
  ASSUME Report!FiguresAssumption, ReceiptsFit, NEW i, NEW D
  PROVE  /\ Report!PaidOn(i, D) = SumFunctionOnSet(Amounts, ReceiptsFor(i, D))
         /\ Report!PaidOn(i, D) \in Nat
         /\ IsFiniteSet(Received) /\ IsFiniteSet(ReceiptsFor(i, D))
<1>1. IsFiniteSet(Received) /\ IsFiniteSet(ReceiptsFor(i, D))
  BY Bounds, FS_Subset DEF ReceiptsFit, ReceiptsFor
<1>2. \A q \in Received : Amounts[q] = receipts[q].amount /\ Amounts[q] \in Nat
  BY DEF Amounts, ReceiptsFit, Receipt
<1>3. Report!PaidOn(i, D) = SumFunctionOnSet([q \in ReceiptsFor(i, D) |-> receipts[q].amount], ReceiptsFor(i, D))
  BY ReportSum DEF Report!PaidOn, Report!SumOver, ReceiptsFor, Received
<1>4. SumFunctionOnSet([q \in ReceiptsFor(i, D) |-> receipts[q].amount], ReceiptsFor(i, D))
        = SumFunctionOnSet(Amounts, ReceiptsFor(i, D))
  <2>1. \A q \in ReceiptsFor(i, D) : [r \in ReceiptsFor(i, D) |-> receipts[r].amount][q] = Amounts[q]
    BY <1>2 DEF ReceiptsFor
  <2> QED
    BY <1>1, <2>1, SumsAreEqual
<1>5. SumFunctionOnSet(Amounts, ReceiptsFor(i, D)) \in Nat
  <2>1. \A q \in ReceiptsFor(i, D) : Amounts[q] \in Nat
    BY <1>2 DEF ReceiptsFor
  <2> QED
    BY <1>1, <2>1, SumOfSome
<1> QED
  BY <1>1, <1>3, <1>4, <1>5

(* The days that have no receipts of it do not matter. *)
LEMMA PaidOnSame ==
  ASSUME Report!FiguresAssumption, ReceiptsFit, NEW i, NEW D, NEW E,
         \A q \in Received : receipts[q].date \in D <=> receipts[q].date \in E
  PROVE  Report!PaidOn(i, D) = Report!PaidOn(i, E)
<1>1. ReceiptsFor(i, D) = ReceiptsFor(i, E)
  BY DEF ReceiptsFor
<1> QED
  BY <1>1, PaidOnIs

(* What is paid in some days and in others adds up. *)
LEMMA PaidOnAdds ==
  ASSUME Report!FiguresAssumption, ReceiptsFit, NEW i, NEW D, NEW E, D \cap E = {}
  PROVE  Report!PaidOn(i, D \cup E) = Report!PaidOn(i, D) + Report!PaidOn(i, E)
<1>1. PICK all, one, other : all = ReceiptsFor(i, D \cup E) /\ one = ReceiptsFor(i, D) /\ other = ReceiptsFor(i, E)
  OBVIOUS
<1>2. one \in SUBSET all /\ all \ one = other
  BY <1>1 DEF ReceiptsFor
<1>3. \A q \in all : Amounts[q] \in Int
  BY <1>1 DEF Amounts, ReceiptsFit, Receipt, ReceiptsFor
<1>4. IsFiniteSet(all)
  BY <1>1, PaidOnIs
<1>5. SumFunctionOnSet(Amounts, all) = SumFunctionOnSet(Amounts, one) + SumFunctionOnSet(Amounts, other)
  BY <1>2, <1>3, <1>4, SumOfBoth
<1> QED
  BY <1>1, <1>5, PaidOnIs

(* In no days nothing is paid. *)
LEMMA PaidOnNone ==
  ASSUME Report!FiguresAssumption, ReceiptsFit, NEW i PROVE Report!PaidOn(i, {}) = 0
<1>1. ReceiptsFor(i, {}) = {}
  BY DEF ReceiptsFor
<1> QED
  BY <1>1, PaidOnIs, SumEmpty

(* What the code reads off a row and its receipts. *)
LEMMA RowIs ==
  ASSUME Report!FiguresAssumption, ReportInv, NEW i \in OnFile
  PROVE  /\ filed[i].party \in Report!Parties /\ filed[i].date \in Report!Days /\ filed[i].due \in Nat
         /\ filed[i].due < Report!NoDay /\ filed[i].items \in Int /\ filed[i].total \in Nat /\ filed[i].total > 0
         /\ Worth[i] = filed[i].total
         /\ PaidIn(Report!Days)[i] = Report!Paid(i) /\ Report!Paid(i) \in Nat
         /\ Owed[i] = Report!Outstanding(i) /\ Report!Outstanding(i) = filed[i].total - Report!Paid(i)
         /\ Report!Outstanding(i) \in Nat
         /\ filed[i].voided => Report!Paid(i) = 0
<1>1. filed[i] \in Filed
  BY DEF ReportInv, FiledFits
<1>2. MaxFiled \in Nat /\ Report!NoDay \in Int
  BY Bounds
<1>3. /\ filed[i].party \in Report!Parties /\ filed[i].date \in Report!Days /\ filed[i].due \in Nat
      /\ filed[i].due < Report!NoDay /\ filed[i].items \in Int
      /\ filed[i].total \in Nat /\ filed[i].total > 0
  BY <1>1, <1>2 DEF Filed
<1>4. Report!Outstanding(i) = filed[i].total - Report!Paid(i) /\ Report!Paid(i) \in 0 .. filed[i].total
  BY DEF Report!Outstanding, ReportInv, PaidFits
<1> QED
  BY <1>3, <1>4 DEF Worth, PaidIn, Owed, Report!Paid, ReportInv, FiledFits, PaidFits

(* An invoice is open as long as it is not cancelled and something is owed. *)
LEMMA OpenIs ==
  ASSUME Report!FiguresAssumption, ReportInv, NEW S
  PROVE  /\ Report!Open(S) = {i \in OnFile : filed[i].party \in S /\ ~ filed[i].voided /\ Report!Outstanding(i) > 0}
         /\ Report!Live(S) = {i \in OnFile : filed[i].party \in S /\ ~ filed[i].voided}
         /\ IsFiniteSet(OnFile) /\ IsFiniteSet(Report!Open(S)) /\ IsFiniteSet(Report!Live(S))
<1>1. \A i \in OnFile : Report!Status(i) \in {"Pending", "Partially_Paid"}
                         <=> ~ filed[i].voided /\ Report!Outstanding(i) > 0
  <2> TAKE i \in OnFile
  <2> QED
    BY RowIs DEF Report!Status
<1>2. IsFiniteSet(OnFile)
  BY Bounds, FS_Subset DEF ReportInv, FiledFits
<1> QED
  BY <1>1, <1>2, FS_Subset DEF Report!Open, Report!Live, OnFile

(* The same of receipts that are going to be on file. *)
ForIn(rc, i) == {q \in DOMAIN rc : rc[q].invoice = i /\ rc[q].date \in Report!Days}
PaidOf(rc, i) == SumFunctionOnSet([q \in DOMAIN rc |-> rc[q].amount], ForIn(rc, i))

(* What is paid of an invoice is a natural number, now and after a step. *)
LEMMA PaidOfIs ==
  ASSUME NEW rc, IsFiniteSet(DOMAIN rc), \A q \in DOMAIN rc : rc[q] \in Receipt, NEW i
  PROVE  /\ PaidOf(rc, i) \in Nat /\ IsFiniteSet(ForIn(rc, i))
         /\ PaidOf(rc, i) = Report!SumFunctionOnSet([q \in ForIn(rc, i) |-> rc[q].amount], ForIn(rc, i))
<1>1. IsFiniteSet(ForIn(rc, i))
  BY FS_Subset DEF ForIn
<1>2. \A q \in ForIn(rc, i) : /\ [r \in DOMAIN rc |-> rc[r].amount][q] \in Nat
                              /\ [r \in ForIn(rc, i) |-> rc[r].amount][q] = [r \in DOMAIN rc |-> rc[r].amount][q]
  BY DEF ForIn, Receipt
<1>3. PaidOf(rc, i) \in Nat
  BY <1>1, <1>2, SumOfSome DEF PaidOf
<1>4. SumFunctionOnSet([q \in ForIn(rc, i) |-> rc[q].amount], ForIn(rc, i)) = PaidOf(rc, i)
  BY <1>1, <1>2, SumsAreEqual DEF PaidOf
<1> QED
  BY <1>1, <1>3, <1>4, ReportSum

(* Paid is that, before a step and after it. *)
LEMMA PaidIsPaidOf ==
  ASSUME Report!FiguresAssumption
  PROVE  /\ ReceiptsFit => \A i : Report!Paid(i) = PaidOf(receipts, i)
         /\ ReceiptsFit' => \A i : Report!Paid(i)' = PaidOf(receipts', i)
<1>1. ReceiptsFit => IsFiniteSet(DOMAIN receipts) /\ \A q \in DOMAIN receipts : receipts[q] \in Receipt
  BY Bounds, FS_Subset DEF ReceiptsFit, Received
<1>2. ReceiptsFit' => IsFiniteSet(DOMAIN receipts') /\ \A q \in DOMAIN receipts' : receipts'[q] \in Receipt
  BY Bounds, FS_Subset DEF ReceiptsFit, Received, Receipt, Report!Days
<1>3. ASSUME ReceiptsFit, NEW i PROVE Report!Paid(i) = PaidOf(receipts, i)
  BY <1>1, <1>3, PaidOfIs DEF Report!Paid, Report!PaidOn, Report!SumOver, ForIn
<1>4. ASSUME ReceiptsFit', NEW i PROVE Report!Paid(i)' = PaidOf(receipts', i)
  BY <1>2, <1>4, PaidOfIs DEF Report!Paid, Report!PaidOn, Report!SumOver, ForIn, Report!Days
<1> QED
  BY <1>3, <1>4

(* One receipt more is paid of its invoice, and of no other. *)
LEMMA PaidWithOne ==
  ASSUME NEW rc, IsFiniteSet(DOMAIN rc), \A q \in DOMAIN rc : rc[q] \in Receipt, NEW p, p \notin DOMAIN rc,
         NEW r \in Receipt, NEW after, after = [q \in DOMAIN rc \cup {p} |-> IF q = p THEN r ELSE rc[q]], NEW j
  PROVE  PaidOf(after, j) = PaidOf(rc, j) + (IF j = r.invoice THEN r.amount ELSE 0)
<1> DEFINE f == [q \in DOMAIN rc |-> rc[q].amount]
           g == [q \in DOMAIN after |-> after[q].amount]
<1>1. /\ DOMAIN after = DOMAIN rc \cup {p} /\ after[p] = r /\ \A q \in DOMAIN rc : after[q] = rc[q]
      /\ r.date \in Report!Days /\ r.amount \in Nat /\ \A q \in DOMAIN rc : rc[q].amount \in Nat
  BY DEF Receipt
<1>2. IsFiniteSet(ForIn(rc, j)) /\ ForIn(rc, j) \subseteq DOMAIN rc
  BY FS_Subset DEF ForIn
<1>3. SumFunctionOnSet(g, ForIn(rc, j)) = SumFunctionOnSet(f, ForIn(rc, j))
  <2>1. \A q \in ForIn(rc, j) : g[q] = f[q]
    BY <1>1, <1>2
  <2> QED
    BY <1>2, <2>1, SumsAreEqual
<1>4. PaidOf(rc, j) \in Nat
  BY PaidOfIs
<1>5. CASE j = r.invoice
  <2>1. ForIn(after, j) = ForIn(rc, j) \cup {p} /\ (ForIn(rc, j) \cup {p}) \ {p} = ForIn(rc, j)
    BY <1>1, <1>5 DEF ForIn
  <2>2. IsFiniteSet(ForIn(after, j)) /\ p \in ForIn(after, j) /\ \A q \in ForIn(after, j) : g[q] \in Int
    <3>1. IsFiniteSet(ForIn(after, j))
      <4>1. IsFiniteSet(ForIn(rc, j) \cup {p})
        BY <1>2, FS_AddElement
      <4> QED
        BY <2>1, <4>1
    <3>2. p \in ForIn(after, j)
      BY <2>1
    <3>3. ASSUME NEW q \in ForIn(after, j) PROVE g[q] \in Int
      <4>1. q \in DOMAIN after /\ after[q].amount \in Nat
        BY <1>1, <1>2, <2>1, <3>3
      <4> QED
        BY <4>1
    <3> QED
      BY <3>1, <3>2, <3>3
  <2>3. SumFunctionOnSet(g, ForIn(after, j)) = g[p] + SumFunctionOnSet(g, ForIn(after, j) \ {p})
    BY <2>2, SumWithout
  <2>4. g[p] = r.amount
    BY <1>1
  <2>5. PaidOf(after, j) = SumFunctionOnSet(g, ForIn(after, j)) /\ PaidOf(rc, j) = SumFunctionOnSet(f, ForIn(rc, j))
    BY DEF PaidOf
  <2>6. SumFunctionOnSet(g, ForIn(after, j)) = r.amount + PaidOf(rc, j)
    BY <1>3, <2>1, <2>3, <2>4, <2>5
  <2> QED
    BY <1>1, <1>4, <1>5, <2>5, <2>6
<1>6. CASE j # r.invoice
  <2>1. ForIn(after, j) = ForIn(rc, j)
    BY <1>1, <1>6 DEF ForIn
  <2> QED
    BY <1>3, <1>4, <1>6, <2>1 DEF PaidOf
<1> QED
  BY <1>5, <1>6

(* Without some of the receipts no invoice has more paid. *)
LEMMA PaidOfSome ==
  ASSUME NEW rc, IsFiniteSet(DOMAIN rc), \A q \in DOMAIN rc : rc[q] \in Receipt, NEW Kept \in SUBSET DOMAIN rc,
         NEW after, after = [q \in Kept |-> rc[q]], NEW j
  PROVE  PaidOf(after, j) \in Nat /\ PaidOf(after, j) <= PaidOf(rc, j)
<1> DEFINE f == [q \in DOMAIN rc |-> rc[q].amount]
           g == [q \in DOMAIN after |-> after[q].amount]
<1>1. /\ DOMAIN after = Kept /\ (\A q \in DOMAIN after : after[q] = rc[q])
      /\ \A q \in DOMAIN rc : rc[q].amount \in Nat
  BY DEF Receipt
<1>2. ForIn(after, j) \in SUBSET ForIn(rc, j) /\ ForIn(after, j) \subseteq DOMAIN after
  BY <1>1 DEF ForIn
<1>3. IsFiniteSet(ForIn(rc, j)) /\ IsFiniteSet(ForIn(after, j)) /\ \A q \in ForIn(rc, j) : f[q] \in Nat
  BY <1>1, <1>2, FS_Subset DEF ForIn
<1>4. SumFunctionOnSet(g, ForIn(after, j)) = SumFunctionOnSet(f, ForIn(after, j))
  <2>1. \A q \in ForIn(after, j) : g[q] = f[q]
    BY <1>1, <1>2
  <2> QED
    BY <1>3, <2>1, SumsAreEqual
<1>5. /\ SumFunctionOnSet(f, ForIn(after, j)) \in Nat
      /\ SumFunctionOnSet(f, ForIn(after, j)) <= SumFunctionOnSet(f, ForIn(rc, j))
  BY <1>2, <1>3, SumOfSome
<1> QED
  BY <1>4, <1>5 DEF PaidOf

(* The invariant holds of empty books. *)
LEMMA ReportInit == ASSUME Report!FiguresAssumption PROVE Report!Init => ReportInv
<1> SUFFICES ASSUME Report!Init PROVE ReportInv
  OBVIOUS
<1>1. OnFile = {} /\ Received = {} /\ today = 1
  BY DEF Report!Init, OnFile, Received
<1> QED
  BY <1>1, Bounds DEF ReportInv, FiledFits, ReceiptsFit, PaidFits, Report!Days

(* What is paid of an invoice depends on the receipts alone. *)
LEMMA PaidStays == ASSUME receipts' = receipts PROVE \A j : Report!Paid(j)' = Report!Paid(j)
  BY DEF Report!Paid, Report!PaidOn, Report!SumOver, Report!Days

(* A new invoice has nothing paid. *)
LEMMA RaiseKeeps ==
  ASSUME Report!FiguresAssumption, ReportInv, Report!RaiseInvoice
  PROVE  ReportInv'
<1>1. PICK i \in FiledIds \ DOMAIN filed, date \in Report!Days, due \in DueDays, total \in 1 .. MaxFiled :
        \E party \in IF i \in Itemised THEN Debtors ELSE Report!Parties :
          /\ filed' = [j \in DOMAIN filed \cup {i} |->
                         IF j = i THEN [party |-> party, date |-> date, due |-> due, total |-> total,
                                        items |-> IF i \in Itemised THEN total ELSE 0, voided |-> FALSE]
                         ELSE filed[j]]
          /\ UNCHANGED <<receipts, today>>
  BY DEF Report!RaiseInvoice
<1>2. PICK party \in Report!Parties :
        /\ filed' = [j \in DOMAIN filed \cup {i} |->
                       IF j = i THEN [party |-> party, date |-> date, due |-> due, total |-> total,
                                      items |-> IF i \in Itemised THEN total ELSE 0, voided |-> FALSE]
                       ELSE filed[j]]
        /\ UNCHANGED <<receipts, today>>
  BY <1>1 DEF Report!Parties
<1> DEFINE row == [party |-> party, date |-> date, due |-> due, total |-> total,
                   items |-> IF i \in Itemised THEN total ELSE 0, voided |-> FALSE]
<1>3. /\ DOMAIN filed' = DOMAIN filed \cup {i} /\ filed'[i] = row /\ \A j \in DOMAIN filed : filed'[j] = filed[j]
      /\ receipts' = receipts /\ today' = today
  BY <1>2
<1>4. row \in Filed /\ row.total \in Nat /\ row.total > 0 /\ row.voided = FALSE
  <2>1. due \in 0 .. Report!NoDay - 1 /\ MaxFiled \in Nat
    BY Bounds
  <2>2. (IF i \in Itemised THEN total ELSE 0) \in 0 .. MaxFiled
    BY <2>1
  <2> QED
    BY <2>1, <2>2 DEF Filed
<1> HIDE DEF row
<1>5. FiledFits' /\ ReceiptsFit' /\ today' \in Report!Days
  BY <1>3, <1>4 DEF ReportInv, FiledFits, ReceiptsFit, OnFile, Received, Filed, Receipt, Report!Days,
                    Report!Parties, Report!NoDay
<1>6. \A j : Report!Paid(j)' = Report!Paid(j)
  BY <1>3, PaidStays
<1>7. Report!Paid(i) = 0
  <2>1. ForIn(receipts, i) = {}
    BY DEF ForIn, ReportInv, ReceiptsFit, Received, OnFile
  <2> QED
    BY <2>1, PaidIsPaidOf, SumEmpty DEF PaidOf, ReportInv
<1>8. PaidFits'
  BY <1>3, <1>4, <1>6, <1>7 DEF PaidFits, ReportInv, OnFile
<1> QED
  BY <1>5, <1>8 DEF ReportInv, Report!Days

(* A receipt is of an open invoice, and no more than is owed. *)
LEMMA RecordPaymentKeeps ==
  ASSUME Report!FiguresAssumption, ReportInv, Report!RecordPayment
  PROVE  ReportInv'
<1>1. PICK p \in ReceiptIds \ DOMAIN receipts, i \in Report!Open(Report!Parties), date \in Report!Days :
        \E amount \in 1 .. Report!Outstanding(i) :
           /\ receipts' = [q \in DOMAIN receipts \cup {p} |->
                             IF q = p THEN [invoice |-> i, amount |-> amount, date |-> date] ELSE receipts[q]]
           /\ UNCHANGED <<filed, today>>
  BY DEF Report!RecordPayment
<1>2. PICK amount \in 1 .. Report!Outstanding(i) :
        /\ receipts' = [q \in DOMAIN receipts \cup {p} |->
                          IF q = p THEN [invoice |-> i, amount |-> amount, date |-> date] ELSE receipts[q]]
        /\ UNCHANGED <<filed, today>>
  BY <1>1
<1>3. PICK r : r = [invoice |-> i, amount |-> amount, date |-> date]
  OBVIOUS
<1>4. /\ receipts' = [q \in DOMAIN receipts \cup {p} |-> IF q = p THEN r ELSE receipts[q]]
      /\ filed' = filed /\ today' = today
  BY <1>2, <1>3
<1>5. i \in OnFile /\ ~ filed[i].voided /\ i \in FiledIds
  BY OpenIs DEF ReportInv, FiledFits
<1>6. /\ Report!Outstanding(i) \in Nat /\ Report!Outstanding(i) = filed[i].total - Report!Paid(i)
      /\ Report!Paid(i) \in Nat /\ filed[i].total \in Nat
  BY <1>5, RowIs
<1>8. r \in Receipt /\ r.invoice = i /\ r.amount = amount /\ r.amount \in Nat
      /\ amount <= Report!Outstanding(i)
  BY <1>3, <1>5, <1>6 DEF Receipt
<1>9. DOMAIN receipts' = DOMAIN receipts \cup {p} /\ receipts'[p] = r /\ \A q \in DOMAIN receipts : receipts'[q] = receipts[q]
  BY <1>4
<1>10. FiledFits' /\ ReceiptsFit' /\ today' \in Report!Days
  BY <1>4, <1>5, <1>8, <1>9 DEF ReportInv, FiledFits, ReceiptsFit, OnFile, Received, Filed, Receipt, Report!Days,
                                Report!Parties, Report!NoDay
<1>11. ASSUME NEW j PROVE Report!Paid(j)' = Report!Paid(j) + (IF j = i THEN amount ELSE 0)
  <2>1. IsFiniteSet(DOMAIN receipts) /\ \A q \in DOMAIN receipts : receipts[q] \in Receipt
    BY Bounds, FS_Subset DEF ReportInv, ReceiptsFit, Received
  <2>2. PaidOf(receipts', j) = PaidOf(receipts, j) + (IF j = i THEN amount ELSE 0)
    BY <1>4, <1>8, <2>1, PaidWithOne
  <2> QED
    BY <1>10, <2>2, PaidIsPaidOf DEF ReportInv
<1>12. PaidFits'
  <2> SUFFICES ASSUME NEW j \in OnFile
               PROVE  /\ Report!Paid(j)' \in 0 .. filed[j].total
                      /\ filed[j].voided => Report!Paid(j)' = 0
    BY <1>4 DEF PaidFits, OnFile
  <2>1. /\ Report!Paid(j) \in 0 .. filed[j].total
        /\ filed[j].voided => Report!Paid(j) = 0
    BY DEF ReportInv, PaidFits
  <2>2. CASE j = i
    BY <1>5, <1>6, <1>8, <1>11, <2>1, <2>2
  <2>3. CASE j # i
    <3>1. Report!Paid(j)' = Report!Paid(j) + 0
      BY <1>11, <2>3
    <3> QED
      BY <2>1, <3>1, RowIs
  <2> QED
    BY <2>2, <2>3
<1> QED
  BY <1>10, <1>12 DEF ReportInv, Report!Days

(* One row is changed, and its total is still no less than what is paid of it. *)
LEMMA RowKeeps ==
  ASSUME Report!FiguresAssumption, ReportInv, NEW i \in OnFile, NEW row \in Filed,
         Report!Paid(i) <= row.total, row.voided => Report!Paid(i) = 0,
         filed' = [filed EXCEPT ![i] = row], receipts' = receipts, today' = today
  PROVE  ReportInv'
<1>1. DOMAIN filed' = DOMAIN filed /\ filed'[i] = row /\ \A j \in DOMAIN filed : j # i => filed'[j] = filed[j]
  BY DEF OnFile
<1>2. FiledFits' /\ ReceiptsFit' /\ today' \in Report!Days
  BY <1>1 DEF ReportInv, FiledFits, ReceiptsFit, OnFile, Received, Filed, Receipt, Report!Days,
              Report!Parties, Report!NoDay
<1>3. row.total \in Nat /\ Report!Paid(i) \in Nat
  BY RowIs, Bounds DEF Filed
<1>4. PaidFits'
  BY <1>1, <1>3, PaidStays DEF PaidFits, ReportInv, OnFile
<1> QED
  BY <1>2, <1>4 DEF ReportInv, Report!Days

(* Only an order of which nothing is paid is voided. *)
LEMMA VoidOrderKeeps ==
  ASSUME Report!FiguresAssumption, ReportInv, Report!VoidOrder
  PROVE  ReportInv'
<1>1. PICK i \in Report!Live(Report!Parties) :
        Report!Paid(i) = 0 /\ filed' = [filed EXCEPT ![i].voided = TRUE] /\ UNCHANGED <<receipts, today>>
  BY DEF Report!VoidOrder
<1>2. i \in OnFile /\ filed[i] \in Filed
  BY OpenIs DEF ReportInv, FiledFits
<1>3. PICK row : row = [filed[i] EXCEPT !.voided = TRUE]
  OBVIOUS
<1>4. row \in Filed /\ row.total = filed[i].total
  BY <1>2, <1>3 DEF Filed
<1>5. filed' = [filed EXCEPT ![i] = row] /\ receipts' = receipts /\ today' = today
  BY <1>1, <1>3
<1>6. Report!Paid(i) <= row.total
  BY <1>1, <1>2, <1>4, RowIs
<1> QED
  BY <1>1, <1>2, <1>4, <1>5, <1>6, RowKeeps

(* A correction leaves a row as it is but for a total, a day or a party. *)
LEMMA CorrectionsAre ==
  ASSUME Report!FiguresAssumption, NEW row \in Filed, NEW after \in Report!Corrections(row)
  PROVE  after \in Filed /\ after.voided = row.voided /\ after.items = row.items /\ after.due = row.due
<1>1. CASE \E total \in 1 .. MaxFiled : after = [row EXCEPT !.total = total]
  BY <1>1 DEF Filed
<1>2. CASE \E date \in Report!Days : after = [row EXCEPT !.date = date]
  BY <1>2 DEF Filed
<1>3. CASE \E party \in Report!Parties : after = [row EXCEPT !.party = party]
  BY <1>3 DEF Filed
<1> QED
  BY <1>1, <1>2, <1>3 DEF Report!Corrections, Report!Parties

(* An invoice is corrected while nothing is paid of it. *)
LEMMA EditInvoiceKeeps ==
  ASSUME Report!FiguresAssumption, ReportInv, Report!EditInvoice
  PROVE  ReportInv'
<1>1. PICK i \in OnFile : /\ Report!Paid(i) = 0 /\ UNCHANGED <<receipts, today>>
                           /\ \E row \in Report!Corrections(filed[i]) : filed' = [filed EXCEPT ![i] = row]
  BY DEF Report!EditInvoice, OnFile
<1>2. PICK row \in Report!Corrections(filed[i]) : filed' = [filed EXCEPT ![i] = row]
  BY <1>1
<1>3. row \in Filed
  BY CorrectionsAre DEF ReportInv, FiledFits
<1>4. 0 <= row.total
  BY <1>3, Bounds DEF Filed
<1> QED
  BY <1>1, <1>2, <1>3, <1>4, RowKeeps

(* A bill that is put off is still the bill it was. *)
LEMMA MoveDueKeeps ==
  ASSUME Report!FiguresAssumption, ReportInv, Report!MoveDueDate
  PROVE  ReportInv'
<1>1. PICK i \in OnFile, due \in DueDays : filed' = [filed EXCEPT ![i].due = due] /\ UNCHANGED <<receipts, today>>
  BY DEF Report!MoveDueDate, OnFile
<1>2. filed[i] \in Filed /\ due \in 0 .. Report!NoDay - 1
  BY Bounds DEF ReportInv, FiledFits
<1>3. PICK row : row = [filed[i] EXCEPT !.due = due]
  OBVIOUS
<1>4. row \in Filed /\ row.total = filed[i].total /\ row.voided = filed[i].voided
  BY <1>2, <1>3 DEF Filed
<1>5. filed' = [filed EXCEPT ![i] = row] /\ receipts' = receipts /\ today' = today
  BY <1>1, <1>3
<1>6. Report!Paid(i) <= row.total /\ (row.voided => Report!Paid(i) = 0)
  BY <1>4, RowIs
<1> QED
  BY <1>2, <1>4, <1>5, <1>6, RowKeeps

(* A receipt that is taken back leaves no more paid than there was. *)
LEMMA VoidPaymentKeeps ==
  ASSUME Report!FiguresAssumption, ReportInv, Report!VoidPayment
  PROVE  ReportInv'
<1>1. PICK p \in DOMAIN receipts :
        receipts' = [q \in DOMAIN receipts \ {p} |-> receipts[q]] /\ filed' = filed /\ today' = today
  BY DEF Report!VoidPayment
<1>2. DOMAIN receipts' = DOMAIN receipts \ {p} /\ \A q \in DOMAIN receipts' : receipts'[q] = receipts[q]
  BY <1>1
<1>3. FiledFits' /\ ReceiptsFit' /\ today' \in Report!Days
  BY <1>1, <1>2 DEF ReportInv, FiledFits, ReceiptsFit, OnFile, Received, Filed, Receipt, Report!Days,
                    Report!Parties, Report!NoDay
<1>4. ASSUME NEW j PROVE Report!Paid(j)' \in Nat /\ Report!Paid(j)' <= Report!Paid(j)
  <2>1. IsFiniteSet(DOMAIN receipts) /\ \A q \in DOMAIN receipts : receipts[q] \in Receipt
    BY Bounds, FS_Subset DEF ReportInv, ReceiptsFit, Received
  <2>2. PaidOf(receipts', j) \in Nat /\ PaidOf(receipts', j) <= PaidOf(receipts, j)
    BY <1>1, <2>1, PaidOfSome, DOMAIN receipts \ {p} \in SUBSET DOMAIN receipts
  <2> QED
    BY <1>3, <2>2, PaidIsPaidOf DEF ReportInv
<1>5. PaidFits'
  <2> SUFFICES ASSUME NEW j \in OnFile
               PROVE  /\ Report!Paid(j)' \in 0 .. filed[j].total
                      /\ filed[j].voided => Report!Paid(j)' = 0
    BY <1>1 DEF PaidFits, OnFile
  <2>1. /\ Report!Paid(j) \in 0 .. filed[j].total /\ filed[j].total \in Nat
        /\ filed[j].voided => Report!Paid(j) = 0
    BY RowIs DEF ReportInv, PaidFits
  <2> QED
    BY <1>4, <2>1
<1> QED
  BY <1>3, <1>5 DEF ReportInv, Report!Days

(* A receipt of another day or amount does not exceed what the others leave. *)
LEMMA EditPaymentKeeps ==
  ASSUME Report!FiguresAssumption, ReportInv, Report!EditPayment
  PROVE  ReportInv'
<1>1. PICK p \in Received :
        /\ \/ \E amount \in 1 .. Report!Outstanding(receipts[p].invoice) + receipts[p].amount :
                receipts' = [receipts EXCEPT ![p].amount = amount]
           \/ \E date \in Report!Days : receipts' = [receipts EXCEPT ![p].date = date]
        /\ UNCHANGED <<filed, today>>
  BY DEF Report!EditPayment, Received
<1>2. PICK i, rest : i = receipts[p].invoice /\ rest = [q \in Received \ {p} |-> receipts[q]]
  OBVIOUS
<1>3. /\ receipts[p] \in Receipt /\ i \in OnFile /\ i \in FiledIds /\ receipts[p].amount \in Nat
      /\ receipts[p].amount > 0
      /\ IsFiniteSet(Received) /\ IsFiniteSet(DOMAIN rest) /\ DOMAIN rest = Received \ {p}
      /\ \A q \in DOMAIN rest : rest[q] \in Receipt /\ rest[q] = receipts[q]
  BY <1>2, Bounds, FS_Subset DEF ReportInv, ReceiptsFit, FiledFits, Receipt
<1>4. /\ Report!Outstanding(i) \in Nat /\ Report!Outstanding(i) = filed[i].total - Report!Paid(i)
      /\ Report!Paid(i) \in Nat /\ filed[i].total \in Nat /\ (filed[i].voided => Report!Paid(i) = 0)
  BY <1>3, RowIs
<1>5. \E r \in Receipt : /\ r.invoice = i /\ r.amount <= Report!Outstanding(i) + receipts[p].amount
                         /\ receipts' = [receipts EXCEPT ![p] = r]
  <2>1. CASE \E amount \in 1 .. Report!Outstanding(i) + receipts[p].amount :
               receipts' = [receipts EXCEPT ![p].amount = amount]
    <3>1. PICK amount \in 1 .. Report!Outstanding(i) + receipts[p].amount :
            receipts' = [receipts EXCEPT ![p].amount = amount]
      BY <2>1
    <3>2. PICK r : r = [receipts[p] EXCEPT !.amount = amount]
      OBVIOUS
    <3>3. r \in Receipt /\ r.invoice = i /\ r.amount = amount
      BY <1>2, <1>3, <1>4, <3>2 DEF Receipt
    <3>4. receipts' = [receipts EXCEPT ![p] = r]
      BY <3>1, <3>2
    <3>5. r.amount <= Report!Outstanding(i) + receipts[p].amount
      BY <1>3, <1>4, <3>3
    <3> QED
      BY <3>3, <3>4, <3>5
  <2>2. CASE \E date \in Report!Days : receipts' = [receipts EXCEPT ![p].date = date]
    <3>1. PICK date \in Report!Days : receipts' = [receipts EXCEPT ![p].date = date]
      BY <2>2
    <3>2. PICK r : r = [receipts[p] EXCEPT !.date = date]
      OBVIOUS
    <3>3. r \in Receipt /\ r.invoice = i /\ r.amount = receipts[p].amount
      BY <1>2, <1>3, <3>2 DEF Receipt
    <3>4. receipts' = [receipts EXCEPT ![p] = r]
      BY <3>1, <3>2
    <3>5. r.amount <= Report!Outstanding(i) + receipts[p].amount
      BY <1>3, <1>4, <3>3
    <3> QED
      BY <3>3, <3>4, <3>5
  <2> QED
    BY <1>1, <1>2, <2>1, <2>2
<1>6. PICK r \in Receipt : /\ r.invoice = i /\ r.amount <= Report!Outstanding(i) + receipts[p].amount
                           /\ receipts' = [receipts EXCEPT ![p] = r]
  BY <1>5
<1>7. /\ DOMAIN receipts' = DOMAIN receipts /\ receipts'[p] = r
      /\ \A q \in DOMAIN receipts : q # p => receipts'[q] = receipts[q]
      /\ filed' = filed /\ today' = today
  BY <1>1, <1>6 DEF Received
<1>8. FiledFits' /\ ReceiptsFit' /\ today' \in Report!Days
  BY <1>3, <1>6, <1>7 DEF ReportInv, FiledFits, ReceiptsFit, OnFile, Received, Filed, Receipt, Report!Days,
                          Report!Parties, Report!NoDay
<1>9. ASSUME NEW j
      PROVE  /\ Report!Paid(j) = PaidOf(rest, j) + (IF j = i THEN receipts[p].amount ELSE 0)
             /\ Report!Paid(j)' = PaidOf(rest, j) + (IF j = i THEN r.amount ELSE 0)
             /\ PaidOf(rest, j) \in Nat
  <2>1. PICK old : old = [q \in DOMAIN rest \cup {p} |-> IF q = p THEN receipts[p] ELSE rest[q]]
    OBVIOUS
  <2>2. /\ DOMAIN rest \cup {p} = DOMAIN receipts /\ p \notin DOMAIN rest
        /\ DOMAIN old = DOMAIN receipts /\ \A q \in DOMAIN receipts : old[q] = receipts[q]
    BY <1>3, <2>1 DEF Received
  <2>3. receipts' = [q \in DOMAIN rest \cup {p} |-> IF q = p THEN r ELSE rest[q]]
    BY <1>3, <1>6, <2>2
  <2>4. IsFiniteSet(DOMAIN rest) /\ \A q \in DOMAIN rest : rest[q] \in Receipt
    BY <1>3
  <2>5. PaidOf(receipts, j) = PaidOf(rest, j) + (IF j = i THEN receipts[p].amount ELSE 0)
    <3>1. PICK one \in Receipt : one = receipts[p] /\ one.invoice = i
      BY <1>2, <1>3
    <3>2. old = [q \in DOMAIN rest \cup {p} |-> IF q = p THEN one ELSE rest[q]]
      BY <2>1, <3>1
    <3>3. PaidOf(old, j) = PaidOf(rest, j) + (IF j = one.invoice THEN one.amount ELSE 0)
      BY <2>2, <2>4, <3>2, PaidWithOne
    <3>4. ForIn(old, j) = ForIn(receipts, j)
      BY <2>2 DEF ForIn
    <3>5. [q \in DOMAIN old |-> old[q].amount] = [q \in DOMAIN receipts |-> receipts[q].amount]
      BY <2>2
    <3>6. PaidOf(old, j) = PaidOf(receipts, j)
      BY <3>4, <3>5 DEF PaidOf
    <3> QED
      BY <3>1, <3>3, <3>6
  <2>6. PaidOf(receipts', j) = PaidOf(rest, j) + (IF j = i THEN r.amount ELSE 0)
    <3>1. PICK after : after = receipts'
      OBVIOUS
    <3>2. PaidOf(after, j) = PaidOf(rest, j) + (IF j = r.invoice THEN r.amount ELSE 0)
      BY <2>2, <2>3, <2>4, <3>1, PaidWithOne
    <3> QED
      BY <1>6, <3>1, <3>2
  <2>7. PaidOf(rest, j) \in Nat
    BY <1>3, PaidOfIs
  <2> QED
    BY <1>8, <2>5, <2>6, <2>7, PaidIsPaidOf DEF ReportInv
<1>10. PaidFits'
  <2> SUFFICES ASSUME NEW j \in OnFile
               PROVE  /\ Report!Paid(j)' \in 0 .. filed[j].total
                      /\ filed[j].voided => Report!Paid(j)' = 0
    BY <1>7 DEF PaidFits, OnFile
  <2>1. CASE j = i
    <3>1. Report!Paid(i) = PaidOf(rest, i) + receipts[p].amount /\ Report!Paid(i)' = PaidOf(rest, i) + r.amount
          /\ PaidOf(rest, i) \in Nat
      BY <1>9
    <3>2. r.amount \in Nat
      BY DEF Receipt
    <3> QED
      BY <1>3, <1>4, <1>6, <2>1, <3>1, <3>2
  <2>2. CASE j # i
    <3>1. Report!Paid(j)' = Report!Paid(j)
      BY <1>9, <2>2
    <3> QED
      BY <3>1 DEF ReportInv, PaidFits
  <2> QED
    BY <2>1, <2>2
<1> QED
  BY <1>8, <1>10 DEF ReportInv, Report!Days

(* Invoices are deleted with their receipts. *)
LEMMA DeleteKeeps ==
  ASSUME Report!FiguresAssumption, ReportInv, Report!Delete
  PROVE  ReportInv'
<1>1. PICK gone : /\ filed' = [i \in DOMAIN filed \ gone |-> filed[i]]
                  /\ receipts' = [p \in {q \in DOMAIN receipts : receipts[q].invoice \notin gone} |-> receipts[p]]
                  /\ today' = today
  BY DEF Report!Delete
<1>2. PICK Kept : Kept = {q \in DOMAIN receipts : receipts[q].invoice \notin gone}
  OBVIOUS
<1>3. /\ DOMAIN filed' = DOMAIN filed \ gone /\ \A i \in DOMAIN filed' : filed'[i] = filed[i]
      /\ DOMAIN receipts' = Kept /\ Kept \in SUBSET DOMAIN receipts /\ \A q \in Kept : receipts'[q] = receipts[q]
  BY <1>1, <1>2
<1>4. FiledFits' /\ ReceiptsFit' /\ today' \in Report!Days
  BY <1>1, <1>2, <1>3 DEF ReportInv, FiledFits, ReceiptsFit, OnFile, Received, Filed, Receipt, Report!Days,
                          Report!Parties, Report!NoDay
<1>5. ASSUME NEW j PROVE Report!Paid(j)' \in Nat /\ Report!Paid(j)' <= Report!Paid(j)
  <2>1. IsFiniteSet(DOMAIN receipts) /\ \A q \in DOMAIN receipts : receipts[q] \in Receipt
    BY Bounds, FS_Subset DEF ReportInv, ReceiptsFit, Received
  <2>2. receipts' = [q \in Kept |-> receipts[q]]
    BY <1>1, <1>2
  <2>3. PaidOf(receipts', j) \in Nat /\ PaidOf(receipts', j) <= PaidOf(receipts, j)
    BY <1>3, <2>1, <2>2, PaidOfSome
  <2> QED
    BY <1>4, <2>3, PaidIsPaidOf DEF ReportInv
<1>6. PaidFits'
  <2> SUFFICES ASSUME NEW j \in OnFile, j \in DOMAIN filed'
               PROVE  /\ Report!Paid(j)' \in 0 .. filed[j].total
                      /\ filed[j].voided => Report!Paid(j)' = 0
    BY <1>3 DEF PaidFits, OnFile
  <2>1. /\ Report!Paid(j) \in 0 .. filed[j].total /\ filed[j].total \in Nat
        /\ filed[j].voided => Report!Paid(j) = 0
    BY RowIs DEF ReportInv, PaidFits
  <2> QED
    BY <1>5, <2>1
<1> QED
  BY <1>4, <1>6 DEF ReportInv, Report!Days

(* Every step keeps the invariant. *)
LEMMA ReportStep ==
  ASSUME Report!FiguresAssumption PROVE ReportInv /\ [Report!Next]_(Report!vars) => ReportInv'
<1> SUFFICES ASSUME ReportInv, [Report!Next]_(Report!vars) PROVE ReportInv'
  OBVIOUS
<1>1. CASE Report!NextDay \/ UNCHANGED Report!vars
  <2>1. filed' = filed /\ receipts' = receipts /\ today' \in Report!Days /\ today <= today'
    BY <1>1, Bounds DEF Report!NextDay, Report!vars, ReportInv, Report!Days
  <2>2. FiledFits' /\ ReceiptsFit'
    BY <2>1, Bounds DEF ReportInv, FiledFits, ReceiptsFit, OnFile, Received, Filed, Receipt, Report!Days,
                Report!Parties, Report!NoDay
  <2>3. PaidFits'
    BY <2>1 DEF ReportInv, PaidFits, OnFile, Report!Paid, Report!PaidOn, Report!SumOver, Report!Days
  <2> QED
    BY <2>1, <2>2, <2>3 DEF ReportInv, Report!Days
<1> QED
  BY <1>1, RaiseKeeps, RecordPaymentKeeps, VoidOrderKeeps, VoidPaymentKeeps, EditInvoiceKeeps, EditPaymentKeeps,
     MoveDueKeeps, DeleteKeeps DEF Report!Next

(* The sums the reports take, over rows on file. *)
LEMMA SumsAre ==
  ASSUME Report!FiguresAssumption, ReportInv, NEW S, S \subseteq OnFile
  PROVE  /\ IsFiniteSet(S)
         /\ Report!SumFunctionOnSet([i \in S |-> Report!Outstanding(i)], S) = SumFunctionOnSet(Owed, S)
         /\ Report!SumFunctionOnSet([i \in S |-> filed[i].total], S) = SumFunctionOnSet(Worth, S)
         /\ Report!SumFunctionOnSet([i \in S |-> Report!Paid(i)], S) = SumFunctionOnSet(PaidIn(Report!Days), S)
         /\ \A D : /\ Report!SumFunctionOnSet([i \in S |-> Report!PaidOn(i, D)], S) = SumFunctionOnSet(PaidIn(D), S)
                   /\ SumFunctionOnSet(PaidIn(D), S) \in Int
         /\ SumFunctionOnSet(Owed, S) \in Nat /\ SumFunctionOnSet(Worth, S) \in Int
<1>1. IsFiniteSet(S)
  BY OpenIs, FS_Subset
<1>2. \A i \in S : Owed[i] = Report!Outstanding(i) /\ Owed[i] \in Nat /\ Worth[i] = filed[i].total /\ Worth[i] \in Int
                   /\ PaidIn(Report!Days)[i] = Report!Paid(i)
  <2> TAKE i \in S
  <2>1. i \in OnFile
    OBVIOUS
  <2> QED
    BY <2>1, RowIs
<1>3. \A D : \A i \in S : PaidIn(D)[i] = Report!PaidOn(i, D) /\ PaidIn(D)[i] \in Int
  <2> TAKE D
  <2> TAKE i \in S
  <2>1. i \in OnFile /\ Report!PaidOn(i, D) \in Nat
    BY PaidOnIs DEF ReportInv
  <2> QED
    BY <2>1 DEF PaidIn
<1>4. SumFunctionOnSet([i \in S |-> Report!Outstanding(i)], S) = SumFunctionOnSet(Owed, S)
  BY <1>1, <1>2, SumsAreEqual
<1>5. SumFunctionOnSet([i \in S |-> filed[i].total], S) = SumFunctionOnSet(Worth, S)
  BY <1>1, <1>2, SumsAreEqual
<1>6. SumFunctionOnSet([i \in S |-> Report!Paid(i)], S) = SumFunctionOnSet(PaidIn(Report!Days), S)
  BY <1>1, <1>2, SumsAreEqual
<1>7. \A D : SumFunctionOnSet([i \in S |-> Report!PaidOn(i, D)], S) = SumFunctionOnSet(PaidIn(D), S)
             /\ SumFunctionOnSet(PaidIn(D), S) \in Int
  <2> TAKE D
  <2> QED
    BY <1>1, <1>3, SumsAreEqual, SumIsInteger
<1>8. SumFunctionOnSet(Owed, S) \in Nat /\ SumFunctionOnSet(Worth, S) \in Int
  BY <1>1, <1>2, SumOfSome, SumIsInteger
<1> QED
  BY <1>1, <1>4, <1>5, <1>6, <1>7, <1>8, ReportSum

(* What a party owes is the sum over its invoices, open or not. *)
LEMMA OwedIs ==
  ASSUME Report!FiguresAssumption, ReportInv, NEW S
  PROVE  /\ Report!SumFunctionOnSet([i \in Report!Open(S) |-> Report!Outstanding(i)], Report!Open(S))
              = SumFunctionOnSet(Owed, Report!Live(S))
         /\ SumFunctionOnSet(Owed, Report!Open(S)) = SumFunctionOnSet(Owed, Report!Live(S))
         /\ Report!Open(S) \subseteq Report!Live(S) /\ Report!Live(S) \subseteq OnFile
         /\ IsFiniteSet(Report!Open(S)) /\ IsFiniteSet(Report!Live(S))
<1>1. /\ Report!Open(S) \in SUBSET Report!Live(S) /\ Report!Live(S) \subseteq OnFile /\ Report!Open(S) \subseteq OnFile
      /\ IsFiniteSet(Report!Open(S)) /\ IsFiniteSet(Report!Live(S))
  BY OpenIs
<1>2. \A i \in Report!Open(S) : Owed[i] \in Int
  BY <1>1, RowIs
<1>3. \A i \in Report!Live(S) \ Report!Open(S) : Owed[i] = 0
  <2> SUFFICES ASSUME NEW i \in Report!Live(S) \ Report!Open(S) PROVE Owed[i] = 0
    OBVIOUS
  <2>1. i \in OnFile /\ ~ (Report!Outstanding(i) > 0)
    BY OpenIs
  <2> QED
    BY <2>1, RowIs
<1>4. SumFunctionOnSet(Owed, Report!Live(S)) = SumFunctionOnSet(Owed, Report!Open(S))
  BY <1>1, <1>2, <1>3, SumOfTheRest
<1> QED
  BY <1>1, <1>4, SumsAre

(* What CalculatePartyOutstanding tells. *)
LEMMA PartyOwes ==
  ASSUME Report!FiguresAssumption, ReportInv, NEW p
  PROVE  /\ Report!CalculatePartyOutstanding(p) = SumFunctionOnSet(Owed, Report!Live({p}))
         /\ Report!CalculatePartyOutstanding(p) = SumFunctionOnSet(Owed, Report!Open({p}))
         /\ Report!CalculatePartyOutstanding(p) \in Nat
<1>1. Report!CalculatePartyOutstanding(p)
        = Report!SumFunctionOnSet([i \in Report!Open({p}) |-> Report!Outstanding(i)], Report!Open({p}))
  BY DEF Report!CalculatePartyOutstanding, Report!SumOver
<1> QED
  BY <1>1, OwedIs, SumsAre

(* The entries of some days. *)
Dated(p, D) == {i \in Report!Live({p}) : filed[i].date \in D}

(* A statement's entries are the invoices of the days and what was paid in them. *)
LEMMA EntriesAre ==
  ASSUME Report!FiguresAssumption, ReportInv, NEW p, NEW D
  PROVE  /\ Report!Entries(p, D) = SumFunctionOnSet(Worth, Dated(p, D)) - SumFunctionOnSet(PaidIn(D), Report!Live({p}))
         /\ SumFunctionOnSet(Worth, Dated(p, D)) \in Int
         /\ SumFunctionOnSet(PaidIn(D), Report!Live({p})) \in Int
         /\ IsFiniteSet(Dated(p, D)) /\ Report!Entries(p, D) \in Int
<1>1. Dated(p, D) \subseteq OnFile /\ Report!Live({p}) \subseteq OnFile
  BY OpenIs DEF Dated
<1>2. Report!Entries(p, D)
        = Report!SumFunctionOnSet([i \in Dated(p, D) |-> filed[i].total], Dated(p, D))
          - Report!SumFunctionOnSet([i \in Report!Live({p}) |-> Report!PaidOn(i, D)], Report!Live({p}))
  BY DEF Report!Entries, Report!SumOver, Dated
<1>3. /\ Report!Entries(p, D) = SumFunctionOnSet(Worth, Dated(p, D)) - SumFunctionOnSet(PaidIn(D), Report!Live({p}))
      /\ SumFunctionOnSet(Worth, Dated(p, D)) \in Int
      /\ SumFunctionOnSet(PaidIn(D), Report!Live({p})) \in Int
      /\ IsFiniteSet(Dated(p, D))
  BY <1>1, <1>2, SumsAre
<1>4. Report!Entries(p, D) \in Int
  BY <1>3
<1> QED
  BY <1>3, <1>4

(* Entries of some days and of others add up. *)
LEMMA EntriesAdd ==
  ASSUME Report!FiguresAssumption, ReportInv, NEW p, NEW D, NEW E, D \cap E = {}
  PROVE  Report!Entries(p, D \cup E) = Report!Entries(p, D) + Report!Entries(p, E)
<1>1. PICK all, one, other, live :
        all = Dated(p, D \cup E) /\ one = Dated(p, D) /\ other = Dated(p, E) /\ live = Report!Live({p})
  OBVIOUS
<1>2. one \in SUBSET all /\ all \ one = other /\ live \subseteq OnFile /\ all \subseteq OnFile
      /\ IsFiniteSet(all) /\ IsFiniteSet(live)
  BY <1>1, OpenIs, EntriesAre DEF Dated
<1>3. \A i \in all : Worth[i] \in Int
  BY <1>2, RowIs
<1>4. SumFunctionOnSet(Worth, all) = SumFunctionOnSet(Worth, one) + SumFunctionOnSet(Worth, other)
  BY <1>2, <1>3, SumOfBoth
<1>5. \A i \in live : /\ PaidIn(D)[i] \in Int /\ PaidIn(E)[i] \in Int
                      /\ PaidIn(D \cup E)[i] = PaidIn(D)[i] + PaidIn(E)[i]
  <2> SUFFICES ASSUME NEW i \in live
               PROVE  /\ PaidIn(D)[i] \in Int /\ PaidIn(E)[i] \in Int
                      /\ PaidIn(D \cup E)[i] = PaidIn(D)[i] + PaidIn(E)[i]
    OBVIOUS
  <2>1. i \in OnFile /\ Report!PaidOn(i, D) \in Int /\ Report!PaidOn(i, E) \in Int
    BY <1>2, PaidOnIs DEF ReportInv
  <2>2. Report!PaidOn(i, D \cup E) = Report!PaidOn(i, D) + Report!PaidOn(i, E)
    BY PaidOnAdds DEF ReportInv
  <2> QED
    BY <2>1, <2>2 DEF PaidIn
<1>6. SumFunctionOnSet(PaidIn(D \cup E), live) = SumFunctionOnSet(PaidIn(D), live) + SumFunctionOnSet(PaidIn(E), live)
  BY <1>2, <1>5, SumsAddUp
<1>7. /\ Report!Entries(p, D \cup E) = SumFunctionOnSet(Worth, all) - SumFunctionOnSet(PaidIn(D \cup E), live)
      /\ Report!Entries(p, D) = SumFunctionOnSet(Worth, one) - SumFunctionOnSet(PaidIn(D), live)
      /\ Report!Entries(p, E) = SumFunctionOnSet(Worth, other) - SumFunctionOnSet(PaidIn(E), live)
      /\ SumFunctionOnSet(Worth, one) \in Int /\ SumFunctionOnSet(Worth, other) \in Int
      /\ SumFunctionOnSet(PaidIn(D), live) \in Int /\ SumFunctionOnSet(PaidIn(E), live) \in Int
  BY <1>1, EntriesAre
<1> QED
  BY <1>4, <1>6, <1>7

(* In no days there is no entry. *)
LEMMA EntriesNone ==
  ASSUME Report!FiguresAssumption, ReportInv, NEW p PROVE Report!Entries(p, {}) = 0
<1>1. Dated(p, {}) = {}
  BY DEF Dated
<1>2. \A i \in Report!Live({p}) : PaidIn({})[i] = 0
  <2> SUFFICES ASSUME NEW i \in Report!Live({p}) PROVE PaidIn({})[i] = 0
    OBVIOUS
  <2>1. i \in OnFile /\ Report!PaidOn(i, {}) = 0
    BY OpenIs, PaidOnNone DEF ReportInv
  <2> QED
    BY <2>1 DEF PaidIn
<1>3. SumFunctionOnSet(PaidIn({}), Report!Live({p})) = 0
  BY <1>2, OpenIs, SumOfNothing
<1> QED
  BY <1>1, <1>3, EntriesAre, SumEmpty

(* The entries of all days are what is owed. *)
LEMMA EntriesOfAll ==
  ASSUME Report!FiguresAssumption, ReportInv, NEW p
  PROVE  Report!Entries(p, Report!Days) = Report!CalculatePartyOutstanding(p)
<1>1. PICK live : live = Report!Live({p})
  OBVIOUS
<1>2. live \subseteq OnFile /\ IsFiniteSet(live)
  BY <1>1, OpenIs
<1>3. Dated(p, Report!Days) = live
  <2>1. \A i \in live : filed[i].date \in Report!Days
    BY <1>2 DEF ReportInv, FiledFits, Filed
  <2> QED
    BY <1>1, <2>1 DEF Dated
<1>4. \A i \in live : /\ Worth[i] \in Int /\ PaidIn(Report!Days)[i] \in Int
                      /\ Owed[i] = Worth[i] - PaidIn(Report!Days)[i]
  <2> SUFFICES ASSUME NEW i \in OnFile
               PROVE  /\ Worth[i] \in Int /\ PaidIn(Report!Days)[i] \in Int
                      /\ Owed[i] = Worth[i] - PaidIn(Report!Days)[i]
    BY <1>2
  <2> QED
    BY RowIs
<1>5. SumFunctionOnSet(Owed, live) = SumFunctionOnSet(Worth, live) - SumFunctionOnSet(PaidIn(Report!Days), live)
  BY <1>2, <1>4, SumsTakeOff
<1> QED
  BY <1>1, <1>3, <1>5, EntriesAre, PartyOwes

(* Nor do the days matter that have no rows: what is owed is what was    *)
(* entered up to a day, unless something of the party's is dated after it. *)
LEMMA NothingLater ==
  ASSUME Report!FiguresAssumption, ReportInv, NEW p, NEW n \in 0 .. LastFiledDay, ~ Report!DatedAfter(p, n)
  PROVE  /\ Report!Entries(p, 1 .. n) = Report!CalculatePartyOutstanding(p)
         /\ \A i \in Report!Live({p}) : ~ (filed[i].date > n)
<1>1. PICK D, E, live : D = 1 .. n /\ E = (n + 1) .. LastFiledDay /\ live = Report!Live({p})
  OBVIOUS
<1>2. n \in Nat /\ LastFiledDay \in Nat /\ D \cap E = {} /\ D \cup E = Report!Days
  <2>1. n \in Nat /\ LastFiledDay \in Nat /\ n <= LastFiledDay
    BY Bounds
  <2> QED
    BY <1>1, <2>1 DEF Report!Days
<1>3. \A i \in live : i \in OnFile /\ ~ (filed[i].date > n) /\ Report!PaidOn(i, E) = 0
  <2>1. \A i \in live : ~ (filed[i].date > n) /\ Report!PaidOn(i, E) = 0
    BY <1>1 DEF Report!DatedAfter
  <2> QED
    BY <1>1, <2>1, OpenIs
<1>4. Dated(p, E) = {}
  <2>1. \A i \in live : filed[i].date \notin E
    <3> TAKE i \in live
    <3>1. ~ (filed[i].date > n)
      BY <1>3
    <3>2. \A e \in E : e > n
      BY <1>1, <1>2
    <3> QED
      BY <3>1, <3>2
  <2> QED
    BY <1>1, <2>1 DEF Dated
<1>5. SumFunctionOnSet(PaidIn(E), live) = 0
  <2>1. \A i \in live : PaidIn(E)[i] = 0
    BY <1>3 DEF PaidIn
  <2> QED
    BY <1>1, <2>1, OpenIs, SumOfNothing
<1>6. Report!Entries(p, E) = 0
  <2>1. SumFunctionOnSet(Worth, Dated(p, E)) = 0
    BY <1>4, SumEmpty
  <2>2. Report!Entries(p, E) = SumFunctionOnSet(Worth, Dated(p, E)) - SumFunctionOnSet(PaidIn(E), live)
    BY <1>1, EntriesAre
  <2> QED
    BY <1>5, <2>1, <2>2
<1>7. Report!Entries(p, D \cup E) = Report!Entries(p, D) + Report!Entries(p, E)
  BY <1>2, EntriesAdd
<1>8. Report!Entries(p, D) \in Int
  BY EntriesAre
<1>9. Report!Entries(p, D) = Report!CalculatePartyOutstanding(p)
  BY <1>2, <1>6, <1>7, <1>8, EntriesOfAll
<1> QED
  BY <1>1, <1>3, <1>9

(* The entries up to a day are what was owed on it, but for what was paid on *)
(* invoices that are of a later day.                                         *)
LEMMA EntriesAsOf ==
  ASSUME Report!FiguresAssumption, ReportInv, NEW p, NEW n \in Int
  PROVE  /\ Report!Entries(p, 1 .. n) = Report!OutstandingAsOf(p, n) - Report!Advances(p, n)
         /\ Report!OutstandingAsOf(p, n) \in Int /\ Report!Advances(p, n) \in Int
         /\ (\A i \in Report!Live({p}) : ~ (filed[i].date > n)) => Report!Advances(p, n) = 0
<1>1. PICK live, old, new : live = Report!Live({p}) /\ old = Dated(p, 1 .. n)
                            /\ new = {i \in Report!Live({p}) : filed[i].date > n}
  OBVIOUS
<1>2. \A i \in live : i \in OnFile /\ filed[i].date \in Nat /\ filed[i].date >= 1
  <2> SUFFICES ASSUME NEW i \in live
               PROVE  i \in OnFile /\ filed[i].date \in Nat /\ filed[i].date >= 1
    OBVIOUS
  <2>1. i \in OnFile
    BY <1>1, OpenIs
  <2> QED
    BY <2>1, RowIs DEF ReportInv, Report!Days
<1>3. /\ old = {i \in live : filed[i].date <= n} /\ old \in SUBSET live /\ live \ old = new
      /\ new \subseteq OnFile /\ old \subseteq OnFile /\ live \subseteq OnFile
  <2>1. old = {i \in live : filed[i].date \in 1 .. n} /\ new = {i \in live : filed[i].date > n}
    BY <1>1 DEF Dated
  <2>2. \A i \in live : /\ filed[i].date \in 1 .. n <=> filed[i].date <= n
                        /\ filed[i].date > n <=> ~ (filed[i].date <= n)
    BY <1>2
  <2>3. old = {i \in live : filed[i].date <= n}
    BY <2>1, <2>2
  <2>4. old \in SUBSET live /\ live \ old = new
    BY <2>1, <2>2
  <2>5. live \subseteq OnFile
    BY <1>2
  <2> QED
    BY <2>1, <2>3, <2>4, <2>5
<1>4. IsFiniteSet(live) /\ IsFiniteSet(old) /\ IsFiniteSet(new)
  BY <1>1, <1>3, OpenIs, FS_Subset
<1> DEFINE Given == PaidIn(1 .. n)
           Rest == [i \in old |-> filed[i].total - Report!PaidOn(i, 1 .. n)]
<1>5. \A i \in OnFile : Given[i] = Report!PaidOn(i, 1 .. n) /\ Given[i] \in Int /\ Worth[i] \in Int /\ Worth[i] = filed[i].total
  <2> TAKE i \in OnFile
  <2>1. Report!PaidOn(i, 1 .. n) \in Nat
    BY PaidOnIs DEF ReportInv
  <2> QED
    BY <2>1, RowIs DEF PaidIn
<1> HIDE DEF Given
<1>6. SumFunctionOnSet(Given, live) = SumFunctionOnSet(Given, old) + SumFunctionOnSet(Given, new)
  BY <1>3, <1>4, <1>5, SumOfBoth
<1>7. \A i \in old : Worth[i] \in Int /\ Given[i] \in Int /\ Rest[i] = Worth[i] - Given[i]
  BY <1>3, <1>5
<1>8. SumFunctionOnSet(Rest, old) = SumFunctionOnSet(Worth, old) - SumFunctionOnSet(Given, old)
  BY <1>4, <1>7, SumsTakeOff
<1>9. Report!OutstandingAsOf(p, n) = SumFunctionOnSet(Rest, old)
  BY <1>1, <1>3, ReportSum DEF Report!OutstandingAsOf, Report!SumOver
<1>10. Report!Advances(p, n) = SumFunctionOnSet(Given, new)
  <2>1. Report!Advances(p, n) = Report!SumFunctionOnSet([i \in new |-> Report!PaidOn(i, 1 .. n)], new)
    BY <1>1 DEF Report!Advances, Report!SumOver
  <2> QED
    BY <1>3, <2>1, SumsAre DEF Given
<1>11. /\ SumFunctionOnSet(Worth, old) \in Int /\ SumFunctionOnSet(Given, old) \in Int
       /\ SumFunctionOnSet(Given, new) \in Int
  BY <1>3, SumsAre DEF Given
<1>12. Report!Entries(p, 1 .. n) = SumFunctionOnSet(Worth, old) - SumFunctionOnSet(Given, live)
  BY <1>1, EntriesAre DEF Given
<1>13. ASSUME \A i \in Report!Live({p}) : ~ (filed[i].date > n) PROVE Report!Advances(p, n) = 0
  <2>1. new = {}
    BY <1>1, <1>13
  <2> QED
    BY <1>10, <2>1, SumEmpty
<1>14. /\ Report!Entries(p, 1 .. n) = Report!OutstandingAsOf(p, n) - Report!Advances(p, n)
       /\ Report!OutstandingAsOf(p, n) \in Int /\ Report!Advances(p, n) \in Int
  BY <1>6, <1>8, <1>9, <1>10, <1>11, <1>12
<1> QED
  BY <1>13, <1>14

(* A statement opens with the entries before it and closes with those to its end. *)
LEMMA StatementIs ==
  ASSUME Report!FiguresAssumption, ReportInv, NEW p, NEW from \in Int, NEW to \in Int, from >= 1, to >= from - 1
  PROVE  /\ Report!Statement(p, from, to).opening = Report!Entries(p, 1 .. from - 1)
         /\ Report!Statement(p, from, to).closing = Report!Entries(p, 1 .. to)
<1>1. (1 .. from - 1) \cap (from .. to) = {} /\ (1 .. from - 1) \cup (from .. to) = 1 .. to
  OBVIOUS
<1>2. Report!Entries(p, 1 .. to) = Report!Entries(p, 1 .. from - 1) + Report!Entries(p, from .. to)
  BY <1>1, EntriesAdd
<1> QED
  BY <1>2 DEF Report!Statement

(* Statements carry forward, and close with what is owed; a figure of a day  *)
(* is the same unless something is dated after it.                           *)
LEMMA CarriedForward ==
  ASSUME Report!FiguresAssumption, ReportInv, NEW p
  PROVE  /\ Report!StatementsCarryForward(p)
         /\ Report!CalculatePartyOutstanding(p) = Report!OutstandingAsOf(p, LastFiledDay)
         /\ Report!CalculatePartyOutstanding(p) = Report!OutstandingAsOf(p, today) \/ Report!DatedAfter(p, today)
         /\ Report!Statement(p, 1, LastFiledDay).closing = Report!CalculatePartyOutstanding(p)
         /\ \A n \in Int : n <= today =>
              Report!Statement(p, 1, n).closing = Report!OutstandingAsOf(p, n) - Report!Advances(p, n)
<1>1. LastFiledDay \in Nat /\ LastFiledDay > 0 /\ today \in 1 .. LastFiledDay
  BY Bounds DEF ReportInv, Report!Days
<1>2. Report!Entries(p, 1 .. LastFiledDay) = Report!CalculatePartyOutstanding(p)
  BY EntriesOfAll DEF Report!Days
<1>3. Report!StatementsCarryForward(p)
  <2> SUFFICES ASSUME NEW n \in 1 .. LastFiledDay
               PROVE  /\ Report!Statement(p, n + 1, LastFiledDay).opening = Report!Statement(p, 1, n).closing
                      /\ Report!Statement(p, n + 1, LastFiledDay).opening = Report!OutstandingAsOf(p, n) - Report!Advances(p, n)
                      /\ Report!Statement(p, n, LastFiledDay).closing = Report!CalculatePartyOutstanding(p)
    BY DEF Report!StatementsCarryForward, Report!Days
  <2>1. /\ n \in Int /\ n >= 1 /\ n <= LastFiledDay /\ n + 1 \in Int /\ n + 1 >= 1 /\ (n + 1) - 1 = n
        /\ LastFiledDay \in Int /\ 1 \in Int /\ n >= 1 - 1 /\ LastFiledDay >= n - 1 /\ LastFiledDay >= (n + 1) - 1
    BY <1>1
  <2>2. Report!Statement(p, n + 1, LastFiledDay).opening = Report!Entries(p, 1 .. (n + 1) - 1)
    BY <2>1, StatementIs
  <2>3. Report!Statement(p, 1, n).closing = Report!Entries(p, 1 .. n)
    BY <2>1, StatementIs
  <2>4. Report!Statement(p, n, LastFiledDay).closing = Report!Entries(p, 1 .. LastFiledDay)
    BY <2>1, StatementIs
  <2>5. Report!Entries(p, 1 .. n) = Report!OutstandingAsOf(p, n) - Report!Advances(p, n)
    BY <2>1, EntriesAsOf
  <2> QED
    BY <1>2, <2>1, <2>2, <2>3, <2>4, <2>5
<1>4. ASSUME NEW n \in 1 .. LastFiledDay, ~ Report!DatedAfter(p, n)
      PROVE  Report!CalculatePartyOutstanding(p) = Report!OutstandingAsOf(p, n)
  <2>1. /\ Report!Entries(p, 1 .. n) = Report!CalculatePartyOutstanding(p)
        /\ \A i \in Report!Live({p}) : ~ (filed[i].date > n)
    <3>1. n \in 0 .. LastFiledDay
      BY <1>1
    <3> QED
      BY <1>4, <3>1, NothingLater
  <2>2. /\ Report!Entries(p, 1 .. n) = Report!OutstandingAsOf(p, n) - Report!Advances(p, n)
        /\ Report!OutstandingAsOf(p, n) \in Int /\ Report!Advances(p, n) = 0
    <3>1. n \in Int
      BY <1>1
    <3> QED
      BY <2>1, <3>1, EntriesAsOf
  <2> QED
    BY <2>1, <2>2
<1>5. ~ Report!DatedAfter(p, LastFiledDay)
  <2> SUFFICES ASSUME NEW i \in Report!Live({p})
               PROVE  ~ (filed[i].date > LastFiledDay) /\ Report!PaidOn(i, (LastFiledDay + 1) .. LastFiledDay) = 0
    BY DEF Report!DatedAfter
  <2>1. i \in OnFile
    BY OpenIs
  <2>2. filed[i].date \in 1 .. LastFiledDay
    BY <2>1, RowIs DEF Report!Days
  <2>3. (LastFiledDay + 1) .. LastFiledDay = {}
    BY <1>1
  <2> QED
    BY <1>1, <2>2, <2>3, PaidOnNone DEF ReportInv
<1>6. Report!Statement(p, 1, LastFiledDay).closing = Report!CalculatePartyOutstanding(p)
  <2>1. 1 \in Int /\ LastFiledDay \in Int /\ 1 >= 1 /\ LastFiledDay >= 1 - 1
    BY <1>1
  <2>2. Report!Statement(p, 1, LastFiledDay).closing = Report!Entries(p, 1 .. LastFiledDay)
    BY <2>1, StatementIs
  <2> QED
    BY <1>2, <2>2
<1>7. ASSUME NEW n \in Int, n <= today
      PROVE  Report!Statement(p, 1, n).closing = Report!OutstandingAsOf(p, n) - Report!Advances(p, n)
  <2>1. Report!Statement(p, 1, n).closing = Report!Entries(p, 1 .. 1 - 1) + Report!Entries(p, 1 .. n)
    BY DEF Report!Statement
  <2>2. 1 .. 1 - 1 = {}
    OBVIOUS
  <2>3. Report!Entries(p, 1 .. n) = Report!OutstandingAsOf(p, n) - Report!Advances(p, n) /\ Report!Entries(p, 1 .. n) \in Int
    BY EntriesAsOf, EntriesAre
  <2> QED
    BY <2>1, <2>2, <2>3, EntriesNone
<1>8. LastFiledDay \in 1 .. LastFiledDay
  BY <1>1
<1> QED
  BY <1>1, <1>3, <1>4, <1>5, <1>6, <1>7, <1>8

(* The statement a dealer gets of his month closes with what he owes, unless *)
(* something is dated after the month.                                       *)
LEMMA MonthCloses ==
  ASSUME Report!FiguresAssumption, ReportInv, NEW p, NEW first \in 1 .. today, NEW last \in today .. LastFiledDay
  PROVE  \/ Report!DealerStatement(p, first, last).closing = Report!CalculatePartyOutstanding(p)
         \/ Report!DatedAfter(p, last)
<1>1. /\ first \in Int /\ last \in Int /\ first >= 1 /\ last >= first - 1 /\ last \in 0 .. LastFiledDay
  BY Bounds DEF ReportInv, Report!Days
<1>2. Report!DealerStatement(p, first, last).closing = Report!Entries(p, 1 .. last)
  BY <1>1, StatementIs DEF Report!DealerStatement
<1> QED
  BY <1>1, <1>2, NothingLater

(* The days an invoice is overdue fall in one bucket. *)
Bucket == [i \in OnFile |-> Report!BucketFor(today - filed[i].due)]
Party == [i \in OnFile |-> filed[i].party]
InBucket(S, b) == {i \in Report!Open(S) : Bucket[i] = b}

(* A row of the aging is what is owed in each bucket. *)
LEMMA AgingRowIs ==
  ASSUME Report!FiguresAssumption, ReportInv, NEW p, NEW b \in 0 .. 4
  PROVE  Report!AgingRow(p)[b] = SumFunctionOnSet(Owed, InBucket({p}, b)) /\ Report!AgingRow(p)[b] \in Nat
<1>1. \A i \in Report!Open({p}) : i \in OnFile /\ Report!Outstanding(i) > 0
  BY OpenIs
<1>2. {i \in Report!Open({p}) : Report!Outstanding(i) > 0 /\ Report!BucketFor(today - filed[i].due) = b} = InBucket({p}, b)
  BY <1>1 DEF InBucket, Bucket
<1>3. Report!AgingRow(p)[b]
        = Report!SumFunctionOnSet([i \in InBucket({p}, b) |-> Report!Outstanding(i)], InBucket({p}, b))
  BY <1>2 DEF Report!AgingRow, Report!SumOver
<1>4. InBucket({p}, b) \subseteq OnFile
  BY <1>1 DEF InBucket
<1> QED
  BY <1>3, <1>4, SumsAre

(* What is owed by some parties, of the invoices S, adds up party by party. *)
LEMMA OwedByParty ==
  ASSUME Report!FiguresAssumption, ReportInv, NEW P, IsFiniteSet(P), NEW S, S \subseteq Report!Open(P),
         NEW g, \A p \in P : g[p] = SumFunctionOnSet(Owed, {i \in S : filed[i].party = p})
  PROVE  SumFunctionOnSet(g, P) = SumFunctionOnSet(Owed, S)
<1>1. \A i \in S : i \in OnFile /\ filed[i].party \in P /\ Party[i] = filed[i].party
  BY OpenIs DEF Party
<1>2. IsFiniteSet(S) /\ \A i \in S : Owed[i] \in Int /\ Party[i] \in P
  BY <1>1, OpenIs, RowIs, FS_Subset
<1>3. \A p \in P : g[p] = SumFunctionOnSet(Owed, WithKey(S, Party, p))
  <2>1. \A p \in P : {i \in S : filed[i].party = p} = WithKey(S, Party, p)
    BY <1>1 DEF WithKey
  <2> QED
    BY <2>1
<1> QED
  BY <1>2, <1>3, SumByKey

(* The open invoices of one of some parties. *)
LEMMA OpenOfOne ==
  ASSUME Report!FiguresAssumption, ReportInv, NEW P, NEW p \in P
  PROVE  /\ {i \in Report!Open(P) : filed[i].party = p} = Report!Open({p})
         /\ \A b : {i \in InBucket(P, b) : filed[i].party = p} = InBucket({p}, b)
<1>1. {i \in Report!Open(P) : filed[i].party = p} = Report!Open({p})
  BY OpenIs
<1> QED
  BY <1>1 DEF InBucket

(* The buckets take what is owed apart. *)
LEMMA OwedByBucket ==
  ASSUME Report!FiguresAssumption, ReportInv, NEW P,
         NEW g, \A b \in 0 .. 4 : g[b] = SumFunctionOnSet(Owed, InBucket(P, b))
  PROVE  SumFunctionOnSet(g, 0 .. 4) = SumFunctionOnSet(Owed, Report!Open(P))
<1>1. PICK open, buckets : open = Report!Open(P) /\ buckets = 0 .. 4
  OBVIOUS
<1>2. open \subseteq OnFile
  BY <1>1, OpenIs
<1>3. \A i \in open : Bucket[i] \in buckets
  BY <1>1, <1>2 DEF Bucket, Report!BucketFor
<1>4. IsFiniteSet(buckets)
  <2>1. 0 \in Int /\ 4 \in Int
    OBVIOUS
  <2> QED
    BY <1>1, <2>1, FS_Interval
<1>5. \A b \in buckets : g[b] = SumFunctionOnSet(Owed, WithKey(open, Bucket, b))
  BY <1>1 DEF InBucket, WithKey
<1>6. IsFiniteSet(open) /\ \A i \in open : Owed[i] \in Int
  BY <1>1, <1>2, OpenIs, RowIs
<1>7. SumFunctionOnSet(g, buckets) = SumFunctionOnSet(Owed, open)
  BY <1>3, <1>4, <1>5, <1>6, SumByKey
<1> QED
  BY <1>1, <1>7

(* The buckets of a party add up to what it owes. *)
LEMMA AgingAddsUp ==
  ASSUME Report!FiguresAssumption, ReportInv, NEW p
  PROVE  Report!CalculatePartyOutstanding(p)
           = Report!SumFunctionOnSet([b \in 0 .. 4 |-> Report!AgingRow(p)[b]], 0 .. 4)
<1> DEFINE g == [b \in 0 .. 4 |-> Report!AgingRow(p)[b]]
<1>1. \A b \in 0 .. 4 : g[b] = SumFunctionOnSet(Owed, InBucket({p}, b))
  BY AgingRowIs
<1> HIDE DEF g
<1>2. SumFunctionOnSet(g, 0 .. 4) = SumFunctionOnSet(Owed, Report!Open({p}))
  BY <1>1, OwedByBucket
<1> QED
  BY <1>2, PartyOwes, ReportSum DEF g

(* What some parties owe adds up to their open invoices. *)
LEMMA PartiesOwe ==
  ASSUME Report!FiguresAssumption, ReportInv, NEW P, IsFiniteSet(P),
         NEW g, \A p \in P : g[p] = Report!CalculatePartyOutstanding(p)
  PROVE  SumFunctionOnSet(g, P) = SumFunctionOnSet(Owed, Report!Open(P))
<1>1. \A p \in P : g[p] = SumFunctionOnSet(Owed, {i \in Report!Open(P) : filed[i].party = p})
  <2> TAKE p \in P
  <2>1. {i \in Report!Open(P) : filed[i].party = p} = Report!Open({p})
    BY OpenOfOne
  <2>2. g[p] = SumFunctionOnSet(Owed, Report!Open({p}))
    BY PartyOwes
  <2> QED
    BY <2>1, <2>2
<1> QED
  BY <1>1, OwedByParty

(* A side of the books is a finite set of parties. *)
LEMMA SideIs ==
  ASSUME Report!FiguresAssumption
  PROVE  /\ \A d \in Report!Directions : IsFiniteSet(Report!Side(d)) /\ Report!Side(d) \subseteq Report!Parties
         /\ Report!Side("receivable") = Debtors /\ Report!Side("payable") = Creditors
         /\ "receivable" \in Report!Directions /\ "payable" \in Report!Directions
  BY Bounds DEF Report!Directions, Report!Side, Report!Parties

(* The aging's last row adds up to the open invoices of the side. *)
LEMMA AgingReportAddsUp ==
  ASSUME Report!FiguresAssumption, ReportInv, NEW d \in Report!Directions
  PROVE  Report!AgingReport(d).total = SumFunctionOnSet(Owed, Report!Open(Report!Side(d)))
<1>1. PICK P : P = Report!Side(d) /\ IsFiniteSet(P)
  BY SideIs
<1> DEFINE Of(b) == [p \in P |-> Report!AgingRow(p)[b]]
           g == [b \in 0 .. 4 |-> Report!SumFunctionOnSet(Of(b), P)]
<1>2. ASSUME NEW b \in 0 .. 4 PROVE Report!SumFunctionOnSet(Of(b), P) = SumFunctionOnSet(Owed, InBucket(P, b))
  <2>1. \A p \in P : Of(b)[p] = SumFunctionOnSet(Owed, {i \in InBucket(P, b) : filed[i].party = p})
    <3> TAKE p \in P
    <3>1. {i \in InBucket(P, b) : filed[i].party = p} = InBucket({p}, b)
      BY OpenOfOne
    <3>2. Report!AgingRow(p)[b] = SumFunctionOnSet(Owed, InBucket({p}, b))
      BY AgingRowIs
    <3> QED
      BY <3>1, <3>2
  <2>2. InBucket(P, b) \subseteq Report!Open(P)
    BY DEF InBucket
  <2> HIDE DEF Of
  <2>3. SumFunctionOnSet(Of(b), P) = SumFunctionOnSet(Owed, InBucket(P, b))
    BY <1>1, <2>1, <2>2, OwedByParty
  <2> QED
    BY <2>3, ReportSum
<1>3. \A b \in 0 .. 4 : g[b] = SumFunctionOnSet(Owed, InBucket(P, b))
  BY <1>2
<1>4. Report!AgingReport(d).total = Report!SumFunctionOnSet(g, 0 .. 4)
  BY <1>1 DEF Report!AgingReport, Report!SumOver
<1> HIDE DEF g
<1>5. SumFunctionOnSet(g, 0 .. 4) = SumFunctionOnSet(Owed, Report!Open(P))
  BY <1>3, OwedByBucket
<1> QED
  BY <1>1, <1>4, <1>5, ReportSum

(* The snapshot's map of debts, filled up with zeros. *)
LEMMA AllPartiesOwe ==
  ASSUME Report!FiguresAssumption, ReportInv, NEW d \in Report!Directions
  PROVE  /\ \A p \in Report!Side(d) : Report!AllParties(d)[p] = Report!CalculatePartyOutstanding(p)
         /\ Report!TopParties(d) = {p \in Report!Side(d) : Report!CalculatePartyOutstanding(p) > 0}
<1>1. PICK P : P = Report!Side(d)
  OBVIOUS
<1>2. PICK owed : owed = Report!OutstandingForCompany(d)
  OBVIOUS
<1>3. DOMAIN owed = {filed[i].party : i \in Report!Open(P)}
  BY <1>1, <1>2 DEF Report!OutstandingForCompany
<1>4. \A p \in DOMAIN owed : p \in P
  BY <1>3, OpenIs
<1>5. \A p \in DOMAIN owed : owed[p] = Report!CalculatePartyOutstanding(p)
  <2> SUFFICES ASSUME NEW p \in DOMAIN owed PROVE owed[p] = Report!CalculatePartyOutstanding(p)
    OBVIOUS
  <2>1. {i \in Report!Open(P) : filed[i].party = p} = Report!Open({p})
    BY <1>4, OpenOfOne
  <2>2. owed[p] = Report!SumFunctionOnSet([i \in Report!Open({p}) |-> Report!Outstanding(i)], Report!Open({p}))
    BY <1>1, <1>2, <1>3, <2>1 DEF Report!OutstandingForCompany, Report!SumOver
  <2> QED
    BY <2>2 DEF Report!CalculatePartyOutstanding, Report!SumOver
<1>6. \A p \in P \ DOMAIN owed : Report!CalculatePartyOutstanding(p) = 0
  <2> SUFFICES ASSUME NEW p \in P, p \notin DOMAIN owed PROVE Report!CalculatePartyOutstanding(p) = 0
    OBVIOUS
  <2>1. Report!Open({p}) = {}
    BY <1>3, OpenOfOne
  <2> QED
    BY <2>1, PartyOwes, SumEmpty
<1>7. \A p \in P : Report!AllParties(d)[p] = IF p \in DOMAIN owed THEN owed[p] ELSE 0
  BY <1>1, <1>2 DEF Report!AllParties
<1>8. Report!TopParties(d) = {p \in DOMAIN owed : owed[p] > 0}
  BY <1>2 DEF Report!TopParties
<1>9. \A p \in P : Report!CalculatePartyOutstanding(p) > 0 => p \in DOMAIN owed
  BY <1>6
<1>10. {p \in DOMAIN owed : owed[p] > 0} = {p \in P : Report!CalculatePartyOutstanding(p) > 0}
  BY <1>4, <1>5, <1>9
<1> QED
  BY <1>1, <1>5, <1>6, <1>7, <1>8, <1>10

(* The sheets of a side say the same. *)
LEMMA SheetsAgree ==
  ASSUME Report!FiguresAssumption, ReportInv, NEW d \in Report!Directions
  PROVE  /\ Report!PartySheet(d) = SumFunctionOnSet(Owed, Report!Open(Report!Side(d)))
         /\ Report!OpenInvoicesSheet(d) = SumFunctionOnSet(Owed, Report!Open(Report!Side(d)))
         /\ Report!SumFunctionOnSet([p \in Report!TopParties(d) |-> Report!CalculatePartyOutstanding(p)],
                                    Report!TopParties(d))
              = SumFunctionOnSet(Owed, Report!Open(Report!Side(d)))
<1>1. PICK P : P = Report!Side(d) /\ IsFiniteSet(P)
  BY SideIs
<1> DEFINE g == [p \in P |-> Report!AllParties(d)[p]]
           top == Report!TopParties(d)
           h == [p \in top |-> Report!CalculatePartyOutstanding(p)]
<1>2. \A p \in P : g[p] = Report!CalculatePartyOutstanding(p)
  BY <1>1, AllPartiesOwe
<1>3. Report!PartySheet(d) = Report!SumFunctionOnSet(g, P)
  BY <1>1 DEF Report!PartySheet, Report!SumOver
<1>4. top \in SUBSET P /\ \A p \in P \ top : ~ (Report!CalculatePartyOutstanding(p) > 0)
  BY <1>1, AllPartiesOwe
<1>5. \A p \in top : h[p] \in Int /\ h[p] = Report!CalculatePartyOutstanding(p)
  <2> TAKE p \in top
  <2>1. Report!CalculatePartyOutstanding(p) \in Nat
    BY PartyOwes
  <2> QED
    BY <2>1
<1> HIDE DEF g, top, h
<1>6. SumFunctionOnSet(g, P) = SumFunctionOnSet(Owed, Report!Open(P))
  BY <1>1, <1>2, PartiesOwe
<1>7. SumFunctionOnSet(g, P) = SumFunctionOnSet(h, top)
  <2>1. \A p \in top : h[p] \in Int /\ g[p] = h[p]
    BY <1>2, <1>4, <1>5
  <2>2. \A p \in P \ top : g[p] = 0
    <3> SUFFICES ASSUME NEW p \in P, p \notin top PROVE g[p] = 0
      OBVIOUS
    <3>1. g[p] = Report!CalculatePartyOutstanding(p) /\ ~ (Report!CalculatePartyOutstanding(p) > 0)
      BY <1>2, <1>4
    <3>2. Report!CalculatePartyOutstanding(p) \in Nat
      BY PartyOwes
    <3> QED
      BY <3>1, <3>2
  <2> QED
    BY <1>1, <1>4, <2>1, <2>2, SumOfTheRest
<1>8. Report!OpenInvoicesSheet(d) = SumFunctionOnSet(Owed, Report!Open(P))
  BY <1>1, OpenIs, SumsAre DEF Report!OpenInvoicesSheet, Report!SumOver
<1> QED
  BY <1>1, <1>3, <1>6, <1>7, <1>8, ReportSum DEF h, top

(* All invoices are those of the dealers and those of the suppliers. *)
LEMMA InvoicesSheetAddsUp ==
  ASSUME Report!FiguresAssumption, ReportInv
  PROVE  Report!InvoicesSheet.outstanding
           = SumFunctionOnSet(Owed, Report!Open(Debtors)) + SumFunctionOnSet(Owed, Report!Open(Creditors))
<1>1. PICK all, one, other : /\ all = Report!Open(Report!Parties) /\ one = Report!Open(Debtors)
                             /\ other = Report!Open(Creditors)
  OBVIOUS
<1>2. Debtors \cap Creditors = {}
  BY DEF Report!FiguresAssumption
<1>3. one \in SUBSET all /\ all \ one = other /\ IsFiniteSet(all) /\ all \subseteq OnFile
  BY <1>1, <1>2, OpenIs DEF Report!Parties
<1>4. \A i \in all : Owed[i] \in Int
  BY <1>3, RowIs
<1>5. SumFunctionOnSet(Owed, all) = SumFunctionOnSet(Owed, one) + SumFunctionOnSet(Owed, other)
  BY <1>3, <1>4, SumOfBoth
<1>6. Report!InvoicesSheet.outstanding
        = Report!SumFunctionOnSet([i \in Report!Live(Report!Parties) |-> Report!Outstanding(i)], Report!Live(Report!Parties))
  BY DEF Report!InvoicesSheet, Report!SumOver
<1>7. Report!InvoicesSheet.outstanding = SumFunctionOnSet(Owed, Report!Live(Report!Parties))
  BY <1>6, OwedIs, SumsAre
<1> QED
  BY <1>1, <1>5, <1>7, OwedIs

(* The earliest and the latest of some days. *)
LEMMA EarliestIs ==
  ASSUME NEW T, T \subseteq Nat, T # {}
  PROVE  Report!Min(T) \in T /\ \A n \in T : Report!Min(T) <= n
  BY SmallestNumber DEF Report!Min

(* The latest of days that are not after one. *)
LEMMA LatestIs ==
  ASSUME NEW T, NEW last \in Nat, T \subseteq 0 .. last, T # {}
  PROVE  Report!Max(T) \in T /\ \A n \in T : n <= Report!Max(T)
<1>1. {last - n : n \in T} \subseteq Nat /\ {last - n : n \in T} # {}
  OBVIOUS
<1>2. PICK m \in {last - n : n \in T} : \A k \in {last - n : n \in T} : m <= k
  BY <1>1, SmallestNumber
<1>3. PICK x \in T : m = last - x
  BY <1>2
<1>4. \A n \in T : n <= x
  <2> TAKE n \in T
  <2>1. m <= last - n
    BY <1>2
  <2> QED
    BY <1>3, <2>1
<1>5. \E y \in T : \A n \in T : y >= n
  BY <1>3, <1>4
<1> QED
  BY <1>5 DEF Report!Max

(* What is open of a dealer is due on days of the books, and owed. *)
LEMMA OpenIsDue ==
  ASSUME Report!FiguresAssumption, ReportInv, NEW p, NEW i \in Report!Open({p})
  PROVE  /\ i \in OnFile /\ filed[i].due \in Nat /\ filed[i].due < Report!NoDay
         /\ Owed[i] \in Nat /\ Owed[i] > 0
<1>1. i \in OnFile /\ Report!Outstanding(i) > 0
  BY OpenIs
<1> QED
  BY <1>1, RowIs

(* A dealer with something open owes something. *)
LEMMA OpenIsOwed ==
  ASSUME Report!FiguresAssumption, ReportInv, NEW p, NEW first \in Report!Open({p})
  PROVE  Report!CalculatePartyOutstanding(p) > 0
<1>1. PICK open : open = Report!Open({p})
  OBVIOUS
<1>2. IsFiniteSet(open) /\ first \in open /\ \A i \in open : Owed[i] \in Nat
  BY <1>1, OpenIs, OpenIsDue
<1>3. IsFiniteSet(open \ {first}) /\ open \ {first} \in SUBSET open
  BY <1>2, FS_Subset
<1>4. \A i \in open : Owed[i] \in Int
  BY <1>2
<1>5. SumFunctionOnSet(Owed, open) = Owed[first] + SumFunctionOnSet(Owed, open \ {first})
  BY <1>2, <1>4, SumWithout
<1>6. SumFunctionOnSet(Owed, open \ {first}) \in Nat
  BY <1>2, <1>3, SumOfSome
<1>7. Owed[first] \in Nat /\ Owed[first] > 0
  BY OpenIsDue
<1>8. Report!CalculatePartyOutstanding(p) = SumFunctionOnSet(Owed, open)
  BY <1>1, PartyOwes
<1> QED
  BY <1>5, <1>6, <1>7, <1>8

(* The largest of ages is today less the smallest of days. *)
LEMMA OldestIs ==
  ASSUME NEW T, T \subseteq Nat, NEW m \in T, \A n \in T : m <= n, NEW t \in Nat
  PROVE  Report!Max({t - n : n \in T}) = t - m
<1>1. PICK ages : ages = {t - n : n \in T}
  OBVIOUS
<1>2. t - m \in ages /\ t - m \in Int
  BY <1>1
<1>3. \A n \in ages : n \in Int /\ t - m >= n
  <2> SUFFICES ASSUME NEW n \in T PROVE t - n \in Int /\ t - m >= t - n
    BY <1>1
  <2> QED
    OBVIOUS
<1>4. \A n \in ages : (\A k \in ages : n >= k) => n = t - m
  <2> SUFFICES ASSUME NEW n \in ages, \A k \in ages : n >= k PROVE n = t - m
    OBVIOUS
  <2>1. n >= t - m /\ t - m >= n /\ n \in Int
    BY <1>2, <1>3
  <2> QED
    BY <1>2, <2>1
<1>5. Report!Max(ages) = t - m
  BY <1>2, <1>3, <1>4 DEF Report!Max
<1> QED
  BY <1>1, <1>5

(* The dealer's next due date is his oldest open one. *)
LEMMA DealerIsTold ==
  ASSUME Report!FiguresAssumption, ReportInv, NEW p \in Debtors
  PROVE  LET told == Report!DealerBalanceReply(p)
         IN /\ told.outstanding = Report!CalculatePartyOutstanding(p)
            /\ told.outstanding > 0 <=> told.nextDue # Report!NoDay
            /\ p \in Report!OverdueDealers <=> told.nextDue < today
            /\ p \in Report!OverdueDealers => Report!DaysOverdue(p) = today - told.nextDue
<1>1. PICK open, due, next : /\ open = Report!Open({p}) /\ due = {filed[i].due : i \in Report!Open({p})}
                             /\ next = Report!DealerBalanceReply(p).nextDue
  OBVIOUS
<1>2. /\ Report!DealerBalanceReply(p).outstanding = Report!CalculatePartyOutstanding(p)
      /\ next = IF due = {} THEN Report!NoDay ELSE Report!Min(due)
  BY <1>1 DEF Report!DealerBalanceReply
<1>3. p \in Report!OverdueDealers <=> \E n \in due : n < today
  BY <1>1 DEF Report!OverdueDealers
<1>4. Report!DaysOverdue(p) = Report!Max({today - n : n \in due})
  <2>1. {today - filed[i].due : i \in Report!Open({p})} = {today - n : n \in due}
    BY <1>1
  <2> QED
    BY <2>1 DEF Report!DaysOverdue
<1>5. today \in Nat /\ today < Report!NoDay /\ Report!NoDay \in Nat
  BY Bounds DEF ReportInv, Report!Days
<1>6. \A n \in due : n \in Nat /\ n < Report!NoDay
  BY <1>1, OpenIsDue
<1>7. CASE open = {}
  <2>1. due = {} /\ Report!CalculatePartyOutstanding(p) = 0
    BY <1>1, <1>7, PartyOwes, SumEmpty
  <2>2. p \notin Report!OverdueDealers /\ next = Report!NoDay
    BY <1>2, <1>3, <2>1
  <2>3. ~ (0 > 0) /\ ~ (Report!NoDay < today)
    BY <1>5
  <2>4. Report!DealerBalanceReply(p).outstanding = 0 /\ Report!DealerBalanceReply(p).nextDue = Report!NoDay
    BY <1>1, <1>2, <2>1, <2>2
  <2> QED
    BY <2>1, <2>2, <2>3, <2>4, Zenon
<1>8. CASE open # {}
  <2>1. due # {} /\ due \subseteq Nat
    BY <1>1, <1>6, <1>8
  <2>2. next \in due /\ \A n \in due : next <= n
    BY <1>2, <2>1, EarliestIs
  <2>3. next \in Nat /\ next < Report!NoDay
    BY <1>6, <2>2
  <2>4. Report!CalculatePartyOutstanding(p) > 0
    BY <1>1, <1>8, OpenIsOwed
  <2>5. p \in Report!OverdueDealers <=> next < today
    <3>1. ASSUME NEW n \in due, n < today PROVE next < today
      <4>1. next <= n /\ n \in Nat
        BY <1>6, <2>2
      <4> QED
        BY <1>5, <2>3, <3>1, <4>1
    <3> QED
      BY <1>3, <2>2, <3>1
  <2>6. Report!DaysOverdue(p) = today - next
    BY <1>4, <1>5, <2>1, <2>2, OldestIs
  <2>7. next # Report!NoDay
    BY <1>5, <2>3
  <2> QED
    BY <1>1, <1>2, <2>4, <2>5, <2>6, <2>7
<1> QED
  BY <1>7, <1>8

(* The trend of what a dealer owes is the difference of two statements. *)
LEMMA TrendOfDebt ==
  ASSUME Report!FiguresAssumption, ReportInv, NEW p \in DOMAIN Report!TrendWorkbook
  PROVE  Report!TrendWorkbook[p].owed =
           Report!Statement(p, 1, LastFiledDay).closing
             - (Report!Statement(p, 1, today - ActivityDays).closing + Report!Advances(p, today - ActivityDays))
<1>1. Report!TrendWorkbook[p].owed
        = Report!CalculatePartyOutstanding(p) - Report!OutstandingAsOf(p, today - ActivityDays)
  BY DEF Report!TrendWorkbook, Report!DealerTrend, Report!Change
<1>2. PICK n : n = today - ActivityDays
  OBVIOUS
<1>3. n \in Int /\ n <= today /\ today \in Int
  BY <1>2, Bounds DEF ReportInv, Report!Days
<1>4. /\ Report!Statement(p, 1, LastFiledDay).closing = Report!CalculatePartyOutstanding(p)
      /\ Report!Statement(p, 1, n).closing = Report!OutstandingAsOf(p, n) - Report!Advances(p, n)
  BY <1>3, CarriedForward
<1>5. Report!OutstandingAsOf(p, n) \in Int /\ Report!Advances(p, n) \in Int
  BY <1>3, EntriesAsOf
<1> QED
  BY <1>1, <1>2, <1>4, <1>5

(* Whichever report a balance is read from, it is the same. *)
LEMMA BalancesAreOne == ASSUME Report!FiguresAssumption, ReportInv PROVE Report!BalancesAgree
<1>1. ASSUME NEW p \in Report!Parties
      PROVE  /\ Report!CalculatePartyOutstanding(p)
                  = Report!SumFunctionOnSet([b \in 0 .. 4 |-> Report!AgingRow(p)[b]], 0 .. 4)
             /\ Report!CalculatePartyOutstanding(p) = Report!OutstandingAsOf(p, LastFiledDay)
             /\ Report!CalculatePartyOutstanding(p) = Report!OutstandingAsOf(p, today) \/ Report!DatedAfter(p, today)
             /\ Report!StatementsCarryForward(p)
  BY AgingAddsUp, CarriedForward
<1>2. ASSUME NEW d \in Report!Directions
      PROVE  /\ \A p \in Report!Side(d) : Report!AllParties(d)[p] = Report!CalculatePartyOutstanding(p)
             /\ Report!PartySheet(d) = Report!OpenInvoicesSheet(d)
             /\ Report!PartySheet(d) = Report!SumFunctionOnSet(
                  [p \in Report!TopParties(d) |-> Report!CalculatePartyOutstanding(p)], Report!TopParties(d))
             /\ Report!PartySheet(d) = Report!AgingReport(d).total
  BY AllPartiesOwe, SheetsAgree, AgingReportAddsUp
<1>3. Report!InvoicesSheet.outstanding = Report!PartySheet("receivable") + Report!PartySheet("payable")
  BY InvoicesSheetAddsUp, SheetsAgree, SideIs
<1>4. ASSUME NEW p \in Debtors
      PROVE  LET told == Report!DealerBalanceReply(p)
             IN /\ \A first \in 1 .. today, last \in today .. LastFiledDay :
                     told.outstanding = Report!DealerStatement(p, first, last).closing \/ Report!DatedAfter(p, last)
                /\ told.outstanding > 0 <=> told.nextDue # Report!NoDay
                /\ p \in Report!OverdueDealers <=> told.nextDue < today
                /\ p \in Report!OverdueDealers => Report!DaysOverdue(p) = today - told.nextDue
                /\ p \in DOMAIN Report!TrendWorkbook => Report!TrendWorkbook[p].owed =
                     Report!Statement(p, 1, LastFiledDay).closing
                       - (Report!Statement(p, 1, today - ActivityDays).closing
                          + Report!Advances(p, today - ActivityDays))
  <2>1. \A first \in 1 .. today, last \in today .. LastFiledDay :
          \/ Report!DealerStatement(p, first, last).closing = Report!CalculatePartyOutstanding(p)
          \/ Report!DatedAfter(p, last)
    BY MonthCloses
  <2> QED
    BY <2>1, DealerIsTold, TrendOfDebt
<1> QED
  BY <1>1, <1>2, <1>3, <1>4 DEF Report!BalancesAgree, Report!SumOver

(* What came in from some parties, or was paid to them, in some days. *)
Taking(P, D) == {q \in Received : receipts[q].date \in D /\ filed[receipts[q].invoice].party \in P}
InvoiceOf == [q \in Received |-> receipts[q].invoice]
ReceivedOn == [q \in Received |-> receipts[q].date]

(* What the code reads off a receipt. *)
LEMMA ReceiptIs ==
  ASSUME Report!FiguresAssumption, ReportInv, NEW q \in Received
  PROVE  /\ Amounts[q] = receipts[q].amount /\ Amounts[q] \in Nat
         /\ InvoiceOf[q] = receipts[q].invoice /\ receipts[q].invoice \in OnFile
         /\ filed[receipts[q].invoice].party \in Report!Parties
         /\ ReceivedOn[q] = receipts[q].date /\ receipts[q].date \in Report!Days
<1>1. receipts[q] \in Receipt /\ receipts[q].invoice \in OnFile
  BY DEF ReportInv, ReceiptsFit
<1>2. receipts[q].date \in Report!Days /\ receipts[q].amount \in Nat
  BY <1>1 DEF Receipt
<1>3. filed[receipts[q].invoice].party \in Report!Parties
  BY <1>1, RowIs
<1> QED
  BY <1>1, <1>2, <1>3 DEF Amounts, InvoiceOf, ReceivedOn

(* The receipts on file are finitely many, and add up to a number. *)
LEMMA TakingsAre ==
  ASSUME Report!FiguresAssumption, ReportInv, NEW S, S \subseteq Received
  PROVE  /\ IsFiniteSet(S) /\ \A q \in S : Amounts[q] \in Int
         /\ SumFunctionOnSet(Amounts, S) \in Int
         /\ Report!SumFunctionOnSet([q \in S |-> receipts[q].amount], S) = SumFunctionOnSet(Amounts, S)
<1>1. IsFiniteSet(S)
  BY PaidOnIs, FS_Subset DEF ReportInv
<1>2. \A q \in S : Amounts[q] \in Int /\ [r \in S |-> receipts[r].amount][q] = Amounts[q]
  BY ReceiptIs
<1>3. SumFunctionOnSet([q \in S |-> receipts[q].amount], S) = SumFunctionOnSet(Amounts, S)
  BY <1>1, <1>2, SumsAreEqual
<1> QED
  BY <1>1, <1>2, <1>3, SumIsInteger, ReportSum

(* PaymentsOf is what came in from a side, or was paid to it. *)
LEMMA PaymentsAre ==
  ASSUME Report!FiguresAssumption, ReportInv, NEW d, NEW D
  PROVE  Report!PaymentsOf(d, D) = SumFunctionOnSet(Amounts, Taking(Report!Side(d), D))
         /\ Report!PaymentsOf(d, D) \in Int
<1>1. Taking(Report!Side(d), D) \subseteq Received
  BY DEF Taking
<1>2. Report!PaymentsOf(d, D)
        = Report!SumFunctionOnSet([q \in Taking(Report!Side(d), D) |-> receipts[q].amount], Taking(Report!Side(d), D))
  BY DEF Report!PaymentsOf, Report!SumOver, Taking, Received
<1> QED
  BY <1>1, <1>2, TakingsAre

(* The takings of some days and of others add up. *)
LEMMA PaymentsAdd ==
  ASSUME Report!FiguresAssumption, ReportInv, NEW d, NEW D, NEW E, D \cap E = {}
  PROVE  Report!PaymentsOf(d, D \cup E) = Report!PaymentsOf(d, D) + Report!PaymentsOf(d, E)
<1>1. PICK all, one, other : /\ all = Taking(Report!Side(d), D \cup E) /\ one = Taking(Report!Side(d), D)
                             /\ other = Taking(Report!Side(d), E)
  OBVIOUS
<1>2. one \in SUBSET all /\ all \ one = other /\ all \subseteq Received
  BY <1>1 DEF Taking
<1>3. SumFunctionOnSet(Amounts, all) = SumFunctionOnSet(Amounts, one) + SumFunctionOnSet(Amounts, other)
  BY <1>2, TakingsAre, SumOfBoth
<1> QED
  BY <1>1, <1>3, PaymentsAre

(* The takings of all days are the takings of each. *)
LEMMA PaymentsByDay ==
  ASSUME Report!FiguresAssumption, ReportInv, NEW d,
         NEW g, \A n \in Report!Days : g[n] = Report!PaymentsOf(d, {n})
  PROVE  SumFunctionOnSet(g, Report!Days) = Report!PaymentsOf(d, Report!Days)
<1>1. PICK days, all : days = Report!Days /\ all = Taking(Report!Side(d), Report!Days)
  OBVIOUS
<1>2. IsFiniteSet(days)
  <2>1. 1 \in Int /\ LastFiledDay \in Int
    BY Bounds
  <2> QED
    BY <1>1, <2>1, FS_Interval DEF Report!Days
<1>3. all \subseteq Received /\ IsFiniteSet(all) /\ \A q \in all : Amounts[q] \in Int
  BY <1>1, TakingsAre DEF Taking
<1>4. \A q \in all : ReceivedOn[q] \in days
  BY <1>1, <1>3, ReceiptIs
<1>5. \A n \in days : g[n] = SumFunctionOnSet(Amounts, WithKey(all, ReceivedOn, n))
  <2> SUFFICES ASSUME NEW n \in days PROVE g[n] = SumFunctionOnSet(Amounts, WithKey(all, ReceivedOn, n))
    OBVIOUS
  <2>1. Taking(Report!Side(d), {n}) = WithKey(all, ReceivedOn, n)
    BY <1>1 DEF Taking, WithKey, ReceivedOn
  <2> QED
    BY <1>1, <2>1, PaymentsAre
<1>6. SumFunctionOnSet(g, days) = SumFunctionOnSet(Amounts, all)
  BY <1>2, <1>3, <1>4, <1>5, SumByKey
<1> QED
  BY <1>1, <1>6, PaymentsAre

(* All receipts are the dealers' and the suppliers'. *)
LEMMA TakingOfBoth ==
  ASSUME Report!FiguresAssumption, ReportInv
  PROVE  /\ Taking(Debtors, Report!Days) \in SUBSET Received
         /\ Received \ Taking(Debtors, Report!Days) = Taking(Creditors, Report!Days)
         /\ \A q \in Taking(Debtors, Report!Days) : filed[receipts[q].invoice].party \in Debtors
         /\ \A q \in Taking(Creditors, Report!Days) : filed[receipts[q].invoice].party \notin Debtors
<1>1. \A q \in Received : /\ receipts[q].date \in Report!Days
                          /\ filed[receipts[q].invoice].party \in Debtors \cup Creditors
  BY ReceiptIs DEF Report!Parties
<1>2. Debtors \cap Creditors = {}
  BY DEF Report!FiguresAssumption
<1> QED
  BY <1>1, <1>2 DEF Taking

(* The till moved by what came in less what was paid. *)
LEMMA CashIsNet ==
  ASSUME Report!FiguresAssumption, ReportInv
  PROVE  /\ Report!CashAvailable - OpeningBalance
              = Report!PaymentsOf("receivable", Report!Days) - Report!PaymentsOf("payable", Report!Days)
         /\ Report!CashAvailable \in Int
<1> DEFINE signed == [q \in Received |-> IF filed[receipts[q].invoice].party \in Debtors
                                         THEN receipts[q].amount ELSE -receipts[q].amount]
           none == [q \in Received |-> 0]
<1>1. PICK in, out : in = Taking(Debtors, Report!Days) /\ out = Taking(Creditors, Report!Days)
  OBVIOUS
<1>2. in \in SUBSET Received /\ Received \ in = out /\ out \subseteq Received
  BY <1>1, TakingOfBoth
<1>3. /\ \A q \in in : signed[q] = Amounts[q] /\ signed[q] \in Int
      /\ \A q \in out : signed[q] \in Int /\ Amounts[q] \in Int /\ none[q] = signed[q] + Amounts[q] /\ none[q] = 0
  <2>1. \A q \in Received : receipts[q].amount \in Nat /\ Amounts[q] = receipts[q].amount
    BY ReceiptIs
  <2>2. \A q \in in : signed[q] = receipts[q].amount
    BY <1>1, <1>2, TakingOfBoth
  <2>3. \A q \in out : signed[q] = -receipts[q].amount /\ none[q] = 0
    BY <1>1, <1>2, TakingOfBoth
  <2> HIDE DEF signed, none
  <2> QED
    BY <1>2, <2>1, <2>2, <2>3
<1>4. Report!CashAvailable = OpeningBalance + Report!SumFunctionOnSet(signed, Received)
  BY DEF Report!CashAvailable, Report!SumOver, Received
<1> HIDE DEF signed, none
<1>5. IsFiniteSet(Received) /\ IsFiniteSet(in) /\ IsFiniteSet(out) /\ \A q \in Received : signed[q] \in Int
  BY <1>2, <1>3, TakingsAre
<1>6. SumFunctionOnSet(signed, Received) = SumFunctionOnSet(signed, in) + SumFunctionOnSet(signed, out)
  BY <1>2, <1>5, SumOfBoth
<1>7. SumFunctionOnSet(signed, in) = SumFunctionOnSet(Amounts, in)
  BY <1>3, <1>5, SumsAreEqual
<1>8. SumFunctionOnSet(none, out) = SumFunctionOnSet(signed, out) + SumFunctionOnSet(Amounts, out)
  BY <1>3, <1>5, SumsAddUp
<1>9. SumFunctionOnSet(none, out) = 0
  BY <1>3, <1>5, SumOfNothing
<1>10. /\ SumFunctionOnSet(Amounts, in) \in Int /\ SumFunctionOnSet(Amounts, out) \in Int
       /\ SumFunctionOnSet(signed, out) \in Int
  BY <1>2, <1>3, <1>5, SumIsInteger, TakingsAre
<1>11. /\ Report!PaymentsOf("receivable", Report!Days) = SumFunctionOnSet(Amounts, in)
       /\ Report!PaymentsOf("payable", Report!Days) = SumFunctionOnSet(Amounts, out)
  BY <1>1, PaymentsAre, SideIs
<1>12. OpeningBalance \in Int
  BY Bounds
<1>13. Report!CashAvailable = OpeningBalance + SumFunctionOnSet(signed, Received)
  BY <1>4, ReportSum
<1> QED
  BY <1>6, <1>7, <1>8, <1>9, <1>10, <1>11, <1>12, <1>13

(* The days' movements add up to it. *)
LEMMA MovementsAddUp ==
  ASSUME Report!FiguresAssumption, ReportInv
  PROVE  Report!SumFunctionOnSet([n \in Report!Days |-> Report!CashMovement(n)], Report!Days)
           = Report!PaymentsOf("receivable", Report!Days) - Report!PaymentsOf("payable", Report!Days)
<1>1. PICK days, in, out, net : /\ days = Report!Days
                                /\ in = [n \in Report!Days |-> Report!PaymentsOf("receivable", {n})]
                                /\ out = [n \in Report!Days |-> Report!PaymentsOf("payable", {n})]
                                /\ net = [n \in Report!Days |-> Report!CashMovement(n)]
  OBVIOUS
<1>2. \A n \in days : in[n] \in Int /\ out[n] \in Int /\ net[n] = in[n] - out[n]
  <2> TAKE n \in days
  <2>1. /\ in[n] = Report!PaymentsOf("receivable", {n}) /\ out[n] = Report!PaymentsOf("payable", {n})
        /\ net[n] = Report!PaymentsOf("receivable", {n}) - Report!PaymentsOf("payable", {n})
    BY <1>1 DEF Report!CashMovement
  <2> QED
    BY <2>1, PaymentsAre
<1>3. IsFiniteSet(days)
  <2>1. 1 \in Int /\ LastFiledDay \in Int
    BY Bounds
  <2> QED
    BY <1>1, <2>1, FS_Interval DEF Report!Days
<1>4. SumFunctionOnSet(net, days) = SumFunctionOnSet(in, days) - SumFunctionOnSet(out, days)
  BY <1>2, <1>3, SumsTakeOff
<1>5. SumFunctionOnSet(in, Report!Days) = Report!PaymentsOf("receivable", Report!Days)
  BY <1>1, PaymentsByDay
<1>6. SumFunctionOnSet(out, Report!Days) = Report!PaymentsOf("payable", Report!Days)
  BY <1>1, PaymentsByDay
<1> QED
  BY <1>1, <1>4, <1>5, <1>6, ReportSum

(* The export's payments are the day book's, and what the invoices have paid. *)
LEMMA PaymentSheetsAgree ==
  ASSUME Report!FiguresAssumption, ReportInv
  PROVE  /\ Report!PaymentsSheet = Report!DayBook(Report!Days).payments
         /\ Report!PaymentsSheet = Report!InvoicesSheet.paid
<1>1. PICK all, live, sums : /\ all = Received /\ live = Report!Live(Report!Parties)
                             /\ sums = PaidIn(Report!Days)
  OBVIOUS
<1>2. Report!PaymentsSheet = SumFunctionOnSet(Amounts, all)
  BY <1>1, TakingsAre DEF Report!PaymentsSheet, Report!SumOver, Received
<1>3. Report!DayBook(Report!Days).payments = SumFunctionOnSet(Amounts, all)
  <2>1. {q \in DOMAIN receipts : receipts[q].date \in Report!Days} = Received
    BY ReceiptIs DEF Received
  <2> QED
    BY <1>1, <2>1, TakingsAre DEF Report!DayBook, Report!SumOver
<1>4. live \in SUBSET OnFile /\ IsFiniteSet(OnFile)
  BY <1>1, OpenIs
<1>5. Report!InvoicesSheet.paid = SumFunctionOnSet(sums, live)
  <2>1. Report!InvoicesSheet.paid
          = Report!SumFunctionOnSet([i \in Report!Live(Report!Parties) |-> Report!Paid(i)], Report!Live(Report!Parties))
    BY DEF Report!InvoicesSheet, Report!SumOver
  <2> QED
    BY <1>1, <1>4, <2>1, SumsAre
<1>6. \A i \in OnFile : sums[i] \in Int /\ sums[i] = Report!Paid(i)
  BY <1>1, RowIs
<1>7. \A i \in OnFile \ live : sums[i] = 0
  <2> SUFFICES ASSUME NEW i \in OnFile, i \notin live PROVE sums[i] = 0
    OBVIOUS
  <2>1. filed[i].voided
    BY <1>1, OpenIs, RowIs
  <2> QED
    BY <1>6, <2>1, RowIs
<1>8. SumFunctionOnSet(sums, OnFile) = SumFunctionOnSet(sums, live)
  BY <1>4, <1>6, <1>7, SumOfTheRest
<1>9. \A i \in OnFile : sums[i] = SumFunctionOnSet(Amounts, WithKey(all, InvoiceOf, i))
  <2> SUFFICES ASSUME NEW i \in OnFile PROVE sums[i] = SumFunctionOnSet(Amounts, WithKey(all, InvoiceOf, i))
    OBVIOUS
  <2>1. ReceiptsFor(i, Report!Days) = WithKey(all, InvoiceOf, i)
    BY <1>1, ReceiptIs DEF ReceiptsFor, WithKey
  <2> QED
    BY <1>6, <2>1, PaidOnIs DEF ReportInv, Report!Paid
<1>10. IsFiniteSet(all) /\ (\A q \in all : Amounts[q] \in Int) /\ \A q \in all : InvoiceOf[q] \in OnFile
  BY <1>1, TakingsAre, ReceiptIs
<1>11. SumFunctionOnSet(sums, OnFile) = SumFunctionOnSet(Amounts, all)
  BY <1>4, <1>9, <1>10, SumByKey
<1> QED
  BY <1>2, <1>3, <1>5, <1>8, <1>11

(* What was sold to some parties, or bought from them, in some days. *)
Trade(P, D) == {i \in Report!Live(P) : filed[i].date \in D}
FiledOn == [i \in OnFile |-> filed[i].date]

(* The invoices of some days are finitely many, and each is worth a number. *)
LEMMA TradesAre ==
  ASSUME Report!FiguresAssumption, ReportInv, NEW P, NEW D
  PROVE  /\ Trade(P, D) \subseteq Report!Live(P) /\ Report!Live(P) \subseteq OnFile
         /\ IsFiniteSet(Trade(P, D)) /\ IsFiniteSet(Report!Live(P))
         /\ \A i \in Report!Live(P) : Worth[i] \in Int
         /\ SumFunctionOnSet(Worth, Trade(P, D)) \in Int
         /\ Report!SumFunctionOnSet([i \in Trade(P, D) |-> filed[i].total], Trade(P, D)) = SumFunctionOnSet(Worth, Trade(P, D))
<1>1. Trade(P, D) \subseteq Report!Live(P) /\ Report!Live(P) \subseteq OnFile /\ Trade(P, D) \subseteq OnFile
  BY OpenIs DEF Trade
<1>2. \A i \in Report!Live(P) : Worth[i] \in Int
  BY <1>1, RowIs
<1> QED
  BY <1>1, <1>2, OpenIs, SumsAre

(* The trade of all days is all there is. *)
LEMMA TradeOfAll ==
  ASSUME Report!FiguresAssumption, ReportInv, NEW P PROVE Trade(P, Report!Days) = Report!Live(P)
  BY TradesAre, RowIs DEF Trade

(* The sales of some days and of others add up. *)
LEMMA TradesAdd ==
  ASSUME Report!FiguresAssumption, ReportInv, NEW P, NEW D, NEW E, D \cap E = {}
  PROVE  SumFunctionOnSet(Worth, Trade(P, D \cup E))
           = SumFunctionOnSet(Worth, Trade(P, D)) + SumFunctionOnSet(Worth, Trade(P, E))
<1>1. PICK all, one, other : all = Trade(P, D \cup E) /\ one = Trade(P, D) /\ other = Trade(P, E)
  OBVIOUS
<1>2. one \in SUBSET all /\ all \ one = other
  BY <1>1 DEF Trade
<1>3. IsFiniteSet(all) /\ \A i \in all : Worth[i] \in Int
  BY <1>1, TradesAre
<1>4. SumFunctionOnSet(Worth, all) = SumFunctionOnSet(Worth, one) + SumFunctionOnSet(Worth, other)
  BY <1>2, <1>3, SumOfBoth
<1> QED
  BY <1>1, <1>4

(* A register, and what its orders were corrected by. *)
Registered(d, D) == Report!Register(d, D) + Report!Corrected(d, D)

(* A register drops no invoice for having no items, and counts none twice: but *)
(* for the corrections it is what the invoices are worth.                      *)
LEMMA RegisterIs ==
  ASSUME Report!FiguresAssumption, ReportInv, NEW d, NEW D
  PROVE  Registered(d, D) = SumFunctionOnSet(Worth, Trade(Report!Side(d), D))
<1>1. PICK all, items, bare : /\ all = Trade(Report!Side(d), D)
                              /\ items = Trade(Report!Side(d), D) \cap Itemised
                              /\ bare = Trade(Report!Side(d), D) \ Itemised
  OBVIOUS
<1>2. items \in SUBSET all /\ all \ items = bare /\ items \subseteq OnFile /\ bare \subseteq OnFile
  BY <1>1, TradesAre
<1>3. IsFiniteSet(all) /\ \A i \in all : Worth[i] \in Int
  BY <1>1, TradesAre
<1>4. SumFunctionOnSet(Worth, all) = SumFunctionOnSet(Worth, items) + SumFunctionOnSet(Worth, bare)
  BY <1>2, <1>3, SumOfBoth
<1>5. PICK placed, corrected : /\ placed = [i \in items |-> filed[i].items]
                               /\ corrected = [i \in items |-> filed[i].total - filed[i].items]
  OBVIOUS
<1>6. \A i \in items : placed[i] \in Int /\ corrected[i] \in Int /\ corrected[i] = Worth[i] - placed[i]
  <2> TAKE i \in items
  <2>1. filed[i].items \in Int /\ filed[i].total \in Nat /\ Worth[i] = filed[i].total
    BY <1>2, RowIs
  <2> QED
    BY <1>5, <2>1
<1>7. IsFiniteSet(items) /\ \A i \in items : Worth[i] \in Int
  BY <1>2, <1>3, FS_Subset
<1>8. SumFunctionOnSet(corrected, items) = SumFunctionOnSet(Worth, items) - SumFunctionOnSet(placed, items)
  BY <1>6, <1>7, SumsTakeOff
<1>9. Report!Register(d, D) = Report!SumFunctionOnSet(placed, items)
                              + Report!SumFunctionOnSet([i \in bare |-> filed[i].total], bare)
  BY <1>1, <1>5 DEF Report!Register, Report!RegisterRows, Report!SumOver, Trade
<1>10. Report!Corrected(d, D) = Report!SumFunctionOnSet(corrected, items)
  BY <1>1, <1>5 DEF Report!Corrected, Report!RegisterRows, Report!SumOver, Trade
<1>11. Report!SumFunctionOnSet([i \in bare |-> filed[i].total], bare) = SumFunctionOnSet(Worth, bare)
  BY <1>2, SumsAre
<1>12. /\ SumFunctionOnSet(Worth, items) \in Int /\ SumFunctionOnSet(Worth, bare) \in Int
       /\ SumFunctionOnSet(placed, items) \in Int
  BY <1>2, <1>6, <1>7, SumsAre, SumIsInteger
<1>13. Registered(d, D) = SumFunctionOnSet(placed, items) + SumFunctionOnSet(Worth, bare)
                          + (SumFunctionOnSet(Worth, items) - SumFunctionOnSet(placed, items))
  BY <1>8, <1>9, <1>10, <1>11, ReportSum DEF Registered
<1> QED
  BY <1>1, <1>4, <1>12, <1>13

(* The sales of some days are the dealers' trade. *)
LEMMA SalesAre ==
  ASSUME Report!FiguresAssumption, ReportInv, NEW D
  PROVE  /\ Report!SalesTotal(D) = SumFunctionOnSet(Worth, Trade(Debtors, D))
         /\ Registered("receivable", D) = Report!SalesTotal(D)
         /\ Report!SalesTotal(D) \in Int
<1>1. Report!SalesTotal(D) = Report!SumFunctionOnSet([i \in Trade(Debtors, D) |-> filed[i].total], Trade(Debtors, D))
  BY DEF Report!SalesTotal, Report!SumOver, Trade
<1>2. Report!SalesTotal(D) = SumFunctionOnSet(Worth, Trade(Debtors, D)) /\ SumFunctionOnSet(Worth, Trade(Debtors, D)) \in Int
  BY <1>1, TradesAre
<1>3. Registered("receivable", D) = SumFunctionOnSet(Worth, Trade(Debtors, D))
  BY RegisterIs, SideIs
<1> QED
  BY <1>2, <1>3

(* The days' sales add up to the register. *)
LEMMA SalesByDay ==
  ASSUME Report!FiguresAssumption, ReportInv
  PROVE  Report!SumFunctionOnSet([n \in Report!Days |-> Report!SalesAndMargin(n)], Report!Days)
           = Registered("receivable", Report!Days)
<1>1. PICK days, all, g : /\ days = Report!Days /\ all = Trade(Debtors, Report!Days)
                          /\ g = [n \in Report!Days |-> Report!SalesAndMargin(n)]
  OBVIOUS
<1>2. IsFiniteSet(days)
  <2>1. 1 \in Int /\ LastFiledDay \in Int
    BY Bounds
  <2> QED
    BY <1>1, <2>1, FS_Interval DEF Report!Days
<1>3. IsFiniteSet(all) /\ all \subseteq OnFile /\ \A i \in all : Worth[i] \in Int
  BY <1>1, TradesAre
<1>4. \A i \in all : FiledOn[i] \in days
  BY <1>1, <1>3, RowIs DEF FiledOn
<1>5. \A n \in days : g[n] = SumFunctionOnSet(Worth, WithKey(all, FiledOn, n))
  <2> SUFFICES ASSUME NEW n \in days PROVE g[n] = SumFunctionOnSet(Worth, WithKey(all, FiledOn, n))
    OBVIOUS
  <2>1. {i \in Report!Live(Debtors) : filed[i].date = n} = Trade(Debtors, {n})
    BY DEF Trade
  <2>2. g[n] = Report!SumFunctionOnSet([i \in Trade(Debtors, {n}) |-> filed[i].total], Trade(Debtors, {n}))
    BY <1>1, <2>1 DEF Report!SalesAndMargin, Report!SumOver
  <2>3. Trade(Debtors, {n}) = WithKey(all, FiledOn, n)
    BY <1>1, <1>3, TradesAre DEF Trade, WithKey, FiledOn
  <2> QED
    BY <2>2, <2>3, TradesAre
<1>6. SumFunctionOnSet(g, days) = SumFunctionOnSet(Worth, all)
  BY <1>2, <1>3, <1>4, <1>5, SumByKey
<1> QED
  BY <1>1, <1>6, SalesAre, ReportSum

(* The registers of both sides are the day book's invoices, and the sheet's. *)
LEMMA RegistersAddUp ==
  ASSUME Report!FiguresAssumption, ReportInv
  PROVE  /\ Registered("receivable", Report!Days) + Registered("payable", Report!Days)
              = Report!DayBook(Report!Days).invoices
         /\ Report!DayBook(Report!Days).invoices = Report!InvoicesSheet.amount
         /\ Report!InvoicesSheet.amount = SumFunctionOnSet(Worth, Report!Live(Report!Parties))
<1>1. PICK all, one, other : /\ all = Report!Live(Report!Parties) /\ one = Report!Live(Debtors)
                             /\ other = Report!Live(Creditors)
  OBVIOUS
<1>2. Debtors \cap Creditors = {}
  BY DEF Report!FiguresAssumption
<1>3. one \in SUBSET all /\ all \ one = other /\ all \subseteq OnFile
  BY <1>1, <1>2, OpenIs DEF Report!Parties
<1>4. IsFiniteSet(all) /\ \A i \in all : Worth[i] \in Int
  BY <1>1, TradesAre
<1>5. SumFunctionOnSet(Worth, all) = SumFunctionOnSet(Worth, one) + SumFunctionOnSet(Worth, other)
  BY <1>3, <1>4, SumOfBoth
<1>6. /\ Registered("receivable", Report!Days) = SumFunctionOnSet(Worth, one)
      /\ Registered("payable", Report!Days) = SumFunctionOnSet(Worth, other)
  BY <1>1, RegisterIs, SideIs, TradeOfAll
<1>7. Report!DayBook(Report!Days).invoices = SumFunctionOnSet(Worth, all)
  <2>1. Trade(Report!Parties, Report!Days) = all
    BY <1>1, TradeOfAll
  <2>2. Report!DayBook(Report!Days).invoices
          = Report!SumFunctionOnSet([i \in Trade(Report!Parties, Report!Days) |-> filed[i].total], Trade(Report!Parties, Report!Days))
    BY DEF Report!DayBook, Report!SumOver, Trade
  <2> QED
    BY <2>1, <2>2, TradesAre
<1>8. Report!InvoicesSheet.amount = SumFunctionOnSet(Worth, all)
  <2>1. Report!InvoicesSheet.amount = Report!SumFunctionOnSet([i \in all |-> filed[i].total], all)
    BY <1>1 DEF Report!InvoicesSheet, Report!SumOver
  <2> QED
    BY <1>3, <2>1, SumsAre
<1> QED
  BY <1>1, <1>5, <1>6, <1>7, <1>8

(* A window and the one before it have no day in common. *)
LEMMA WindowsApart ==
  ASSUME Report!FiguresAssumption, ReportInv, NEW n \in Nat
  PROVE  Report!WindowPair(n).current \cap Report!WindowPair(n).prior = {}
  BY DEF Report!WindowPair, ReportInv, Report!Days

(* The trends are differences of the registers' figures. *)
LEMMA TrendsAgree ==
  ASSUME Report!FiguresAssumption, ReportInv
  PROVE  LET w == Report!WindowPair(TrendDays)
         IN /\ Report!CashTrend(w.current) + Report!CashTrend(w.prior)
                 = Report!PaymentRegister(w.current \cup w.prior).net
            /\ Report!SalesTotal(w.current) + Report!SalesTotal(w.prior)
                 = Registered("receivable", w.current \cup w.prior)
            /\ Report!TrendReport.net = Report!TrendReport.collections - Report!TrendReport.payments
            /\ Report!TrendReport.sales
                 = Report!Change(Registered("receivable", w.current), Registered("receivable", w.prior))
<1>1. PICK now, then : now = Report!WindowPair(TrendDays).current /\ then = Report!WindowPair(TrendDays).prior
  OBVIOUS
<1>2. now \cap then = {}
  BY <1>1, Bounds, WindowsApart
<1>3. /\ Report!PaymentsOf("receivable", now \cup then)
           = Report!PaymentsOf("receivable", now) + Report!PaymentsOf("receivable", then)
      /\ Report!PaymentsOf("payable", now \cup then)
           = Report!PaymentsOf("payable", now) + Report!PaymentsOf("payable", then)
  BY <1>2, PaymentsAdd
<1>4. /\ Report!PaymentsOf("receivable", now) \in Int /\ Report!PaymentsOf("receivable", then) \in Int
      /\ Report!PaymentsOf("payable", now) \in Int /\ Report!PaymentsOf("payable", then) \in Int
  BY PaymentsAre
<1>5. Report!CashTrend(now) + Report!CashTrend(then) = Report!PaymentRegister(now \cup then).net
  BY <1>3, <1>4 DEF Report!CashTrend, Report!PaymentRegister
<1>6. Report!SalesTotal(now) + Report!SalesTotal(then) = Registered("receivable", now \cup then)
  BY <1>2, TradesAdd, SalesAre
<1>7. Report!TrendReport.net = Report!TrendReport.collections - Report!TrendReport.payments
  BY <1>1, <1>4 DEF Report!TrendReport, Report!Change, Report!CashTrend
<1>8. Report!TrendReport.sales = Report!Change(Registered("receivable", now), Registered("receivable", then))
  BY <1>1, SalesAre DEF Report!TrendReport
<1> QED
  BY <1>1, <1>5, <1>6, <1>7, <1>8

-----------------------------------------------------------------------------
(* The days ahead.                                                         *)

Expected == Report!ExpectedCollections \cup Report!ExpectedPayments
Delta == [i \in Expected |-> IF i \in Report!ExpectedCollections THEN Owed[i] ELSE -Owed[i]]
DueBy(n) == {i \in Expected : filed[i].due <= n}

(* What is expected of an invoice. *)
LEMMA ExpectedIs ==
  ASSUME Report!FiguresAssumption, ReportInv, NEW i \in Expected
  PROVE  /\ i \in OnFile /\ i \in Nat
         /\ filed[i].due \in Nat /\ filed[i].due < Report!NoDay
         /\ Owed[i] = Report!Outstanding(i) /\ Owed[i] \in Nat /\ Owed[i] > 0 /\ Owed[i] <= MaxFiled
         /\ Delta[i] = (IF i \in Report!ExpectedCollections THEN Owed[i] ELSE -Owed[i]) /\ Delta[i] \in Int
         /\ i \in Report!ExpectedPayments <=> i \notin Report!ExpectedCollections
<1>1. \/ i \in Report!Open(Debtors) /\ Report!Outstanding(i) > 0
      \/ i \in Report!Open(Creditors) /\ Report!Outstanding(i) > 0
  BY DEF Expected, Report!ExpectedCollections, Report!ExpectedPayments, Report!Expected7d
<1>2. i \in OnFile /\ Report!Outstanding(i) > 0
  BY <1>1, OpenIs
<1>3. i \in Nat
  BY <1>2 DEF ReportInv, FiledFits, Report!FiguresAssumption
<1>4. filed[i].due \in Nat /\ filed[i].due < Report!NoDay
  BY <1>2, RowIs
<1>5. Owed[i] = Report!Outstanding(i) /\ Owed[i] \in Nat /\ Owed[i] > 0 /\ Owed[i] <= MaxFiled
  <2>1. filed[i].total \in 1 .. MaxFiled /\ MaxFiled \in Nat
    BY <1>2, Bounds DEF ReportInv, FiledFits, Filed
  <2>2. /\ Owed[i] = Report!Outstanding(i) /\ Report!Outstanding(i) \in Nat /\ Report!Paid(i) \in Nat
        /\ Report!Outstanding(i) = filed[i].total - Report!Paid(i)
    BY <1>2, RowIs
  <2> QED
    BY <1>2, <2>1, <2>2
<1>6. i \in Report!ExpectedPayments <=> i \notin Report!ExpectedCollections
  <2>1. Debtors \cap Creditors = {}
    BY DEF Report!FiguresAssumption
  <2>2. /\ i \in Report!ExpectedCollections => filed[i].party \in Debtors
        /\ i \in Report!ExpectedPayments => filed[i].party \in Creditors
    BY OpenIs DEF Report!ExpectedCollections, Report!ExpectedPayments, Report!Expected7d
  <2> QED
    BY <2>1, <2>2 DEF Expected
<1>7. Delta[i] = (IF i \in Report!ExpectedCollections THEN Owed[i] ELSE -Owed[i])
  BY DEF Delta
<1>8. Delta[i] \in Int
  BY <1>5, <1>7
<1> QED
  BY <1>2, <1>3, <1>4, <1>5, <1>6, <1>7, <1>8

(* They are finitely many. *)
LEMMA ExpectedFinite ==
  ASSUME Report!FiguresAssumption, ReportInv
  PROVE  /\ IsFiniteSet(Expected) /\ Cardinality(Expected) \in Nat
         /\ Report!ExpectedCollections \in SUBSET Expected /\ Report!ExpectedPayments \in SUBSET Expected
         /\ Expected \ Report!ExpectedCollections = Report!ExpectedPayments
         /\ \A i \in Expected : Delta[i] \in Int
<1>1. \A i \in Expected : i \in OnFile /\ (i \in Report!ExpectedPayments <=> i \notin Report!ExpectedCollections)
                          /\ Delta[i] \in Int
  BY ExpectedIs
<1>2. IsFiniteSet(Expected)
  BY <1>1, OpenIs, FS_Subset
<1> QED
  BY <1>1, <1>2, FS_CardinalityType DEF Expected

Rank(i) == IF i \in Report!ExpectedCollections THEN 0 ELSE 1

(* One event is before another if it is due before, or on the same day and a *)
(* collection before a payment.                                              *)
LEMMA EarlierIs ==
  ASSUME NEW i, NEW j
  PROVE  Report!Earlier(i, j) <=> \/ filed[i].due < filed[j].due
                                  \/ filed[i].due = filed[j].due /\ Rank(i) < Rank(j)
                                  \/ filed[i].due = filed[j].due /\ Rank(i) = Rank(j) /\ i < j
  BY DEF Report!Earlier, Rank

(* The events can be put in order. *)
LEMMA EarlierOrders ==
  ASSUME Report!FiguresAssumption, ReportInv
  PROVE  Orders({x \in Expected \X Expected : Report!Earlier(x[1], x[2])}, Expected)
<1>1. \A i \in Expected : filed[i].due \in Nat /\ Rank(i) \in Nat /\ i \in Nat
  BY ExpectedIs DEF Rank
<1>2. \A i, j \in Expected : i # j => Report!Earlier(i, j) \/ Report!Earlier(j, i)
  <2> SUFFICES ASSUME NEW i \in Expected, NEW j \in Expected, i # j
               PROVE  Report!Earlier(i, j) \/ Report!Earlier(j, i)
    OBVIOUS
  <2>1. PICK a, b, c, d : a = filed[i].due /\ b = filed[j].due /\ c = Rank(i) /\ d = Rank(j)
    OBVIOUS
  <2>2. a \in Nat /\ b \in Nat /\ c \in Nat /\ d \in Nat /\ i \in Nat /\ j \in Nat
    BY <1>1, <2>1
  <2>3. \/ a < b \/ b < a \/ (a = b /\ (c < d \/ d < c \/ (c = d /\ (i < j \/ j < i))))
    BY <2>2
  <2> QED
    BY <2>1, <2>3, EarlierIs
<1>3. \A i, j, k \in Expected : Report!Earlier(i, j) /\ Report!Earlier(j, k) => Report!Earlier(i, k)
  <2> SUFFICES ASSUME NEW i \in Expected, NEW j \in Expected, NEW k \in Expected,
                      Report!Earlier(i, j), Report!Earlier(j, k)
               PROVE  Report!Earlier(i, k)
    OBVIOUS
  <2>1. PICK a, b, c, x, y, z : /\ a = filed[i].due /\ b = filed[j].due /\ c = filed[k].due
                                /\ x = Rank(i) /\ y = Rank(j) /\ z = Rank(k)
    OBVIOUS
  <2>2. /\ a \in Nat /\ b \in Nat /\ c \in Nat /\ x \in Nat /\ y \in Nat /\ z \in Nat
        /\ i \in Nat /\ j \in Nat /\ k \in Nat
    BY <1>1, <2>1
  <2>3. /\ a < b \/ (a = b /\ x < y) \/ (a = b /\ x = y /\ i < j)
        /\ b < c \/ (b = c /\ y < z) \/ (b = c /\ y = z /\ j < k)
    BY <2>1, EarlierIs
  <2>4. a < c \/ (a = c /\ x < z) \/ (a = c /\ x = z /\ i < k)
    BY <2>2, <2>3
  <2> QED
    BY <2>1, <2>4, EarlierIs
<1> QED
  BY <1>2, <1>3 DEF Orders

(* The events of the forecast are all that is expected, in order. *)
LEMMA EventsAre ==
  ASSUME Report!FiguresAssumption, ReportInv
  PROVE  /\ Lists(Report!Events, Cardinality(Expected), Expected)
         /\ DOMAIN Report!Events = 1 .. Cardinality(Expected) /\ Len(Report!Events) = Cardinality(Expected)
         /\ \A m, n \in 1 .. Cardinality(Expected) :
              m < n => Report!Earlier(Report!Events[m], Report!Events[n])
<1>1. PICK N : N = Cardinality(Expected)
  OBVIOUS
<1>2. N \in Nat /\ IsFiniteSet(Expected) /\ Report!Cardinality(Expected) = N
  BY <1>1, ExpectedFinite, ReportSize
<1>3. Report!SetToSeqs(Expected) = {e \in [1 .. N -> Expected] : \A i, j \in 1 .. N : i # j => e[i] # e[j]}
  BY <1>2 DEF Report!SetToSeqs
<1>4. \A e : e \in Report!SetToSeqs(Expected) <=> Lists(e, N, Expected)
  BY <1>3 DEF Lists
<1>5. PICK R : R = {x \in Expected \X Expected : Report!Earlier(x[1], x[2])}
  OBVIOUS
<1>6. PICK e : Lists(e, N, Expected) /\ \A m, n \in 1 .. N : m < n => <<e[m], e[n]>> \in R
  BY <1>1, <1>2, <1>5, EarlierOrders, SortedRows
<1>7. e \in Report!SetToSeqs(Expected) /\ \A m, n \in DOMAIN e : m < n => Report!Earlier(e[m], e[n])
  <2>1. DOMAIN e = 1 .. N
    BY <1>6 DEF Lists
  <2>2. \A i, j : <<i, j>> \in R => Report!Earlier(i, j)
    BY <1>5
  <2> QED
    BY <1>4, <1>6, <2>1, <2>2
<1>8. Report!Events = CHOOSE events \in Report!SetToSeqs(Expected) :
                        \A m, n \in DOMAIN events : m < n => Report!Earlier(events[m], events[n])
  BY DEF Report!Events, Expected
<1>9. /\ Report!Events \in Report!SetToSeqs(Expected)
      /\ \A m, n \in DOMAIN Report!Events : m < n => Report!Earlier(Report!Events[m], Report!Events[n])
  BY <1>7, <1>8
<1>10. Lists(Report!Events, N, Expected)
  BY <1>4, <1>9
<1>11. DOMAIN Report!Events = 1 .. N /\ Report!Events \in [1 .. N -> Expected]
  BY <1>10 DEF Lists
<1>12. Len(Report!Events) = N
  BY <1>2, <1>11
<1> QED
  BY <1>1, <1>9, <1>10, <1>11, <1>12

(* What is expected adds up to the collections less the payments. *)
LEMMA DeltasAre ==
  ASSUME Report!FiguresAssumption, ReportInv, NEW S, S \subseteq Expected
  PROVE  /\ IsFiniteSet(S) /\ SumFunctionOnSet(Delta, S) \in Int
         /\ SumFunctionOnSet(Delta, S) = SumFunctionOnSet(Owed, S \cap Report!ExpectedCollections)
                                         - SumFunctionOnSet(Owed, S \cap Report!ExpectedPayments)
         /\ SumFunctionOnSet(Owed, S \cap Report!ExpectedCollections) \in Nat
         /\ SumFunctionOnSet(Owed, S \cap Report!ExpectedPayments) \in Nat
<1>1. PICK in, out, none : /\ in = S \cap Report!ExpectedCollections /\ out = S \cap Report!ExpectedPayments
                           /\ none = [i \in Expected |-> 0]
  OBVIOUS
<1>2. \A i \in S : /\ Owed[i] \in Nat /\ Delta[i] = (IF i \in Report!ExpectedCollections THEN Owed[i] ELSE -Owed[i])
                   /\ Delta[i] \in Int /\ (i \in Report!ExpectedPayments <=> i \notin Report!ExpectedCollections)
  <2> TAKE i \in S
  <2> QED
    BY ExpectedIs
<1>3. in \in SUBSET S /\ S \ in = out /\ out \in SUBSET S
  BY <1>1, <1>2
<1>4. IsFiniteSet(S) /\ IsFiniteSet(in) /\ IsFiniteSet(out)
  BY <1>3, ExpectedFinite, FS_Subset
<1>5. \A i \in S : Delta[i] \in Int /\ Owed[i] \in Nat
  BY <1>2
<1>6. SumFunctionOnSet(Delta, S) = SumFunctionOnSet(Delta, in) + SumFunctionOnSet(Delta, out)
  BY <1>3, <1>4, <1>5, SumOfBoth
<1>7. SumFunctionOnSet(Delta, in) = SumFunctionOnSet(Owed, in)
  <2>1. \A i \in in : Delta[i] = Owed[i]
    BY <1>1, <1>2
  <2> QED
    BY <1>4, <2>1, SumsAreEqual
<1>8. SumFunctionOnSet(none, out) = SumFunctionOnSet(Delta, out) + SumFunctionOnSet(Owed, out)
  <2>1. \A i \in out : Delta[i] \in Int /\ Owed[i] \in Int /\ none[i] = Delta[i] + Owed[i]
    <3> TAKE i \in out
    <3>1. i \in S /\ Owed[i] \in Nat /\ Delta[i] = -Owed[i] /\ none[i] = 0
      BY <1>1, <1>2
    <3> QED
      BY <3>1
  <2> QED
    BY <1>4, <2>1, SumsAddUp
<1>9. SumFunctionOnSet(none, out) = 0
  <2>1. \A i \in out : none[i] = 0
    BY <1>1
  <2> QED
    BY <1>4, <2>1, SumOfNothing
<1>10. SumFunctionOnSet(Owed, in) \in Nat /\ SumFunctionOnSet(Owed, out) \in Nat
  <2>1. (\A i \in in : Owed[i] \in Nat) /\ \A i \in out : Owed[i] \in Nat
    BY <1>3, <1>5
  <2>2. SumFunctionOnSet(Owed, in) \in Nat
    BY <1>4, <2>1, SumOfSome
  <2>3. SumFunctionOnSet(Owed, out) \in Nat
    BY <1>4, <2>1, SumOfSome
  <2> QED
    BY <2>2, <2>3
<1>11. SumFunctionOnSet(Delta, out) \in Int
  <2>1. \A i \in out : Delta[i] \in Int
    BY <1>3, <1>5
  <2> QED
    BY <1>4, <2>1, SumIsInteger
<1>12. SumFunctionOnSet(Delta, S) = SumFunctionOnSet(Owed, in) - SumFunctionOnSet(Owed, out)
  BY <1>6, <1>7, <1>8, <1>9, <1>10, <1>11
<1> QED
  BY <1>1, <1>4, <1>10, <1>12

(* The position is what is in the till and all that is expected, and on a day *)
(* what is due by then.                                                       *)
LEMMA PositionIs ==
  ASSUME Report!FiguresAssumption, ReportInv
  PROVE  /\ Report!NetCashPosition = Report!CashAvailable + SumFunctionOnSet(Delta, Expected)
         /\ \A n : Report!CashAvailable
                     + Report!SumOver({i \in Report!ExpectedCollections : filed[i].due <= n}, Report!Outstanding)
                     - Report!SumOver({i \in Report!ExpectedPayments : filed[i].due <= n}, Report!Outstanding)
                   = Report!CashAvailable + SumFunctionOnSet(Delta, DueBy(n))
<1>1. Report!CashAvailable \in Int
  BY CashIsNet
<1>2. ASSUME NEW S, S \subseteq Expected
      PROVE  Report!CashAvailable + Report!SumOver(S \cap Report!ExpectedCollections, Report!Outstanding)
                                  - Report!SumOver(S \cap Report!ExpectedPayments, Report!Outstanding)
             = Report!CashAvailable + SumFunctionOnSet(Delta, S)
  <2>1. S \cap Report!ExpectedCollections \subseteq OnFile /\ S \cap Report!ExpectedPayments \subseteq OnFile
    BY <1>2, ExpectedIs
  <2>2. /\ Report!SumOver(S \cap Report!ExpectedCollections, Report!Outstanding)
             = SumFunctionOnSet(Owed, S \cap Report!ExpectedCollections)
        /\ Report!SumOver(S \cap Report!ExpectedPayments, Report!Outstanding)
             = SumFunctionOnSet(Owed, S \cap Report!ExpectedPayments)
    BY <2>1, SumsAre DEF Report!SumOver
  <2>3. /\ SumFunctionOnSet(Delta, S) = SumFunctionOnSet(Owed, S \cap Report!ExpectedCollections)
                                        - SumFunctionOnSet(Owed, S \cap Report!ExpectedPayments)
        /\ SumFunctionOnSet(Owed, S \cap Report!ExpectedCollections) \in Nat
        /\ SumFunctionOnSet(Owed, S \cap Report!ExpectedPayments) \in Nat
    BY <1>2, DeltasAre
  <2> QED
    BY <1>1, <2>2, <2>3
<1>3. /\ Expected \cap Report!ExpectedCollections = Report!ExpectedCollections
      /\ Expected \cap Report!ExpectedPayments = Report!ExpectedPayments
  BY DEF Expected
<1>4. Report!NetCashPosition = Report!CashAvailable + SumFunctionOnSet(Delta, Expected)
  BY <1>2, <1>3 DEF Report!NetCashPosition
<1>5. ASSUME NEW n
      PROVE  Report!CashAvailable
               + Report!SumOver({i \in Report!ExpectedCollections : filed[i].due <= n}, Report!Outstanding)
               - Report!SumOver({i \in Report!ExpectedPayments : filed[i].due <= n}, Report!Outstanding)
             = Report!CashAvailable + SumFunctionOnSet(Delta, DueBy(n))
  <2>1. /\ DueBy(n) \subseteq Expected
        /\ DueBy(n) \cap Report!ExpectedCollections = {i \in Report!ExpectedCollections : filed[i].due <= n}
        /\ DueBy(n) \cap Report!ExpectedPayments = {i \in Report!ExpectedPayments : filed[i].due <= n}
    BY DEF DueBy, Expected
  <2> QED
    BY <1>2, <2>1
<1> QED
  BY <1>4, <1>5

Balance(n) == Report!CashAvailable + SumFunctionOnSet(Delta, First(Report!Events, n))
Deficits == {n \in 1 .. Cardinality(Expected) : Balance(n) < 0}

(* The code's running balance has at each event added up the first ones; the *)
(* first event at which it is short names the day.                           *)
LEMMA ForecastIs ==
  ASSUME Report!FiguresAssumption, ReportInv
  PROVE  Report!ForecastCashDeficit.short
           = IF Deficits = {} THEN Report!NoDay ELSE filed[Report!Events[Report!Min(Deficits)]].due
<1>1. PICK N, e, base : N = Cardinality(Expected) /\ e = Report!Events /\ base = Report!CashAvailable
  OBVIOUS
<1>2. Lists(e, N, Expected) /\ DOMAIN e = 1 .. N /\ Len(e) = N /\ N \in Nat /\ IsFiniteSet(Expected)
  BY <1>1, EventsAre, ExpectedFinite
<1>3. base \in Int /\ \A i \in Expected : Delta[i] \in Int
  BY <1>1, CashIsNet, ExpectedIs
<1> DEFINE Walk(f) == [n \in 0 .. Len(e) |-> IF n = 0 THEN base
                        ELSE f[n - 1] + (IF e[n] \in Report!ExpectedCollections
                                         THEN Report!Outstanding(e[n]) ELSE -Report!Outstanding(e[n]))]
<1>4. PICK run : /\ run = CHOOSE f : f = Walk(f)
                 /\ Report!ForecastCashDeficit.short
                      = IF {n \in DOMAIN e : run[n] < 0} = {} THEN Report!NoDay
                        ELSE filed[e[Report!Min({n \in DOMAIN e : run[n] < 0})]].due
  BY <1>1 DEF Report!ForecastCashDeficit, Report!ShortDay
<1>5. \A f : Walk(f) = [n \in 0 .. N |-> IF n = 0 THEN base ELSE f[n - 1] + Delta[e[n]]]
  <2>1. \A n \in 0 .. N : n # 0 => Delta[e[n]] = (IF e[n] \in Report!ExpectedCollections
                                                  THEN Report!Outstanding(e[n]) ELSE -Report!Outstanding(e[n]))
    <3> SUFFICES ASSUME NEW n \in 0 .. N, n # 0
                 PROVE  Delta[e[n]] = (IF e[n] \in Report!ExpectedCollections
                                       THEN Report!Outstanding(e[n]) ELSE -Report!Outstanding(e[n]))
      OBVIOUS
    <3>1. n \in 1 .. N
      BY <1>2
    <3>2. e[n] \in Expected
      BY <1>2, <3>1 DEF Lists
    <3>3. PICK i \in Expected : i = e[n]
      BY <3>2
    <3>4. /\ Delta[i] = (IF i \in Report!ExpectedCollections THEN Owed[i] ELSE -Owed[i])
          /\ Owed[i] = Report!Outstanding(i)
      BY ExpectedIs
    <3> QED
      BY <3>3, <3>4
  <2> QED
    BY <1>2, <2>1
<1> HIDE DEF Walk
<1>6. \A f : f = Walk(f) <=> RunsAlong(f, base, Delta, e, N)
  BY <1>5 DEF RunsAlong
<1>7. RunsAlong(Balances(base, Delta, e, N), base, Delta, e, N)
  BY <1>2, <1>3, RunningBalance
<1>8. \A n \in 0 .. N : run[n] = base + SumFunctionOnSet(Delta, First(e, n))
  <2>1. run = Walk(run)
    BY <1>4, <1>6, <1>7
  <2>2. RunsAlong(run, base, Delta, e, N)
    BY <1>6, <2>1
  <2> QED
    BY <1>2, <1>3, <2>2, RunningBalance
<1>9. {n \in DOMAIN e : run[n] < 0} = Deficits
  <2>1. \A n \in 1 .. N : run[n] = Balance(n)
    BY <1>1, <1>8 DEF Balance
  <2> QED
    BY <1>1, <1>2, <2>1 DEF Deficits
<1> QED
  BY <1>1, <1>4, <1>9

(* The events one by one. *)
LEMMA EventIs ==
  ASSUME Report!FiguresAssumption, ReportInv, NEW n \in 1 .. Cardinality(Expected)
  PROVE  /\ Report!Events[n] \in Expected /\ filed[Report!Events[n]].due \in Nat
         /\ filed[Report!Events[n]].due < Report!NoDay
         /\ Delta[Report!Events[n]] \in Int
<1>1. Report!Events[n] \in Expected
  BY EventsAre DEF Lists
<1> QED
  BY <1>1, ExpectedIs

(* They come in the order they are due. *)
LEMMA EventsInOrder ==
  ASSUME Report!FiguresAssumption, ReportInv, NEW m \in 1 .. Cardinality(Expected), NEW n \in 1 .. Cardinality(Expected),
         m <= n
  PROVE  filed[Report!Events[m]].due <= filed[Report!Events[n]].due
<1>1. filed[Report!Events[m]].due \in Nat /\ filed[Report!Events[n]].due \in Nat
  BY EventIs
<1>2. CASE m = n
  BY <1>1, <1>2
<1>3. CASE m # n
  <2>1. m < n
    BY <1>3, ExpectedFinite
  <2>2. Report!Earlier(Report!Events[m], Report!Events[n])
    BY <2>1, EventsAre
  <2> QED
    BY <1>1, <2>2, EarlierIs
<1> QED
  BY <1>2, <1>3

(* Every expected invoice has its event. *)
LEMMA EventsOfAll ==
  ASSUME Report!FiguresAssumption, ReportInv
  PROVE  First(Report!Events, Cardinality(Expected)) = Expected
  BY EventsAre, ExpectedFinite, ListsAll DEF First

(* The balance at the last event of a day is what is due by that day. *)
LEMMA DayIsWhole ==
  ASSUME Report!FiguresAssumption, ReportInv, NEW i \in Expected
  PROVE  \E m \in 1 .. Cardinality(Expected) :
           /\ filed[Report!Events[m]].due <= filed[i].due
           /\ First(Report!Events, m) = DueBy(filed[i].due)
<1>1. PICK N, e, d : N = Cardinality(Expected) /\ e = Report!Events /\ d = filed[i].due
  OBVIOUS
<1>2. N \in Nat /\ d \in Nat
  BY <1>1, ExpectedFinite, ExpectedIs
<1>3. PICK x \in 1 .. N : e[x] = i
  BY <1>1, EventsOfAll DEF First
<1>4. PICK T : T = {n \in 1 .. N : filed[e[n]].due <= d}
  OBVIOUS
<1>5. T \subseteq 0 .. N /\ T # {}
  BY <1>1, <1>2, <1>3, <1>4
<1>6. PICK m \in T : \A n \in T : n <= m
  BY <1>2, <1>5, LatestIs
<1>7. m \in 1 .. N /\ filed[e[m]].due <= d
  BY <1>4, <1>6
<1>8. \A n \in 1 .. N : n <= m <=> filed[e[n]].due <= d
  <2> SUFFICES ASSUME NEW n \in 1 .. N PROVE n <= m <=> filed[e[n]].due <= d
    OBVIOUS
  <2>1. ASSUME n <= m PROVE filed[e[n]].due <= d
    <3>1. filed[e[n]].due <= filed[e[m]].due /\ filed[e[n]].due \in Nat /\ filed[e[m]].due \in Nat
      BY <1>1, <1>7, <2>1, EventsInOrder, EventIs
    <3> QED
      BY <1>2, <1>7, <3>1
  <2>2. ASSUME filed[e[n]].due <= d PROVE n <= m
    BY <1>4, <1>6, <2>2
  <2> QED
    BY <2>1, <2>2
<1>9. First(e, m) = DueBy(d)
  <2>1. \A n \in 1 .. m : n \in 1 .. N /\ n <= m
    BY <1>2, <1>7
  <2>2. \A n \in 1 .. N : n <= m => n \in 1 .. m
    BY <1>2, <1>7
  <2>3. \A n \in 1 .. N : e[n] \in Expected
    BY <1>1, EventIs
  <2>4. \A j \in Expected : \E n \in 1 .. N : e[n] = j
    BY <1>1, EventsOfAll DEF First
  <2> QED
    BY <1>8, <2>1, <2>2, <2>3, <2>4 DEF First, DueBy
<1> QED
  BY <1>1, <1>7, <1>9

(* Where the balance is short first, a payment made it so, and what else is *)
(* due that day is payments.                                                 *)
LEMMA FirstDeficit ==
  ASSUME Report!FiguresAssumption, ReportInv, Report!CashAvailable >= 0, NEW k \in Deficits, \A n \in Deficits : k <= n
  PROVE  /\ Report!Events[k] \in Report!ExpectedPayments
         /\ Report!CashAvailable + SumFunctionOnSet(Delta, DueBy(filed[Report!Events[k]].due)) < 0
<1>1. PICK N, e, d, base : /\ N = Cardinality(Expected) /\ e = Report!Events /\ d = filed[Report!Events[k]].due
                           /\ base = Report!CashAvailable
  OBVIOUS
<1>2. /\ N \in Nat /\ base \in Int /\ base >= 0 /\ k \in 1 .. N /\ e[k] \in Expected /\ d \in Nat
      /\ Delta[e[k]] \in Int
  <2>1. k \in 1 .. N
    BY <1>1 DEF Deficits
  <2> QED
    BY <1>1, <2>1, CashIsNet, ExpectedFinite, EventIs
<1>3. Lists(e, N, Expected) /\ IsFiniteSet(Expected) /\ \A i \in Expected : Delta[i] \in Int
  BY <1>1, EventsAre, ExpectedFinite
<1>4. PICK now, then : now = First(e, k) /\ then = First(e, k - 1)
  OBVIOUS
<1>5. now \in SUBSET Expected /\ then \in SUBSET Expected /\ e[k] \in now /\ then = now \ {e[k]}
  <2>1. \A n \in 1 .. k : n \in 1 .. N /\ (n = k \/ n \in 1 .. k - 1)
    BY <1>2
  <2>2. \A n \in 1 .. k - 1 : n \in 1 .. k /\ n # k /\ n \in 1 .. N
    BY <1>2
  <2>3. k \in 1 .. k
    BY <1>2
  <2>4. \A n \in 1 .. N : e[n] \in Expected
    BY <1>3 DEF Lists
  <2>5. \A n \in 1 .. k - 1 : e[n] # e[k]
    BY <1>2, <1>3, <2>2 DEF Lists
  <2> QED
    BY <1>4, <2>1, <2>2, <2>3, <2>4, <2>5 DEF First
<1>6. IsFiniteSet(now) /\ \A i \in now : Delta[i] \in Int
  BY <1>3, <1>5, FS_Subset
<1>7. SumFunctionOnSet(Delta, now) = Delta[e[k]] + SumFunctionOnSet(Delta, then)
  BY <1>5, <1>6, SumWithout
<1>8. SumFunctionOnSet(Delta, now) \in Int /\ SumFunctionOnSet(Delta, then) \in Int
  BY <1>5, DeltasAre
<1>9. base + SumFunctionOnSet(Delta, now) < 0
  BY <1>1, <1>4 DEF Deficits, Balance
<1>10. base + SumFunctionOnSet(Delta, then) >= 0
  <2>1. CASE k = 1
    <3>1. then = {}
      BY <1>4, <2>1 DEF First
    <3> QED
      BY <1>2, <3>1, SumEmpty
  <2>2. CASE k # 1
    <3>1. k - 1 \in 1 .. N /\ ~ (k <= k - 1)
      BY <1>2, <2>2
    <3>2. k - 1 \notin Deficits
      BY <3>1
    <3>3. ~ (base + SumFunctionOnSet(Delta, then) < 0)
      BY <1>1, <1>4, <3>1, <3>2 DEF Deficits, Balance
    <3> QED
      BY <1>2, <1>8, <3>3
  <2> QED
    BY <2>1, <2>2
<1>11. e[k] \in Report!ExpectedPayments
  <2>1. Delta[e[k]] < 0
    BY <1>2, <1>7, <1>8, <1>9, <1>10
  <2>2. PICK i \in Expected : i = e[k]
    BY <1>2
  <2>3. /\ Delta[i] = (IF i \in Report!ExpectedCollections THEN Owed[i] ELSE -Owed[i]) /\ Owed[i] \in Nat
        /\ i \in Report!ExpectedPayments <=> i \notin Report!ExpectedCollections
    BY ExpectedIs
  <2>4. i \notin Report!ExpectedCollections
    BY <2>1, <2>2, <2>3
  <2> QED
    BY <2>2, <2>3, <2>4
<1>12. PICK all, rest : all = DueBy(d) /\ rest = DueBy(d) \ now
  OBVIOUS
<1>13. now \in SUBSET all /\ rest = all \ now /\ all \subseteq Expected /\ rest \subseteq Expected
  <2>1. \A n \in 1 .. k : n \in 1 .. N /\ n <= k
    BY <1>2
  <2>2. \A n \in 1 .. k : filed[e[n]].due <= d /\ e[n] \in Expected
    BY <1>1, <1>2, <2>1, EventsInOrder, EventIs
  <2> QED
    BY <1>4, <1>12, <2>2 DEF DueBy, First
<1>14. rest \subseteq Report!ExpectedPayments
  <2> SUFFICES ASSUME NEW i \in rest PROVE i \in Report!ExpectedPayments
    OBVIOUS
  <2>1. i \in Expected /\ filed[i].due <= d /\ i \notin now
    BY <1>12 DEF DueBy
  <2>2. PICK n \in 1 .. N : e[n] = i
    BY <1>1, <2>1, EventsOfAll DEF First
  <2>3. k < n
    <3>1. n \notin 1 .. k
      BY <1>4, <2>1, <2>2 DEF First
    <3> QED
      BY <1>2, <3>1
  <2>4. Report!Earlier(e[k], i)
    BY <1>1, <1>2, <2>2, <2>3, EventsAre
  <2>5. Rank(e[k]) = 1
    BY <1>1, <1>2, <1>11, ExpectedIs DEF Rank
  <2>6. filed[i].due \in Nat /\ (i \in Report!ExpectedPayments <=> i \notin Report!ExpectedCollections)
    BY <2>1, ExpectedIs
  <2>7. Rank(i) # 0
    <3>1. ~ (d < filed[i].due)
      BY <1>2, <2>1, <2>6
    <3> QED
      BY <1>1, <2>4, <2>5, <3>1, EarlierIs
  <2> QED
    BY <2>6, <2>7 DEF Rank
<1>15. SumFunctionOnSet(Delta, all) = SumFunctionOnSet(Delta, now) + SumFunctionOnSet(Delta, rest)
  <2>1. IsFiniteSet(all) /\ \A i \in all : Delta[i] \in Int
    BY <1>3, <1>13, FS_Subset
  <2> QED
    BY <1>13, <2>1, SumOfBoth
<1>16. SumFunctionOnSet(Delta, rest) \in Int /\ SumFunctionOnSet(Delta, rest) <= 0
  <2>1. rest \cap Report!ExpectedCollections = {}
    BY <1>13, <1>14, ExpectedIs
  <2>2. SumFunctionOnSet(Owed, rest \cap Report!ExpectedCollections) = 0
    BY <2>1, SumEmpty
  <2>3. PICK bill : bill = SumFunctionOnSet(Owed, rest \cap Report!ExpectedPayments)
    OBVIOUS
  <2>4. /\ SumFunctionOnSet(Delta, rest) = SumFunctionOnSet(Owed, rest \cap Report!ExpectedCollections) - bill
        /\ bill \in Nat
    BY <1>13, <2>3, DeltasAre
  <2>5. SumFunctionOnSet(Delta, rest) = 0 - bill
    BY <2>2, <2>4
  <2> QED
    BY <2>4, <2>5
<1>17. base + SumFunctionOnSet(Delta, all) < 0
  BY <1>2, <1>8, <1>9, <1>15, <1>16
<1> QED
  BY <1>1, <1>11, <1>12, <1>17

(* The days on which the till cannot cover what is due by then. *)
ShortDays == {filed[i].due : i \in {j \in Report!ExpectedPayments :
                Report!CashAvailable + SumFunctionOnSet(Delta, DueBy(filed[j].due)) < 0}}

(* The forecast names a day no later than any of them, and of a till that is *)
(* not overdrawn the first of them, on which a bill is due.                  *)
LEMMA ForecastNames ==
  ASSUME Report!FiguresAssumption, ReportInv
  PROVE  /\ \A d \in ShortDays : Report!ForecastCashDeficit.short <= d
         /\ Report!ForecastCashDeficit.short # Report!NoDay <=> Deficits # {}
         /\ Report!CashAvailable >= 0 =>
              /\ Report!ForecastCashDeficit.short = IF ShortDays = {} THEN Report!NoDay ELSE Report!Min(ShortDays)
              /\ Deficits # {} =>
                   \E i \in Report!ExpectedPayments : filed[i].due = Report!ForecastCashDeficit.short
<1>1. PICK N, e, short, base : /\ N = Cardinality(Expected) /\ e = Report!Events /\ base = Report!CashAvailable
                               /\ short = Report!ForecastCashDeficit.short
  OBVIOUS
<1>2. N \in Nat /\ base \in Int /\ Report!NoDay \in Nat
  BY <1>1, ExpectedFinite, CashIsNet, Bounds
<1>3. \A i \in Report!ExpectedPayments : i \in Expected /\ filed[i].due \in Nat /\ filed[i].due < Report!NoDay
  BY ExpectedIs DEF Expected
<1>4. ShortDays \subseteq Nat
  BY <1>3 DEF ShortDays
<1>5. ASSUME NEW d \in ShortDays PROVE \E m \in Deficits : filed[e[m]].due <= d
  <2>1. PICK i \in Report!ExpectedPayments : filed[i].due = d /\ base + SumFunctionOnSet(Delta, DueBy(filed[i].due)) < 0
    BY <1>1, <1>5 DEF ShortDays
  <2>2. PICK m \in 1 .. N : filed[e[m]].due <= filed[i].due /\ First(e, m) = DueBy(filed[i].due)
    BY <1>1, <1>3, DayIsWhole
  <2>3. m \in Deficits
    BY <1>1, <2>1, <2>2 DEF Deficits, Balance
  <2> QED
    BY <2>1, <2>2, <2>3
<1>6. CASE Deficits = {}
  <2>1. ShortDays = {} /\ short = Report!NoDay
    BY <1>1, <1>5, <1>6, ForecastIs
  <2> QED
    BY <1>1, <1>6, <2>1
<1>7. CASE Deficits # {}
  <2>1. Deficits \subseteq Nat /\ Deficits \subseteq 1 .. N
    BY <1>1, <1>2 DEF Deficits
  <2>2. PICK k : k = Report!Min(Deficits)
    OBVIOUS
  <2>3. k \in Deficits /\ \A n \in Deficits : k <= n
    BY <1>7, <2>1, <2>2, EarliestIs
  <2>4. short = filed[e[k]].due
    BY <1>1, <1>7, <2>2, ForecastIs
  <2>5. short \in Nat /\ short < Report!NoDay
    BY <1>1, <2>1, <2>3, <2>4, EventIs
  <2>6. \A d \in ShortDays : short <= d
    <3> TAKE d \in ShortDays
    <3>1. PICK m \in Deficits : filed[e[m]].due <= d
      BY <1>5
    <3>2. filed[e[k]].due <= filed[e[m]].due /\ filed[e[m]].due \in Nat
      BY <1>1, <2>1, <2>3, EventsInOrder, EventIs
    <3> QED
      BY <1>4, <2>4, <2>5, <3>1, <3>2
  <2>7. ASSUME base >= 0
        PROVE  /\ ShortDays # {} /\ short = Report!Min(ShortDays)
               /\ \E i \in Report!ExpectedPayments : filed[i].due = short
    <3>1. e[k] \in Report!ExpectedPayments /\ base + SumFunctionOnSet(Delta, DueBy(short)) < 0
      BY <1>1, <2>3, <2>4, <2>7, FirstDeficit
    <3>2. short \in ShortDays
      BY <1>1, <2>4, <3>1 DEF ShortDays
    <3>3. PICK m : m = Report!Min(ShortDays)
      OBVIOUS
    <3>4. m \in ShortDays /\ \A d \in ShortDays : m <= d
      BY <1>4, <3>2, <3>3, EarliestIs
    <3>5. m = short
      BY <1>4, <2>5, <2>6, <3>2, <3>4
    <3> QED
      BY <2>4, <3>1, <3>2, <3>3, <3>5
  <2>8. short # Report!NoDay
    BY <1>2, <2>5
  <2> QED
    BY <1>1, <1>7, <2>6, <2>7, <2>8
<1> QED
  BY <1>6, <1>7

(* If the till is short after all that is expected, the forecast says when, *)
(* if anything is; and something is if the till holds something.            *)
LEMMA ShortageIsForecast ==
  ASSUME Report!FiguresAssumption, ReportInv, Report!NetCashPosition < 0
  PROVE  /\ Report!ForecastCashDeficit.short # Report!NoDay <=> Expected # {}
         /\ Report!CashAvailable >= 0 => Expected # {}
<1>1. PICK N, base : N = Cardinality(Expected) /\ base = Report!CashAvailable
  OBVIOUS
<1>2. N \in Nat /\ base \in Int /\ base + SumFunctionOnSet(Delta, Expected) < 0
  BY <1>1, ExpectedFinite, CashIsNet, PositionIs
<1>3. N = 0 <=> Expected = {}
  BY <1>1, ExpectedFinite, FS_EmptySet
<1>4. N # 0 => N \in Deficits
  <2>1. Balance(N) < 0
    BY <1>1, <1>2, EventsOfAll DEF Balance
  <2>2. N # 0 => N \in 1 .. N
    BY <1>2
  <2> QED
    BY <1>1, <2>1, <2>2 DEF Deficits
<1>5. N = 0 => Deficits = {}
  BY <1>1 DEF Deficits
<1>6. Expected = {} => base < 0
  BY <1>2, SumEmpty
<1> QED
  BY <1>1, <1>2, <1>3, <1>4, <1>5, <1>6, ForecastNames

(* Of a till that is not overdrawn the forecast has a bill to blame. *)
LEMMA ForecastBlames ==
  ASSUME Report!FiguresAssumption, ReportInv, Report!CashAvailable >= 0,
         Report!ForecastCashDeficit.short # Report!NoDay
  PROVE  Report!ForecastCashDeficit.trigger # {}
<1>1. PICK i \in Report!ExpectedPayments : filed[i].due = Report!ForecastCashDeficit.short
  BY ForecastNames
<1>2. PICK bills : bills = {j \in Report!ExpectedPayments : filed[j].due <= Report!ForecastCashDeficit.short}
  OBVIOUS
<1>3. \A j \in bills : Report!Outstanding(j) \in Nat /\ Report!Outstanding(j) <= MaxFiled /\ filed[j].due \in Nat
  <2> TAKE j \in bills
  <2>1. j \in Expected
    BY <1>2 DEF Expected
  <2> QED
    BY <2>1, ExpectedIs
<1>4. i \in bills
  <2>1. i \in Expected
    BY DEF Expected
  <2>2. filed[i].due \in Nat
    BY <2>1, ExpectedIs
  <2>3. filed[i].due <= Report!ForecastCashDeficit.short
    BY <1>1, <2>2
  <2> QED
    BY <1>2, <2>3
<1>5. PICK T : T = {Report!Outstanding(j) : j \in bills}
  OBVIOUS
<1>6. T \subseteq 0 .. MaxFiled /\ T # {} /\ MaxFiled \in Nat
  BY <1>3, <1>4, <1>5, Bounds
<1>7. PICK m \in T : \A n \in T : n <= m
  BY <1>6, LatestIs
<1>8. PICK j \in bills : m = Report!Outstanding(j)
  BY <1>5, <1>7
<1>9. \A b \in bills : Report!Outstanding(b) <= Report!Outstanding(j)
  BY <1>5, <1>7, <1>8
<1>10. Report!ForecastCashDeficit.trigger
         = {a \in bills : \A b \in bills : Report!Outstanding(b) <= Report!Outstanding(a)}
  BY <1>2 DEF Report!ForecastCashDeficit, Report!Largest
<1>11. j \in Report!ForecastCashDeficit.trigger
  BY <1>8, <1>9, <1>10
<1> QED
  BY <1>11

(* A dealer with something in a bucket of the aging but the first is late. *)
LEMMA LateIs ==
  ASSUME Report!FiguresAssumption, ReportInv, NEW p
  PROVE  Report!SumOver(1 .. 4, LAMBDA b : Report!AgingRow(p)[b]) > 0
           <=> \E i \in Report!Open({p}) : filed[i].due < today
<1> DEFINE g == [b \in 1 .. 4 |-> Report!AgingRow(p)[b]]
<1>1. PICK aged, buckets : aged = {i \in Report!Open({p}) : filed[i].due < today} /\ buckets = 1 .. 4
  OBVIOUS
<1>2. aged \subseteq OnFile /\ aged \subseteq Report!Open({p}) /\ IsFiniteSet(aged)
  <2>1. aged \subseteq Report!Open({p}) /\ Report!Open({p}) \subseteq OnFile /\ IsFiniteSet(Report!Open({p}))
    BY <1>1, OpenIs
  <2> QED
    BY <2>1, FS_Subset
<1>3. ASSUME NEW i \in Report!Open({p}) PROVE Bucket[i] \in buckets <=> i \in aged
  <2>1. filed[i].due \in Nat /\ i \in OnFile
    BY OpenIsDue
  <2>2. today \in Nat
    BY DEF ReportInv, Report!Days
  <2>3. PICK days : days = today - filed[i].due /\ days \in Int /\ (days > 0 <=> filed[i].due < today)
    BY <2>1, <2>2
  <2>4. Bucket[i] = Report!BucketFor(days)
    BY <2>1, <2>3 DEF Bucket
  <2>5. Report!BucketFor(days) \in 1 .. 4 <=> days > 0
    <3>1. CASE days <= 0
      BY <2>3, <3>1 DEF Report!BucketFor
    <3>2. CASE ~ (days <= 0)
      <4>1. Report!BucketFor(days) \in {1, 2, 3, 4}
        BY <3>2 DEF Report!BucketFor
      <4> QED
        BY <2>3, <3>2, <4>1
    <3> QED
      BY <3>1, <3>2
  <2> QED
    BY <1>1, <2>3, <2>4, <2>5
<1>4. \A b \in buckets : g[b] = SumFunctionOnSet(Owed, WithKey(aged, Bucket, b))
  <2> SUFFICES ASSUME NEW b \in buckets PROVE g[b] = SumFunctionOnSet(Owed, WithKey(aged, Bucket, b))
    OBVIOUS
  <2>1. InBucket({p}, b) = WithKey(aged, Bucket, b)
    BY <1>2, <1>3 DEF InBucket, WithKey
  <2>2. b \in 0 .. 4 /\ g[b] = Report!AgingRow(p)[b]
    BY <1>1
  <2> QED
    BY <2>1, <2>2, AgingRowIs
<1>5. Report!SumOver(1 .. 4, LAMBDA b : Report!AgingRow(p)[b]) = SumFunctionOnSet(g, buckets)
  BY <1>1, ReportSum DEF Report!SumOver
<1>6. \A i \in aged : Owed[i] \in Nat /\ Owed[i] > 0 /\ Owed[i] \in Int /\ Bucket[i] \in buckets
  <2> TAKE i \in aged
  <2>1. i \in Report!Open({p})
    BY <1>2
  <2>2. Owed[i] \in Nat /\ Owed[i] > 0
    BY <2>1, OpenIsDue
  <2>3. Bucket[i] \in buckets
    BY <1>3, <2>1
  <2> QED
    BY <2>2, <2>3
<1>7. IsFiniteSet(buckets)
  <2>1. 1 \in Int /\ 4 \in Int
    OBVIOUS
  <2> QED
    BY <1>1, <2>1, FS_Interval
<1> HIDE DEF g
<1>8. SumFunctionOnSet(g, buckets) = SumFunctionOnSet(Owed, aged)
  BY <1>2, <1>4, <1>6, <1>7, SumByKey
<1>9. CASE aged = {}
  <2>1. SumFunctionOnSet(Owed, aged) = 0
    BY <1>9, SumEmpty
  <2>2. ~ (Report!SumOver(1 .. 4, LAMBDA b : Report!AgingRow(p)[b]) > 0)
    BY <1>5, <1>8, <2>1
  <2> QED
    BY <1>1, <1>9, <2>2
<1>10. CASE aged # {}
  <2>1. PICK first : first \in aged
    BY <1>10
  <2>2. SumFunctionOnSet(Owed, aged) = Owed[first] + SumFunctionOnSet(Owed, aged \ {first})
    BY <1>2, <1>6, <2>1, SumWithout
  <2>3. SumFunctionOnSet(Owed, aged \ {first}) \in Nat
    BY <1>2, <1>6, SumOfSome
  <2>4. SumFunctionOnSet(Owed, aged) > 0
    BY <1>6, <2>1, <2>2, <2>3
  <2> QED
    BY <1>1, <1>5, <1>8, <2>1, <2>4
<1> QED
  BY <1>9, <1>10

(* The summary counts whom the aging shows as overdue, and its position is *)
(* what is in the till with what is to come in and to go out.              *)
LEMMA SummaryIs ==
  ASSUME Report!FiguresAssumption, ReportInv
  PROVE  /\ Report!BusinessSummary.overdue
              = Report!Cardinality({p \in Debtors : Report!SumOver(1 .. 4, LAMBDA b : Report!AgingRow(p)[b]) > 0})
         /\ Report!BusinessSummary.position.net = Report!BusinessSummary.position.now
              + Report!BusinessSummary.expectedIn - Report!BusinessSummary.expectedOut
         /\ Report!BusinessSummary.position.shortage <=> Report!NetCashPosition < 0
<1>1. {p \in Debtors : Report!SumOver(1 .. 4, LAMBDA b : Report!AgingRow(p)[b]) > 0} = Report!OverdueDealers
  <2>1. \A p \in Debtors : Report!SumOver(1 .. 4, LAMBDA b : Report!AgingRow(p)[b]) > 0
                             <=> \E i \in Report!Open({p}) : filed[i].due < today
    <3> TAKE p \in Debtors
    <3> QED
      BY LateIs
  <2> QED
    BY <2>1 DEF Report!OverdueDealers
<1>2. /\ Report!BusinessSummary.overdue = Report!Cardinality(Report!OverdueDealers)
      /\ Report!BusinessSummary.position.net = Report!NetCashPosition
      /\ Report!BusinessSummary.position.now = Report!CashAvailable
      /\ Report!BusinessSummary.expectedIn = Report!SumOver(Report!ExpectedCollections, Report!Outstanding)
      /\ Report!BusinessSummary.expectedOut = Report!SumOver(Report!ExpectedPayments, Report!Outstanding)
      /\ Report!BusinessSummary.position.shortage <=> Report!NetCashPosition < 0
  BY DEF Report!BusinessSummary, Report!CashPosition, Report!CollectionsReport, Report!SuppliersReport
<1>3. Report!NetCashPosition = Report!CashAvailable
        + Report!SumOver(Report!ExpectedCollections, Report!Outstanding)
        - Report!SumOver(Report!ExpectedPayments, Report!Outstanding)
  BY DEF Report!NetCashPosition
<1> QED
  BY <1>1, <1>2, <1>3

(* How late a dealer is who is, and what he owes. *)
LEMMA OverdueIs ==
  ASSUME Report!FiguresAssumption, ReportInv, NEW p \in Report!OverdueDealers
  PROVE  /\ p \in Debtors /\ Report!DaysOverdue(p) \in Int
         /\ Report!DealerBalanceReply(p).outstanding = Report!CalculatePartyOutstanding(p)
         /\ Report!CalculatePartyOutstanding(p) \in Nat
<1>1. p \in Debtors
  BY DEF Report!OverdueDealers
<1>2. PICK first \in Report!Open({p}) : filed[first].due < today
  BY DEF Report!OverdueDealers
<1>3. PICK due : due = {filed[i].due : i \in Report!Open({p})}
  OBVIOUS
<1>4. due \subseteq Nat /\ due # {}
  BY <1>3, OpenIsDue
<1>5. PICK m \in due : \A n \in due : m <= n
  BY <1>4, SmallestNumber
<1>6. today \in Nat
  BY DEF ReportInv, Report!Days
<1>7. Report!DaysOverdue(p) = today - m
  <2>1. {today - filed[i].due : i \in Report!Open({p})} = {today - n : n \in due}
    BY <1>3
  <2>2. Report!Max({today - n : n \in due}) = today - m
    BY <1>4, <1>5, <1>6, OldestIs
  <2> QED
    BY <2>1, <2>2 DEF Report!DaysOverdue
<1>8. Report!DaysOverdue(p) \in Int
  BY <1>4, <1>6, <1>7
<1> QED
  BY <1>1, <1>8, DealerIsTold, PartyOwes

Level(name) == {p \in Report!OverdueDealers : Report!RiskLevel(p) = name}

(* Whoever is overdue is on one of the lists of the risk report. *)
LEMMA LevelsAre ==
  /\ Report!DealerRiskReport["High"] = Level("High") /\ Report!DealerRiskReport["Medium"] = Level("Medium")
  /\ Report!OverdueDealers = UNION {Report!DealerRiskReport[level] : level \in DOMAIN Report!DealerRiskReport}
<1>1. /\ DOMAIN Report!DealerRiskReport = {"High", "Medium", "Low"}
      /\ \A level \in {"High", "Medium", "Low"} : Report!DealerRiskReport[level] = Level(level)
  BY DEF Report!DealerRiskReport, Level
<1>2. \A p \in Report!OverdueDealers : Report!RiskLevel(p) \in {"High", "Medium", "Low"}
  BY DEF Report!RiskLevel
<1> QED
  BY <1>1, <1>2 DEF Level

(* Whom to call and whom to remind, dealer by dealer. *)
LEMMA DealerIsOnOneList ==
  ASSUME Report!FiguresAssumption, ReportInv,
         NEW limit \in [Debtors -> {Report!NoLimit} \cup 1 .. MaxFiled], NEW p \in Debtors
  PROVE  /\ ~ (Report!CallDealer(p, limit) /\ Report!FollowUpReminder(p))
         /\ Report!CallDealer(p, limit)
              <=> /\ p \in Level("High")
                  /\ ~ (limit[p] # Report!NoLimit /\ Report!DealerBalanceReply(p).outstanding <= limit[p])
         /\ Report!FollowUpReminder(p) <=> p \in Level("Medium")
<1>1. CASE p \notin Report!OverdueDealers
  BY <1>1 DEF Report!CallDealer, Report!FollowUpReminder, Level
<1>2. CASE p \in Report!OverdueDealers
  <2>1. PICK days, owed, most : /\ days = Report!DaysOverdue(p) /\ owed = Report!CalculatePartyOutstanding(p)
                                /\ most = limit[p]
    OBVIOUS
  <2>2. days \in Int /\ owed \in Nat /\ Report!DealerBalanceReply(p).outstanding = owed
    BY <1>2, <2>1, OverdueIs
  <2>3. FollowUpAfter \in Nat /\ CallAfter \in Nat
    BY DEF Report!FiguresAssumption
  <2>4. most = Report!NoLimit \/ most \in Int
    BY <2>1, Bounds
  <2>5. /\ Report!CallDealer(p, limit) <=> days > CallAfter /\ (most = Report!NoLimit \/ owed > most)
        /\ Report!FollowUpReminder(p) <=> days \in FollowUpAfter .. CallAfter
    BY <1>2, <2>1 DEF Report!CallDealer, Report!FollowUpReminder
  <2>6. /\ p \in Level("High") <=> days > CallAfter
        /\ p \in Level("Medium") <=> ~ (days > CallAfter) /\ days >= FollowUpAfter
    BY <1>2, <2>1 DEF Level, Report!RiskLevel
  <2>7. days \in FollowUpAfter .. CallAfter <=> ~ (days > CallAfter) /\ days >= FollowUpAfter
    BY <2>2, <2>3
  <2>8. (most = Report!NoLimit \/ owed > most) <=> ~ (most # Report!NoLimit /\ owed <= most)
    BY <2>2, <2>4
  <2> QED
    BY <2>1, <2>2, <2>5, <2>6, <2>7, <2>8, Zenon
<1> QED
  BY <1>1, <1>2

(* A dealer late enough to matter is on exactly one list of the briefing. *)
LEMMA RecommendationsCover ==
  ASSUME Report!FiguresAssumption, ReportInv,
         NEW limit \in [Debtors -> {Report!NoLimit} \cup 1 .. MaxFiled]
  PROVE  LET told == Report!BuildRecommendations(limit)
             within == {p \in Report!DealerRiskReport["High"] :
                          limit[p] # Report!NoLimit /\ Report!DealerBalanceReply(p).outstanding <= limit[p]}
         IN /\ told.callDealer \cap told.followUp = {}
            /\ told.callDealer \cup told.followUp
                 = (Report!DealerRiskReport["High"] \ within) \cup Report!DealerRiskReport["Medium"]
            /\ told.cashDeficit <=> Report!NetCashPosition < 0
<1>1. PICK call, remind, high, medium, within :
        /\ call = {p \in Debtors : Report!CallDealer(p, limit)}
        /\ remind = {p \in Debtors : Report!FollowUpReminder(p)}
        /\ high = Level("High") /\ medium = Level("Medium")
        /\ within = {p \in high : limit[p] # Report!NoLimit /\ Report!DealerBalanceReply(p).outstanding <= limit[p]}
  OBVIOUS
<1>2. /\ Report!BuildRecommendations(limit).callDealer = call
      /\ Report!BuildRecommendations(limit).followUp = remind
      /\ Report!BuildRecommendations(limit).cashDeficit <=> Report!NetCashPosition < 0
  BY <1>1 DEF Report!BuildRecommendations, Report!CashPosition
<1>3. \A p \in high \cup medium : p \in Debtors
  BY <1>1 DEF Level, Report!OverdueDealers
<1>4. call \cap remind = {} /\ call = high \ within /\ remind = medium
  BY <1>1, <1>3, DealerIsOnOneList
<1> QED
  BY <1>1, <1>2, <1>4, LevelsAre

(* The forecast, the summary and the briefing's lists warn of what is there. *)
LEMMA WarningsAreTrue == ASSUME Report!FiguresAssumption, ReportInv PROVE Report!WarningsCover
<1> DEFINE net(n) == Report!CashAvailable
                 + Report!SumOver({i \in Report!ExpectedCollections : filed[i].due <= n}, Report!Outstanding)
                 - Report!SumOver({i \in Report!ExpectedPayments : filed[i].due <= n}, Report!Outstanding)
           short == {filed[i].due : i \in {j \in Report!ExpectedPayments : net(filed[j].due) < 0}}
<1>1. short = ShortDays
  <2>1. \A n : net(n) = Report!CashAvailable + SumFunctionOnSet(Delta, DueBy(n))
    BY PositionIs
  <2> HIDE DEF net
  <2> QED
    BY <2>1 DEF ShortDays
<1>2. /\ \A d \in short : Report!ForecastCashDeficit.short <= d
      /\ Report!CashAvailable >= 0 =>
           /\ Report!ForecastCashDeficit.short = IF short = {} THEN Report!NoDay ELSE Report!Min(short)
           /\ Report!ForecastCashDeficit.short # Report!NoDay => Report!ForecastCashDeficit.trigger # {}
  <2> HIDE DEF short
  <2> QED
    BY <1>1, ForecastNames, ForecastBlames
<1>3. Report!BusinessSummary.position.shortage =>
        (Report!ForecastCashDeficit.short # Report!NoDay
           <=> Report!ExpectedCollections \cup Report!ExpectedPayments # {})
  BY ShortageIsForecast, SummaryIs DEF Expected
<1>4. \A limit \in [Debtors -> {Report!NoLimit} \cup 1 .. MaxFiled] :
        LET told == Report!BuildRecommendations(limit)
            within == {p \in Report!DealerRiskReport["High"] :
                         limit[p] # Report!NoLimit /\ Report!DealerBalanceReply(p).outstanding <= limit[p]}
        IN /\ told.callDealer \cap told.followUp = {}
           /\ told.callDealer \cup told.followUp
                = (Report!DealerRiskReport["High"] \ within) \cup Report!DealerRiskReport["Medium"]
           /\ told.cashDeficit /\ Report!CashAvailable >= 0 => Report!ForecastCashDeficit.short # Report!NoDay
  <2> TAKE limit \in [Debtors -> {Report!NoLimit} \cup 1 .. MaxFiled]
  <2>1. Report!BuildRecommendations(limit).cashDeficit /\ Report!CashAvailable >= 0
          => Report!ForecastCashDeficit.short # Report!NoDay
    BY RecommendationsCover, ShortageIsForecast
  <2> QED
    BY <2>1, RecommendationsCover
<1> QED
  BY <1>2, <1>3, <1>4, SummaryIs, LevelsAre DEF Report!WarningsCover

(* The trend of a dealer's orders. *)
LEMMA TrendIs ==
  ASSUME Report!FiguresAssumption, ReportInv, NEW p
  PROVE  LET w == Report!WindowPair(ActivityDays)
         IN /\ Report!DealerTrend(p).value = SumFunctionOnSet(Worth, Trade({p}, w.current))
                                             - SumFunctionOnSet(Worth, Trade({p}, w.prior))
            /\ SumFunctionOnSet(Worth, Trade({p}, w.current)) \in Int
            /\ SumFunctionOnSet(Worth, Trade({p}, w.prior)) \in Int
<1>1. PICK now, then : now = Report!WindowPair(ActivityDays).current /\ then = Report!WindowPair(ActivityDays).prior
  OBVIOUS
<1>2. \A D : Report!SumFunctionOnSet([i \in Report!DealerOrders(p, D) |-> filed[i].total], Report!DealerOrders(p, D))
               = SumFunctionOnSet(Worth, Trade({p}, D))
  BY TradesAre DEF Report!DealerOrders, Trade
<1>3. Report!DealerTrend(p).value
        = Report!SumFunctionOnSet([i \in Report!DealerOrders(p, now) |-> filed[i].total], Report!DealerOrders(p, now))
          - Report!SumFunctionOnSet([i \in Report!DealerOrders(p, then) |-> filed[i].total], Report!DealerOrders(p, then))
  BY <1>1 DEF Report!DealerTrend, Report!SumOver, Report!Change
<1> QED
  BY <1>1, <1>2, <1>3, TradesAre

(* What some dealers traded adds up dealer by dealer. *)
LEMMA TradeByParty ==
  ASSUME Report!FiguresAssumption, ReportInv, NEW P, IsFiniteSet(P), NEW D,
         NEW g, \A p \in P : g[p] = SumFunctionOnSet(Worth, Trade({p}, D))
  PROVE  SumFunctionOnSet(g, P) = SumFunctionOnSet(Worth, Trade(P, D))
<1>1. PICK all : all = Trade(P, D)
  OBVIOUS
<1>2. \A i \in Report!Live(P) : i \in OnFile /\ filed[i].party \in P /\ Party[i] = filed[i].party
  BY OpenIs DEF Party
<1>3. all \subseteq Report!Live(P) /\ IsFiniteSet(all) /\ (\A i \in all : Worth[i] \in Int) /\ \A i \in all : Party[i] \in P
  BY <1>1, <1>2, TradesAre
<1>4. \A p \in P : g[p] = SumFunctionOnSet(Worth, WithKey(all, Party, p))
  <2> TAKE p \in P
  <2>1. Report!Live({p}) = {i \in Report!Live(P) : filed[i].party = p}
    BY OpenIs
  <2>2. Trade({p}, D) = WithKey(all, Party, p)
    BY <1>1, <1>2, <2>1 DEF Trade, WithKey
  <2> QED
    BY <2>2
<1>5. SumFunctionOnSet(g, P) = SumFunctionOnSet(Worth, all)
  BY <1>3, <1>4, SumByKey
<1> QED
  BY <1>1, <1>5

(* Who orders more and who orders less make up the change of the sales. *)
LEMMA MoversAddUp ==
  ASSUME Report!FiguresAssumption, ReportInv, \A p \in Debtors : Report!DealerTrend(p).listed
  PROVE  LET a == Report!WindowPair(ActivityDays)
             movers == Report!TopMovers.rising \cup Report!TopMovers.falling
         IN Report!Change(Report!SalesTotal(a.current), Report!SalesTotal(a.prior))
              = Report!SumFunctionOnSet([p \in movers |-> Report!TrendWorkbook[p].value], movers)
<1>1. PICK P, now, then, movers :
        /\ P = Debtors
        /\ now = Report!WindowPair(ActivityDays).current /\ then = Report!WindowPair(ActivityDays).prior
        /\ movers = Report!TopMovers.rising \cup Report!TopMovers.falling
  OBVIOUS
<1>2. PICK more, less, change, told :
        /\ more = [p \in P |-> SumFunctionOnSet(Worth, Trade({p}, now))]
        /\ less = [p \in P |-> SumFunctionOnSet(Worth, Trade({p}, then))]
        /\ change = [p \in P |-> Report!DealerTrend(p).value]
        /\ told = [p \in movers |-> Report!TrendWorkbook[p].value]
  OBVIOUS
<1>3. \A p \in P : more[p] \in Int /\ less[p] \in Int /\ change[p] = more[p] - less[p]
  BY <1>1, <1>2, TrendIs
<1>4. IsFiniteSet(P)
  BY <1>1, Bounds
<1>5. SumFunctionOnSet(change, P) = SumFunctionOnSet(more, P) - SumFunctionOnSet(less, P)
  BY <1>3, <1>4, SumsTakeOff
<1>6. SumFunctionOnSet(more, P) = Report!SalesTotal(now)
  <2>1. SumFunctionOnSet(more, P) = SumFunctionOnSet(Worth, Trade(P, now))
    BY <1>2, <1>4, TradeByParty
  <2> QED
    BY <1>1, <2>1, SalesAre
<1>7. SumFunctionOnSet(less, P) = Report!SalesTotal(then)
  <2>1. SumFunctionOnSet(less, P) = SumFunctionOnSet(Worth, Trade(P, then))
    BY <1>2, <1>4, TradeByParty
  <2> QED
    BY <1>1, <2>1, SalesAre
<1>8. movers \in SUBSET P /\ \A p \in P : p \in movers <=> change[p] > 0 \/ change[p] < 0
  BY <1>1, <1>2 DEF Report!TopMovers
<1>9. \A p \in movers : told[p] \in Int /\ change[p] = told[p]
  <2> TAKE p \in movers
  <2>1. p \in Debtors /\ Report!DealerTrend(p).listed
    BY <1>1, <1>8
  <2>2. Report!TrendWorkbook[p] = Report!DealerTrend(p)
    BY <2>1 DEF Report!TrendWorkbook
  <2>3. told[p] = change[p]
    BY <1>1, <1>2, <2>1, <2>2
  <2>4. change[p] \in Int
    BY <1>1, <1>3, <2>1
  <2> QED
    BY <2>3, <2>4
<1>10. \A p \in P \ movers : change[p] = 0
  <2> SUFFICES ASSUME NEW p \in P, p \notin movers PROVE change[p] = 0
    OBVIOUS
  <2>1. change[p] \in Int /\ ~ (change[p] > 0) /\ ~ (change[p] < 0)
    BY <1>3, <1>8
  <2> QED
    BY <2>1
<1>11. SumFunctionOnSet(change, P) = SumFunctionOnSet(told, movers)
  BY <1>4, <1>8, <1>9, <1>10, SumOfTheRest
<1> QED
  BY <1>1, <1>2, <1>5, <1>6, <1>7, <1>11, ReportSum DEF Report!Change

(* A list of the latest receipts has one as late as any. *)
LEMMA ListsTheLatest ==
  ASSUME Report!FiguresAssumption, ReportInv, NEW shown \in Report!ListedPayments(ListCap), NEW p \in Debtors,
         Report!DealerBalanceReply(p).lastPayment \in Report!Days
  PROVE  \E q \in shown : receipts[q].date >= Report!DealerBalanceReply(p).lastPayment
<1>1. PICK paid, last : /\ paid = {receipts[q].date : q \in {r \in Received : filed[receipts[r].invoice].party = p}}
                        /\ last = Report!DealerBalanceReply(p).lastPayment
  OBVIOUS
<1>2. last = IF paid = {} THEN Report!NoDay ELSE Report!Max(paid)
  BY <1>1 DEF Report!DealerBalanceReply, Received
<1>3. last \in 1 .. LastFiledDay /\ LastFiledDay \in Nat /\ Report!NoDay > LastFiledDay
  BY <1>1, Bounds DEF Report!Days
<1>4. paid # {}
  BY <1>2, <1>3
<1>5. paid \subseteq 0 .. LastFiledDay
  BY <1>1, <1>3, ReceiptIs DEF Report!Days
<1>6. last \in paid
  BY <1>2, <1>3, <1>4, <1>5, LatestIs
<1>7. PICK first \in Received : receipts[first].date = last
  BY <1>1, <1>6
<1>8. /\ shown \in SUBSET Received
      /\ Report!Cardinality(shown) = IF Report!Cardinality(Received) < ListCap THEN Report!Cardinality(Received) ELSE ListCap
      /\ \A r \in shown, q \in Received \ shown : receipts[q].date <= receipts[r].date
  BY DEF Report!ListedPayments, Report!Latest, Received
<1>9. CASE first \in shown
  BY <1>1, <1>3, <1>7, <1>9
<1>10. CASE first \notin shown
  <2>1. IsFiniteSet(Received) /\ IsFiniteSet(shown)
    BY <1>8, TakingsAre
  <2>2. Cardinality(Received) \in Nat /\ Cardinality(Received) # 0
    <3>1. Received # {}
      OBVIOUS
    <3> QED
      BY <2>1, <3>1, FS_CardinalityType, FS_EmptySet
  <2>3. Cardinality(shown) # 0
    BY <1>8, <2>2, Bounds, ReportSize
  <2>4. shown # {}
    BY <2>3, FS_EmptySet
  <2>5. PICK r \in shown : receipts[first].date <= receipts[r].date
    BY <1>7, <1>8, <1>10, <2>4
  <2>6. receipts[r].date \in Report!Days
    BY <1>8, ReceiptIs
  <2> QED
    BY <1>1, <1>3, <1>7, <2>5, <2>6 DEF Report!Days
<1> QED
  BY <1>9, <1>10

(* A list as long as there are invoices lists them all. *)
LEMMA ListsThemAll ==
  ASSUME Report!FiguresAssumption, ReportInv, NEW shown \in Report!ListedInvoices(Report!Cardinality(OnFile))
  PROVE  shown = OnFile
<1>1. shown \in SUBSET OnFile /\ Report!Cardinality(shown) = Report!Cardinality(OnFile)
  BY DEF Report!ListedInvoices, Report!Latest, OnFile
<1>2. IsFiniteSet(OnFile) /\ Cardinality(shown) = Cardinality(OnFile)
  BY <1>1, OpenIs, ReportSize
<1> QED
  BY <1>1, <1>2, FS_Subset

(* Cash is cash in every report, and sales are sales. *)
LEMMA FlowsAreOne == ASSUME Report!FiguresAssumption, ReportInv PROVE Report!FlowsAgree
<1>1. /\ Report!PaymentRegister(Report!Days).net = Report!CashAvailable - OpeningBalance
      /\ Report!PaymentRegister(Report!Days).net = Report!SumOver(Report!Days, Report!CashMovement)
  BY CashIsNet, MovementsAddUp DEF Report!PaymentRegister, Report!SumOver
<1>2. /\ Report!PaymentsSheet = Report!DayBook(Report!Days).payments
      /\ Report!PaymentsSheet = Report!InvoicesSheet.paid
  BY PaymentSheetsAgree
<1>3. /\ Registered("receivable", Report!Days) = Report!SumOver(Report!Days, Report!SalesAndMargin)
      /\ Registered("receivable", Report!Days) + Registered("payable", Report!Days)
           = Report!DayBook(Report!Days).invoices
      /\ Report!DayBook(Report!Days).invoices = Report!InvoicesSheet.amount
  BY SalesByDay, RegistersAddUp DEF Report!SumOver
<1>4. LET w == Report!WindowPair(TrendDays)
      IN /\ Report!CashTrend(w.current) + Report!CashTrend(w.prior)
              = Report!PaymentRegister(w.current \cup w.prior).net
         /\ Report!SalesTotal(w.current) + Report!SalesTotal(w.prior)
              = Registered("receivable", w.current \cup w.prior)
         /\ Report!TrendReport.net = Report!TrendReport.collections - Report!TrendReport.payments
         /\ Report!TrendReport.sales
              = Report!Change(Registered("receivable", w.current), Registered("receivable", w.prior))
  BY TrendsAgree
<1>5. LET a == Report!WindowPair(ActivityDays)
      IN (\A p \in Debtors : Report!DealerTrend(p).listed) =>
           Report!Change(Report!SalesTotal(a.current), Report!SalesTotal(a.prior)) =
           Report!SumOver(Report!TopMovers.rising \cup Report!TopMovers.falling,
                          LAMBDA p : Report!TrendWorkbook[p].value)
  BY MoversAddUp DEF Report!SumOver
<1>6. \A shown \in Report!ListedPayments(ListCap) :
        \A p \in Debtors : Report!DealerBalanceReply(p).lastPayment \in Report!Days =>
          \E q \in shown : receipts[q].date >= Report!DealerBalanceReply(p).lastPayment
  BY ListsTheLatest
<1>7. \A shown \in Report!ListedInvoices(Report!Cardinality(DOMAIN filed)) :
        Report!SumOver(shown \cap Report!Live(Report!Parties), LAMBDA i : filed[i].total) = Report!InvoicesSheet.amount
  <2> TAKE shown \in Report!ListedInvoices(Report!Cardinality(DOMAIN filed))
  <2>1. shown \cap Report!Live(Report!Parties) = Report!Live(Report!Parties)
    BY ListsThemAll, OpenIs DEF OnFile
  <2> QED
    BY <2>1 DEF Report!InvoicesSheet
<1> QED
  BY <1>1, <1>2, <1>3, <1>4, <1>5, <1>6, <1>7 DEF Report!FlowsAgree, Registered

(* From empty books on, whatever the founder enters, corrects or deletes,     *)
(* for whatever day: a party's balance is one figure in every report but two, *)
(* which leave out what is dated ahead (the figure of a past day, taken today,*)
(* and the month's statement); a statement carries forward (BalancesAgree).   *)
(* The registers, the day book, the export and the trends are sums of the     *)
(* same rows, none counted twice or dropped, but that the sales register      *)
(* lacks the corrections of orders (FlowsAgree).  The forecast names no day   *)
(* later than the first the till is short, and exactly that one while the     *)
(* till is not overdrawn; and a late dealer is on one list of the briefing    *)
(* unless he keeps within his limit (WarningsCover).                          *)
THEOREM FiguresAreOne ==
  ASSUME Report!FiguresAssumption
  PROVE  Report!Spec => [](Report!TypeOK /\ Report!BalancesAgree /\ Report!FlowsAgree /\ Report!WarningsCover)
<1>1. Report!Init => ReportInv
  BY ReportInit
<1>2. ReportInv /\ [Report!Next]_(Report!vars) => ReportInv'
  BY ReportStep
<1>3. ReportInv => Report!TypeOK
  <2> SUFFICES ASSUME ReportInv PROVE Report!TypeOK
    OBVIOUS
  <2>1. /\ OnFile \subseteq FiledIds /\ Received \subseteq ReceiptIds /\ today \in Report!Days
        /\ \A i \in OnFile : filed[i] \in Filed
    BY DEF ReportInv, FiledFits, ReceiptsFit
  <2>2. \A q \in Received : receipts[q].invoice \in OnFile /\ receipts[q].date \in Report!Days
    BY ReceiptIs
  <2> QED
    BY <2>1, <2>2 DEF Report!TypeOK, OnFile, Received, Filed
<1>4. ReportInv => Report!BalancesAgree /\ Report!FlowsAgree /\ Report!WarningsCover
  BY BalancesAreOne, FlowsAreOne, WarningsAreTrue
<1> QED
  BY <1>1, <1>2, <1>3, <1>4, PTL DEF Report!Spec

-----------------------------------------------------------------------------
(* The whole.                                                              *)

(* A step of the whole is a step of each part, or a stutter of it: every    *)
(* behaviour is one of the ledger, of the reports and of the days.          *)
LEMMA EachPartIsRun == AccountsSpec => Spec /\ Report!Spec /\ Daily!Spec /\ [](part \in Parts)
<1>1. AccountsInit => Init /\ Report!Init /\ Daily!Init /\ part \in Parts
  BY DEF AccountsInit
<1>2. [AccountsNext]_allVars => [Next]_vars /\ [Report!Next]_(Report!vars) /\ [Daily!Next]_(Daily!vars)
  <2>1. CASE UNCHANGED allVars
    BY <2>1 DEF allVars, vars, reportVars, dailyVars, Report!vars, Daily!vars
  <2>2. CASE AccountsNext
    BY <2>2 DEF AccountsNext, vars, reportVars, dailyVars, Report!vars, Daily!vars
  <2> QED
    BY <2>1, <2>2
<1>3. part \in Parts /\ [AccountsNext]_allVars => (part \in Parts)'
  BY DEF AccountsNext, allVars
<1> QED
  BY <1>1, <1>2, <1>3, PTL DEF AccountsSpec, Spec, Report!Spec, Daily!Spec

(* While the founder's transactions follow one another, every row of the    *)
(* books, of the reports and of the days is of its type; what a party owes  *)
(* is one figure, by open invoices or by all but the cancelled ones, in     *)
(* the ledger and in the reports, but for rows dated ahead in the figure of *)
(* a past day and the month's statement; cash is the same in every report,  *)
(* and sales are but for the corrections of orders, which the register does *)
(* not show; the forecast names no day after the first the till is short,   *)
(* and that one while the till is not overdrawn; and a month counts every   *)
(* day once (services/writes, services/reports, services/company_export,    *)
(* services/snapshot, services/daily_snapshot).                             *)
THEOREM AccountsAgree ==
  ASSUME Serial
  PROVE  AccountsSpec => [](AllTypesOK /\ BalancesAgree /\ FlowsAgree /\ WarningsCover /\ MonthCountsEveryDay)
<1>1. Spec => [](TypeOK /\ OutstandingFiguresAgree)
  BY LedgerTypesAreRight, SerialOutstandingFiguresAgree, PTL
<1>2. Report!Spec => [](Report!TypeOK /\ Report!BalancesAgree /\ Report!FlowsAgree /\ Report!WarningsCover)
  BY FiguresAreFigures, FiguresAreOne
<1>3. Daily!Spec => [](Daily!TypeOK /\ Daily!MonthCountsEveryDay)
  BY DaysAreDays, MonthsAreWhole
<1>4. /\ TypeOK /\ OutstandingFiguresAgree
      /\ Report!TypeOK /\ Report!BalancesAgree /\ Report!FlowsAgree /\ Report!WarningsCover
      /\ Daily!TypeOK /\ Daily!MonthCountsEveryDay /\ part \in Parts
      => AllTypesOK /\ BalancesAgree /\ FlowsAgree /\ WarningsCover /\ MonthCountsEveryDay
  BY DEF AllTypesOK, BalancesAgree, FlowsAgree, WarningsCover, MonthCountsEveryDay
<1> QED
  BY <1>1, <1>2, <1>3, <1>4, EachPartIsRun, PTL

(* And the whole does with the books what Ledger alone does: it keeps what  *)
(* Books promises, a receipt pays the oldest bills first, and the stock is  *)
(* what the live orders left (services/writes).                             *)
THEOREM AccountsKeepTheBooks ==
  ASSUME Serial
  PROVE  AccountsSpec => ImplementsBooks /\ StockFollowsOrders /\ SpreadPaysOldestFirst
BY EachPartIsRun, LedgerImplementsBooks, StockFollowsTheOrders, ReceiptsPayOldestFirst, PTL

=============================================================================
