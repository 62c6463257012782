-------------------------------- MODULE Books --------------------------------
(***************************************************************************)
(* What the ledger promises of its invoices, whatever operation touches    *)
(* them: an account has a total, what has been paid, and a status that     *)
(* every outstanding figure is computed from.  Ledger is shown to          *)
(* implement this specification.                                           *)
(*                                                                         *)
(* An action is stated as a relation between an account and its next       *)
(* value, so it says what a payment or a correction may do and not how the *)
(* program comes to do it.                                                 *)
(***************************************************************************)
EXTENDS Naturals

CONSTANT Ids        \* invoices

VARIABLE accounts   \* the accounts of the invoices on file

\* InvoiceStatus.  No code sets Draft, Sent or Overdue.
Statuses == {"Pending", "Partially_Paid", "Paid", "Cancelled"}

OpenStatuses == {"Pending", "Partially_Paid"}

Account == [total : Nat, paid : Nat, status : Statuses]

Init == accounts = [i \in {} |-> {}]

\* The status says how much of the total is paid, and no more is than that.
Balanced(a) ==
    /\ a.paid <= a.total
    /\ a.status = "Pending"        => a.paid = 0
    /\ a.status = "Partially_Paid" => 0 < a.paid /\ a.paid < a.total
    /\ a.status = "Paid"           => a.paid = a.total
    /\ a.status = "Cancelled"      => a.paid = 0

----------------------------------------------------------------------------
\* Money comes in for an open account.
Settled(a, new) == /\ a.status \in OpenStatuses
                   /\ new.status \in {"Partially_Paid", "Paid"}
                   /\ new.total = a.total /\ new.paid >= a.paid
                   /\ Balanced(new)

\* A payment is taken back or corrected.
Corrected(a, new) == /\ a.status # "Cancelled" /\ new.status # "Cancelled"
                     /\ new.total = a.total
                     /\ Balanced(new)

\* The total is corrected, as long as nothing is paid.
Retotalled(a, new) == /\ a.status \in {"Pending", "Cancelled"}
                      /\ new = [a EXCEPT !.total = new.total]

\* The invoice is voided, as long as nothing is paid.
Voided(a, new) == /\ a.status # "Cancelled" /\ a.paid = 0
                  /\ new = [a EXCEPT !.status = "Cancelled"]

----------------------------------------------------------------------------
OthersStay(S) == \A i \in DOMAIN accounts \ S : accounts'[i] = accounts[i]

Open(i) == /\ i \notin DOMAIN accounts
           /\ DOMAIN accounts' = DOMAIN accounts \cup {i}
           /\ accounts'[i] \in Account
           /\ accounts'[i].status # "Cancelled" /\ Balanced(accounts'[i])
           /\ OthersStay({i})

\* One receipt may settle several accounts.
Settle(S) == /\ DOMAIN accounts' = DOMAIN accounts
             /\ \A i \in S : accounts'[i] \in Account /\ Settled(accounts[i], accounts'[i])
             /\ OthersStay(S)

Amend(i) == /\ DOMAIN accounts' = DOMAIN accounts
            /\ accounts'[i] \in Account
            /\ \/ Corrected(accounts[i], accounts'[i])
               \/ Retotalled(accounts[i], accounts'[i])
               \/ Voided(accounts[i], accounts'[i])
            /\ OthersStay({i})

\* Invoices are deleted with their payments.
Drop(S) == accounts' = [i \in DOMAIN accounts \ S |-> accounts[i]]

Next == \/ \E i \in Ids : Open(i)
        \/ \E S \in SUBSET DOMAIN accounts : Settle(S) \/ Drop(S)
        \/ \E i \in DOMAIN accounts : Amend(i)

Spec == Init /\ [][Next]_accounts

TypeOK == /\ DOMAIN accounts \subseteq Ids
          /\ \A i \in DOMAIN accounts : accounts[i] \in Account

\* No account is overpaid, its status is the one its payments call for, and a
\* cancelled one has none.
Sound == TypeOK /\ \A i \in DOMAIN accounts : Balanced(accounts[i])
=============================================================================
