------------------------------ MODULE MCAccounts ------------------------------
(***************************************************************************)
(* A small ledger, enough invoices for a payment to be spread over; and of *)
(* the reports an order of either dealer and a row without items of either *)
(* side, two receipts, two days on which they may be dated, and due days   *)
(* before the first and on the last: the windows and thresholds are days   *)
(* instead of weeks and months.                                            *)
(***************************************************************************)
EXTENDS Accounts, MCLedger, TLC

CONSTANTS d1, d2, q1, q2, q3,  \* dealers and payments of the ledger, and
          c1, c2, r1, r2       \* dealers and receipts of the reports; nothing tells them apart

Alike == Permutations({d1, d2}) \cup Permutations({q1, q2, q3})
           \cup Permutations({c1, c2}) \cup Permutations({r1, r2})

=============================================================================
