------------------------------ MODULE MCFounder ------------------------------
(***************************************************************************)
(* The program's own flow charts, and five files: two of invoices that     *)
(* share two invoices in opposite orders, one of the two with other data,  *)
(* partly paid, after an invoice whose amounts contradict each other; a    *)
(* register with a repeated receipt; a stock list with an unreadable row;  *)
(* a file of no known kind.  Any three uploads of these.                   *)
(***************************************************************************)
EXTENDS Founder, MCConversation

CONSTANTS p1, p2

Bill(number, party, total, paid, outstanding) ==
  [number |-> number, party |-> party, total |-> total, paid |-> paid, outstanding |-> outstanding]
Receipt(party, day) == [key |-> <<party, day>>, party |-> party]

MCFiles == {[kind |-> "invoices",
             rows |-> <<Bill(1, p1, 1, silent, silent), Bill(2, p2, 1, 1, silent)>>],
            [kind |-> "invoices", rows |-> <<Bill(2, p2, 1, silent, 0), Bill(3, p1, 2, 3, silent), Bill(1, p1, 3, silent, 2)>>],
            [kind |-> "payments", rows |-> <<Receipt(p1, 1), Receipt(p1, 1)>>],
            [kind |-> "products", rows |-> <<[name |-> p1], unreadable>>],
            [kind |-> "unrecognised", rows |-> <<>>]}

=============================================================================
