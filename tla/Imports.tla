------------------------------- MODULE Imports -------------------------------
(***************************************************************************)
(* File imports (services/importer): an upload parses its file, handles    *)
(* its rows one by one, each inside a savepoint of its own, and commits    *)
(* once at the end (the log of the upload, a commit of its own after that, *)
(* is left out).  Uploads run in requests of their own, at once if the     *)
(* founder or the wizard sends a file again before the first answer; a     *)
(* request may die before its commit.  The database keeps an invoice       *)
(* number unique and locks an invoice whose status was written; nothing    *)
(* else stands between two uploads.  A receipt is for one unit of money,   *)
(* so one invoice takes it; how larger ones are spread is in Ledger.       *)
(***************************************************************************)
EXTENDS Integers, Sequences, FiniteSets, Functions

CONSTANTS Files,      \* the files at hand: [kind, rows], a row possibly unreadable
          unreadable, \* a row that does not parse, or names no party, number or amount
          silent,     \* an amount the file has no column or no value for
          MaxUploads  \* bound: uploads

VARIABLES parties,   \* parties: name and the upload that created the row
          invoices,  \* invoices: number, total, party, upload
          payments,  \* payments: key of the receipt or NoKey, invoice number, amount, upload
          products,  \* products: name, upload and row
          uploads,   \* the uploads so far
          raced      \* history: two uploads of receipts ran at once

vars == <<parties, invoices, payments, products, uploads, raced>>

NoParty == [name |-> "none", upload |-> 0]
NoKey == <<"paid in the invoice file", 0>>

(* What the parsers hand over: files of the four kinds, whose rows have a  *)
(* number and a total, or a key of a receipt, unless they are unreadable.  *)
FilesAssumption ==
  \A f \in Files :
     /\ f.kind \in {"invoices", "payments", "products", "unrecognised"}
     /\ Len(f.rows) \in Nat /\ DOMAIN f.rows = 1 .. Len(f.rows)
     /\ \A k \in DOMAIN f.rows : f.rows[k] # unreadable =>
          /\ f.kind = "invoices" => f.rows[k].number \in Nat /\ f.rows[k].total \in Nat
          /\ f.kind = "payments" => f.rows[k].key # NoKey

Running(u) == uploads[u].state = "running"
Done(u) == uploads[u].state = "done"

(* row: the row being handled; stage: read it, or write what was decided   *)
(* (target: the invoice, party: its party); keys: receipts known to be on  *)
(* file; began: uploads committed when it started.                         *)
Begun(f, known) == [state |-> "running", file |-> f, row |-> 1, stage |-> "read",
                    target |-> 0, party |-> NoParty, keys |-> known,
                    failed |-> 0, began |-> {v \in DOMAIN uploads : Done(v)}]

Init == /\ parties = {} /\ invoices = {} /\ payments = {} /\ products = {}
        /\ uploads = <<>>
        /\ raced = FALSE

Sees(u) == {u} \cup {v \in DOMAIN uploads : Done(v)}
Of(rows, seers) == {r \in rows : r.upload \in seers}

Row(u) == uploads[u].file.rows[uploads[u].row]
HasRow(u, kind) == /\ Running(u) /\ uploads[u].file.kind = kind
                   /\ uploads[u].row <= Len(uploads[u].file.rows)
                   /\ Row(u) # unreadable

(* The row is done with, one way or the other. *)
NextRow(u, fails, key) ==
  LET x == uploads[u]
  IN uploads' = [uploads EXCEPT ![u] = [x EXCEPT !.row = x.row + 1, !.stage = "read", !.target = 0,
                                                 !.party = NoParty, !.failed = x.failed + fails,
                                                 !.keys = x.keys \cup key]]
Success(u) == NextRow(u, 0, {})
Skipped(u) == NextRow(u, 0, {})

(* A mutant of Failure: the row is not stepped past. *)
FailureInPlace(u) == uploads' = [uploads EXCEPT ![u] = [@ EXCEPT !.stage = "read", !.target = 0, !.party = NoParty]]

Failure(u) == NextRow(u, 1, {})

(* find_or_create_party: any row of the name this session sees, or a new   *)
(* one; no constraint keeps another session from creating it too.          *)
PartiesNamed(u, name) == {p \in Of(parties, Sees(u)) : p.name = name}
Party(u, name, p) == IF PartiesNamed(u, name) # {} THEN p \in PartiesNamed(u, name)
                                                   ELSE p = [name |-> name, upload |-> u]

(* What a row says is paid of its invoice: a paid amount, or the total     *)
(* without an outstanding one, or nothing.                                 *)
PaidAmount(row) == IF row.paid # silent THEN row.paid
                   ELSE IF row.outstanding # silent THEN row.total - row.outstanding
                   ELSE 0
Consistent(row) == PaidAmount(row) \in 0..row.total

-----------------------------------------------------------------------------
(* A mutant of Upload: only the receipts of this file are remembered. *)
UploadUnaware(f) ==
  /\ Len(uploads) < MaxUploads
  /\ f.kind # "unrecognised"
  /\ uploads' = Append(uploads, Begun(f, {}))
  /\ raced' = (raced \/ /\ f.kind = "payments"
                        /\ \E v \in DOMAIN uploads : Running(v) /\ uploads[v].file.kind = "payments")
  /\ UNCHANGED <<parties, invoices, payments, products>>

(* The known receipts are loaded once, as the file is opened.              *)
Upload(f) ==
  LET known == {p.key : p \in Of(payments, {v \in DOMAIN uploads : Done(v)})} \ {NoKey}
  IN /\ Len(uploads) < MaxUploads
     /\ f.kind # "unrecognised"
     /\ uploads' = Append(uploads, Begun(f, IF f.kind = "payments" THEN known ELSE {}))
     /\ raced' = (raced \/ /\ f.kind = "payments"
                           /\ \E v \in DOMAIN uploads : Running(v) /\ uploads[v].file.kind = "payments")
     /\ UNCHANGED <<parties, invoices, payments, products>>

(* parse_file or the detection of the columns refuses the whole file: the  *)
(* answer is an error, and nothing is written, no log either.              *)
Refuse(f) ==
  /\ Len(uploads) < MaxUploads
  /\ f.kind = "unrecognised"
  /\ uploads' = Append(uploads, [Begun(f, {}) EXCEPT !.state = "refused"])
  /\ UNCHANGED <<parties, invoices, payments, products, raced>>

(* _import_invoice_row up to its insert: amounts that contradict each      *)
(* other are a failure, an invoice of this number that is the same is      *)
(* skipped, one that differs is a failure.                                 *)
ReadInvoice(u) ==
  /\ HasRow(u, "invoices")
  /\ uploads[u].stage = "read"
  /\ LET row == Row(u)
         same == {i \in Of(invoices, Sees(u)) : i.number = row.number}
     IN \E p \in PartiesNamed(u, row.party) \cup {[name |-> row.party, upload |-> u]} :
          /\ Party(u, row.party, p)
          /\ IF ~Consistent(row)
               THEN Failure(u)
             ELSE IF same = {}
               THEN uploads' = [uploads EXCEPT ![u].stage = "write", ![u].target = row.number, ![u].party = p]
             ELSE IF \A i \in same : i.total = row.total /\ i.party = p
               THEN Skipped(u)
             ELSE Failure(u)
  /\ UNCHANGED <<parties, invoices, payments, products, raced>>

(* Another upload has written the invoice and not committed yet.           *)
WaitsFor(u, v) == /\ u # v /\ Running(u) /\ Running(v)
                  /\ uploads[u].stage = "write"
                  /\ \/ \E i \in invoices : i.upload = v /\ i.number = uploads[u].target
                     \/ \E p \in payments : p.upload = v /\ p.number = uploads[u].target
CanWrite(u) == /\ uploads[u].stage = "write"
               /\ \A v \in DOMAIN uploads : ~WaitsFor(u, v)

(* What the file says is paid of the invoice is a payment without a key.   *)
PaidInFile(u, row) == {p \in {[key |-> NoKey, number |-> row.number, amount |-> PaidAmount(row), upload |-> u]} :
                         p.amount > 0}

(* A mutant of WriteInvoice: the party is outside the savepoint. *)
WriteInvoiceAfterParty(u) ==
  /\ HasRow(u, "invoices")
  /\ CanWrite(u)
  /\ LET row == Row(u)
         p == uploads[u].party
     IN /\ parties' = parties \cup {p}
        /\ IF \E i \in invoices : i.number = row.number
             THEN Failure(u) /\ UNCHANGED <<invoices, payments>>
             ELSE /\ invoices' = invoices \cup {[number |-> row.number, total |-> row.total,
                                                 party |-> p, upload |-> u]}
                  /\ payments' = payments \cup PaidInFile(u, row)
                  /\ Success(u)
  /\ UNCHANGED <<products, raced>>

(* The insert waits for an uncommitted row of the same number and fails on *)
(* a committed one, which takes the new party back with the savepoint.     *)
WriteInvoice(u) ==
  /\ HasRow(u, "invoices")
  /\ CanWrite(u)
  /\ LET row == Row(u)
         p == uploads[u].party
     IN IF \E i \in invoices : i.number = row.number
          THEN Failure(u) /\ UNCHANGED <<parties, invoices, payments>>
          ELSE /\ parties' = parties \cup {p}
               /\ invoices' = invoices \cup {[number |-> row.number, total |-> row.total,
                                              party |-> p, upload |-> u]}
               /\ payments' = payments \cup PaidInFile(u, row)
               /\ Success(u)
  /\ UNCHANGED <<products, raced>>

Settled(number, rows) ==
  LET of == {q \in rows : q.number = number} IN SumFunctionOnSet([q \in of |-> q.amount], of)

Open(u, p) == {i \in Of(invoices, Sees(u)) :
                 i.party = p /\ Settled(i.number, Of(payments, Sees(u))) < i.total}

Oldest(S) == CHOOSE i \in S : \A j \in S : i.number <= j.number

(* run_payment_import up to the split: a receipt that is on file, or was   *)
(* in this file before, is skipped; its party stays even if nothing of it  *)
(* is open.                                                                *)
ReadPayment(u) ==
  /\ HasRow(u, "payments")
  /\ uploads[u].stage = "read"
  /\ LET row == Row(u) IN
       IF row.key \in uploads[u].keys
         THEN Skipped(u) /\ UNCHANGED parties
         ELSE \E p \in PartiesNamed(u, row.party) \cup {[name |-> row.party, upload |-> u]} :
                /\ Party(u, row.party, p)
                /\ parties' = parties \cup {p}
                /\ IF Open(u, p) = {}
                     THEN Failure(u)
                     ELSE uploads' = [uploads EXCEPT ![u].stage = "write", ![u].party = p,
                                                     ![u].target = Oldest(Open(u, p)).number]
  /\ UNCHANGED <<invoices, payments, products, raced>>

(* The write of the invoice's status waits for another's; the payment is   *)
(* the one decided before.                                                 *)
WritePayment(u) ==
  /\ HasRow(u, "payments")
  /\ CanWrite(u)
  /\ payments' = payments \cup {[key |-> Row(u).key, number |-> uploads[u].target, amount |-> 1, upload |-> u]}
  /\ NextRow(u, 0, {Row(u).key})
  /\ UNCHANGED <<parties, invoices, products, raced>>

(* run_product_import: every row is a new product. *)
ProductRow(u) ==
  /\ HasRow(u, "products")
  /\ products' = products \cup {[name |-> Row(u).name, upload |-> u, row |-> uploads[u].row]}
  /\ Success(u)
  /\ UNCHANGED <<parties, invoices, payments, raced>>

BadRow(u) == /\ Running(u)
             /\ uploads[u].row <= Len(uploads[u].file.rows)
             /\ Row(u) = unreadable
             /\ Failure(u)
             /\ UNCHANGED <<parties, invoices, payments, products, raced>>

(* Of two uploads that wait for each other the database fails a statement: *)
(* the row fails, the upload goes on.                                      *)
Deadlock(u) == /\ Running(u)
               /\ \E v \in DOMAIN uploads : WaitsFor(u, v) /\ WaitsFor(v, u)
               /\ Failure(u)
               /\ UNCHANGED <<parties, invoices, payments, products, raced>>

Commit(u) == /\ Running(u)
             /\ uploads[u].row > Len(uploads[u].file.rows)
             /\ uploads' = [uploads EXCEPT ![u].state = "done"]
             /\ UNCHANGED <<parties, invoices, payments, products, raced>>

Without(rows, u) == {r \in rows : r.upload # u}

Crash(u) == /\ Running(u)
            /\ parties' = Without(parties, u) /\ invoices' = Without(invoices, u)
            /\ payments' = Without(payments, u) /\ products' = Without(products, u)
            /\ uploads' = [uploads EXCEPT ![u].state = "lost"]
            /\ UNCHANGED raced

RowStep(u) == \/ ReadInvoice(u) \/ WriteInvoice(u) \/ ReadPayment(u) \/ WritePayment(u)
              \/ ProductRow(u) \/ BadRow(u) \/ Deadlock(u) \/ Commit(u)

Next == \/ \E f \in Files : Upload(f) \/ Refuse(f)
        \/ \E u \in DOMAIN uploads : RowStep(u) \/ Crash(u)

(* Some request that can go on does; the database resolves deadlocks. *)
Moves == \E u \in DOMAIN uploads : RowStep(u)

Spec == Init /\ [][Next]_vars /\ WF_vars(Moves)

-----------------------------------------------------------------------------
(* Types of the variables, and where a row comes from: an invoice's party  *)
(* and a payment's invoice are on file whenever they are, for every        *)
(* session that sees them.                                                 *)
TypeOK == /\ \A u \in DOMAIN uploads :
               /\ uploads[u].state \in {"running", "done", "lost", "refused"}
               /\ uploads[u].stage \in {"read", "write"}
               /\ uploads[u].row \in 1..Len(uploads[u].file.rows) + 1
               /\ uploads[u].failed \in 0..Len(uploads[u].file.rows)
          /\ \A r \in parties \cup invoices \cup payments \cup products : uploads[r.upload].state \notin {"lost", "refused"}
          /\ \A i \in invoices : i.party \in Of(parties, Sees(i.upload))
          /\ \A p \in payments : \E i \in Of(invoices, Sees(p.upload)) : i.number = p.number
          /\ raced \in BOOLEAN

(* "Re-uploading the same file must not create duplicate Invoices or       *)
(* Payments": once an upload is through without a failed row, the same     *)
(* file adds no row again, whatever ran, failed or died beside the two.    *)
ReuploadAddsNothing ==
  \A u, v \in DOMAIN uploads :
    (/\ u \in uploads[v].began
     /\ uploads[v].file = uploads[u].file
     /\ uploads[u].failed = 0
     /\ uploads[u].file.kind # "products")
    => Of(parties \cup invoices \cup payments, {v}) = {}

(* Unless two uploads of receipts ran at once, no invoice is paid more     *)
(* than its total, by what its file said and receipts of any number of     *)
(* files, and no receipt is entered twice.                                 *)
NoMoneyTwice ==
  ~raced => /\ \A i \in invoices : Settled(i.number, payments) <= i.total
            /\ \A p, q \in payments : p.key = q.key /\ p.key # NoKey => p = q

(* A row of invoices that failed left nothing: a party such a file brought *)
(* has an invoice of that file.                                            *)
FailedRowLeavesNothing ==
  \A p \in parties : uploads[p.upload].file.kind = "invoices" =>
     \E i \in invoices : i.party = p /\ i.upload = p.upload

(* So what the files say is in the books once, and whole or not at all. *)
EveryRowOnceAndWhole == NoMoneyTwice /\ FailedRowLeavesNothing

(* No upload waits for ever for another one's rows: the bounded number of  *)
(* uploads comes to an end, each committed, refused or dead.               *)
EveryUploadEnds == <>[](\A u \in DOMAIN uploads : ~Running(u))

================================================================================
