---------------------------- MODULE ImportsProofs ----------------------------
(***************************************************************************)
(* Imports, for any files, any number of uploads and whatever dies beside  *)
(* them.  A file that went through is found again row by row: what an      *)
(* upload without a failed row handled is on file for whoever starts after *)
(* its commit, which is all that keeps the same file from adding rows.     *)
(* The theorems are of Founder, where the conversation goes on beside it.  *)
(***************************************************************************)
EXTENDS Founder, ConversationProofs, RowTheorems, TLAPS

(* What the files hold. *)
RowsOf(kind) ==
  {r \in UNION {{f.rows[k] : k \in DOMAIN f.rows} : f \in {g \in Files : g.kind = kind}} : r # unreadable}
Keys == {r.key : r \in RowsOf("payments")}
PartyNames == {r.party : r \in RowsOf("invoices") \cup RowsOf("payments")}

PartyRow == [name : PartyNames, upload : Nat]
InvoiceRow == [number : Nat, total : Nat, party : PartyRow, upload : Nat]
PaymentRow == [key : Keys \cup {Import!NoKey}, number : Nat, amount : Nat, upload : Nat]
UploadRow == [state : {"running", "done", "lost", "refused"}, file : Files, row : Nat,
              stage : {"read", "write"}, target : Nat, party : PartyRow \cup {Import!NoParty},
              keys : SUBSET Keys, failed : Nat, began : SUBSET Nat]

-----------------------------------------------------------------------------
(* The invariant.                                                          *)

(* The rows are rows, and finitely many receipts are on file. *)
Typed == /\ parties \subseteq PartyRow /\ invoices \subseteq InvoiceRow /\ payments \subseteq PaymentRow
         /\ uploads \in Seq(UploadRow)
         /\ raced \in BOOLEAN
         /\ IsFiniteSet(payments)

Alive(u) == uploads[u].state \in {"running", "done"}
Writing(u) == Import!Running(u) /\ uploads[u].stage = "write"
Registering(u) == Import!Running(u) /\ uploads[u].file.kind = "payments"

(* An upload goes through its rows, and began after those it knows of. *)
Progress ==
  \A u \in DOMAIN uploads :
     LET x == uploads[u]
     IN /\ x.row \in 1 .. Len(x.file.rows) + 1 /\ x.failed < x.row
        /\ Writing(u) => /\ x.row <= Len(x.file.rows) /\ Import!Row(u) # unreadable
                         /\ x.file.kind \in {"invoices", "payments"}
        /\ Import!Done(u) => x.row > Len(x.file.rows)
        /\ x.file.kind = "unrecognised" => x.state = "refused"
        /\ x.began \subseteq {v \in DOMAIN uploads : Import!Done(v)} /\ u \notin x.began

(* A row is of an upload that lives, and what it refers to is on file for  *)
(* whoever sees it.                                                        *)
Origins ==
  /\ \A r \in parties \cup invoices \cup payments \cup products : r.upload \in DOMAIN uploads /\ Alive(r.upload)
  /\ \A i \in invoices : i.party \in Import!Of(parties, Import!Sees(i.upload))
  /\ \A p \in payments : \E i \in Import!Of(invoices, Import!Sees(p.upload)) : i.number = p.number

(* What the database keeps unique. *)
UniqueNumbers == \A i, j \in invoices : i.number = j.number => i = j

(* What was decided of a row still holds when it is written. *)
Decided ==
  \A u \in DOMAIN uploads : Writing(u) =>
    LET x == uploads[u]
    IN /\ x.party.name \in PartyNames
       /\ x.party.upload = u \/ x.party \in Import!Of(parties, Import!Sees(u))
       /\ x.file.kind = "invoices" => x.target = Import!Row(u).number /\ Import!Consistent(Import!Row(u))
       /\ x.file.kind = "payments" => /\ Import!Row(u).key \notin x.keys
                                      /\ \E i \in Import!Of(invoices, Import!Sees(u)) : i.number = x.target

(* A receipt an upload takes for known is on file. *)
KeysOnFile ==
  \A u \in DOMAIN uploads : Alive(u) =>
     \A k \in uploads[u].keys : \E p \in Import!Of(payments, Import!Sees(u)) : p.key = k

(* As long as no row of it failed, every row an upload is past is on file, *)
(* of its own or seen by it.                                               *)
CleanRowsOnFile ==
  \A u \in DOMAIN uploads : Alive(u) /\ uploads[u].failed = 0 =>
     \A k \in 1 .. uploads[u].row - 1 :
       /\ uploads[u].file.kind = "invoices" =>
            \E i \in Import!Of(invoices, Import!Sees(u)) : i.number = uploads[u].file.rows[k].number
       /\ uploads[u].file.kind = "payments" => uploads[u].file.rows[k].key \in uploads[u].keys

(* The same file, after it went through. *)
Repeats(v, u) == /\ u \in uploads[v].began
                 /\ uploads[v].file = uploads[u].file
                 /\ uploads[u].failed = 0
                 /\ uploads[u].file.kind \in {"invoices", "payments"}

(* It writes nothing, decides to write nothing, and knows its receipts.    *)
TwinAddsNothing ==
  \A u, v \in DOMAIN uploads : Repeats(v, u) /\ Alive(v) =>
     /\ ~ Writing(v)
     /\ Import!Of(parties \cup invoices \cup payments, {v}) = {}
     /\ uploads[v].file.kind = "payments" =>
          \A k \in DOMAIN uploads[v].file.rows : uploads[v].file.rows[k].key \in uploads[v].keys

(* A payment without a key came with its invoice, any other from a file of *)
(* receipts.                                                               *)
KeysTell ==
  \A p \in payments :
    /\ p.key = Import!NoKey => \E i \in invoices : i.number = p.number /\ i.upload = p.upload
    /\ p.key # Import!NoKey => uploads[p.upload].file.kind = "payments"

(* Unless two files of receipts ran at once, one runs at a time; it knows  *)
(* every receipt there is, and what it decided on is still open.           *)
OneRegister == ~ raced => \A u, v \in DOMAIN uploads : Registering(u) /\ Registering(v) => u = v
PaidOnce ==
  ~ raced =>
    /\ Import!NoMoneyTwice
    /\ \A u \in DOMAIN uploads : Registering(u) =>
         /\ \A p \in payments : p.key # Import!NoKey => p.key \in uploads[u].keys
         /\ Writing(u) => \E i \in invoices : /\ i.number = uploads[u].target
                                              /\ Import!Settled(i.number, payments) < i.total

IInv == /\ Typed /\ Progress /\ Origins /\ UniqueNumbers /\ Decided /\ KeysOnFile
        /\ CleanRowsOnFile /\ TwinAddsNothing /\ KeysTell /\ OneRegister /\ PaidOnce
        /\ Import!FailedRowLeavesNothing

-----------------------------------------------------------------------------
(* The sums of receipts. *)

(* Imports takes its sums from the same module of the library.             *)
LEMMA ImportSum == ASSUME NEW f, NEW S PROVE Import!SumFunctionOnSet(f, S) = SumFunctionOnSet(f, S)
  BY DEF SumFunctionOnSet, FoldFunctionOnSet, MapThenFoldSet,
         Import!SumFunctionOnSet, Import!FoldFunctionOnSet, Import!MapThenFoldSet

(* What is settled of an invoice is a number, and the more the more is on  *)
(* file.                                                                   *)
LEMMA SettledIsNat ==
  ASSUME NEW P, IsFiniteSet(P), \A p \in P : p.amount \in Nat, NEW Q \in SUBSET P, NEW n
  PROVE  Import!Settled(n, P) \in Nat /\ Import!Settled(n, Q) \in Nat /\ Import!Settled(n, Q) <= Import!Settled(n, P)
<1> DEFINE A == {q \in P : q.number = n}
           B == {q \in Q : q.number = n}
           amounts == [q \in A |-> q.amount]
<1>1. IsFiniteSet(A) /\ IsFiniteSet(B) /\ B \in SUBSET A
  BY FS_Subset
<1>2. Import!Settled(n, P) = SumFunctionOnSet(amounts, A)
  BY ImportSum DEF Import!Settled
<1>3. Import!Settled(n, Q) = SumFunctionOnSet(amounts, B)
  <2> DEFINE few == [q \in B |-> q.amount]
  <2>1. \A q \in B : few[q] = amounts[q]
    BY <1>1
  <2>2. Import!Settled(n, Q) = SumFunctionOnSet(few, B)
    BY ImportSum DEF Import!Settled
  <2> HIDE DEF few, amounts, B
  <2> QED BY <1>1, <2>1, <2>2, SumsAreEqual
<1>4. \A q \in A : amounts[q] \in Nat
  OBVIOUS
<1> HIDE DEF amounts, A, B
<1> QED BY <1>1, <1>2, <1>3, <1>4, SumOfSome

(* One more receipt adds no more than its amount. *)
LEMMA SettledAdds ==
  ASSUME NEW P, IsFiniteSet(P), \A p \in P : p.amount \in Nat, NEW p, p.amount \in Nat, NEW n
  PROVE  /\ Import!Settled(n, P \cup {p}) <= Import!Settled(n, P) + p.amount
         /\ p.number # n => Import!Settled(n, P \cup {p}) = Import!Settled(n, P)
         /\ Import!Settled(n, P) \in Nat /\ Import!Settled(n, P \cup {p}) \in Nat
<1> DEFINE A == {q \in P : q.number = n}
           C == {q \in P \cup {p} : q.number = n}
           amounts == [q \in C |-> q.amount]
<1>1. IsFiniteSet(P \cup {p}) /\ \A q \in P \cup {p} : q.amount \in Nat
  BY FS_AddElement
<1>2. Import!Settled(n, P) \in Nat /\ Import!Settled(n, P \cup {p}) \in Nat
  BY <1>1, SettledIsNat, P \in SUBSET (P \cup {p})
<1>3. p.number # n \/ p \in P => C = A
  OBVIOUS
<1>4. p.number # n \/ p \in P => Import!Settled(n, P \cup {p}) = Import!Settled(n, P)
  BY <1>3 DEF Import!Settled
<1>5. ASSUME p.number = n, p \notin P
      PROVE  Import!Settled(n, P \cup {p}) = p.amount + Import!Settled(n, P)
  <2>1. IsFiniteSet(C) /\ IsFiniteSet(A) /\ p \in C /\ A = C \ {p}
    BY <1>1, <1>5, FS_Subset
  <2>2. \A q \in C : amounts[q] \in Int
    BY <1>1
  <2>3. Import!Settled(n, P \cup {p}) = SumFunctionOnSet(amounts, C)
    BY ImportSum DEF Import!Settled
  <2>4. Import!Settled(n, P) = SumFunctionOnSet(amounts, A)
    <3> DEFINE few == [q \in A |-> q.amount]
    <3>1. \A q \in A : few[q] = amounts[q]
      OBVIOUS
    <3>2. Import!Settled(n, P) = SumFunctionOnSet(few, A)
      BY ImportSum DEF Import!Settled
    <3> HIDE DEF few, amounts, A, C
    <3> QED BY <2>1, <3>1, <3>2, SumsAreEqual
  <2>5. amounts[p] = p.amount
    BY <2>1
  <2> HIDE DEF amounts, A, C
  <2> QED BY <2>1, <2>2, <2>3, <2>4, <2>5, SumWithout
<1>6. p.amount \in Nat
  OBVIOUS
<1> QED BY <1>2, <1>4, <1>5, <1>6

(* Without a receipt nothing is settled. *)
LEMMA SettledNothing ==
  ASSUME NEW P, NEW n, \A p \in P : p.number # n
  PROVE  Import!Settled(n, P) = 0
<1>1. {q \in P : q.number = n} = {}
  OBVIOUS
<1> QED BY <1>1, SumEmpty, ImportSum DEF Import!Settled

-----------------------------------------------------------------------------
(* What a step does to the uploads and to what they see. *)
SameOthers(u) == /\ DOMAIN uploads' = DOMAIN uploads
                 /\ \A v \in DOMAIN uploads : v # u => uploads'[v] = uploads[v]

(* An upload is put back with some fields changed. *)
LEMMA PutBack ==
  ASSUME Typed, NEW u \in DOMAIN uploads, NEW x \in UploadRow,
         uploads' = [uploads EXCEPT ![u] = x]
  PROVE  uploads' \in Seq(UploadRow) /\ SameOthers(u) /\ uploads'[u] = x
<1>1. /\ uploads \in [1 .. Len(uploads) -> UploadRow] /\ DOMAIN uploads = 1 .. Len(uploads)
      /\ Len(uploads) \in Nat
  BY DEF Typed
<1>2. uploads' \in [1 .. Len(uploads) -> UploadRow] /\ DOMAIN uploads' = DOMAIN uploads
  BY <1>1
<1>3. uploads' \in Seq(UploadRow)
  BY <1>1, <1>2
<1> QED BY <1>1, <1>2, <1>3 DEF SameOthers

(* The next row: nothing else of the upload changes. *)
LEMMA NextRowIs ==
  ASSUME Typed, NEW u \in DOMAIN uploads, NEW fails \in {0, 1}, NEW key \in SUBSET Keys, Import!NextRow(u, fails, key)
  PROVE  /\ uploads' \in Seq(UploadRow) /\ SameOthers(u)
         /\ uploads'[u].state = uploads[u].state /\ uploads'[u].file = uploads[u].file
         /\ uploads'[u].began = uploads[u].began /\ uploads'[u].stage = "read"
         /\ uploads'[u].row = uploads[u].row + 1 /\ uploads'[u].failed = uploads[u].failed + fails
         /\ uploads'[u].keys = uploads[u].keys \cup key
<1> DEFINE old == uploads[u]
           x == [old EXCEPT !.row = old.row + 1, !.stage = "read", !.target = 0, !.party = Import!NoParty,
                            !.failed = old.failed + fails, !.keys = old.keys \cup key]
<1>1. uploads[u] \in UploadRow
  BY DEF Typed
<1>2. x \in UploadRow
  <2>1. old.row + 1 \in Nat /\ old.failed + fails \in Nat /\ old.keys \cup key \in SUBSET Keys
    BY <1>1 DEF UploadRow
  <2>2. old \in UploadRow
    BY <1>1
  <2> HIDE DEF old
  <2> QED BY <2>1, <2>2 DEF UploadRow
<1>3. uploads' = [uploads EXCEPT ![u] = x]
  BY DEF Import!NextRow
<1>4. /\ x.state = uploads[u].state /\ x.file = uploads[u].file
      /\ x.began = uploads[u].began /\ x.stage = "read"
      /\ x.row = uploads[u].row + 1 /\ x.failed = uploads[u].failed + fails
      /\ x.keys = uploads[u].keys \cup key
  BY <1>1 DEF UploadRow
<1> HIDE DEF x
<1> QED BY <1>2, <1>3, <1>4, PutBack

(* What is decided of a row. *)
Decision(u, n, p) == uploads' = [uploads EXCEPT ![u].stage = "write", ![u].target = n, ![u].party = p]

(* Nothing else of the upload changes then, either. *)
LEMMA DecidesIs ==
  ASSUME Typed, NEW u \in DOMAIN uploads, NEW n \in Nat, NEW p \in PartyRow,
         Decision(u, n, p)
  PROVE  /\ uploads' \in Seq(UploadRow) /\ SameOthers(u)
         /\ uploads'[u].state = uploads[u].state /\ uploads'[u].file = uploads[u].file
         /\ uploads'[u].began = uploads[u].began /\ uploads'[u].stage = "write"
         /\ uploads'[u].row = uploads[u].row /\ uploads'[u].failed = uploads[u].failed
         /\ uploads'[u].keys = uploads[u].keys
         /\ uploads'[u].target = n /\ uploads'[u].party = p
<1> DEFINE x == [uploads[u] EXCEPT !.stage = "write", !.target = n, !.party = p]
<1>1. uploads[u] \in UploadRow /\ u \in DOMAIN uploads
  BY DEF Typed
<1>2. x \in UploadRow
  BY <1>1 DEF UploadRow
<1>3. uploads' = [uploads EXCEPT ![u] = x]
  BY <1>1 DEF UploadRow, Typed, Decision
<1>4. /\ x.state = uploads[u].state /\ x.file = uploads[u].file
      /\ x.began = uploads[u].began /\ x.stage = "write"
      /\ x.row = uploads[u].row /\ x.failed = uploads[u].failed
      /\ x.keys = uploads[u].keys /\ x.target = n /\ x.party = p
  BY <1>1 DEF UploadRow
<1> HIDE DEF x
<1> QED BY <1>2, <1>3, <1>4, PutBack

(* An upload is over. *)
LEMMA EndsIs ==
  ASSUME Typed, NEW u \in DOMAIN uploads, NEW s \in {"done", "lost"},
         uploads' = [uploads EXCEPT ![u].state = s]
  PROVE  /\ uploads' \in Seq(UploadRow) /\ SameOthers(u)
         /\ uploads'[u].state = s /\ uploads'[u].file = uploads[u].file
         /\ uploads'[u].began = uploads[u].began /\ uploads'[u].stage = uploads[u].stage
         /\ uploads'[u].row = uploads[u].row /\ uploads'[u].failed = uploads[u].failed
         /\ uploads'[u].keys = uploads[u].keys
<1> DEFINE x == [uploads[u] EXCEPT !.state = s]
<1>1. uploads[u] \in UploadRow
  BY DEF Typed
<1>2. x \in UploadRow
  BY <1>1 DEF UploadRow
<1>3. uploads' = [uploads EXCEPT ![u] = x]
  BY <1>1 DEF UploadRow, Typed
<1>4. /\ x.state = s /\ x.file = uploads[u].file
      /\ x.began = uploads[u].began /\ x.stage = uploads[u].stage
      /\ x.row = uploads[u].row /\ x.failed = uploads[u].failed /\ x.keys = uploads[u].keys
  BY <1>1 DEF UploadRow
<1> HIDE DEF x
<1> QED BY <1>2, <1>3, <1>4, PutBack

(* While nobody commits or begins, every upload sees the same. *)
LEMMA SeesTheSame ==
  ASSUME NEW u \in DOMAIN uploads, SameOthers(u), uploads'[u].state = uploads[u].state
  PROVE  /\ \A v : Import!Sees(v)' = Import!Sees(v)
         /\ \A v \in DOMAIN uploads : /\ Import!Done(v)' = Import!Done(v) /\ Import!Running(v)' = Import!Running(v)
                                      /\ Alive(v)' = Alive(v)
<1>1. \A v \in DOMAIN uploads : uploads'[v].state = uploads[v].state
  BY DEF SameOthers
<1> QED BY <1>1 DEF Import!Sees, Import!Done, Import!Running, Alive, SameOthers

-----------------------------------------------------------------------------
(* A row is done with: it failed, or what it says is on file already; at   *)
(* most its party was added, or a product.                                 *)
Handled(u, fails) ==
  /\ Import!Running(u) /\ uploads[u].row <= Len(uploads[u].file.rows)
  /\ Import!NextRow(u, fails, {})
  /\ fails = 0 => /\ uploads[u].file.kind = "invoices" =>
                       \E i \in Import!Of(invoices, Import!Sees(u)) : i.number = Import!Row(u).number
                  /\ uploads[u].file.kind = "payments" => Import!Row(u).key \in uploads[u].keys
  /\ \/ parties' = parties
     \/ /\ uploads[u].file.kind = "payments" /\ Import!Row(u).key \notin uploads[u].keys
        /\ \E p \in PartyRow : (p.upload = u \/ p \in parties) /\ parties' = parties \cup {p}
  /\ products \subseteq products' /\ \A r \in products' \ products : r.upload = u
  /\ UNCHANGED <<invoices, payments, raced>>

(* What was on file for the row still is, and its upload wrote at most a   *)
(* party beside.                                                           *)
LEMMA HandledKeeps ==
  ASSUME Import!FilesAssumption, IInv, NEW u \in DOMAIN uploads, NEW fails \in {0, 1}, Handled(u, fails)
  PROVE  IInv'
<1> USE DEF IInv
<1>1. /\ uploads' \in Seq(UploadRow) /\ SameOthers(u)
      /\ uploads'[u].state = uploads[u].state /\ uploads'[u].file = uploads[u].file
      /\ uploads'[u].began = uploads[u].began /\ uploads'[u].stage = "read"
      /\ uploads'[u].row = uploads[u].row + 1 /\ uploads'[u].failed = uploads[u].failed + fails
      /\ uploads'[u].keys = uploads[u].keys \cup {}
  BY NextRowIs DEF Handled
<1>2. uploads'[u].keys = uploads[u].keys
  BY <1>1
<1>3. /\ \A v : Import!Sees(v)' = Import!Sees(v)
      /\ \A v \in DOMAIN uploads : /\ Import!Done(v)' = Import!Done(v) /\ Import!Running(v)' = Import!Running(v)
                                   /\ Alive(v)' = Alive(v)
  BY <1>1, SeesTheSame
<1>4. DOMAIN uploads' = DOMAIN uploads /\ \A v \in DOMAIN uploads : v # u => uploads'[v] = uploads[v]
  BY <1>1 DEF SameOthers
<1>5. /\ parties \subseteq parties' /\ parties' \subseteq PartyRow
      /\ \A p \in parties' \ parties : p.upload = u /\ uploads[u].file.kind = "payments"
      /\ UNCHANGED <<invoices, payments, raced>>
  BY DEF Handled, Typed
<1>6. \A v \in DOMAIN uploads : /\ uploads'[v].file = uploads[v].file /\ uploads'[v].began = uploads[v].began
                                /\ uploads'[v].keys = uploads[v].keys /\ uploads'[v].state = uploads[v].state
  BY <1>1, <1>2, <1>4
<1>7. \A v \in DOMAIN uploads : Writing(v)' => v # u /\ Writing(v)
  BY <1>1, <1>3, <1>4 DEF Writing
<1>8. Import!Running(u) /\ uploads[u] \in UploadRow
  BY DEF Handled, Typed
<1>9. /\ uploads[u].row \in Nat /\ uploads[u].failed \in Nat /\ 1 <= uploads[u].row
      /\ uploads[u].failed < uploads[u].row /\ uploads[u].row <= Len(uploads[u].file.rows)
  <2>1. uploads[u].row \in Nat /\ uploads[u].failed \in Nat /\ Import!Running(u)
    BY <1>8 DEF UploadRow
  <2>2. uploads[u].row \in 1 .. Len(uploads[u].file.rows) + 1 /\ uploads[u].failed < uploads[u].row
    BY DEF Progress
  <2> QED BY <2>1, <2>2 DEF Handled
<1>10. Len(uploads[u].file.rows) \in Nat
  BY <1>8 DEF Import!FilesAssumption, UploadRow
<1>11. Typed'
  BY <1>1, <1>5 DEF Typed
<1>12. Progress'
  <2> SUFFICES ASSUME NEW v \in DOMAIN uploads'
               PROVE  /\ uploads'[v].row \in 1 .. Len(uploads'[v].file.rows) + 1 /\ uploads'[v].failed < uploads'[v].row
                      /\ Writing(v)' => /\ uploads'[v].row <= Len(uploads'[v].file.rows) /\ Import!Row(v)' # unreadable
                                        /\ uploads'[v].file.kind \in {"invoices", "payments"}
                      /\ Import!Done(v)' => uploads'[v].row > Len(uploads'[v].file.rows)
                      /\ uploads'[v].file.kind = "unrecognised" => uploads'[v].state = "refused"
                      /\ uploads'[v].began \subseteq {w \in DOMAIN uploads' : Import!Done(w)'} /\ v \notin uploads'[v].began
    BY DEF Progress
  <2>1. CASE v # u
    BY <1>3, <1>4, <2>1 DEF Progress, Writing, Import!Row
  <2>2. CASE v = u
    <3>2. uploads'[v].row \in 1 .. Len(uploads'[v].file.rows) + 1 /\ uploads'[v].failed < uploads'[v].row
      BY <1>1, <1>9, <1>10, <2>2
    <3>3. ~ Import!Done(u) /\ ~ Writing(u)'
      BY <1>7, <1>8 DEF Import!Done, Import!Running
    <3> QED BY <1>3, <1>4, <1>6, <2>2, <3>2, <3>3 DEF Progress
  <2> QED BY <2>1, <2>2
<1>13. Origins'
  <2>1. \A r \in parties' \cup invoices' \cup payments' \cup products' : r.upload \in DOMAIN uploads' /\ Alive(r.upload)'
    BY <1>3, <1>4, <1>5, <1>8 DEF Origins, Alive, Import!Running, Handled
  <2>2. \A i \in invoices' : i.party \in Import!Of(parties, Import!Sees(i.upload))'
    BY <1>3, <1>5 DEF Origins, Import!Of
  <2>3. \A p \in payments' : \E i \in Import!Of(invoices, Import!Sees(p.upload))' : i.number = p.number
    BY <1>3, <1>5 DEF Origins, Import!Of
  <2> QED BY <2>1, <2>2, <2>3 DEF Origins
<1>14. UniqueNumbers'
  BY <1>5 DEF UniqueNumbers
<1>15. Decided'
  BY <1>3, <1>4, <1>5, <1>7 DEF Decided, Import!Of, Import!Row
<1>16. KeysOnFile'
  BY <1>3, <1>4, <1>5, <1>6 DEF KeysOnFile, Import!Of
<1>17. CleanRowsOnFile'
  <2> SUFFICES ASSUME NEW v \in DOMAIN uploads, Alive(v), uploads'[v].failed = 0,
                      NEW k \in 1 .. uploads'[v].row - 1
               PROVE  /\ uploads[v].file.kind = "invoices" =>
                            \E i \in Import!Of(invoices, Import!Sees(v)) : i.number = uploads[v].file.rows[k].number
                      /\ uploads[v].file.kind = "payments" => uploads[v].file.rows[k].key \in uploads[v].keys
    BY <1>3, <1>4, <1>5, <1>6 DEF CleanRowsOnFile, Import!Of
  <2>1. CASE v # u
    BY <1>4, <2>1 DEF CleanRowsOnFile
  <2>2. CASE v = u /\ k < uploads[u].row
    <3>1. k \in 1 .. uploads[u].row - 1 /\ uploads[u].failed = 0
      BY <1>1, <1>9, <2>2
    <3> QED BY <2>2, <3>1 DEF CleanRowsOnFile
  <2>3. CASE v = u /\ k = uploads[u].row
    <3>1. fails = 0
      BY <1>1, <1>9, <2>3
    <3> QED BY <2>3, <3>1 DEF Handled, Import!Row
  <2>4. v # u \/ k < uploads[u].row \/ k = uploads[u].row
    BY <1>1, <1>9
  <2> QED BY <2>1, <2>2, <2>3, <2>4
<1>18. TwinAddsNothing'
  <2> SUFFICES ASSUME NEW w \in DOMAIN uploads, NEW v \in DOMAIN uploads, Repeats(v, w)', Alive(v)'
               PROVE  /\ ~ Writing(v)'
                      /\ Import!Of(parties \cup invoices \cup payments, {v})' = {}
                      /\ uploads'[v].file.kind = "payments" =>
                           \A k \in DOMAIN uploads'[v].file.rows : uploads'[v].file.rows[k].key \in uploads'[v].keys
    BY <1>4 DEF TwinAddsNothing
  <2>1. w \in uploads[v].began /\ Import!Done(w) /\ w # u
    BY <1>6, <1>8 DEF Repeats, Progress, Import!Done, Import!Running
  <2>2. Repeats(v, w) /\ Alive(v)
    BY <1>3, <1>4, <1>6, <2>1 DEF Repeats
  <2>3. /\ ~ Writing(v) /\ Import!Of(parties \cup invoices \cup payments, {v}) = {}
        /\ uploads[v].file.kind = "payments" =>
             \A k \in DOMAIN uploads[v].file.rows : uploads[v].file.rows[k].key \in uploads[v].keys
    BY <2>2 DEF TwinAddsNothing
  <2>4. \A p \in parties' \ parties : p.upload # v
    <3> SUFFICES ASSUME NEW p \in parties' \ parties, v = u PROVE FALSE
      BY <1>5
    <3>1. Import!Row(u).key \notin uploads[u].keys /\ uploads[u].file.kind = "payments"
      BY DEF Handled
    <3>2. uploads[u].row \in DOMAIN uploads[u].file.rows
      BY <1>8 DEF Handled, Progress, Import!FilesAssumption, UploadRow
    <3> QED BY <2>3, <3>1, <3>2 DEF Import!Row
  <2> QED BY <1>5, <1>6, <1>7, <2>3, <2>4 DEF Import!Of
<1>19. KeysTell'
  BY <1>4, <1>5, <1>6 DEF KeysTell, Origins
<1>20. OneRegister'
  BY <1>3, <1>4, <1>5, <1>6 DEF OneRegister, Registering
<1>21. PaidOnce'
  <2>1. \A n : Import!Settled(n, payments)' = Import!Settled(n, payments)
    BY <1>5 DEF Import!Settled
  <2>2. \A v \in DOMAIN uploads : Registering(v)' => Registering(v)
    BY <1>3, <1>6 DEF Registering
  <2>3. \A v \in DOMAIN uploads : Writing(v)' => uploads'[v].target = uploads[v].target
    BY <1>4, <1>7
  <2> QED BY <1>4, <1>5, <1>6, <1>7, <2>1, <2>2, <2>3 DEF PaidOnce, Import!NoMoneyTwice
<1>22. Import!FailedRowLeavesNothing'
  BY <1>5, <1>6 DEF Import!FailedRowLeavesNothing, Origins
<1> QED BY <1>11, <1>12, <1>13, <1>14, <1>15, <1>16, <1>17, <1>18, <1>19, <1>20, <1>21, <1>22

-----------------------------------------------------------------------------
(* A row is decided: what is written next is of no upload this one repeats. *)
Decides(u, n, p) ==
  /\ Import!Running(u) /\ uploads[u].stage = "read"
  /\ uploads[u].row <= Len(uploads[u].file.rows) /\ Import!Row(u) # unreadable
  /\ uploads[u].file.kind \in {"invoices", "payments"}
  /\ Decision(u, n, p)
  /\ p.upload = u \/ p \in Import!Of(parties, Import!Sees(u))
  /\ uploads[u].file.kind = "invoices" =>
       /\ n = Import!Row(u).number /\ Import!Consistent(Import!Row(u))
       /\ \A i \in Import!Of(invoices, Import!Sees(u)) : i.number # n
       /\ parties' = parties
  /\ uploads[u].file.kind = "payments" =>
       /\ Import!Row(u).key \notin uploads[u].keys
       /\ \E i \in Import!Of(invoices, Import!Sees(u)) :
                i.number = n /\ Import!Settled(n, Import!Of(payments, Import!Sees(u))) < i.total
       /\ parties' = parties \cup {p}
  /\ UNCHANGED <<invoices, payments, products, raced>>

(* Of an invoice that an upload sees it sees every payment, unless two      *)
(* registers are running.                                                  *)
LEMMA SeesWhatIsPaid ==
  ASSUME IInv, ~ raced, NEW u \in DOMAIN uploads, Registering(u), NEW i \in Import!Of(invoices, Import!Sees(u))
  PROVE  Import!Settled(i.number, Import!Of(payments, Import!Sees(u))) = Import!Settled(i.number, payments)
<1>1. ASSUME NEW q \in payments, q.number = i.number, q.upload \notin Import!Sees(u)
      PROVE  FALSE
  <2>1. q.upload \in DOMAIN uploads /\ Alive(q.upload) /\ ~ Import!Done(q.upload) /\ q.upload # u
    BY <1>1 DEF IInv, Origins, Import!Sees
  <2>2. Import!Running(q.upload)
    BY <2>1 DEF Alive, Import!Done, Import!Running
  <2>3. CASE q.key = Import!NoKey
    <3>1. PICK j \in invoices : j.number = q.number /\ j.upload = q.upload
      BY <2>3 DEF IInv, KeysTell
    <3>2. j = i
      BY <1>1, <3>1 DEF IInv, UniqueNumbers, Import!Of
    <3> QED BY <1>1, <3>1, <3>2 DEF Import!Of
  <2>4. CASE q.key # Import!NoKey
    <3>1. Registering(q.upload)
      BY <2>2, <2>4 DEF IInv, KeysTell, Registering
    <3> QED BY <2>1, <3>1 DEF IInv, OneRegister
  <2> QED BY <2>3, <2>4
<1>2. {q \in Import!Of(payments, Import!Sees(u)) : q.number = i.number} = {q \in payments : q.number = i.number}
  BY <1>1 DEF Import!Of
<1> QED BY <1>2 DEF Import!Settled

(* What a finished upload sees, every later one does. *)
LEMMA DoneIsSeen ==
  ASSUME NEW w \in DOMAIN uploads, Import!Done(w), NEW v \in DOMAIN uploads
  PROVE  Import!Sees(w) \subseteq Import!Sees(v)
  BY DEF Import!Sees

(* A decision to write is never one of an upload that repeats another, and *)
(* nobody pays an open invoice meanwhile.                                  *)
LEMMA DecidesKeeps ==
  ASSUME Import!FilesAssumption, IInv, NEW u \in DOMAIN uploads, NEW n \in Nat, NEW p \in PartyRow, Decides(u, n, p)
  PROVE  IInv'
<1> USE DEF IInv
<1>1. /\ uploads' \in Seq(UploadRow) /\ SameOthers(u)
      /\ uploads'[u].state = uploads[u].state /\ uploads'[u].file = uploads[u].file
      /\ uploads'[u].began = uploads[u].began /\ uploads'[u].stage = "write"
      /\ uploads'[u].row = uploads[u].row /\ uploads'[u].failed = uploads[u].failed
      /\ uploads'[u].keys = uploads[u].keys
      /\ uploads'[u].target = n /\ uploads'[u].party = p
  <2>1. Decision(u, n, p) /\ Typed
    BY DEF Decides
  <2> QED BY <2>1, DecidesIs
<1>3. /\ \A v : Import!Sees(v)' = Import!Sees(v)
      /\ \A v \in DOMAIN uploads : /\ Import!Done(v)' = Import!Done(v) /\ Import!Running(v)' = Import!Running(v)
                                   /\ Alive(v)' = Alive(v)
  BY <1>1, SeesTheSame
<1>4. DOMAIN uploads' = DOMAIN uploads /\ \A v \in DOMAIN uploads : v # u => uploads'[v] = uploads[v]
  BY <1>1 DEF SameOthers
<1>5. /\ parties \subseteq parties' /\ parties' \subseteq PartyRow
      /\ \A q \in parties' \ parties : q.upload = u /\ uploads[u].file.kind = "payments"
      /\ UNCHANGED <<invoices, payments, products, raced>>
  BY DEF Decides, Typed, Import!Of
<1>6. \A v \in DOMAIN uploads : /\ uploads'[v].file = uploads[v].file /\ uploads'[v].began = uploads[v].began
                                /\ uploads'[v].keys = uploads[v].keys /\ uploads'[v].state = uploads[v].state
                                /\ uploads'[v].row = uploads[v].row /\ uploads'[v].failed = uploads[v].failed
                                /\ Import!Row(v)' = Import!Row(v)
  BY <1>1, <1>4 DEF Import!Row
<1>7. \A v \in DOMAIN uploads : v # u => (Writing(v)' <=> Writing(v))
  BY <1>1, <1>3, <1>4 DEF Writing
<1>8. Import!Running(u) /\ uploads[u] \in UploadRow
  BY DEF Decides, Typed
<1>11. Typed'
  BY <1>1, <1>5 DEF Typed
<1>12. Progress'
  BY <1>3, <1>4, <1>6, <1>7, <1>8 DEF Progress, Decides
<1>13. Origins'
  <2>1. \A r \in parties' \cup invoices' \cup payments' \cup products' : r.upload \in DOMAIN uploads' /\ Alive(r.upload)'
    BY <1>3, <1>4, <1>5, <1>8 DEF Origins, Alive, Import!Running
  <2>2. \A i \in invoices' : i.party \in Import!Of(parties, Import!Sees(i.upload))'
    BY <1>3, <1>5 DEF Origins, Import!Of
  <2>3. \A q \in payments' : \E i \in Import!Of(invoices, Import!Sees(q.upload))' : i.number = q.number
    BY <1>3, <1>5 DEF Origins, Import!Of
  <2> QED BY <2>1, <2>2, <2>3 DEF Origins
<1>14. UniqueNumbers'
  BY <1>5 DEF UniqueNumbers
<1>15. Decided'
  <2> SUFFICES ASSUME NEW v \in DOMAIN uploads, Writing(v)'
               PROVE  /\ uploads'[v].party.name \in PartyNames
                      /\ uploads'[v].party.upload = v \/ uploads'[v].party \in Import!Of(parties, Import!Sees(v))'
                      /\ uploads'[v].file.kind = "invoices" =>
                               uploads'[v].target = Import!Row(v)'.number /\ Import!Consistent(Import!Row(v)')
                      /\ uploads'[v].file.kind = "payments" =>
                           /\ Import!Row(v)' .key \notin uploads'[v].keys
                           /\ \E i \in Import!Of(invoices, Import!Sees(v))' : i.number = uploads'[v].target
    BY <1>4 DEF Decided, Import!Consistent, Import!PaidAmount
  <2>1. CASE v # u
    BY <1>3, <1>4, <1>5, <1>6, <1>7, <2>1 DEF Decided, Import!Of
  <2>2. CASE v = u
    <3>1. uploads'[u].party.name \in PartyNames
      BY <1>1 DEF PartyRow
    <3>2. uploads'[u].party.upload = u \/ uploads'[u].party \in Import!Of(parties, Import!Sees(u))'
      BY <1>1, <1>3, <1>5 DEF Decides, Import!Of
    <3>3. uploads'[u].file.kind = "invoices" =>
             uploads'[u].target = Import!Row(u)' .number /\ Import!Consistent(Import!Row(u)')
      BY <1>1, <1>6 DEF Decides
    <3>4. uploads'[u].file.kind = "payments" => Import!Row(u)' .key \notin uploads'[u].keys
      BY <1>1, <1>6 DEF Decides
    <3>5. Import!Of(invoices, Import!Sees(u))' = Import!Of(invoices, Import!Sees(u))
      BY <1>3, <1>5 DEF Import!Of
    <3>6. uploads'[u].file.kind = "payments" => \E i \in Import!Of(invoices, Import!Sees(u))' :
             i.number = uploads'[u].target
      BY <1>1, <3>5 DEF Decides
    <3> QED BY <2>2, <3>1, <3>2, <3>3, <3>4, <3>6
  <2> QED BY <2>1, <2>2
<1>16. KeysOnFile'
  BY <1>3, <1>4, <1>5, <1>6 DEF KeysOnFile, Import!Of
<1>17. CleanRowsOnFile'
  BY <1>3, <1>4, <1>5, <1>6 DEF CleanRowsOnFile, Import!Of
<1>18. TwinAddsNothing'
  <2> SUFFICES ASSUME NEW w \in DOMAIN uploads, NEW v \in DOMAIN uploads, Repeats(v, w)', Alive(v)'
               PROVE  /\ ~ Writing(v)'
                      /\ Import!Of(parties \cup invoices \cup payments, {v})' = {}
                      /\ uploads'[v].file.kind = "payments" =>
                           \A k \in DOMAIN uploads'[v].file.rows : uploads'[v].file.rows[k].key \in uploads'[v].keys
    BY <1>4 DEF TwinAddsNothing
  <2>1. Repeats(v, w) /\ Alive(v)
    BY <1>3, <1>4, <1>6 DEF Repeats, Progress
  <2>2. /\ ~ Writing(v) /\ Import!Of(parties \cup invoices \cup payments, {v}) = {}
        /\ uploads[v].file.kind = "payments" =>
             \A k \in DOMAIN uploads[v].file.rows : uploads[v].file.rows[k].key \in uploads[v].keys
    BY <2>1 DEF TwinAddsNothing
  <2>3. v # u
    <3> SUFFICES ASSUME v = u PROVE FALSE
      OBVIOUS
    <3>1. w \in uploads[u].began /\ Import!Done(w) /\ uploads[w].file = uploads[u].file /\ uploads[w].failed = 0
      BY <2>1 DEF Repeats, Progress
    <3>2. uploads[u].row \in DOMAIN uploads[u].file.rows
      BY <1>8 DEF Decides, Progress, Import!FilesAssumption, UploadRow
    <3>3. CASE uploads[u].file.kind = "payments"
      BY <2>2, <3>2, <3>3 DEF Decides, Import!Row
    <3>4. CASE uploads[u].file.kind = "invoices"
      <4>1. uploads[u].row \in 1 .. uploads[w].row - 1
        <5>1. uploads[w].row \in Nat /\ uploads[u].row \in Nat /\ 1 <= uploads[u].row
          BY DEF Typed, UploadRow, Progress
        <5>2. uploads[u].row <= Len(uploads[u].file.rows) /\ Len(uploads[u].file.rows) < uploads[w].row
          BY <3>1 DEF Decides, Progress
        <5>3. Len(uploads[u].file.rows) \in Nat
          BY <1>8 DEF Import!FilesAssumption, UploadRow
        <5> QED BY <5>1, <5>2, <5>3
      <4>2. Alive(w)
        BY <3>1 DEF Alive, Import!Done
      <4>3. \E i \in Import!Of(invoices, Import!Sees(w)) : i.number = Import!Row(u).number
        BY <3>1, <3>4, <4>1, <4>2 DEF CleanRowsOnFile, Import!Row
      <4>4. Import!Sees(w) \subseteq Import!Sees(u)
        BY <3>1, DoneIsSeen
      <4> QED BY <3>4, <4>3, <4>4 DEF Decides, Import!Of
    <3> QED BY <3>3, <3>4 DEF Decides
  <2> QED BY <1>5, <1>6, <1>7, <2>2, <2>3 DEF Import!Of
<1>19. KeysTell'
  BY <1>4, <1>5, <1>6 DEF KeysTell, Origins
<1>20. OneRegister'
  BY <1>3, <1>4, <1>5, <1>6 DEF OneRegister, Registering
<1>21. PaidOnce'
  <2>1. \A m : Import!Settled(m, payments)' = Import!Settled(m, payments)
    BY <1>5 DEF Import!Settled
  <2>2. \A v \in DOMAIN uploads : Registering(v)' => Registering(v)
    BY <1>3, <1>6 DEF Registering
  <2>3. \A v \in DOMAIN uploads : v # u => uploads'[v].target = uploads[v].target
    BY <1>4
  <2>4. ~ raced /\ Registering(u) => \E i \in invoices :
           i.number = uploads'[u].target /\ Import!Settled(i.number, payments) < i.total
    <3> SUFFICES ASSUME ~ raced, Registering(u)
                 PROVE  \E i \in invoices : i.number = n /\ Import!Settled(i.number, payments) < i.total
      BY <1>1
    <3>1. PICK i \in Import!Of(invoices, Import!Sees(u)) :
             i.number = n /\ Import!Settled(n, Import!Of(payments, Import!Sees(u))) < i.total
      BY DEF Decides, Registering
    <3>2. Import!Settled(i.number, Import!Of(payments, Import!Sees(u))) = Import!Settled(i.number, payments)
      BY SeesWhatIsPaid
    <3> QED BY <3>1, <3>2 DEF Import!Of
  <2> QED BY <1>4, <1>5, <1>6, <1>7, <2>1, <2>2, <2>3, <2>4 DEF PaidOnce, Import!NoMoneyTwice
<1>22. Import!FailedRowLeavesNothing'
  BY <1>5, <1>6 DEF Import!FailedRowLeavesNothing, Origins
<1> QED BY <1>11, <1>12, <1>13, <1>14, <1>15, <1>16, <1>17, <1>18, <1>19, <1>20, <1>21, <1>22

-----------------------------------------------------------------------------
(* A row of invoices is written: the party, the invoice and what is paid of *)
(* it, all of this upload or seen by it.                                   *)
Writes(u) ==
  LET row == Import!Row(u)
      p == uploads[u].party
  IN /\ Writing(u) /\ uploads[u].file.kind = "invoices"
     /\ \A i \in invoices : i.number # row.number
     /\ parties' = parties \cup {p}
     /\ invoices' = invoices \cup {[number |-> row.number, total |-> row.total, party |-> p, upload |-> u]}
     /\ payments' = payments \cup Import!PaidInFile(u, row)
     /\ Import!NextRow(u, 0, {})
     /\ UNCHANGED <<products, raced>>

(* The new invoice has its party, and at most its total is paid of it.     *)
LEMMA WritesKeeps ==
  ASSUME Import!FilesAssumption, IInv, NEW u \in DOMAIN uploads, Writes(u)
  PROVE  IInv'
<1> USE DEF IInv
<1>p. PICK row, p : row = Import!Row(u) /\ p = uploads[u].party
  OBVIOUS
<1> DEFINE new == [number |-> row.number, total |-> row.total, party |-> p, upload |-> u]
           paid == [key |-> Import!NoKey, number |-> row.number, amount |-> Import!PaidAmount(row), upload |-> u]
<1>1. /\ uploads' \in Seq(UploadRow) /\ SameOthers(u)
      /\ uploads'[u].state = uploads[u].state /\ uploads'[u].file = uploads[u].file
      /\ uploads'[u].began = uploads[u].began /\ uploads'[u].stage = "read"
      /\ uploads'[u].row = uploads[u].row + 1 /\ uploads'[u].failed = uploads[u].failed + 0
      /\ uploads'[u].keys = uploads[u].keys \cup {}
  <2>1. Import!NextRow(u, 0, {}) /\ Typed
    BY DEF Writes
  <2> QED BY <2>1, NextRowIs
<1>2. Import!Running(u) /\ uploads[u] \in UploadRow /\ u \in Nat
  BY DEF Writes, Writing, Typed
<1>3. /\ \A v : Import!Sees(v)' = Import!Sees(v)
      /\ \A v \in DOMAIN uploads : /\ Import!Done(v)' = Import!Done(v) /\ Import!Running(v)' = Import!Running(v)
                                   /\ Alive(v)' = Alive(v)
  BY <1>1, SeesTheSame
<1>4. DOMAIN uploads' = DOMAIN uploads /\ \A v \in DOMAIN uploads : v # u => uploads'[v] = uploads[v]
  BY <1>1 DEF SameOthers
<1>5. /\ row # unreadable /\ Import!Consistent(row) /\ uploads[u].row <= Len(uploads[u].file.rows)
      /\ p.upload = u \/ p \in Import!Of(parties, Import!Sees(u))
      /\ uploads[u].file.kind = "invoices"
  BY <1>p DEF Writes, Progress, Decided
<1>6. \A v \in DOMAIN uploads : /\ uploads'[v].file = uploads[v].file /\ uploads'[v].began = uploads[v].began
                                /\ uploads'[v].keys = uploads[v].keys /\ uploads'[v].state = uploads[v].state
  BY <1>1, <1>4
<1>7. \A v \in DOMAIN uploads : Writing(v)' => v # u /\ Writing(v)
  BY <1>1, <1>3, <1>4 DEF Writing
<1>8. row.number \in Nat /\ row.total \in Nat /\ p \in PartyRow
  <2>1. uploads[u].row \in DOMAIN uploads[u].file.rows
    BY <1>2, <1>5 DEF Progress, Import!FilesAssumption, UploadRow
  <2>2. row.number \in Nat /\ row.total \in Nat
    BY <1>p, <1>2, <1>5, <2>1 DEF Import!FilesAssumption, UploadRow, Import!Row
  <2>3. p \in PartyRow
    <3>1. p.upload = u \/ p \in parties
      BY <1>5 DEF Import!Of
    <3>2. p.name \in PartyNames /\ p \in PartyRow \cup {Import!NoParty}
      BY <1>p, <1>2 DEF Writes, Decided, UploadRow
    <3>3. u # 0
      BY DEF Typed
    <3> QED BY <3>1, <3>2, <3>3 DEF Typed, Import!NoParty
  <2> QED BY <2>2, <2>3
<1>9. /\ uploads[u].row \in Nat /\ uploads[u].failed \in Nat /\ 1 <= uploads[u].row
      /\ uploads[u].failed < uploads[u].row /\ uploads[u].row <= Len(uploads[u].file.rows)
  <2>1. uploads[u].row \in Nat /\ uploads[u].failed \in Nat
    BY <1>2 DEF UploadRow
  <2>2. uploads[u].row \in 1 .. Len(uploads[u].file.rows) + 1 /\ uploads[u].failed < uploads[u].row
    BY DEF Progress
  <2> QED BY <1>5, <2>1, <2>2
<1>10. Len(uploads[u].file.rows) \in Nat
  BY <1>2 DEF Import!FilesAssumption, UploadRow
<1>11. /\ parties' = parties \cup {p} /\ invoices' = invoices \cup {new}
       /\ \A i \in invoices : i.number # row.number
       /\ UNCHANGED <<products, raced>>
  BY <1>p DEF Writes
<1>12. Import!PaidAmount(row) \in Nat /\ Import!PaidAmount(row) <= row.total
  BY <1>5, <1>8 DEF Import!Consistent
<1>13. payments' = payments \/ payments' = payments \cup {paid}
  BY <1>p DEF Writes, Import!PaidInFile
<1>14. new \in InvoiceRow /\ paid \in PaymentRow
  BY <1>2, <1>8, <1>12 DEF InvoiceRow, PaymentRow
<1>15. /\ new.number = row.number /\ new.total = row.total /\ new.party = p /\ new.upload = u
       /\ paid.key = Import!NoKey /\ paid.number = row.number /\ paid.amount = Import!PaidAmount(row) /\ paid.upload = u
  OBVIOUS
<1>16. uploads'[u].failed = uploads[u].failed
  BY <1>1, <1>9
<1> HIDE DEF new, paid
<1>21. Typed'
  <2>1. IsFiniteSet(payments')
    BY <1>13, FS_AddElement DEF Typed
  <2> QED BY <1>1, <1>8, <1>11, <1>13, <1>14, <2>1 DEF Typed
<1>22. Progress'
  <2> SUFFICES ASSUME NEW v \in DOMAIN uploads'
               PROVE  /\ uploads'[v].row \in 1 .. Len(uploads'[v].file.rows) + 1 /\ uploads'[v].failed < uploads'[v].row
                      /\ Writing(v)' => /\ uploads'[v].row <= Len(uploads'[v].file.rows) /\ Import!Row(v)' # unreadable
                                        /\ uploads'[v].file.kind \in {"invoices", "payments"}
                      /\ Import!Done(v)' => uploads'[v].row > Len(uploads'[v].file.rows)
                      /\ uploads'[v].file.kind = "unrecognised" => uploads'[v].state = "refused"
                      /\ uploads'[v].began \subseteq {w \in DOMAIN uploads' : Import!Done(w)'} /\ v \notin uploads'[v].began
    BY DEF Progress
  <2>1. CASE v # u
    BY <1>3, <1>4, <2>1 DEF Progress, Writing, Import!Row
  <2>2. CASE v = u
    <3>2. uploads'[v].row \in 1 .. Len(uploads'[v].file.rows) + 1 /\ uploads'[v].failed < uploads'[v].row
      BY <1>1, <1>9, <1>10, <2>2
    <3>3. ~ Import!Done(u) /\ ~ Writing(u)'
      BY <1>2, <1>7 DEF Import!Done, Import!Running
    <3> QED BY <1>3, <1>4, <1>6, <2>2, <3>2, <3>3 DEF Progress
  <2> QED BY <2>1, <2>2
<1>23. Origins'
  <2>1. \A r \in parties' \cup invoices' \cup payments' \cup products' : r.upload \in DOMAIN uploads' /\ Alive(r.upload)'
    <3>1. Alive(u)'
      BY <1>2, <1>3 DEF Alive, Import!Running
    <3>2. \A r \in parties \cup invoices \cup payments \cup products : r.upload \in DOMAIN uploads' /\ Alive(r.upload)'
      BY <1>3, <1>4 DEF Origins
    <3>3. p.upload \in DOMAIN uploads' /\ Alive(p.upload)'
      BY <1>4, <1>5, <3>1, <3>2 DEF Import!Of
    <3> QED BY <1>4, <1>11, <1>13, <1>15, <3>1, <3>2, <3>3
  <2>2. \A i \in invoices' : i.party \in Import!Of(parties, Import!Sees(i.upload))'
    <3>1. p.upload \in Import!Sees(u)
      BY <1>5 DEF Import!Of, Import!Sees
    <3> QED BY <1>3, <1>11, <1>15, <3>1 DEF Origins, Import!Of
  <2>3. \A q \in payments' : \E i \in Import!Of(invoices, Import!Sees(q.upload))' : i.number = q.number
    <3>1. u \in Import!Sees(u)
      BY DEF Import!Sees
    <3>2. \A q \in payments : \E i \in Import!Of(invoices, Import!Sees(q.upload))' : i.number = q.number
      BY <1>3, <1>11 DEF Origins, Import!Of
    <3>3. \E i \in Import!Of(invoices, Import!Sees(paid.upload))' : i.number = paid.number
      BY <1>3, <1>11, <1>15, <3>1 DEF Import!Of
    <3> QED BY <1>13, <3>2, <3>3
  <2> QED BY <2>1, <2>2, <2>3 DEF Origins
<1>24. UniqueNumbers'
  BY <1>11, <1>15 DEF UniqueNumbers
<1>25. Decided'
  BY <1>3, <1>4, <1>7, <1>11 DEF Decided, Import!Of, Import!Row
<1>26. KeysOnFile'
  BY <1>3, <1>4, <1>6, <1>13 DEF KeysOnFile, Import!Of
<1>27. CleanRowsOnFile'
  <2> SUFFICES ASSUME NEW v \in DOMAIN uploads, Alive(v), uploads'[v].failed = 0,
                      NEW k \in 1 .. uploads'[v].row - 1
               PROVE  /\ uploads[v].file.kind = "invoices" =>
                            \E i \in Import!Of(invoices, Import!Sees(v))' : i.number = uploads[v].file.rows[k].number
                      /\ uploads[v].file.kind = "payments" => uploads[v].file.rows[k].key \in uploads[v].keys
    BY <1>3, <1>4, <1>6 DEF CleanRowsOnFile
  <2>1. Import!Of(invoices, Import!Sees(v)) \subseteq Import!Of(invoices, Import!Sees(v))'
    BY <1>3, <1>11 DEF Import!Of
  <2>2. CASE v # u
    BY <1>4, <2>1, <2>2 DEF CleanRowsOnFile
  <2>3. CASE v = u /\ k < uploads[u].row
    <3>1. k \in 1 .. uploads[u].row - 1 /\ uploads[u].failed = 0
      BY <1>9, <1>16, <2>3
    <3> QED BY <2>1, <2>3, <3>1 DEF CleanRowsOnFile
  <2>4. CASE v = u /\ k = uploads[u].row
    <3>1. new \in Import!Of(invoices, Import!Sees(u))'
      BY <1>3, <1>11, <1>15 DEF Import!Of, Import!Sees
    <3> QED BY <1>p, <1>5, <1>15, <2>4, <3>1 DEF Import!Row
  <2>5. v # u \/ k < uploads[u].row \/ k = uploads[u].row
    BY <1>1, <1>9
  <2> QED BY <2>2, <2>3, <2>4, <2>5
<1>28. TwinAddsNothing'
  <2> SUFFICES ASSUME NEW w \in DOMAIN uploads, NEW v \in DOMAIN uploads, Repeats(v, w)', Alive(v)'
               PROVE  /\ ~ Writing(v)'
                      /\ Import!Of(parties \cup invoices \cup payments, {v})' = {}
                      /\ uploads'[v].file.kind = "payments" =>
                           \A k \in DOMAIN uploads'[v].file.rows : uploads'[v].file.rows[k].key \in uploads'[v].keys
    BY <1>4 DEF TwinAddsNothing
  <2>1. w \in uploads[v].began /\ Import!Done(w) /\ w # u
    BY <1>2, <1>6 DEF Repeats, Progress, Import!Done, Import!Running
  <2>2. Repeats(v, w) /\ Alive(v)
    BY <1>3, <1>4, <1>6, <2>1 DEF Repeats
  <2>3. /\ ~ Writing(v) /\ Import!Of(parties \cup invoices \cup payments, {v}) = {}
        /\ uploads[v].file.kind = "payments" =>
             \A k \in DOMAIN uploads[v].file.rows : uploads[v].file.rows[k].key \in uploads[v].keys
    BY <2>2 DEF TwinAddsNothing
  <2>4. v # u
    BY <2>3 DEF Writes
  <2>5. p \in parties \/ p.upload # v
    BY <1>5, <2>4 DEF Import!Of
  <2> QED BY <1>6, <1>7, <1>11, <1>13, <1>15, <2>3, <2>4, <2>5 DEF Import!Of
<1>29. KeysTell'
  BY <1>4, <1>6, <1>11, <1>13, <1>15 DEF KeysTell, Origins
<1>30. OneRegister'
  BY <1>3, <1>4, <1>6, <1>11 DEF OneRegister, Registering
<1>31. PaidOnce'
  <2>1. \A q \in payments : q.amount \in Nat
    BY DEF Typed, PaymentRow
  <2>2. \A m : m # row.number => Import!Settled(m, payments') = Import!Settled(m, payments)
    BY <1>12, <1>13, <1>15, <2>1, SettledAdds DEF Typed
  <2>3. Import!Settled(row.number, payments) = 0
    <3>1. \A q \in payments : q.number # row.number
      BY <1>11 DEF Origins, Import!Of
    <3> QED BY <3>1, SettledNothing
  <2>4. Import!Settled(row.number, payments') <= row.total
    <3>1. Import!Settled(row.number, payments \cup {paid}) <= 0 + Import!PaidAmount(row)
      BY <1>12, <1>15, <2>1, <2>3, SettledAdds DEF Typed
    <3>2. Import!Settled(row.number, payments \cup {paid}) \in Nat
      BY <1>12, <1>15, <2>1, SettledAdds DEF Typed
    <3>3. Import!Settled(row.number, payments) <= row.total /\ Import!Settled(row.number, payments \cup {paid}) <= row.total
      BY <1>8, <1>12, <2>3, <3>1, <3>2
    <3> QED BY <1>13, <3>3
  <2>5. \A v \in DOMAIN uploads : Registering(v)' => Registering(v)
    BY <1>3, <1>6 DEF Registering
  <2>6. ~ raced => Import!NoMoneyTwice'
    <3> SUFFICES ASSUME ~ raced
                 PROVE  /\ \A i \in invoices' : Import!Settled(i.number, payments') <= i.total
                        /\ \A a, b \in payments' : a.key = b.key /\ a.key # Import!NoKey => a = b
      BY <1>11 DEF Import!NoMoneyTwice
    <3>1. Import!NoMoneyTwice
      BY DEF PaidOnce
    <3>2. \A i \in invoices : Import!Settled(i.number, payments') <= i.total
      BY <1>11, <2>2, <3>1 DEF Import!NoMoneyTwice
    <3>3. Import!Settled(new.number, payments') <= new.total
      BY <1>15, <2>4
    <3> QED BY <1>11, <1>13, <1>15, <3>1, <3>2, <3>3 DEF Import!NoMoneyTwice
  <2>7. ASSUME ~ raced, NEW v \in DOMAIN uploads, Registering(v)'
        PROVE  /\ \A q \in payments' : q.key # Import!NoKey => q.key \in uploads'[v].keys
               /\ Writing(v)' => \E i \in invoices' :
                        i.number = uploads'[v].target /\ Import!Settled(i.number, payments') < i.total
    <3>1. \A q \in payments : q.key # Import!NoKey => q.key \in uploads[v].keys
      BY <2>5, <2>7 DEF PaidOnce
    <3>2. ASSUME Writing(v)'
          PROVE  \E i \in invoices' : i.number = uploads'[v].target /\ Import!Settled(i.number, payments') < i.total
      <4>1. PICK i \in invoices : i.number = uploads[v].target /\ Import!Settled(i.number, payments) < i.total
        BY <1>7, <2>5, <2>7, <3>2 DEF PaidOnce
      <4> QED BY <1>4, <1>7, <1>11, <2>2, <3>2, <4>1
    <3> QED BY <1>6, <1>13, <1>15, <3>1, <3>2
  <2> QED BY <1>4, <1>11, <2>6, <2>7 DEF PaidOnce
<1>32. Import!FailedRowLeavesNothing'
  <2> SUFFICES ASSUME NEW q \in parties', uploads'[q.upload].file.kind = "invoices"
               PROVE  \E i \in invoices' : i.party = q /\ i.upload = q.upload
    BY DEF Import!FailedRowLeavesNothing
  <2>1. CASE q \in parties
    <3>1. q.upload \in DOMAIN uploads
      BY <2>1 DEF Origins
    <3> QED BY <1>6, <1>11, <2>1, <3>1 DEF Import!FailedRowLeavesNothing
  <2>2. CASE q \notin parties
    BY <1>5, <1>11, <1>15, <2>2 DEF Import!Of
  <2> QED BY <2>1, <2>2
<1> QED BY <1>21, <1>22, <1>23, <1>24, <1>25, <1>26, <1>27, <1>28, <1>29, <1>30, <1>31, <1>32

-----------------------------------------------------------------------------
(* A receipt is written: one more of the invoice decided on, of a key that *)
(* was not known.                                                          *)
LEMMA WritePaymentKeeps ==
  ASSUME Import!FilesAssumption, IInv, NEW u \in DOMAIN uploads, Import!WritePayment(u)
  PROVE  IInv'
<1> USE DEF IInv
<1>p. PICK row, n : row = Import!Row(u) /\ n = uploads[u].target
  OBVIOUS
<1> DEFINE new == [key |-> row.key, number |-> n, amount |-> 1, upload |-> u]
<1>2. Import!Running(u) /\ uploads[u] \in UploadRow /\ u \in Nat /\ Writing(u) /\ uploads[u].file.kind = "payments"
  BY DEF Import!WritePayment, Import!HasRow, Import!CanWrite, Writing, Typed
<1>5. /\ row # unreadable /\ uploads[u].row <= Len(uploads[u].file.rows)
      /\ row.key \notin uploads[u].keys
      /\ \E i \in Import!Of(invoices, Import!Sees(u)) : i.number = n
  BY <1>p, <1>2 DEF Progress, Decided
<1>8. row.key \in Keys /\ n \in Nat /\ row.key # Import!NoKey
  <2>1. uploads[u].row \in DOMAIN uploads[u].file.rows /\ uploads[u].file \in Files
    BY <1>2, <1>5 DEF Progress, Import!FilesAssumption, UploadRow
  <2>2. row \in RowsOf("payments")
    <3> DEFINE f == uploads[u].file
    <3>1. f \in {g \in Files : g.kind = "payments"}
      BY <1>2, <2>1
    <3>2. row \in {f.rows[k] : k \in DOMAIN f.rows}
      BY <1>p, <2>1 DEF Import!Row
    <3> HIDE DEF f
    <3>3. {f.rows[k] : k \in DOMAIN f.rows}
            \in {{g.rows[k] : k \in DOMAIN g.rows} : g \in {h \in Files : h.kind = "payments"}}
      BY <3>1, Zenon
    <3>4. row \in UNION {{g.rows[k] : k \in DOMAIN g.rows} : g \in {h \in Files : h.kind = "payments"}}
      BY <3>2, <3>3, Zenon
    <3> QED BY <1>5, <3>4 DEF RowsOf
  <2>3. row.key # Import!NoKey
    BY <1>p, <1>2, <1>5, <2>1 DEF Import!FilesAssumption, Import!Row
  <2> QED BY <1>p, <1>2, <2>2, <2>3 DEF Keys, UploadRow
<1>1. /\ uploads' \in Seq(UploadRow) /\ SameOthers(u)
      /\ uploads'[u].state = uploads[u].state /\ uploads'[u].file = uploads[u].file
      /\ uploads'[u].began = uploads[u].began /\ uploads'[u].stage = "read"
      /\ uploads'[u].row = uploads[u].row + 1 /\ uploads'[u].failed = uploads[u].failed + 0
      /\ uploads'[u].keys = uploads[u].keys \cup {row.key}
  <2>1. Import!NextRow(u, 0, {row.key}) /\ Typed
    BY <1>p DEF Import!WritePayment
  <2>2. {row.key} \in SUBSET Keys
    BY <1>8
  <2> QED BY <2>1, <2>2, NextRowIs
<1>3. /\ \A v : Import!Sees(v)' = Import!Sees(v)
      /\ \A v \in DOMAIN uploads : /\ Import!Done(v)' = Import!Done(v) /\ Import!Running(v)' = Import!Running(v)
                                   /\ Alive(v)' = Alive(v)
  BY <1>1, SeesTheSame
<1>4. DOMAIN uploads' = DOMAIN uploads /\ \A v \in DOMAIN uploads : v # u => uploads'[v] = uploads[v]
  BY <1>1 DEF SameOthers
<1>6. \A v \in DOMAIN uploads : /\ uploads'[v].file = uploads[v].file /\ uploads'[v].began = uploads[v].began
                                /\ uploads[v].keys \subseteq uploads'[v].keys /\ uploads'[v].state = uploads[v].state
  BY <1>1, <1>4
<1>7. \A v \in DOMAIN uploads : Writing(v)' => v # u /\ Writing(v)
  BY <1>1, <1>3, <1>4 DEF Writing
<1>9. /\ uploads[u].row \in Nat /\ uploads[u].failed \in Nat /\ 1 <= uploads[u].row
      /\ uploads[u].failed < uploads[u].row /\ uploads[u].row <= Len(uploads[u].file.rows)
  <2>1. uploads[u].row \in Nat /\ uploads[u].failed \in Nat
    BY <1>2 DEF UploadRow
  <2>2. uploads[u].row \in 1 .. Len(uploads[u].file.rows) + 1 /\ uploads[u].failed < uploads[u].row
    BY DEF Progress
  <2> QED BY <1>5, <2>1, <2>2
<1>10. Len(uploads[u].file.rows) \in Nat
  BY <1>2 DEF Import!FilesAssumption, UploadRow
<1>11. payments' = payments \cup {new} /\ UNCHANGED <<parties, invoices, products, raced>>
  BY <1>p DEF Import!WritePayment
<1>14. new \in PaymentRow
  BY <1>2, <1>8 DEF PaymentRow
<1>15. new.key = row.key /\ new.number = n /\ new.amount = 1 /\ new.upload = u
  OBVIOUS
<1>16. uploads'[u].failed = uploads[u].failed
  BY <1>1, <1>9
<1> HIDE DEF new
<1>21. Typed'
  <2>1. IsFiniteSet(payments')
    BY <1>11, FS_AddElement DEF Typed
  <2> QED BY <1>1, <1>11, <1>14, <2>1 DEF Typed
<1>22. Progress'
  <2> SUFFICES ASSUME NEW v \in DOMAIN uploads'
               PROVE  /\ uploads'[v].row \in 1 .. Len(uploads'[v].file.rows) + 1 /\ uploads'[v].failed < uploads'[v].row
                      /\ Writing(v)' => /\ uploads'[v].row <= Len(uploads'[v].file.rows) /\ Import!Row(v)' # unreadable
                                        /\ uploads'[v].file.kind \in {"invoices", "payments"}
                      /\ Import!Done(v)' => uploads'[v].row > Len(uploads'[v].file.rows)
                      /\ uploads'[v].file.kind = "unrecognised" => uploads'[v].state = "refused"
                      /\ uploads'[v].began \subseteq {w \in DOMAIN uploads' : Import!Done(w)'} /\ v \notin uploads'[v].began
    BY DEF Progress
  <2>1. CASE v # u
    BY <1>3, <1>4, <2>1 DEF Progress, Writing, Import!Row
  <2>2. CASE v = u
    <3>2. uploads'[v].row \in 1 .. Len(uploads'[v].file.rows) + 1 /\ uploads'[v].failed < uploads'[v].row
      BY <1>1, <1>9, <1>10, <2>2
    <3>3. ~ Import!Done(u) /\ ~ Writing(u)'
      BY <1>2, <1>7 DEF Import!Done, Import!Running
    <3> QED BY <1>3, <1>4, <1>6, <2>2, <3>2, <3>3 DEF Progress
  <2> QED BY <2>1, <2>2
<1>23. Origins'
  <2>1. \A r \in parties' \cup invoices' \cup payments' \cup products' : r.upload \in DOMAIN uploads' /\ Alive(r.upload)'
    BY <1>2, <1>3, <1>4, <1>11, <1>15 DEF Origins, Alive, Import!Running
  <2>2. \A i \in invoices' : i.party \in Import!Of(parties, Import!Sees(i.upload))'
    BY <1>3, <1>11 DEF Origins, Import!Of
  <2>3. \A q \in payments' : \E i \in Import!Of(invoices, Import!Sees(q.upload))' : i.number = q.number
    <3>1. \A q \in payments : \E i \in Import!Of(invoices, Import!Sees(q.upload))' : i.number = q.number
      BY <1>3, <1>11 DEF Origins, Import!Of
    <3>2. \E i \in Import!Of(invoices, Import!Sees(u))' : i.number = n
      BY <1>3, <1>5, <1>11 DEF Import!Of
    <3> QED BY <1>11, <1>15, <3>1, <3>2
  <2> QED BY <2>1, <2>2, <2>3 DEF Origins
<1>24. UniqueNumbers'
  BY <1>11 DEF UniqueNumbers
<1>25. Decided'
  BY <1>3, <1>4, <1>7, <1>11 DEF Decided, Import!Of, Import!Row
<1>26. KeysOnFile'
  <2> SUFFICES ASSUME NEW v \in DOMAIN uploads, Alive(v), NEW k \in uploads'[v].keys
               PROVE  \E q \in Import!Of(payments, Import!Sees(v))' : q.key = k
    BY <1>3, <1>4 DEF KeysOnFile
  <2>1. CASE k \in uploads[v].keys
    BY <1>3, <1>11, <2>1 DEF KeysOnFile, Import!Of
  <2>2. CASE v = u /\ k = row.key
    <3>1. new \in Import!Of(payments, Import!Sees(u))'
      BY <1>3, <1>11, <1>15 DEF Import!Of, Import!Sees
    <3> QED BY <1>15, <2>2, <3>1
  <2> QED BY <1>1, <1>4, <2>1, <2>2
<1>27. CleanRowsOnFile'
  <2> SUFFICES ASSUME NEW v \in DOMAIN uploads, Alive(v), uploads'[v].failed = 0,
                      NEW k \in 1 .. uploads'[v].row - 1
               PROVE  /\ uploads[v].file.kind = "invoices" =>
                            \E i \in Import!Of(invoices, Import!Sees(v)) : i.number = uploads[v].file.rows[k].number
                      /\ uploads[v].file.kind = "payments" => uploads[v].file.rows[k].key \in uploads'[v].keys
    BY <1>3, <1>4, <1>6, <1>11 DEF CleanRowsOnFile, Import!Of
  <2>2. CASE v # u
    BY <1>4, <2>2 DEF CleanRowsOnFile
  <2>3. CASE v = u /\ k < uploads[u].row
    <3>1. k \in 1 .. uploads[u].row - 1 /\ uploads[u].failed = 0
      BY <1>9, <1>16, <2>3
    <3> QED BY <1>1, <2>3, <3>1 DEF CleanRowsOnFile
  <2>4. CASE v = u /\ k = uploads[u].row
    BY <1>1, <1>p, <1>2, <2>4 DEF Import!Row
  <2>5. v # u \/ k < uploads[u].row \/ k = uploads[u].row
    BY <1>1, <1>9
  <2> QED BY <2>2, <2>3, <2>4, <2>5
<1>28. TwinAddsNothing'
  <2> SUFFICES ASSUME NEW w \in DOMAIN uploads, NEW v \in DOMAIN uploads, Repeats(v, w)', Alive(v)'
               PROVE  /\ ~ Writing(v)'
                      /\ Import!Of(parties \cup invoices \cup payments, {v})' = {}
                      /\ uploads'[v].file.kind = "payments" =>
                           \A k \in DOMAIN uploads'[v].file.rows : uploads'[v].file.rows[k].key \in uploads'[v].keys
    BY <1>4 DEF TwinAddsNothing
  <2>1. w \in uploads[v].began /\ Import!Done(w) /\ w # u
    BY <1>2, <1>6 DEF Repeats, Progress, Import!Done, Import!Running
  <2>2. Repeats(v, w) /\ Alive(v)
    BY <1>3, <1>4, <1>6, <2>1 DEF Repeats
  <2>3. /\ ~ Writing(v) /\ Import!Of(parties \cup invoices \cup payments, {v}) = {}
        /\ uploads[v].file.kind = "payments" =>
             \A k \in DOMAIN uploads[v].file.rows : uploads[v].file.rows[k].key \in uploads[v].keys
    BY <2>2 DEF TwinAddsNothing
  <2>4. v # u
    BY <1>2, <2>3
  <2> QED BY <1>6, <1>7, <1>11, <1>15, <2>3, <2>4 DEF Import!Of
<1>29. KeysTell'
  BY <1>2, <1>4, <1>6, <1>8, <1>11, <1>15 DEF KeysTell, Origins
<1>30. OneRegister'
  BY <1>3, <1>4, <1>6, <1>11 DEF OneRegister, Registering
<1>31. PaidOnce'
  <2> SUFFICES ASSUME ~ raced
               PROVE  /\ \A i \in invoices : Import!Settled(i.number, payments') <= i.total
                      /\ \A a, b \in payments' : a.key = b.key /\ a.key # Import!NoKey => a = b
                      /\ \A v \in DOMAIN uploads : Registering(v)' =>
                           /\ \A q \in payments' : q.key # Import!NoKey => q.key \in uploads'[v].keys
                           /\ ~ Writing(v)'
    BY <1>4, <1>11 DEF PaidOnce, Import!NoMoneyTwice
  <2>1. \A q \in payments : q.amount \in Nat
    BY DEF Typed, PaymentRow
  <2>2. \A m : /\ m # n => Import!Settled(m, payments') = Import!Settled(m, payments)
               /\ Import!Settled(m, payments') <= Import!Settled(m, payments) + 1
               /\ Import!Settled(m, payments') \in Nat /\ Import!Settled(m, payments) \in Nat
    BY <1>11, <1>15, <2>1, SettledAdds DEF Typed
  <2>3. Registering(u)
    BY <1>2 DEF Registering
  <2>4. \A v \in DOMAIN uploads : Registering(v)' => v = u
    BY <1>3, <1>6, <2>3 DEF Registering, OneRegister
  <2>5. /\ \A q \in payments : q.key # Import!NoKey => q.key \in uploads[u].keys
        /\ \E i \in invoices : i.number = n /\ Import!Settled(n, payments) < i.total
        /\ Import!NoMoneyTwice
    BY <1>p, <1>2, <2>3 DEF PaidOnce
  <2>6. ASSUME NEW i \in invoices PROVE Import!Settled(i.number, payments') <= i.total
    <3>1. CASE i.number # n
      BY <2>2, <2>5, <3>1 DEF Import!NoMoneyTwice
    <3>2. CASE i.number = n
      <4>1. Import!Settled(n, payments) < i.total
        BY <2>5, <3>2 DEF UniqueNumbers
      <4>2. i.total \in Nat
        BY DEF Typed, InvoiceRow
      <4>3. Import!Settled(n, payments') <= Import!Settled(n, payments) + 1
               /\ Import!Settled(n, payments') \in Nat /\ Import!Settled(n, payments) \in Nat
        BY <2>2
      <4> QED BY <3>2, <4>1, <4>2, <4>3
    <3> QED BY <3>1, <3>2
  <2>7. \A a, b \in payments' : a.key = b.key /\ a.key # Import!NoKey => a = b
    <3>1. \A a \in payments : a.key # new.key
      BY <1>5, <1>8, <1>15, <2>5
    <3> QED BY <1>11, <2>5, <3>1 DEF Import!NoMoneyTwice
  <2>8. \A q \in payments' : q.key # Import!NoKey => q.key \in uploads'[u].keys
    BY <1>1, <1>11, <1>15, <2>5
  <2> QED BY <1>7, <2>4, <2>6, <2>7, <2>8
<1>32. Import!FailedRowLeavesNothing'
  BY <1>6, <1>11 DEF Import!FailedRowLeavesNothing, Origins
<1> QED BY <1>21, <1>22, <1>23, <1>24, <1>25, <1>26, <1>27, <1>28, <1>29, <1>30, <1>31, <1>32

(* What an upload wrote is seen by all once it commits. *)
LEMMA CommitKeeps ==
  ASSUME Import!FilesAssumption, IInv, NEW u \in DOMAIN uploads, Import!Commit(u)
  PROVE  IInv'
<1> USE DEF IInv
<1>1. /\ uploads' \in Seq(UploadRow) /\ SameOthers(u)
      /\ uploads'[u].state = "done" /\ uploads'[u].file = uploads[u].file
      /\ uploads'[u].began = uploads[u].began /\ uploads'[u].stage = uploads[u].stage
      /\ uploads'[u].row = uploads[u].row /\ uploads'[u].failed = uploads[u].failed
      /\ uploads'[u].keys = uploads[u].keys
  <2>1. uploads' = [uploads EXCEPT ![u].state = "done"] /\ Typed
    BY DEF Import!Commit
  <2> QED BY <2>1, EndsIs
<1>2. Import!Running(u) /\ uploads[u].row > Len(uploads[u].file.rows) /\ ~ Import!Done(u)
      /\ UNCHANGED <<parties, invoices, payments, products, raced>>
  BY DEF Import!Commit, Import!Running, Import!Done
<1>4. DOMAIN uploads' = DOMAIN uploads /\ \A v \in DOMAIN uploads : v # u => uploads'[v] = uploads[v]
  BY <1>1 DEF SameOthers
<1>3. /\ \A v \in DOMAIN uploads : Import!Sees(v) \subseteq Import!Sees(v)' /\ u \in Import!Sees(v)'
      /\ \A v \in DOMAIN uploads : /\ Import!Done(v) => Import!Done(v)'
                                   /\ Import!Running(v)' => Import!Running(v) /\ v # u
                                   /\ Alive(v)' = Alive(v)
  BY <1>1, <1>2, <1>4 DEF Import!Sees, Import!Done, Import!Running, Alive
<1>6. \A v \in DOMAIN uploads : /\ uploads'[v].file = uploads[v].file /\ uploads'[v].began = uploads[v].began
                                /\ uploads'[v].keys = uploads[v].keys /\ uploads'[v].row = uploads[v].row
                                /\ uploads'[v].failed = uploads[v].failed /\ Import!Row(v)' = Import!Row(v)
  BY <1>1, <1>4 DEF Import!Row
<1>7. \A v \in DOMAIN uploads : Writing(v)' => v # u /\ Writing(v)
  BY <1>3, <1>4 DEF Writing
<1>8. \A v \in DOMAIN uploads : /\ Import!Of(parties, Import!Sees(v)) \subseteq Import!Of(parties, Import!Sees(v))'
                                /\ Import!Of(invoices, Import!Sees(v)) \subseteq Import!Of(invoices, Import!Sees(v))'
                                /\ Import!Of(payments, Import!Sees(v)) \subseteq Import!Of(payments, Import!Sees(v))'
  BY <1>2, <1>3 DEF Import!Of
<1>21. Typed'
  BY <1>1, <1>2 DEF Typed
<1>22. Progress'
  <2>1. \A v \in DOMAIN uploads : Import!Done(v)' => v = u \/ Import!Done(v)
    BY <1>4 DEF Import!Done
  <2>2. uploads[u].file.kind # "unrecognised"
    BY <1>2 DEF Progress, Import!Running
  <2> QED BY <1>2, <1>3, <1>4, <1>6, <1>7, <2>1, <2>2 DEF Progress
<1>23. Origins'
  <2>1. \A r \in parties' \cup invoices' \cup payments' \cup products' : r.upload \in DOMAIN uploads' /\ Alive(r.upload)'
    BY <1>2, <1>3, <1>4 DEF Origins
  <2>2. \A i \in invoices' : i.party \in Import!Of(parties, Import!Sees(i.upload))'
    BY <1>2, <1>8 DEF Origins
  <2>3. \A q \in payments' : \E i \in Import!Of(invoices, Import!Sees(q.upload))' : i.number = q.number
    BY <1>2, <1>8 DEF Origins
  <2> QED BY <2>1, <2>2, <2>3 DEF Origins
<1>24. UniqueNumbers'
  BY <1>2 DEF UniqueNumbers
<1>25. Decided'
  BY <1>4, <1>6, <1>7, <1>8 DEF Decided
<1>26. KeysOnFile'
  BY <1>3, <1>4, <1>6, <1>8 DEF KeysOnFile
<1>27. CleanRowsOnFile'
  BY <1>3, <1>4, <1>6, <1>8 DEF CleanRowsOnFile
<1>28. TwinAddsNothing'
  <2> SUFFICES ASSUME NEW w \in DOMAIN uploads, NEW v \in DOMAIN uploads, Repeats(v, w)', Alive(v)'
               PROVE  /\ ~ Writing(v)'
                      /\ Import!Of(parties \cup invoices \cup payments, {v})' = {}
                      /\ uploads'[v].file.kind = "payments" =>
                           \A k \in DOMAIN uploads'[v].file.rows : uploads'[v].file.rows[k].key \in uploads'[v].keys
    BY <1>4 DEF TwinAddsNothing
  <2>2. Repeats(v, w) /\ Alive(v)
    BY <1>3, <1>6 DEF Repeats
  <2> QED BY <1>2, <1>6, <1>7, <2>2 DEF TwinAddsNothing, Import!Of
<1>29. KeysTell'
  BY <1>2, <1>4, <1>6 DEF KeysTell, Origins
<1>30. OneRegister'
  BY <1>2, <1>3, <1>4, <1>6 DEF OneRegister, Registering
<1>31. PaidOnce'
  <2>1. \A m : Import!Settled(m, payments)' = Import!Settled(m, payments)
    BY <1>2 DEF Import!Settled
  <2>2. \A v \in DOMAIN uploads : Registering(v)' => Registering(v)
    BY <1>3, <1>6 DEF Registering
  <2>3. \A v \in DOMAIN uploads : Writing(v)' => uploads'[v].target = uploads[v].target
    BY <1>4, <1>7
  <2> QED BY <1>2, <1>4, <1>6, <1>7, <2>1, <2>2, <2>3 DEF PaidOnce, Import!NoMoneyTwice
<1>32. Import!FailedRowLeavesNothing'
  BY <1>2, <1>6 DEF Import!FailedRowLeavesNothing, Origins
<1> QED BY <1>21, <1>22, <1>23, <1>24, <1>25, <1>26, <1>27, <1>28, <1>29, <1>30, <1>31, <1>32

(* A request that dies takes its rows with it, and nothing that another    *)
(* one has seen.                                                           *)
LEMMA CrashKeeps ==
  ASSUME Import!FilesAssumption, IInv, NEW u \in DOMAIN uploads, Import!Crash(u)
  PROVE  IInv'
<1> USE DEF IInv
<1>1. /\ uploads' \in Seq(UploadRow) /\ SameOthers(u)
      /\ uploads'[u].state = "lost" /\ uploads'[u].file = uploads[u].file
      /\ uploads'[u].began = uploads[u].began /\ uploads'[u].stage = uploads[u].stage
      /\ uploads'[u].row = uploads[u].row /\ uploads'[u].failed = uploads[u].failed
      /\ uploads'[u].keys = uploads[u].keys
  <2>1. uploads' = [uploads EXCEPT ![u].state = "lost"] /\ Typed
    BY DEF Import!Crash
  <2> QED BY <2>1, EndsIs
<1>2. /\ Import!Running(u) /\ ~ Import!Done(u) /\ raced' = raced
      /\ \A r : r \in parties' <=> r \in parties /\ r.upload # u
      /\ \A r : r \in invoices' <=> r \in invoices /\ r.upload # u
      /\ \A r : r \in payments' <=> r \in payments /\ r.upload # u
      /\ \A r : r \in products' <=> r \in products /\ r.upload # u
  BY DEF Import!Crash, Import!Running, Import!Done, Import!Without
<1>4. DOMAIN uploads' = DOMAIN uploads /\ \A v \in DOMAIN uploads : v # u => uploads'[v] = uploads[v]
  BY <1>1 DEF SameOthers
<1>3. /\ \A v : Import!Sees(v)' = Import!Sees(v) /\ (v # u => u \notin Import!Sees(v))
      /\ \A v \in DOMAIN uploads : /\ Import!Done(v)' = Import!Done(v)
                                   /\ Import!Running(v)' => Import!Running(v) /\ v # u
                                   /\ Alive(v)' => Alive(v) /\ v # u
                                   /\ v # u => Alive(v)' = Alive(v)
  BY <1>1, <1>2, <1>4 DEF Import!Sees, Import!Done, Import!Running, Alive
<1>6. \A v \in DOMAIN uploads : /\ uploads'[v].file = uploads[v].file /\ uploads'[v].began = uploads[v].began
                                /\ uploads'[v].keys = uploads[v].keys /\ uploads'[v].row = uploads[v].row
                                /\ uploads'[v].failed = uploads[v].failed /\ Import!Row(v)' = Import!Row(v)
  BY <1>1, <1>4 DEF Import!Row
<1>7. \A v \in DOMAIN uploads : Writing(v)' => v # u /\ Writing(v)
  BY <1>3, <1>4 DEF Writing
<1>8. \A v \in DOMAIN uploads : v # u =>
         /\ Import!Of(parties, Import!Sees(v)) \subseteq Import!Of(parties, Import!Sees(v))'
         /\ Import!Of(invoices, Import!Sees(v)) \subseteq Import!Of(invoices, Import!Sees(v))'
         /\ Import!Of(payments, Import!Sees(v)) \subseteq Import!Of(payments, Import!Sees(v))'
  BY <1>2, <1>3 DEF Import!Of
<1>21. Typed'
  <2>1. IsFiniteSet(payments')
    BY <1>2, FS_Subset DEF Typed
  <2> QED BY <1>1, <1>2, <2>1 DEF Typed
<1>22. Progress'
  <2>1. uploads[u].file.kind # "unrecognised"
    BY <1>2 DEF Progress, Import!Running
  <2>2. ~ Import!Done(u)'
    BY <1>2, <1>3
  <2> QED BY <1>3, <1>4, <1>6, <1>7, <2>1, <2>2 DEF Progress
<1>23. Origins'
  <2>1. \A r \in parties' \cup invoices' \cup payments' \cup products' : r.upload \in DOMAIN uploads' /\ Alive(r.upload)'
    BY <1>2, <1>3, <1>4 DEF Origins
  <2>2. \A i \in invoices' : i.party \in Import!Of(parties, Import!Sees(i.upload))'
    BY <1>2, <1>8 DEF Origins
  <2>3. \A q \in payments' : \E i \in Import!Of(invoices, Import!Sees(q.upload))' : i.number = q.number
    BY <1>2, <1>8 DEF Origins
  <2> QED BY <2>1, <2>2, <2>3 DEF Origins
<1>24. UniqueNumbers'
  BY <1>2 DEF UniqueNumbers
<1>25. Decided'
  BY <1>4, <1>6, <1>7, <1>8 DEF Decided
<1>26. KeysOnFile'
  BY <1>3, <1>4, <1>6, <1>8 DEF KeysOnFile
<1>27. CleanRowsOnFile'
  BY <1>3, <1>4, <1>6, <1>8 DEF CleanRowsOnFile
<1>28. TwinAddsNothing'
  <2> SUFFICES ASSUME NEW w \in DOMAIN uploads, NEW v \in DOMAIN uploads, Repeats(v, w)', Alive(v)'
               PROVE  /\ ~ Writing(v)'
                      /\ Import!Of(parties \cup invoices \cup payments, {v})' = {}
                      /\ uploads'[v].file.kind = "payments" =>
                           \A k \in DOMAIN uploads'[v].file.rows : uploads'[v].file.rows[k].key \in uploads'[v].keys
    BY <1>4 DEF TwinAddsNothing
  <2>2. Repeats(v, w) /\ Alive(v)
    BY <1>3, <1>6 DEF Repeats
  <2> QED BY <1>2, <1>6, <1>7, <2>2 DEF TwinAddsNothing, Import!Of
<1>29. KeysTell'
  BY <1>2, <1>4, <1>6 DEF KeysTell, Origins
<1>30. OneRegister'
  BY <1>2, <1>3, <1>4, <1>6 DEF OneRegister, Registering
<1>31. PaidOnce'
  <2>1. payments' \in SUBSET payments /\ \A q \in payments : q.amount \in Nat
    BY <1>2 DEF Typed, PaymentRow
  <2>2. \A m : Import!Settled(m, payments') \in Nat /\ Import!Settled(m, payments) \in Nat
           /\ Import!Settled(m, payments') <= Import!Settled(m, payments)
    BY <2>1, SettledIsNat DEF Typed
  <2>3. \A v \in DOMAIN uploads : Registering(v)' => Registering(v) /\ v # u
    BY <1>3, <1>6 DEF Registering
  <2>4. \A i \in invoices : i.total \in Nat
    BY DEF Typed, InvoiceRow
  <2>5. ~ raced => Import!NoMoneyTwice'
    <3> SUFFICES ASSUME ~ raced
                 PROVE  /\ \A i \in invoices' : Import!Settled(i.number, payments') <= i.total
                        /\ \A a, b \in payments' : a.key = b.key /\ a.key # Import!NoKey => a = b
      BY DEF Import!NoMoneyTwice
    <3>1. Import!NoMoneyTwice
      BY DEF PaidOnce
    <3> QED BY <1>2, <2>1, <2>2, <2>4, <3>1 DEF Import!NoMoneyTwice
  <2>6. ASSUME ~ raced, NEW v \in DOMAIN uploads, Registering(v)', Writing(v)'
        PROVE  \E i \in invoices' : i.number = uploads'[v].target /\ Import!Settled(i.number, payments') < i.total
    <3>1. PICK i \in invoices : i.number = uploads[v].target /\ Import!Settled(i.number, payments) < i.total
      BY <1>7, <2>3, <2>6 DEF PaidOnce
    <3>2. \E j \in Import!Of(invoices, Import!Sees(v)) : j.number = uploads[v].target
      BY <1>7, <2>3, <2>6 DEF Decided, Registering
    <3>3. i \in Import!Of(invoices, Import!Sees(v))
      BY <3>1, <3>2 DEF UniqueNumbers, Import!Of
    <3>4. i \in invoices'
      BY <1>8, <2>3, <2>6, <3>3 DEF Import!Of
    <3>5. Import!Settled(i.number, payments') < i.total
      BY <2>2, <2>4, <3>1
    <3> QED BY <1>4, <1>7, <2>6, <3>1, <3>4, <3>5
  <2> QED BY <1>2, <1>4, <1>6, <2>1, <2>3, <2>5, <2>6 DEF PaidOnce
<1>32. Import!FailedRowLeavesNothing'
  BY <1>2, <1>6 DEF Import!FailedRowLeavesNothing, Origins
<1> QED BY <1>21, <1>22, <1>23, <1>24, <1>25, <1>26, <1>27, <1>28, <1>29, <1>30, <1>31, <1>32

(* The key of a receipt is one. *)
LEMMA NoKeyIsNone == ASSUME Import!FilesAssumption PROVE Import!NoKey \notin Keys
<1> SUFFICES ASSUME NEW r \in RowsOf("payments"), r.key = Import!NoKey PROVE FALSE
  BY DEF Keys
<1>1. r \in UNION {{f.rows[k] : k \in DOMAIN f.rows} : f \in {h \in Files : h.kind = "payments"}} /\ r # unreadable
  BY DEF RowsOf
<1>2. PICK f \in {h \in Files : h.kind = "payments"} : r \in {f.rows[k] : k \in DOMAIN f.rows}
  BY <1>1, Zenon
<1>3. PICK k \in DOMAIN f.rows : r = f.rows[k]
  BY <1>2
<1> QED BY <1>1, <1>2, <1>3 DEF Import!FilesAssumption

(* An upload that begins knows the receipts of all that are through, or is *)
(* refused.                                                                *)
LEMMA OpensKeeps ==
  ASSUME Import!FilesAssumption, IInv, NEW f \in Files, Import!Upload(f) \/ Import!Refuse(f)
  PROVE  IInv'
<1> USE DEF IInv
<1>d. PICK done : done = {v \in DOMAIN uploads : Import!Done(v)}
  OBVIOUS
<1>k. PICK known : known = {q.key : q \in Import!Of(payments, done)} \ {Import!NoKey}
  OBVIOUS
<1>1. known \in SUBSET Keys /\ done \in SUBSET Nat /\ done \subseteq DOMAIN uploads
  BY <1>d, <1>k DEF Import!Of, Typed, PaymentRow
<1>2. PICK x \in UploadRow :
         /\ uploads' = Append(uploads, x)
         /\ x.state = (IF f.kind = "unrecognised" THEN "refused" ELSE "running")
         /\ x.file = f /\ x.row = 1 /\ x.stage = "read" /\ x.failed = 0 /\ x.began = done
         /\ f.kind = "payments" => x.keys = known
         /\ f.kind # "payments" => x.keys = {}
  <2> DEFINE b(keys) == [state |-> "running", file |-> f, row |-> 1, stage |-> "read",
                         target |-> 0, party |-> Import!NoParty, keys |-> keys, failed |-> 0, began |-> done]
  <2>1. \A keys : Import!Begun(f, keys) = b(keys)
    BY <1>d DEF Import!Begun
  <2>2. \A keys \in SUBSET Keys : b(keys) \in UploadRow
    BY <1>1 DEF UploadRow
  <2>3. CASE Import!Upload(f)
    <3>1. uploads' = Append(uploads, b(IF f.kind = "payments" THEN known ELSE {})) /\ f.kind # "unrecognised"
      BY <1>d, <1>k, <2>1, <2>3 DEF Import!Upload
    <3>2. (IF f.kind = "payments" THEN known ELSE {}) \in SUBSET Keys
      BY <1>1
    <3>3. b(IF f.kind = "payments" THEN known ELSE {}) \in UploadRow
      BY <2>2, <3>2
    <3> QED BY <3>1, <3>3
  <2>4. CASE Import!Refuse(f)
    <3>1. uploads' = Append(uploads, [b({}) EXCEPT !.state = "refused"]) /\ f.kind = "unrecognised"
      BY <2>1, <2>4 DEF Import!Refuse
    <3>2. [b({}) EXCEPT !.state = "refused"] \in UploadRow
      BY <1>1 DEF UploadRow
    <3> QED BY <3>1, <3>2
  <2> QED BY <2>3, <2>4
<1>3. PICK n : n = Len(uploads) + 1
  OBVIOUS
<1>4. /\ DOMAIN uploads' = DOMAIN uploads \cup {n} /\ n \notin DOMAIN uploads
      /\ uploads'[n] = x /\ \A v \in DOMAIN uploads : uploads'[v] = uploads[v]
      /\ uploads' \in Seq(UploadRow)
  BY <1>2, <1>3 DEF Typed
<1>5. /\ UNCHANGED <<parties, invoices, payments, products>>
      /\ raced' \in BOOLEAN /\ (raced => raced')
      /\ ~ raced' /\ f.kind = "payments" => \A v \in DOMAIN uploads : ~ Registering(v)
  BY DEF Import!Upload, Import!Refuse, Registering, Typed
<1>6. /\ \A v \in DOMAIN uploads : Import!Sees(v)' = Import!Sees(v)
      /\ Import!Sees(n)' = {n} \cup done
      /\ \A v \in DOMAIN uploads : /\ Import!Done(v)' = Import!Done(v)
                                   /\ Import!Running(v)' = Import!Running(v)
                                   /\ Alive(v)' = Alive(v)
                                   /\ Writing(v)' = Writing(v)
                                   /\ Registering(v)' = Registering(v)
                                   /\ Import!Row(v)' = Import!Row(v)
      /\ ~ Import!Done(n)' /\ ~ Writing(n)'
      /\ \A v \in DOMAIN uploads : done \subseteq Import!Sees(v)
  BY <1>2, <1>4, <1>d DEF Import!Sees, Import!Done, Import!Running, Alive, Writing, Registering, Import!Row
<1>7. \A v \in DOMAIN uploads : /\ Import!Of(parties, Import!Sees(v))' = Import!Of(parties, Import!Sees(v))
                                /\ Import!Of(invoices, Import!Sees(v))' = Import!Of(invoices, Import!Sees(v))
                                /\ Import!Of(payments, Import!Sees(v))' = Import!Of(payments, Import!Sees(v))
  BY <1>5, <1>6 DEF Import!Of
<1>8. \A r \in parties \cup invoices \cup payments \cup products : r.upload \in DOMAIN uploads
  BY DEF Origins
<1>21. Typed'
  BY <1>4, <1>5 DEF Typed
<1>22. Progress'
  <2>1. /\ x.row \in 1 .. Len(x.file.rows) + 1 /\ x.failed < x.row
    <3>1. Len(f.rows) \in Nat
      BY DEF Import!FilesAssumption
    <3> QED BY <1>2, <3>1
  <2>2. \A v \in DOMAIN uploads : uploads[v].began \subseteq {w \in DOMAIN uploads' : Import!Done(w)'}
    BY <1>4, <1>6 DEF Progress
  <2>3. done \subseteq {w \in DOMAIN uploads' : Import!Done(w)'} /\ n \notin done
    BY <1>d, <1>4, <1>6
  <2> QED BY <1>2, <1>4, <1>6, <2>1, <2>2, <2>3 DEF Progress
<1>23. Origins'
  <2>1. \A r \in parties' \cup invoices' \cup payments' \cup products' : r.upload \in DOMAIN uploads' /\ Alive(r.upload)'
    BY <1>4, <1>5, <1>6 DEF Origins
  <2>2. \A i \in invoices' : i.party \in Import!Of(parties, Import!Sees(i.upload))'
    BY <1>5, <1>7, <1>8 DEF Origins
  <2>3. \A q \in payments' : \E i \in Import!Of(invoices, Import!Sees(q.upload))' : i.number = q.number
    BY <1>5, <1>7, <1>8 DEF Origins
  <2> QED BY <2>1, <2>2, <2>3 DEF Origins
<1>24. UniqueNumbers'
  BY <1>5 DEF UniqueNumbers
<1>25. Decided'
  BY <1>4, <1>6, <1>7 DEF Decided
<1>26. KeysOnFile'
  <2>1. \A k \in x.keys : \E q \in Import!Of(payments, Import!Sees(n))' : q.key = k
    BY <1>2, <1>5, <1>6, <1>k DEF Import!Of
  <2>2. ASSUME NEW v \in DOMAIN uploads', Alive(v)', NEW k \in uploads'[v].keys
        PROVE  \E q \in Import!Of(payments, Import!Sees(v))' : q.key = k
    <3>1. CASE v = n
      BY <1>4, <2>1, <2>2, <3>1
    <3>2. CASE v # n
      BY <1>4, <1>6, <1>7, <2>2, <3>2 DEF KeysOnFile
    <3> QED BY <3>1, <3>2
  <2> QED BY <2>2 DEF KeysOnFile
<1>27. CleanRowsOnFile'
  <2>1. \A k \in 1 .. x.row - 1 : FALSE
    BY <1>2
  <2> QED BY <1>4, <1>6, <1>7, <2>1 DEF CleanRowsOnFile
<1>28. TwinAddsNothing'
  <2> SUFFICES ASSUME NEW w \in DOMAIN uploads', NEW v \in DOMAIN uploads', Repeats(v, w)', Alive(v)'
               PROVE  /\ ~ Writing(v)'
                      /\ Import!Of(parties \cup invoices \cup payments, {v})' = {}
                      /\ uploads'[v].file.kind = "payments" =>
                           \A k \in DOMAIN uploads'[v].file.rows : uploads'[v].file.rows[k].key \in uploads'[v].keys
    BY DEF TwinAddsNothing
  <2>1. w \in DOMAIN uploads /\ Import!Done(w)
    BY <1>d, <1>2, <1>4 DEF Repeats, Progress
  <2>2. CASE v # n
    <3>1. v \in DOMAIN uploads
      BY <1>4, <2>2
    <3>2. Repeats(v, w) /\ Alive(v)
      BY <1>4, <1>6, <2>1, <3>1 DEF Repeats
    <3> QED BY <1>4, <1>5, <1>6, <2>1, <3>1, <3>2 DEF TwinAddsNothing, Import!Of
  <2>3. CASE v = n
    <3>1. Import!Of(parties \cup invoices \cup payments, {n})' = {}
      BY <1>4, <1>5, <1>8 DEF Import!Of
    <3>2. ASSUME f.kind = "payments", NEW k \in DOMAIN f.rows
          PROVE  f.rows[k].key \in x.keys
      <4>1. uploads[w].file = f /\ uploads[w].failed = 0 /\ Alive(w)
        BY <1>2, <1>4, <2>1, <2>3 DEF Repeats, Alive, Import!Done
      <4>2. k \in 1 .. uploads[w].row - 1
        <5>1. uploads[w].row \in Nat /\ Len(f.rows) < uploads[w].row /\ Len(f.rows) \in Nat
          BY <2>1, <4>1 DEF Progress, Typed, UploadRow, Import!FilesAssumption
        <5>2. k \in 1 .. Len(f.rows)
          BY DEF Import!FilesAssumption
        <5> QED BY <5>1, <5>2
      <4>3. f.rows[k].key \in uploads[w].keys
        BY <2>1, <3>2, <4>1, <4>2 DEF CleanRowsOnFile
      <4>4. PICK q \in Import!Of(payments, Import!Sees(w)) : q.key = f.rows[k].key
        BY <2>1, <4>1, <4>3 DEF KeysOnFile
      <4>5. q \in Import!Of(payments, done)
        BY <1>d, <2>1, <4>4 DEF Import!Of, Import!Sees
      <4>6. q.key # Import!NoKey
        <5>1. q.key \in Keys
          <6>1. uploads[w] \in UploadRow
            BY <2>1 DEF Typed
          <6>2. uploads[w].keys \subseteq Keys
            BY <6>1 DEF UploadRow
          <6> QED BY <4>3, <4>4, <6>2
        <5> QED BY <5>1, NoKeyIsNone
      <4> QED BY <1>2, <1>k, <3>2, <4>4, <4>5, <4>6
    <3> QED BY <1>2, <1>4, <1>6, <2>3, <3>1, <3>2
  <2> QED BY <2>2, <2>3
<1>29. KeysTell'
  BY <1>4, <1>5, <1>8 DEF KeysTell
<1>30. OneRegister'
  <2>1. Registering(n)' => f.kind = "payments"
    BY <1>2, <1>4 DEF Registering
  <2> QED BY <1>4, <1>5, <1>6, <2>1 DEF OneRegister
<1>31. PaidOnce'
  <2>1. \A m : Import!Settled(m, payments)' = Import!Settled(m, payments)
    BY <1>5 DEF Import!Settled
  <2>2. ASSUME ~ raced', Registering(n)', NEW q \in payments, q.key # Import!NoKey
        PROVE  q.key \in uploads'[n].keys
    <3>1. f.kind = "payments"
      BY <1>2, <1>4, <2>2 DEF Registering
    <3>2. q.upload \in DOMAIN uploads /\ Alive(q.upload) /\ uploads[q.upload].file.kind = "payments"
      BY <2>2 DEF Origins, KeysTell
    <3>3. ~ Registering(q.upload)
      BY <1>5, <2>2, <3>1, <3>2
    <3>4. q.upload \in done
      BY <1>d, <3>2, <3>3 DEF Alive, Registering, Import!Running, Import!Done
    <3> QED BY <1>2, <1>4, <1>k, <2>2, <3>1, <3>4 DEF Import!Of
  <2> QED BY <1>4, <1>5, <1>6, <2>1, <2>2 DEF PaidOnce, Import!NoMoneyTwice
<1>32. Import!FailedRowLeavesNothing'
  BY <1>4, <1>5, <1>8 DEF Import!FailedRowLeavesNothing
<1> QED BY <1>21, <1>22, <1>23, <1>24, <1>25, <1>26, <1>27, <1>28, <1>29, <1>30, <1>31, <1>32

-----------------------------------------------------------------------------
(* Each step is one of these. *)

(* A party that is found or new is a row of parties. *)
LEMMA PartyIsRow ==
  ASSUME Typed, NEW u \in DOMAIN uploads, NEW name \in PartyNames, NEW p, Import!Party(u, name, p)
  PROVE  p \in PartyRow /\ (p.upload = u \/ p \in Import!Of(parties, Import!Sees(u)))
<1>1. CASE Import!PartiesNamed(u, name) # {}
  BY <1>1 DEF Import!Party, Import!PartiesNamed, Import!Of, Typed
<1>2. CASE Import!PartiesNamed(u, name) = {}
  <2>1. p = [name |-> name, upload |-> u] /\ u \in Nat
    BY <1>2 DEF Import!Party, Typed
  <2> QED BY <2>1 DEF PartyRow
<1> QED BY <1>1, <1>2

(* What a row names. *)
LEMMA RowNames ==
  ASSUME Import!FilesAssumption, IInv, NEW u \in DOMAIN uploads, NEW kind \in {"invoices", "payments"},
         Import!HasRow(u, kind)
  PROVE  Import!Row(u).party \in PartyNames /\ (kind = "invoices" => Import!Row(u).number \in Nat)
<1>1. /\ uploads[u].file \in Files /\ uploads[u].file.kind = kind /\ Import!Row(u) # unreadable
      /\ uploads[u].row \in DOMAIN uploads[u].file.rows
  <2>1. uploads[u] \in UploadRow
    BY DEF IInv, Typed
  <2>2. uploads[u].file \in Files /\ uploads[u].row \in Nat
    BY <2>1 DEF UploadRow
  <2>3. uploads[u].row \in 1 .. Len(uploads[u].file.rows) + 1
    BY DEF IInv, Progress
  <2> QED BY <2>2, <2>3 DEF Import!HasRow, Import!FilesAssumption
<1>2. Import!Row(u) \in RowsOf(kind)
  <2>1. PICK f : f = uploads[u].file
    OBVIOUS
  <2>2. {f.rows[k] : k \in DOMAIN f.rows}
          \in {{g.rows[k] : k \in DOMAIN g.rows} : g \in {h \in Files : h.kind = kind}}
    BY <1>1, <2>1, Zenon
  <2>3. Import!Row(u) \in {f.rows[k] : k \in DOMAIN f.rows}
    BY <1>1, <2>1 DEF Import!Row
  <2>4. Import!Row(u) \in UNION {{g.rows[k] : k \in DOMAIN g.rows} : g \in {h \in Files : h.kind = kind}}
    BY <2>2, <2>3, Zenon
  <2> QED BY <1>1, <2>4 DEF RowsOf
<1> QED BY <1>1, <1>2 DEF PartyNames, Import!FilesAssumption, Import!Row

(* A row of invoices fails, is found on file, or is decided. *)
LEMMA ReadInvoiceKeeps ==
  ASSUME Import!FilesAssumption, IInv, NEW u \in DOMAIN uploads, Import!ReadInvoice(u)
  PROVE  IInv'
<1>1. PICK p : /\ Import!Party(u, Import!Row(u).party, p)
               /\ LET same == {i \in Import!Of(invoices, Import!Sees(u)) : i.number = Import!Row(u).number}
                  IN \/ Import!Failure(u)
                     \/ Import!Skipped(u) /\ same # {}
                     \/ Import!Consistent(Import!Row(u)) /\ same = {} /\ Decision(u, Import!Row(u).number, p)
  BY DEF Import!ReadInvoice, Decision
<1>2. Import!HasRow(u, "invoices") /\ uploads[u].stage = "read"
         /\ UNCHANGED <<parties, invoices, payments, products, raced>>
  BY DEF Import!ReadInvoice
<1>3. /\ p \in PartyRow /\ (p.upload = u \/ p \in Import!Of(parties, Import!Sees(u)))
      /\ Import!Row(u).number \in Nat
  BY <1>1, <1>2, RowNames, PartyIsRow DEF IInv
<1>4. CASE Import!Failure(u)
  <2>1. Handled(u, 1)
    BY <1>2, <1>4 DEF Handled, Import!HasRow, Import!Failure
  <2> QED BY <2>1, HandledKeeps
<1>5. CASE Import!Skipped(u) /\ \E i \in Import!Of(invoices, Import!Sees(u)) : i.number = Import!Row(u).number
  <2>1. Handled(u, 0)
    BY <1>2, <1>5 DEF Handled, Import!HasRow, Import!Skipped
  <2> QED BY <2>1, HandledKeeps
<1>6. CASE /\ Import!Consistent(Import!Row(u)) /\ Decision(u, Import!Row(u).number, p)
           /\ \A i \in Import!Of(invoices, Import!Sees(u)) : i.number # Import!Row(u).number
  <2>1. Decides(u, Import!Row(u).number, p)
    BY <1>2, <1>3, <1>6 DEF Decides, Import!HasRow
  <2> QED BY <1>3, <2>1, DecidesKeeps
<1> QED BY <1>1, <1>4, <1>5, <1>6

(* It is written unless another upload was first. *)
LEMMA WriteInvoiceKeeps ==
  ASSUME Import!FilesAssumption, IInv, NEW u \in DOMAIN uploads, Import!WriteInvoice(u)
  PROVE  IInv'
<1>1. Import!HasRow(u, "invoices") /\ uploads[u].stage = "write" /\ UNCHANGED <<products, raced>>
  BY DEF Import!WriteInvoice, Import!CanWrite
<1>2. CASE \E i \in invoices : i.number = Import!Row(u).number
  <2>1. Handled(u, 1)
    BY <1>1, <1>2 DEF Handled, Import!HasRow, Import!Failure, Import!WriteInvoice
  <2> QED BY <2>1, HandledKeeps
<1>3. CASE \A i \in invoices : i.number # Import!Row(u).number
  <2>1. Writes(u)
    BY <1>1, <1>3 DEF Writes, Writing, Import!HasRow, Import!Success, Import!WriteInvoice
  <2> QED BY <2>1, WritesKeeps
<1> QED BY <1>2, <1>3

(* The oldest of some invoices is one of them. *)
LEMMA OldestIsOne ==
  ASSUME NEW S, S # {}, \A i \in S : i.number \in Nat
  PROVE  Import!Oldest(S) \in S
<1> DEFINE N == {i.number : i \in S}
<1>1. PICK m \in N : \A k \in N : m <= k
  <2>1. N \subseteq Nat /\ N # {}
    OBVIOUS
  <2> HIDE DEF N
  <2> QED BY <2>1, SmallestNumber
<1>2. PICK i \in S : i.number = m
  OBVIOUS
<1>3. \A j \in S : i.number <= j.number
  BY <1>1, <1>2
<1> QED BY <1>3 DEF Import!Oldest

(* A receipt is known, finds no invoice, or is decided. *)
LEMMA ReadPaymentKeeps ==
  ASSUME Import!FilesAssumption, IInv, NEW u \in DOMAIN uploads, Import!ReadPayment(u)
  PROVE  IInv'
<1>1. /\ Import!HasRow(u, "payments") /\ uploads[u].stage = "read" /\ UNCHANGED <<invoices, payments, products, raced>>
      /\ Import!Row(u).party \in PartyNames
  BY RowNames DEF Import!ReadPayment
<1>2. CASE Import!Row(u).key \in uploads[u].keys
  <2>1. Handled(u, 0)
    BY <1>1, <1>2 DEF Handled, Import!HasRow, Import!Skipped, Import!ReadPayment
  <2> QED BY <2>1, HandledKeeps
<1>3. CASE Import!Row(u).key \notin uploads[u].keys
  <2>1. PICK p : /\ Import!Party(u, Import!Row(u).party, p) /\ parties' = parties \cup {p}
                 /\ \/ Import!Failure(u)
                    \/ Import!Open(u, p) # {} /\ Decision(u, Import!Oldest(Import!Open(u, p)).number, p)
    <3>1. PICK p \in Import!PartiesNamed(u, Import!Row(u).party) \cup {[name |-> Import!Row(u).party, upload |-> u]} :
             /\ Import!Party(u, Import!Row(u).party, p) /\ parties' = parties \cup {p}
             /\ Import!Open(u, p) = {} => Import!Failure(u)
             /\ Import!Open(u, p) # {} => uploads' = [uploads EXCEPT ![u].stage = "write", ![u].party = p,
                                                             ![u].target = Import!Oldest(Import!Open(u, p)).number]
      BY <1>3 DEF Import!ReadPayment
    <3>2. Import!Open(u, p) # {} => Decision(u, Import!Oldest(Import!Open(u, p)).number, p)
      BY <3>1 DEF Decision
    <3> QED BY <3>1, <3>2
  <2>2. p \in PartyRow /\ (p.upload = u \/ p \in Import!Of(parties, Import!Sees(u)))
    BY <1>1, <2>1, PartyIsRow DEF IInv
  <2>3. CASE Import!Failure(u)
    <3>1. Handled(u, 1)
      BY <1>1, <1>3, <2>1, <2>2, <2>3 DEF Handled, Import!HasRow, Import!Failure, Import!Of
    <3> QED BY <3>1, HandledKeeps
  <2>4. CASE Import!Open(u, p) # {} /\ Decision(u, Import!Oldest(Import!Open(u, p)).number, p)
    <3>1. \A i \in Import!Open(u, p) : i.number \in Nat
      BY DEF Import!Open, Import!Of, IInv, Typed, InvoiceRow
    <3>2. PICK i \in Import!Open(u, p) : i = Import!Oldest(Import!Open(u, p))
      BY <2>4, <3>1, OldestIsOne
    <3>3. /\ i \in Import!Of(invoices, Import!Sees(u))
             /\ Import!Settled(i.number, Import!Of(payments, Import!Sees(u))) < i.total
          /\ i.number \in Nat
      BY <3>1, <3>2 DEF Import!Open
    <3>4. Decides(u, i.number, p)
      BY <1>1, <1>3, <2>1, <2>2, <2>4, <3>2, <3>3 DEF Decides, Import!HasRow
    <3> QED BY <2>2, <3>3, <3>4, DecidesKeeps
  <2> QED BY <2>1, <2>3, <2>4
<1> QED BY <1>2, <1>3

(* A row of stock, a row that cannot be read, and a row the database fails *)
(* to break a deadlock.                                                    *)
LEMMA OtherRowsKeep ==
  ASSUME Import!FilesAssumption, IInv, NEW u \in DOMAIN uploads,
         Import!ProductRow(u) \/ Import!BadRow(u) \/ Import!Deadlock(u)
  PROVE  IInv'
<1>1. CASE Import!ProductRow(u)
  <2>1. Handled(u, 0)
    BY <1>1 DEF Handled, Import!HasRow, Import!Success, Import!ProductRow
  <2> QED BY <2>1, HandledKeeps
<1>2. CASE Import!BadRow(u)
  <2>1. Handled(u, 1)
    BY <1>2 DEF Handled, Import!Failure, Import!BadRow
  <2> QED BY <2>1, HandledKeeps
<1>3. CASE Import!Deadlock(u)
  <2>1. Writing(u)
    BY <1>3 DEF Import!Deadlock, Import!WaitsFor, Writing
  <2>2. uploads[u].row <= Len(uploads[u].file.rows)
    BY <2>1 DEF IInv, Progress
  <2>3. Handled(u, 1)
    BY <1>3, <2>2 DEF Handled, Import!Failure, Import!Deadlock
  <2> QED BY <2>3, HandledKeeps
<1> QED BY <1>1, <1>2, <1>3

(* So every step keeps the invariant. *)
LEMMA ImportsStep ==
  ASSUME Import!FilesAssumption, IInv, [Import!Next]_(Import!vars)
  PROVE  IInv'
<1>1. CASE \E f \in Files : Import!Upload(f) \/ Import!Refuse(f)
  BY <1>1, OpensKeeps
<1>2. ASSUME NEW u \in DOMAIN uploads, Import!RowStep(u) \/ Import!Crash(u)
      PROVE  IInv'
  BY <1>2, ReadInvoiceKeeps, WriteInvoiceKeeps, ReadPaymentKeeps, WritePaymentKeeps, OtherRowsKeep,
     CommitKeeps, CrashKeeps DEF Import!RowStep
<1>3. CASE UNCHANGED Import!vars
  <2> USE <1>3 DEF Import!vars, IInv
  <2>1. Typed' /\ Progress' /\ Origins' /\ UniqueNumbers'
    BY DEF Typed, Progress, Origins, UniqueNumbers, Import!Of, Import!Sees, Import!Done, Import!Running, Alive,
           Writing, Import!Row
  <2>2. Decided' /\ KeysOnFile' /\ CleanRowsOnFile' /\ KeysTell'
    BY DEF Decided, KeysOnFile, CleanRowsOnFile, KeysTell, Import!Of, Import!Sees, Import!Done, Import!Running,
           Alive, Writing, Import!Row
  <2>3. TwinAddsNothing' /\ OneRegister' /\ Import!FailedRowLeavesNothing'
    BY DEF TwinAddsNothing, Repeats, OneRegister, Import!FailedRowLeavesNothing, Registering, Import!Of,
           Import!Running, Alive, Writing
  <2>4. PaidOnce'
    BY DEF PaidOnce, Import!NoMoneyTwice, Registering, Import!Running, Writing, Import!Settled
  <2> QED BY <2>1, <2>2, <2>3, <2>4
<1> QED BY <1>1, <1>2, <1>3 DEF Import!Next

(* It holds of nothing on file. *)
LEMMA ImportsInit == Import!Init => IInv
<1> SUFFICES ASSUME Import!Init PROVE IInv
  OBVIOUS
<1> USE DEF Import!Init
<1>1. Typed
  <2>1. <<>> \in Seq(UploadRow)
    OBVIOUS
  <2> QED BY <2>1, FS_EmptySet DEF Typed
<1>2. DOMAIN uploads = {}
  OBVIOUS
<1>3. Import!NoMoneyTwice /\ PaidOnce
  BY <1>2 DEF Import!NoMoneyTwice, PaidOnce
<1> QED BY <1>1, <1>2, <1>3 DEF IInv, Progress, Origins, UniqueNumbers, Decided, KeysOnFile, CleanRowsOnFile,
           TwinAddsNothing, KeysTell, OneRegister, Import!FailedRowLeavesNothing

(* A step of the whole is a step of each side, or a stutter of it. *)
LEMMA EachSideMoves ==
  ASSUME [FounderNext]_allVars
  PROVE  [Next]_vars /\ [Import!Next]_(Import!vars) /\ part' = part
<1>1. CASE UNCHANGED allVars
  BY <1>1 DEF allVars, vars, files, Import!vars
<1>2. CASE FounderNext
  BY <1>2 DEF FounderNext, vars, files, Import!vars
<1> QED BY <1>1, <1>2

(* The invariant holds of every behaviour, whatever uploads overlap, fail  *)
(* or die (importer/engine).                                               *)
THEOREM ImportsAreSound == FounderSpec => []IInv
<1>1. FounderInit => IInv
  BY ImportsInit DEF FounderInit
<1>2. IInv /\ [FounderNext]_allVars => IInv'
  BY FilesAreFiles, EachSideMoves, ImportsStep
<1> QED BY <1>1, <1>2, PTL DEF FounderSpec

(* What is sound has the types. *)
LEMMA SoundIsTyped ==
  ASSUME Import!FilesAssumption PROVE IInv => Import!TypeOK
<1>1. IInv => Import!TypeOK
  <2> SUFFICES ASSUME IInv PROVE Import!TypeOK
    OBVIOUS
  <2>1. ASSUME NEW u \in DOMAIN uploads
        PROVE  /\ uploads[u].state \in {"running", "done", "lost", "refused"}
               /\ uploads[u].stage \in {"read", "write"}
               /\ uploads[u].row \in 1..Len(uploads[u].file.rows) + 1
               /\ uploads[u].failed \in 0..Len(uploads[u].file.rows)
    <3>1. uploads[u] \in UploadRow
      BY DEF IInv, Typed
    <3>2. uploads[u].row \in 1..Len(uploads[u].file.rows) + 1 /\ uploads[u].failed < uploads[u].row
      BY DEF IInv, Progress
    <3>3. Len(uploads[u].file.rows) \in Nat
      BY <3>1 DEF UploadRow, Import!FilesAssumption
    <3>4. uploads[u].failed \in Nat /\ uploads[u].row \in Nat
      BY <3>1 DEF UploadRow
    <3> QED BY <3>1, <3>2, <3>3, <3>4 DEF UploadRow
  <2> QED BY <2>1 DEF IInv, Typed, Origins, Alive, Import!TypeOK
<1> QED BY <1>1

(* The types of the conversation and of the imports, and where every row   *)
(* of a file comes from.                                                   *)
THEOREM FounderTypes == FounderSpec => []AllTypesOK
<1>1. FounderInit => Inv /\ part \in {"messages", "files"}
  BY InvInit DEF FounderInit
<1>2. Inv /\ part \in {"messages", "files"} /\ [FounderNext]_allVars
        => Inv' /\ (part \in {"messages", "files"})'
  BY EachSideMoves, InvStep
<1>3. Inv => TypeOK
  BY DEF Inv, RowInv, RowsInv, TypeOK
<1>4. IInv /\ Inv /\ part \in {"messages", "files"} => AllTypesOK
  BY <1>3, SoundIsTyped, FilesAreFiles DEF AllTypesOK
<1> QED BY <1>1, <1>2, <1>4, ImportsAreSound, PTL DEF FounderSpec

(* The re-upload guarantee of importer/engine: once a file is through      *)
(* without a failed row, whoever starts with it later adds no party, no    *)
(* invoice and no payment.                                                 *)
THEOREM ReuploadsAddNothing == FounderSpec => []ReuploadAddsNothing
<1>1. IInv => ReuploadAddsNothing
  <2> SUFFICES ASSUME IInv, NEW u \in DOMAIN uploads, NEW v \in DOMAIN uploads,
                      u \in uploads[v].began, uploads[v].file = uploads[u].file,
                      uploads[u].failed = 0, uploads[u].file.kind # "products"
               PROVE  Import!Of(parties \cup invoices \cup payments, {v}) = {}
    BY DEF ReuploadAddsNothing, Import!ReuploadAddsNothing
  <2>1. CASE ~ Alive(v)
    BY <2>1 DEF IInv, Origins, Import!Of
  <2>2. CASE Alive(v)
    <3>1. uploads[v].file \in Files /\ uploads[v].file.kind # "unrecognised"
      <4>1. uploads[v] \in UploadRow
        BY DEF IInv, Typed
      <4>2. uploads[v].file.kind = "unrecognised" => uploads[v].state = "refused"
        BY DEF IInv, Progress
      <4> QED BY <2>2, <4>1, <4>2 DEF UploadRow, Alive
    <3>2. Repeats(v, u)
      BY <3>1, FilesAreFiles DEF Repeats, Import!FilesAssumption
    <3> QED BY <2>2, <3>2 DEF IInv, TwinAddsNothing
  <2> QED BY <2>1, <2>2
<1> QED BY <1>1, ImportsAreSound, PTL

(* Without two registers at once no invoice is overpaid and no receipt is  *)
(* entered twice; and a row that failed left nothing, whatever ran beside  *)
(* (importer/payment_row, the savepoints of importer/engine).              *)
THEOREM RowsOnceAndWhole == FounderSpec => []EveryRowOnceAndWhole
<1>1. IInv => EveryRowOnceAndWhole
  BY DEF IInv, PaidOnce, Import!NoMoneyTwice, Import!EveryRowOnceAndWhole, EveryRowOnceAndWhole
<1> QED BY <1>1, ImportsAreSound, PTL

(* And whatever files come in beside it, the conversation is a run of      *)
(* Conversation: its parts fit together, and a message does what the       *)
(* action properties of Conversation say (webhooks/whatsapp).              *)
THEOREM ConversationGoesOn ==
  FounderSpec => /\ []ConversationHangsTogether
                 /\ BillsGoInTurn /\ OneAnswerOneQuestion /\ SwitchNeedsConsent
<1>1. FounderInit => Init
  BY DEF FounderInit
<1>2. [FounderNext]_allVars => [Next]_vars
  BY EachSideMoves
<1>3. FounderSpec => Spec
  BY <1>1, <1>2, PTL DEF FounderSpec, Spec
<1> QED BY <1>3, StateCorrect, BillsCorrect, FollowUpsCorrect, SwitchesCorrect, PTL

=============================================================================
