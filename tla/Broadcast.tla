----------------------------- MODULE Broadcast ------------------------------
(***************************************************************************)
(* One marketing broadcast (services/writes/broadcast.py): the confirming  *)
(* "yes" runs the send loop inside its webhook request, committing a log   *)
(* row after every recipient.  The request may die anywhere; the pending   *)
(* operation is then still there and a redelivered or repeated "yes" runs  *)
(* the same batch again, perhaps while the first run is still sending.     *)
(***************************************************************************)
EXTENDS Naturals, FiniteSets

CONSTANTS Dealers,     \* the dealers of the segment
          Runs,        \* webhook requests that execute the operation
          MaxRecipients, \* settings.max_broadcast_recipients
          MaxStarts    \* bound: executions of the operation

VARIABLES pending,  \* the pending operation exists
          consent,  \* dealers with marketing_opt_in
          logged,   \* [dealer -> status of its committed log row of this batch]
          got,      \* history: messages that reached each dealer
          runs,     \* the executions
          starts,
          doubtful  \* history: dealers whose send lost its row, or whom two runs had to do

vars == <<pending, consent, logged, got, runs, starts, doubtful>>

(* todo: recipients left, in whatever order the rows came; to and row: the *)
(* send whose row is not committed yet, and its outcome.                   *)
Idle == [todo |-> {}, to |-> "nobody", row |-> "none", at |-> "idle"]

Init == /\ pending = TRUE
        /\ consent = {}
        /\ logged = [d \in Dealers |-> "none"]
        /\ got = [d \in Dealers |-> 0]
        /\ runs = [r \in Runs |-> Idle]
        /\ starts = 0
        /\ doubtful = {}

Logged == {d \in Dealers : logged[d] # "none"}

(* The first MaxRecipients of the rows, which the query does not order.    *)
Capped(S) == {T \in SUBSET S : Cardinality(T) = IF Cardinality(S) < MaxRecipients
                                                THEN Cardinality(S) ELSE MaxRecipients}

(* A mutant of Recipients: the resume marker is not looked at. *)
RecipientsAfresh == Capped(consent)

(* Opted-in dealers of the segment up to the cap, without those the batch  *)
(* already has a row for.                                                  *)
Recipients == {T \ Logged : T \in Capped(consent)}

Start(r) == /\ pending
            /\ runs[r].at = "idle"
            /\ starts < MaxStarts
            /\ starts' = starts + 1
            /\ \E todo \in Recipients :
                  runs' = [runs EXCEPT ![r] = [Idle EXCEPT !.at = "sending", !.todo = todo]]
            /\ doubtful' = doubtful \cup UNION {runs[q].todo : q \in Runs}
            /\ UNCHANGED <<pending, consent, logged, got>>

(* The send, free-form or template: it arrives or fails; a send that fails *)
(* for lack of an answer may have arrived.                                 *)
Send(r, d, status, arrives) ==
  /\ runs[r].at = "sending"
  /\ runs[r].row = "none"
  /\ d \in runs[r].todo
  /\ status = "sent" => arrives
  /\ got' = [got EXCEPT ![d] = @ + (IF arrives THEN 1 ELSE 0)]
  /\ runs' = [runs EXCEPT ![r].row = status, ![r].to = d]
  /\ UNCHANGED <<pending, consent, logged, starts, doubtful>>

CommitRow(r) == /\ runs[r].row # "none"
                /\ logged' = [logged EXCEPT ![runs[r].to] = runs[r].row]
                /\ runs' = [runs EXCEPT ![r].row = "none", ![r].to = "nobody",
                                        ![r].todo = @ \ {runs[r].to}]
                /\ UNCHANGED <<pending, consent, got, starts, doubtful>>

(* The operation is deleted with the request's last commit.                *)
Finish(r) == /\ runs[r].at = "sending"
             /\ runs[r].todo = {}
             /\ runs' = [runs EXCEPT ![r] = Idle]
             /\ pending' = FALSE
             /\ UNCHANGED <<consent, logged, got, starts, doubtful>>

Crash(r) == /\ runs[r].at = "sending"
            /\ runs' = [runs EXCEPT ![r] = Idle]
            /\ doubtful' = IF runs[r].row # "none" THEN doubtful \cup {runs[r].to} ELSE doubtful
            /\ UNCHANGED <<pending, consent, logged, got, starts>>

(* A dealer opts in (the founder's bulk opt-in) or out. *)
ConsentChanges(d) == /\ consent' = IF d \in consent THEN consent \ {d} ELSE consent \cup {d}
                     /\ UNCHANGED <<pending, logged, got, runs, starts, doubtful>>

Next == \/ \E r \in Runs : \/ Start(r) \/ CommitRow(r) \/ Finish(r) \/ Crash(r)
                           \/ \E d \in Dealers, status \in {"sent", "failed_to_send"}, arrives \in BOOLEAN :
                                 Send(r, d, status, arrives)
        \/ \E d \in Dealers : ConsentChanges(d)

Spec == Init /\ [][Next]_vars

-----------------------------------------------------------------------------
(* Types of the variables. *)
TypeOK == /\ pending \in BOOLEAN /\ consent \subseteq Dealers
          /\ logged \in [Dealers -> {"none", "sent", "failed_to_send"}]
          /\ got \in [Dealers -> Nat]
          /\ runs \in [Runs -> [todo : SUBSET Dealers, to : Dealers \cup {"nobody"},
                              row : {"none", "sent", "failed_to_send"}, at : {"idle", "sending"}]]
          /\ starts \in 0..MaxStarts

(* A resumed batch does not message the dealer network again: a dealer is  *)
(* messaged twice only if the process died between his send and its row,   *)
(* or two runs were sending to him at once.                                *)
ResumedNotRepeated == \A d \in Dealers \ doubtful : got[d] <= 1

=============================================================================
