--------------------------- MODULE WebhookDelivery ---------------------------
(***************************************************************************)
(* receive_whatsapp_webhook: what becomes of an inbound message that Meta  *)
(* delivers at least once.                                                 *)
(*                                                                         *)
(* Meta posts a batch of messages and posts it again until it has a 200,   *)
(* also while an earlier post is still being worked on.  Each post is a    *)
(* call with a database session of its own; for one message after another  *)
(* it takes the message's advisory lock on a second connection, looks up   *)
(* what earlier calls committed, claims the message, carries it out, sends *)
(* the reply, and gives the lock back.  One commit at the end of the call, *)
(* and the commit of each claim, make the work and the reply markers of    *)
(* the messages before it durable.                                         *)
(*                                                                         *)
(* What a message does to the company is abstract: a run of it either      *)
(* writes the company's row or not, and done counts its committed runs.    *)
(***************************************************************************)
EXTENDS Naturals, Sequences

CONSTANTS
    Messages,   \* inbound messages, one WhatsApp message id each
    Known,      \* the messages whose sender is a founder or an opted-in dealer
    Batches,    \* the posts of Meta: sequences of messages
    Calls,      \* bound: posts being worked on at once
    None,       \* no holder
    MaxFaults   \* bound: crashes, dropped connections, failed sends, late 200s and
                \*   subscription changes together

ASSUME BatchAssumption ==
    /\ Known \subseteq Messages
    /\ Batches \subseteq Seq(Messages) \ {<<>>}
    /\ None \notin Calls
    /\ MaxFaults \in Nat

VARIABLES
    claims,     \* messages with a committed whatsapp_message_received event
    markers,    \* messages with a committed whatsapp_reply_sent event
    done,       \* message -> committed runs of its handler
    sent,       \* message -> replies that reached the sender
    lock,       \* message -> the call holding its advisory lock
    row,        \* the call holding the lock of the company's row
    calls,      \* call -> what it is doing
    accepted,   \* batches Meta has a 200 for
    excused,    \* messages a call gave up on: see the actions that add to it
    active,     \* Company.subscription_active
    faults      \* how many of those MaxFaults bounds there were

vars == <<claims, markers, done, sent, lock, row, calls, accepted, excused,
          active, faults>>

\* work, replied, wrote: what the call's session holds and has not committed.
Stages == {"locking", "looking", "claiming", "answering", "recording",
           "unlocking", "committing"}

Ended == [stage |-> "ended", batch |-> <<>>, at |-> 0,
          work |-> {}, replied |-> {}, wrote |-> FALSE]

Call == [stage : Stages \cup {"ended"}, batch : Batches \cup {<<>>}, at : Nat,
         work : SUBSET Messages, replied : SUBSET Messages, wrote : BOOLEAN]

\* A call is Ended or at a message of its batch, and what it replied to it ran.
IsCall(c) ==
    /\ c \in Call
    /\ c.stage = "ended" => c = Ended
    /\ c.stage \in Stages => c.batch \in Batches /\ c.at \in 1 .. Len(c.batch)
    /\ c.replied \subseteq c.work

\* Where every value lies; only a marker of a claimed message is committed, and
\* only a call that has written the company's row holds its lock.
TypeOK ==
    /\ claims \subseteq Known /\ markers \subseteq claims
    /\ done \in [Messages -> Nat] /\ sent \in [Messages -> Nat]
    /\ lock \in [Messages -> Calls \cup {None}] /\ row \in Calls \cup {None}
    /\ calls \in [Calls -> Call] /\ \A d \in Calls : IsCall(calls[d])
    /\ row # None => calls[row].wrote
    /\ accepted \subseteq Batches /\ excused \subseteq Messages
    /\ active \in BOOLEAN /\ faults \in 0 .. MaxFaults

Init ==
    /\ claims = {} /\ markers = {} /\ accepted = {} /\ excused = {}
    /\ done = [m \in Messages |-> 0] /\ sent = [m \in Messages |-> 0]
    /\ lock = [m \in Messages |-> None] /\ row = None
    /\ calls = [d \in Calls |-> Ended]
    /\ active \in BOOLEAN
    /\ faults = 0

----------------------------------------------------------------------------
\* The message a call is at, and what a call's session does.

Current(d) == calls[d].batch[calls[d].at]

GoTo(d, stage) == calls' = [calls EXCEPT ![d].stage = stage]

Free(holder, d) == IF holder = d THEN None ELSE holder

\* The call's session with nothing left in its transaction.
Clean(call, stage) == [call EXCEPT !.work = {}, !.replied = {}, !.wrote = FALSE,
                                   !.stage = stage]

\* db.commit(): all the session holds becomes durable at once.
Commit(d) ==
    /\ markers' = markers \cup calls[d].replied
    /\ done' = [m \in Messages |-> IF m \in calls[d].work THEN done[m] + 1 ELSE done[m]]
    /\ row' = Free(row, d)

Fault == faults < MaxFaults /\ faults' = faults + 1

----------------------------------------------------------------------------
\* Meta posts a batch it has no 200 for.
Deliver(d, b) ==
    /\ calls[d] = Ended /\ b \notin accepted
    /\ calls' = [calls EXCEPT ![d] = [Ended EXCEPT !.stage = "locking", !.batch = b, !.at = 1]]
    /\ UNCHANGED <<claims, markers, done, sent, lock, row, accepted, excused, active, faults>>

\* pg_advisory_lock(hashtext(message_id)) waits until the lock is free.
Lock(d) ==
    /\ calls[d].stage = "locking" /\ lock[Current(d)] = None
    /\ lock' = [lock EXCEPT ![Current(d)] = d]
    /\ GoTo(d, "looking")
    /\ UNCHANGED <<claims, markers, done, sent, row, accepted, excused, active, faults>>

\* Mutants of LookUp: a claim alone counts as handled; a marker is not looked for.
LookUpSkipsClaimed(d) ==
    /\ calls[d].stage = "looking"
    /\ GoTo(d, IF Current(d) \notin Known \/ Current(d) \in claims THEN "unlocking"
               ELSE "claiming")
    /\ UNCHANGED <<claims, markers, done, sent, lock, row, accepted, excused, active, faults>>

LookUpIgnoresMarkers(d) ==
    /\ calls[d].stage = "looking"
    /\ GoTo(d, IF Current(d) \notin Known THEN "unlocking"
               ELSE IF Current(d) \notin claims THEN "claiming" ELSE "answering")
    /\ UNCHANGED <<claims, markers, done, sent, lock, row, accepted, excused, active, faults>>

\* _find_company_by_whatsapp_number, find_dealer_company, _find_inbound_event
\* and _reply_already_sent, which see what is committed and the session's own.
LookUp(d) ==
    /\ calls[d].stage = "looking"
    /\ GoTo(d, IF Current(d) \notin Known THEN "unlocking"
               ELSE IF Current(d) \notin claims THEN "claiming"
               ELSE IF Current(d) \in markers \cup calls[d].replied THEN "unlocking"
               ELSE "answering")
    /\ UNCHANGED <<claims, markers, done, sent, lock, row, accepted, excused, active, faults>>

\* Mutant of Claim: the lock is on the session's own connection, which the
\* commit gives back to the pool.
ClaimDropsLock(d) ==
    /\ calls[d].stage = "claiming" /\ Current(d) \notin claims
    /\ claims' = claims \cup {Current(d)}
    /\ Commit(d)
    /\ lock' = [lock EXCEPT ![Current(d)] = None]
    /\ calls' = [calls EXCEPT ![d] = Clean(@, "answering")]
    /\ UNCHANGED <<sent, accepted, excused, active, faults>>

\* The inbound event is inserted and committed.  The insert waits for another
\* session's uncommitted one, so insert and commit are one step.
Claim(d) ==
    /\ calls[d].stage = "claiming" /\ Current(d) \notin claims
    /\ claims' = claims \cup {Current(d)}
    /\ Commit(d)
    /\ calls' = [calls EXCEPT ![d] = Clean(@, "answering")]
    /\ UNCHANGED <<sent, lock, accepted, excused, active, faults>>

\* IntegrityError: the session is rolled back, with the uncommitted work of the
\* batch's earlier messages, and the message is left to the winner.
LoseRace(d) ==
    /\ calls[d].stage = "claiming" /\ Current(d) \in claims
    /\ excused' = excused \cup {Current(d)} \cup calls[d].work
    /\ row' = Free(row, d)
    /\ calls' = [calls EXCEPT ![d] = Clean(@, "unlocking")]
    /\ UNCHANGED <<claims, markers, done, sent, lock, accepted, active, faults>>

\* Without a subscription the message is on record and gets no reply.
PassOver(d) ==
    /\ calls[d].stage = "answering" /\ ~active
    /\ excused' = excused \cup {Current(d)}
    /\ GoTo(d, "unlocking")
    /\ UNCHANGED <<claims, markers, done, sent, lock, row, accepted, active, faults>>

\* Mutant of Answer: the marker is written in a session of its own.
AnswerCommitsMarker(d, writes) ==
    /\ calls[d].stage = "answering" /\ active
    /\ sent' = [sent EXCEPT ![Current(d)] = @ + 1]
    /\ markers' = markers \cup {Current(d)}
    /\ calls' = [calls EXCEPT ![d].stage = "recording",
                              ![d].work = @ \cup {Current(d)},
                              ![d].wrote = @ \/ writes]
    /\ UNCHANGED <<claims, done, lock, row, accepted, excused, active, faults>>

\* The handler runs, then _send_reply_and_log sends: a reply that WhatsApp took
\* gets its marker, a failed one only a failed_to_send log.
Answer(d, writes) ==
    /\ calls[d].stage = "answering" /\ active
    /\ sent' = [sent EXCEPT ![Current(d)] = @ + 1]
    /\ calls' = [calls EXCEPT ![d].stage = "recording",
                              ![d].work = @ \cup {Current(d)},
                              ![d].replied = @ \cup {Current(d)},
                              ![d].wrote = @ \/ writes]
    /\ UNCHANGED <<claims, markers, done, lock, row, accepted, excused, active, faults>>

\* Mutant of AnswerUnsent: the marker is written whether the send worked or not.
AnswerUnsentMarked(d, writes) ==
    /\ calls[d].stage = "answering" /\ active
    /\ Fault
    /\ excused' = excused \cup {Current(d)}
    /\ calls' = [calls EXCEPT ![d].stage = "recording",
                              ![d].work = @ \cup {Current(d)},
                              ![d].replied = @ \cup {Current(d)},
                              ![d].wrote = @ \/ writes]
    /\ UNCHANGED <<claims, markers, done, sent, lock, row, accepted, active>>

AnswerUnsent(d, writes) ==
    /\ calls[d].stage = "answering" /\ active
    /\ Fault
    /\ excused' = excused \cup {Current(d)}
    /\ calls' = [calls EXCEPT ![d].stage = "recording",
                              ![d].work = @ \cup {Current(d)},
                              ![d].wrote = @ \/ writes]
    /\ UNCHANGED <<claims, markers, done, sent, lock, row, accepted, active>>

\* db.flush() of the reply's log also writes the company: the UPDATE waits for
\* the row while another session has written it and not committed.
Record(d) ==
    /\ calls[d].stage = "recording"
    /\ calls[d].wrote => row \in {None, d}
    /\ row' = IF calls[d].wrote THEN d ELSE row
    /\ GoTo(d, "unlocking")
    /\ UNCHANGED <<claims, markers, done, sent, lock, accepted, excused, active, faults>>

\* Mutant of Unlock: one message too far.
UnlockTooFar(d) ==
    /\ calls[d].stage = "unlocking" /\ lock[Current(d)] = d
    /\ lock' = [lock EXCEPT ![Current(d)] = None]
    /\ IF calls[d].at <= Len(calls[d].batch)
       THEN calls' = [calls EXCEPT ![d].stage = "locking", ![d].at = @ + 1]
       ELSE GoTo(d, "committing")
    /\ UNCHANGED <<claims, markers, done, sent, row, accepted, excused, active, faults>>

\* finally: pg_advisory_unlock, then the batch's next message.
Unlock(d) ==
    /\ calls[d].stage = "unlocking" /\ lock[Current(d)] = d
    /\ lock' = [lock EXCEPT ![Current(d)] = None]
    /\ IF calls[d].at < Len(calls[d].batch)
       THEN calls' = [calls EXCEPT ![d].stage = "locking", ![d].at = @ + 1]
       ELSE GoTo(d, "committing")
    /\ UNCHANGED <<claims, markers, done, sent, row, accepted, excused, active, faults>>

\* The connection that held the lock is gone: the unlock raises, the call ends
\* with a 500 and its session is closed without a commit.
UnlockFails(d) ==
    /\ calls[d].stage = "unlocking" /\ lock[Current(d)] # d
    /\ row' = Free(row, d)
    /\ calls' = [calls EXCEPT ![d] = Ended]
    /\ UNCHANGED <<claims, markers, done, sent, lock, accepted, excused, active, faults>>

\* The final commit, and the 200.
Respond(d) ==
    /\ calls[d].stage = "committing"
    /\ Commit(d)
    /\ accepted' = accepted \cup {calls[d].batch}
    /\ calls' = [calls EXCEPT ![d] = Ended]
    /\ UNCHANGED <<claims, sent, lock, excused, active, faults>>

\* The same, with a 200 too late for Meta.
RespondLate(d) ==
    /\ calls[d].stage = "committing"
    /\ Fault
    /\ Commit(d)
    /\ calls' = [calls EXCEPT ![d] = Ended]
    /\ UNCHANGED <<claims, sent, lock, accepted, excused, active>>

----------------------------------------------------------------------------
\* Mutant of Crash: the lock outlives the call, as a row of a table would.
CrashKeepsLock(ds) ==
    /\ \A d \in ds : calls[d] # Ended
    /\ Fault
    /\ row' = IF row \in ds THEN None ELSE row
    /\ calls' = [d \in Calls |-> IF d \in ds THEN Ended ELSE calls[d]]
    /\ UNCHANGED <<claims, markers, done, sent, lock, accepted, excused, active>>

\* Some calls die, of an error or with the process: both their connections go,
\* and Postgres rolls back the one and releases the lock of the other.
Crash(ds) ==
    /\ \A d \in ds : calls[d] # Ended
    /\ Fault
    /\ lock' = [m \in Messages |-> IF lock[m] \in ds THEN None ELSE lock[m]]
    /\ row' = IF row \in ds THEN None ELSE row
    /\ calls' = [d \in Calls |-> IF d \in ds THEN Ended ELSE calls[d]]
    /\ UNCHANGED <<claims, markers, done, sent, accepted, excused, active>>

\* Only the connection that holds the lock goes.
DropLock(m) ==
    /\ lock[m] # None
    /\ Fault
    /\ lock' = [lock EXCEPT ![m] = None]
    /\ UNCHANGED <<claims, markers, done, sent, row, calls, accepted, excused, active>>

\* An administrator turns the subscription on or off.
SetSubscription ==
    /\ Fault
    /\ active' = ~active
    /\ UNCHANGED <<claims, markers, done, sent, lock, row, calls, accepted, excused>>

Work(d) ==
    \/ Lock(d) \/ LookUp(d) \/ Claim(d) \/ LoseRace(d) \/ PassOver(d)
    \/ \E writes \in BOOLEAN : Answer(d, writes)
    \/ Record(d) \/ Unlock(d) \/ UnlockFails(d) \/ Respond(d)

Next ==
    \/ \E d \in Calls : \E b \in Batches : Deliver(d, b)
    \/ \E d \in Calls : Work(d)
    \/ \E d \in Calls, writes \in BOOLEAN : AnswerUnsent(d, writes)
    \/ \E d \in Calls : RespondLate(d)
    \/ \E ds \in SUBSET Calls \ {{}} : Crash(ds)
    \/ \E m \in Messages : DropLock(m)
    \/ SetSubscription

Spec == Init /\ [][Next]_vars

\* A call that can move does, Postgres grants a free lock to some waiter in the
\* end, and Meta posts again what it has no 200 for.
FairSpec ==
    /\ Spec
    /\ \A d \in Calls : WF_vars(Work(d)) /\ SF_vars(Lock(d)) /\ SF_vars(Record(d))
    /\ \A b \in Batches : WF_vars(\E d \in Calls : Deliver(d, b))

----------------------------------------------------------------------------
\* PROPERTIES

Holding == Stages \ {"locking", "committing"}

\* The calls that are at message m, between its lock and its unlock.
At(m) == {d \in Calls : calls[d].stage \in Holding /\ Current(d) = m}

\* A committed reply marker is of a message on record whose reply was really
\* sent and whose run is committed: _reply_already_sent may trust it.
MarkerIsHonest == \A m \in markers : m \in claims /\ sent[m] > 0 /\ done[m] > 0

\* A message's lock is held only by a call at the message, so that no retry waits
\* for a call that is gone; and until a fault, by every call at the message: the
\* commits in between do not give it away.
LockGuards ==
    \A m \in Messages : /\ lock[m] # None => lock[m] \in At(m)
                        /\ faults = 0 => At(m) \subseteq {lock[m]}

\* A message Meta has a 200 for was answered, unless a call gave it up in one
\* of the ways the code names: no subscription, a failed send, a lost race.
AcceptedIsAnswered ==
    \A b \in accepted : \A i \in DOMAIN b :
        b[i] \in Known \ excused => b[i] \in markers

\* The calls that have carried message m out and not committed.
Running(m) == {d \in Calls : \/ calls[d].stage = "recording" /\ Current(d) = m
                             \/ m \in calls[d].work}

\* Message m is answered for good, and no call is at it.
Settled(m) == m \in markers /\ At(m) = {} /\ Running(m) = {}

\* Once a message is answered and nothing of it is under way, no redelivery
\* runs its handler or sends its reply again, whatever fails meanwhile.
AnsweredStaysAnswered ==
    \A m \in Known : [](Settled(m) => [](Running(m) = {}))

\* A marker becomes durable only together with the run it is the reply to.
MarkerCarriesItsRun ==
    [][\A m \in markers' \ markers : done'[m] = done[m] + 1]_vars

\* Call d has the lock of a message and waits for the row, which call e holds
\* while it waits for that lock.
CrossWait ==
    \E d, e \in Calls : /\ calls[d].stage = "recording" /\ calls[d].wrote /\ row = e
                        /\ calls[e].stage = "locking" /\ lock[Current(e)] = d
                        /\ d # e

\* Every batch gets its 200 in the end, unless two calls wait for each other.
EveryBatchAccepted == \A b \in Batches : <>(b \in accepted \/ CrossWait)

\* A second delivery of a message waits instead of sending a second reply.
OneReply == \A m \in Messages : sent[m] <= 1

\* Every call ends with a response.
EveryCallResponds == \A d \in Calls : calls[d] # Ended ~> calls[d] = Ended
=============================================================================
