------------------------ MODULE WebhookDeliveryProofs ------------------------
(***************************************************************************)
(* What the webhook's claims, markers and locks guarantee for any set of   *)
(* messages, batches and concurrent calls.                                 *)
(*                                                                         *)
(* The inductive invariant says of every call what it may rely on at its   *)
(* stage: a message it is about to claim is a known sender's, one it is    *)
(* about to answer is on record, and one it has a marker for was sent.     *)
(* That Meta's batches are answered needs that a call has dealt with every *)
(* message behind the one it is at (AllInOrder); that no answered message  *)
(* is carried out again needs that a call at it has seen its marker        *)
(* (Answered).                                                             *)
(***************************************************************************)
EXTENDS WebhookDelivery, TLAPS

\* What holds of a call c, given the committed claims and the replies sent.
CallOK(c, onRecord, replies) ==
    /\ IsCall(c)
    /\ c.stage = "claiming" => c.batch[c.at] \in Known
    /\ c.stage \in {"answering", "recording"} => c.batch[c.at] \in onRecord
    /\ \A m \in c.replied : m \in onRecord /\ replies[m] > 0

Rows ==
    /\ claims \subseteq Known
    /\ done \in [Messages -> Nat] /\ sent \in [Messages -> Nat]
    /\ lock \in [Messages -> Calls \cup {None}] /\ row \in Calls \cup {None}
    /\ accepted \subseteq Batches /\ excused \subseteq Messages
    /\ active \in BOOLEAN /\ faults \in 0 .. MaxFaults

CallsOK ==
    /\ calls \in [Calls -> Call]
    /\ \A d \in Calls : CallOK(calls[d], claims, sent)

RowHeldByWriter == row # None => calls[row].wrote

\* The inductive invariant.
IInv == Rows /\ CallsOK /\ RowHeldByWriter /\ MarkerIsHonest

----------------------------------------------------------------------------
\* The message a call is at is one of Messages.
LEMMA CurrentIsMessage ==
    ASSUME IInv, NEW d \in Calls, calls[d].stage \in Stages
    PROVE  /\ Current(d) \in Messages
           /\ calls[d].batch \in Batches
           /\ Len(calls[d].batch) \in Nat
           /\ calls[d].at \in 1 .. Len(calls[d].batch)
  <1>1. calls[d].batch \in Batches /\ calls[d].at \in 1 .. Len(calls[d].batch)
    BY DEF IInv, CallsOK, CallOK, IsCall
  <1>2. calls[d].batch \in Seq(Messages)
    BY <1>1, BatchAssumption
  <1> QED BY <1>1, <1>2 DEF Current

\* Calls that a step leaves alone stay in order as claims and replies grow.
LEMMA CallsStep ==
    ASSUME CallsOK, claims \subseteq claims',
           \A m \in Messages : sent[m] > 0 => sent'[m] > 0,
           calls' \in [Calls -> Call],
           \A e \in Calls : calls'[e] = calls[e] \/ CallOK(calls'[e], claims', sent')
    PROVE  CallsOK'
  <1>1. ASSUME NEW e \in Calls, calls'[e] = calls[e]
        PROVE  CallOK(calls'[e], claims', sent')
    <2>1. CallOK(calls[e], claims, sent)
      BY DEF CallsOK
    <2>2. calls[e].replied \subseteq Messages
      BY <2>1 DEF CallOK, IsCall, Call
    <2> QED BY <1>1, <2>1, <2>2 DEF CallOK
  <1> QED BY <1>1 DEF CallsOK

\* The call record with a new stage, or with its transaction emptied.
LEMMA CallRecords ==
    ASSUME NEW c \in Call, NEW s \in Stages
    PROVE  /\ [c EXCEPT !.stage = s] \in Call
           /\ [c EXCEPT !.stage = s].stage = s
           /\ [c EXCEPT !.stage = s].batch = c.batch
           /\ [c EXCEPT !.stage = s].at = c.at
           /\ [c EXCEPT !.stage = s].work = c.work
           /\ [c EXCEPT !.stage = s].replied = c.replied
           /\ [c EXCEPT !.stage = s].wrote = c.wrote
           /\ Clean(c, s) \in Call
           /\ Clean(c, s).stage = s
           /\ Clean(c, s).batch = c.batch
           /\ Clean(c, s).at = c.at
           /\ Clean(c, s).work = {}
           /\ Clean(c, s).replied = {}
           /\ Clean(c, s).wrote = FALSE
  BY DEF Call, Clean

\* A call that goes to another stage, and nothing else, keeps what it has.
LEMMA StageStep ==
    ASSUME IInv, NEW d \in Calls, NEW s \in Stages, calls[d].stage \in Stages,
           GoTo(d, s), claims' = claims, sent' = sent,
           s = "claiming" => Current(d) \in Known,
           s \in {"answering", "recording"} => Current(d) \in claims
    PROVE  /\ CallsOK'
           /\ \A e \in Calls : calls'[e].wrote = calls[e].wrote
  <1> DEFINE c == [calls[d] EXCEPT !.stage = s]
  <1>1. calls \in [Calls -> Call] /\ calls[d] \in Call
    BY DEF IInv, CallsOK
  <1>2. calls' = [calls EXCEPT ![d] = c]
    BY <1>1 DEF GoTo
  <1>3. /\ c \in Call /\ c.stage = s /\ c.batch = calls[d].batch /\ c.at = calls[d].at
        /\ c.work = calls[d].work /\ c.replied = calls[d].replied
        /\ c.wrote = calls[d].wrote
    BY <1>1, CallRecords
  <1>4. CallOK(calls[d], claims, sent)
    BY DEF IInv, CallsOK
  <1>5. s # "ended"
    BY DEF Stages
  <1>6. IsCall(c)
    BY <1>3, <1>4, <1>5 DEF CallOK, IsCall
  <1>7. CallOK(c, claims, sent)
    BY <1>3, <1>4, <1>6 DEF CallOK, Current
  <1>8. calls' \in [Calls -> Call] /\ calls'[d] = c /\ \A e \in Calls : e # d => calls'[e] = calls[e]
    BY <1>1, <1>2, <1>3
  <1>9. CallsOK'
    BY <1>7, <1>8, CallsStep DEF IInv
  <1> QED BY <1>3, <1>8, <1>9

\* A call that ends keeps nothing.
LEMMA EndedIsCall == \A onRecord, replies :
                        CallOK(Ended, onRecord, replies) /\ Ended \in Call /\ ~Ended.wrote
  BY DEF CallOK, IsCall, Call, Ended, Stages

\* What a commit does to the rows it touches.
LEMMA CommitStep ==
    ASSUME IInv, NEW d \in Calls, Commit(d), claims \subseteq claims', sent' = sent
    PROVE  /\ done' \in [Messages -> Nat] /\ row' \in Calls \cup {None}
           /\ row' # d /\ (row' # None => row' = row)
           /\ MarkerIsHonest'
  <1>1. CallOK(calls[d], claims, sent) /\ IsCall(calls[d]) /\ calls[d] \in Call
    BY DEF IInv, CallsOK, CallOK
  <1>2. calls[d].replied \subseteq calls[d].work /\ calls[d].work \subseteq Messages
    BY <1>1 DEF IsCall, Call
  <1>3. done' = [m \in Messages |-> IF m \in calls[d].work THEN done[m] + 1 ELSE done[m]]
    BY DEF Commit
  <1>4. done \in [Messages -> Nat]
    BY DEF IInv, Rows
  <1>5. done' \in [Messages -> Nat]
    BY <1>3, <1>4
  <1>6. \A m \in Messages : /\ done'[m] >= done[m]
                            /\ m \in calls[d].work => done'[m] > 0
    BY <1>3, <1>4
  <1>7. ASSUME NEW m \in markers' PROVE m \in claims' /\ sent'[m] > 0 /\ done'[m] > 0
    <2>1. CASE m \in markers
      <3>1. m \in claims /\ sent[m] > 0 /\ done[m] > 0
        BY <2>1 DEF IInv, MarkerIsHonest
      <3>2. m \in Messages
        BY <3>1, BatchAssumption DEF IInv, Rows
      <3> QED BY <3>1, <3>2, <1>4, <1>5, <1>6
    <2>2. CASE m \in calls[d].replied
      BY <2>2, <1>1, <1>2, <1>6 DEF CallOK
    <2> QED BY <1>7, <2>1, <2>2 DEF Commit
  <1>8. row' \in Calls \cup {None} /\ row' # d /\ (row' # None => row' = row)
    BY BatchAssumption DEF Commit, Free, IInv, Rows
  <1> QED BY <1>5, <1>7, <1>8 DEF MarkerIsHonest

----------------------------------------------------------------------------
\* The invariant holds at first, and every step keeps it.
LEMMA InitInv == Init => IInv
  BY BatchAssumption, EndedIsCall
  DEF Init, IInv, Rows, CallsOK, RowHeldByWriter, MarkerIsHonest

\* A step that only moves one call to another stage keeps the invariant.
LEMMA MoveInv ==
    ASSUME IInv, NEW d \in Calls, NEW s \in Stages, calls[d].stage \in Stages, GoTo(d, s),
           s = "claiming" => Current(d) \in Known,
           s \in {"answering", "recording"} => Current(d) \in claims,
           UNCHANGED <<claims, markers, done, sent, row, accepted, active, faults>>,
           lock' \in [Messages -> Calls \cup {None}], excused' \subseteq Messages
    PROVE  IInv'
  <1>1. CallsOK' /\ \A e \in Calls : calls'[e].wrote = calls[e].wrote
    BY StageStep
  <1>2. Rows'
    BY DEF IInv, Rows
  <1>3. RowHeldByWriter'
    BY <1>1 DEF IInv, Rows, RowHeldByWriter
  <1>4. MarkerIsHonest'
    BY DEF IInv, MarkerIsHonest
  <1> QED BY <1>1, <1>2, <1>3, <1>4 DEF IInv

\* A call arrives with its batch.
LEMMA DeliverInv ==
    ASSUME IInv, NEW d \in Calls, NEW b \in Batches, Deliver(d, b) PROVE IInv'
  <1> DEFINE c == [Ended EXCEPT !.stage = "locking", !.batch = b, !.at = 1]
  <1>1. /\ c \in Call /\ c.stage = "locking" /\ c.batch = b /\ c.at = 1
        /\ c.work = {} /\ c.replied = {} /\ ~c.wrote
    BY DEF Ended, Call, Stages
  <1>2. 1 \in 1 .. Len(b)
    <2>1. b \in Seq(Messages) /\ b # <<>>
      BY BatchAssumption
    <2> QED BY <2>1
  <1>3. CallOK(c, claims, sent)
    BY <1>1, <1>2 DEF CallOK, IsCall
  <1>4. calls \in [Calls -> Call] /\ calls' = [calls EXCEPT ![d] = c]
    BY DEF IInv, CallsOK, Deliver
  <1>5. calls' \in [Calls -> Call] /\ calls'[d] = c /\ \A e \in Calls : e # d => calls'[e] = calls[e]
    BY <1>1, <1>4
  <1>6. UNCHANGED <<claims, markers, done, sent, lock, row, accepted, excused, active, faults>>
    BY DEF Deliver
  <1>7. CallsOK'
    BY <1>3, <1>5, <1>6, CallsStep DEF IInv
  <1>8. ~calls[d].wrote
    BY DEF Deliver, Ended
  <1>9. RowHeldByWriter'
    BY <1>5, <1>6, <1>8 DEF IInv, RowHeldByWriter, Rows
  <1> QED BY <1>6, <1>7, <1>9 DEF IInv, Rows, MarkerIsHonest

\* The advisory lock of a message is taken.
LEMMA LockInv == ASSUME IInv, NEW d \in Calls, Lock(d) PROVE IInv'
  <1>1. calls[d].stage = "locking" /\ GoTo(d, "looking")
    BY DEF Lock
  <1>2. lock' \in [Messages -> Calls \cup {None}]
    BY DEF Lock, IInv, Rows
  <1> QED BY <1>1, <1>2, MoveInv DEF Lock, Stages, IInv, Rows

\* The claim is looked up.
LEMMA LookUpInv == ASSUME IInv, NEW d \in Calls, LookUp(d) PROVE IInv'
  <1> DEFINE s == IF Current(d) \notin Known THEN "unlocking"
                  ELSE IF Current(d) \notin claims THEN "claiming"
                  ELSE IF Current(d) \in markers \cup calls[d].replied THEN "unlocking"
                  ELSE "answering"
  <1>1. calls[d].stage \in Stages /\ s \in Stages /\ GoTo(d, s)
    BY DEF LookUp, Stages
  <1>2. s = "claiming" => Current(d) \in Known
    OBVIOUS
  <1>3. s \in {"answering", "recording"} => Current(d) \in claims
    OBVIOUS
  <1>4. UNCHANGED <<claims, markers, done, sent, row, accepted, active, faults>>
    BY DEF LookUp
  <1>5. lock' \in [Messages -> Calls \cup {None}] /\ excused' \subseteq Messages
    BY DEF LookUp, IInv, Rows
  <1> HIDE DEF s
  <1> QED BY <1>1, <1>2, <1>3, <1>4, <1>5, MoveInv

\* A message that is claimed, or of nobody known, is passed over.
LEMMA PassOverInv == ASSUME IInv, NEW d \in Calls, PassOver(d) PROVE IInv'
  <1>1. calls[d].stage \in Stages /\ GoTo(d, "unlocking") /\ "unlocking" \in Stages
    BY DEF PassOver, Stages
  <1>2. Current(d) \in Messages
    BY <1>1, CurrentIsMessage
  <1>3. lock' \in [Messages -> Calls \cup {None}] /\ excused' \subseteq Messages
    BY <1>2 DEF PassOver, IInv, Rows
  <1>4. UNCHANGED <<claims, markers, done, sent, row, accepted, active, faults>>
    BY DEF PassOver
  <1> QED BY <1>1, <1>3, <1>4, MoveInv

\* A claim is inserted and committed.
LEMMA ClaimInv == ASSUME IInv, NEW d \in Calls, Claim(d) PROVE IInv'
  <1> DEFINE c == Clean(calls[d], "answering")
  <1>1. calls[d].stage \in Stages /\ "answering" \in Stages /\ calls[d].stage = "claiming"
    BY DEF Claim, Stages
  <1>2. calls \in [Calls -> Call] /\ CallOK(calls[d], claims, sent)
    BY DEF IInv, CallsOK
  <1>3. Current(d) \in Known
    BY <1>1, <1>2 DEF CallOK, Current
  <1>4. claims' = claims \cup {Current(d)} /\ claims' \subseteq Known
    BY <1>3 DEF Claim, IInv, Rows
  <1>15. calls[d] \in Call /\ "answering" \in Stages
    BY <1>1, <1>2
  <1>5. /\ c \in Call /\ c.stage = "answering" /\ c.batch = calls[d].batch
        /\ c.at = calls[d].at /\ c.work = {} /\ c.replied = {}
    BY <1>15, CallRecords
  <1>6. IsCall(c)
    BY <1>1, <1>2, <1>5 DEF CallOK, IsCall
  <1>7. CallOK(c, claims', sent')
    BY <1>4, <1>5, <1>6 DEF CallOK, Current
  <1>8. calls' = [calls EXCEPT ![d] = c]
    BY <1>2 DEF Claim
  <1>9. calls' \in [Calls -> Call] /\ calls'[d] = c /\ \A e \in Calls : e # d => calls'[e] = calls[e]
    BY <1>2, <1>5, <1>8
  <1>10. Commit(d) /\ sent' = sent
    BY DEF Claim
  <1>11. CallsOK'
    BY <1>4, <1>7, <1>9, <1>10, CallsStep DEF IInv
  <1>12. /\ done' \in [Messages -> Nat] /\ row' \in Calls \cup {None}
         /\ row' # d /\ (row' # None => row' = row) /\ MarkerIsHonest'
    BY <1>4, <1>10, CommitStep
  <1>13. Rows'
    BY <1>4, <1>12 DEF Claim, IInv, Rows
  <1>14. RowHeldByWriter'
    BY <1>9, <1>12 DEF IInv, RowHeldByWriter
  <1> QED BY <1>11, <1>12, <1>13, <1>14 DEF IInv

\* The insert fails on the unique id.
LEMMA LoseRaceInv == ASSUME IInv, NEW d \in Calls, LoseRace(d) PROVE IInv'
  <1> DEFINE c == Clean(calls[d], "unlocking")
  <1>1. calls[d].stage \in Stages /\ "unlocking" \in Stages
    BY DEF LoseRace, Stages
  <1>2. calls \in [Calls -> Call] /\ CallOK(calls[d], claims, sent)
    BY DEF IInv, CallsOK
  <1>3. Current(d) \in Messages /\ calls[d].work \subseteq Messages
    BY <1>1, <1>2, CurrentIsMessage DEF CallOK, IsCall, Call
  <1>4. calls[d] \in Call /\ "unlocking" \in Stages
    BY <1>1, <1>2
  <1>5. /\ c \in Call /\ c.stage = "unlocking" /\ c.batch = calls[d].batch
        /\ c.at = calls[d].at /\ c.work = {} /\ c.replied = {}
    BY <1>4, CallRecords
  <1>6. IsCall(c)
    BY <1>1, <1>2, <1>5 DEF CallOK, IsCall
  <1>7. CallOK(c, claims, sent)
    BY <1>5, <1>6 DEF CallOK
  <1>8. calls' = [calls EXCEPT ![d] = c] /\ UNCHANGED <<claims, markers, done, sent>>
    BY <1>2 DEF LoseRace
  <1>9. calls' \in [Calls -> Call] /\ calls'[d] = c /\ \A e \in Calls : e # d => calls'[e] = calls[e]
    BY <1>2, <1>5, <1>8
  <1>11. CallsOK'
    BY <1>7, <1>8, <1>9, CallsStep DEF IInv
  <1>12. row' \in Calls \cup {None} /\ row' # d /\ (row' # None => row' = row)
    BY BatchAssumption DEF LoseRace, Free, IInv, Rows
  <1>13. Rows'
    BY <1>3, <1>12 DEF LoseRace, IInv, Rows
  <1>14. RowHeldByWriter'
    BY <1>9, <1>12 DEF IInv, RowHeldByWriter
  <1> QED BY <1>8, <1>11, <1>13, <1>14 DEF IInv, MarkerIsHonest

\* Both kinds of answer: the call has run the message it is at, and marks it
\* only if marked.
LEMMA AnsweredCall ==
    ASSUME IInv, NEW d \in Calls, calls[d].stage = "answering",
           NEW marked \in SUBSET {Current(d)}, NEW writes \in BOOLEAN,
           calls' = [calls EXCEPT ![d].stage = "recording",
                                  ![d].work = @ \cup {Current(d)},
                                  ![d].replied = @ \cup marked,
                                  ![d].wrote = @ \/ writes],
           claims' = claims,
           \A m \in Messages : sent[m] > 0 => sent'[m] > 0,
           \A m \in marked : sent'[m] > 0
    PROVE  /\ CallsOK'
           /\ \A e \in Calls : calls[e].wrote => calls'[e].wrote
  <1> DEFINE c == [calls[d] EXCEPT !.stage = "recording", !.work = @ \cup {Current(d)},
                                   !.replied = @ \cup marked, !.wrote = @ \/ writes]
  <1>1. calls \in [Calls -> Call] /\ calls[d] \in Call /\ CallOK(calls[d], claims, sent)
    BY DEF IInv, CallsOK
  <1>2. calls[d].stage \in Stages
    BY DEF Stages
  <1>3. Current(d) \in Messages
    BY <1>2, CurrentIsMessage
  <1>4. /\ c.stage = "recording" /\ c.batch = calls[d].batch /\ c.at = calls[d].at
        /\ c.work = calls[d].work \cup {Current(d)}
        /\ c.replied = calls[d].replied \cup marked
        /\ c.wrote = (calls[d].wrote \/ writes)
    BY <1>1 DEF Call
  <1>5. "recording" \in Stages \cup {"ended"} /\ (calls[d].wrote \/ writes) \in BOOLEAN
    BY DEF Stages
  <1>6. calls[d].work \in SUBSET Messages /\ calls[d].replied \in SUBSET Messages
    BY <1>1 DEF Call
  <1>7. c \in Call
    BY <1>1, <1>3, <1>5, <1>6 DEF Call
  <1>8. IsCall(c)
    BY <1>1, <1>2, <1>4, <1>7 DEF CallOK, IsCall
  <1>9. Current(d) \in claims
    BY <1>1 DEF CallOK, Current
  <1>10. \A m \in c.replied : m \in claims /\ sent'[m] > 0
    BY <1>1, <1>4, <1>6, <1>9 DEF CallOK
  <1>11. CallOK(c, claims', sent')
    BY <1>4, <1>8, <1>9, <1>10 DEF CallOK, Current
  <1>12. calls' = [calls EXCEPT ![d] = c]
    BY <1>1
  <1>13. calls' \in [Calls -> Call] /\ calls'[d] = c /\ \A e \in Calls : e # d => calls'[e] = calls[e]
    BY <1>1, <1>7, <1>12
  <1>14. CallsOK'
    BY <1>11, <1>13, CallsStep DEF IInv
  <1> QED BY <1>4, <1>13, <1>14

\* The founder is answered.
LEMMA AnswerInv ==
    ASSUME IInv, NEW d \in Calls, NEW writes \in BOOLEAN, Answer(d, writes) PROVE IInv'
  <1>1. calls[d].stage = "answering" /\ calls[d].stage \in Stages
    BY DEF Answer, Stages
  <1>2. Current(d) \in Messages
    BY <1>1, CurrentIsMessage
  <1>3. sent \in [Messages -> Nat] /\ sent' = [sent EXCEPT ![Current(d)] = @ + 1]
    BY DEF Answer, IInv, Rows
  <1>4. /\ sent' \in [Messages -> Nat]
        /\ \A m \in Messages : sent[m] > 0 => sent'[m] > 0
        /\ sent'[Current(d)] > 0
    BY <1>2, <1>3
  <1>5. calls' = [calls EXCEPT ![d].stage = "recording", ![d].work = @ \cup {Current(d)},
                               ![d].replied = @ \cup {Current(d)}, ![d].wrote = @ \/ writes]
    BY DEF Answer
  <1>6. UNCHANGED <<claims, markers, done, lock, row, accepted, excused, active, faults>>
    BY DEF Answer
  <1>7. {Current(d)} \in SUBSET {Current(d)}
    OBVIOUS
  <1>8. CallsOK' /\ \A e \in Calls : calls[e].wrote => calls'[e].wrote
    BY <1>1, <1>4, <1>5, <1>6, <1>7, AnsweredCall
  <1>9. Rows' /\ RowHeldByWriter'
    BY <1>4, <1>6, <1>8 DEF IInv, Rows, RowHeldByWriter
  <1>10. MarkerIsHonest'
    BY <1>4, <1>6, BatchAssumption DEF IInv, MarkerIsHonest, Rows
  <1> QED BY <1>8, <1>9, <1>10 DEF IInv

\* The answer is not sent.
LEMMA AnswerUnsentInv ==
    ASSUME IInv, NEW d \in Calls, NEW writes \in BOOLEAN, AnswerUnsent(d, writes) PROVE IInv'
  <1>1. calls[d].stage = "answering" /\ calls[d].stage \in Stages
    BY DEF AnswerUnsent, Stages
  <1>2. Current(d) \in Messages
    BY <1>1, CurrentIsMessage
  <1>3. calls \in [Calls -> Call]
    BY DEF IInv, CallsOK
  <1>4. calls[d].replied \cup {} = calls[d].replied
    OBVIOUS
  <1>5. calls' = [calls EXCEPT ![d] = [calls[d] EXCEPT !.stage = "recording",
                      !.work = @ \cup {Current(d)}, !.wrote = @ \/ writes]]
    BY <1>3 DEF AnswerUnsent
  <1>6. [calls[d] EXCEPT !.stage = "recording", !.work = @ \cup {Current(d)},
                         !.wrote = @ \/ writes]
        = [calls[d] EXCEPT !.stage = "recording", !.work = @ \cup {Current(d)},
                           !.replied = @ \cup {}, !.wrote = @ \/ writes]
    BY <1>3, <1>4 DEF Call
  <1>7. calls' = [calls EXCEPT ![d].stage = "recording", ![d].work = @ \cup {Current(d)},
                               ![d].replied = @ \cup {}, ![d].wrote = @ \/ writes]
    BY <1>3, <1>5, <1>6
  <1>8. /\ UNCHANGED <<claims, markers, done, sent, lock, row, accepted, active>>
        /\ excused' = excused \cup {Current(d)}
        /\ faults < MaxFaults /\ faults' = faults + 1
    BY DEF AnswerUnsent, Fault
  <1>9. {} \in SUBSET {Current(d)}
    OBVIOUS
  <1>10. CallsOK' /\ \A e \in Calls : calls[e].wrote => calls'[e].wrote
    BY <1>1, <1>7, <1>8, <1>9, AnsweredCall
  <1>11. faults' \in 0 .. MaxFaults
    BY <1>8, BatchAssumption DEF IInv, Rows
  <1>12. Rows' /\ RowHeldByWriter'
    BY <1>2, <1>8, <1>10, <1>11 DEF IInv, Rows, RowHeldByWriter
  <1> QED BY <1>8, <1>10, <1>12 DEF IInv, MarkerIsHonest

\* The run is recorded.
LEMMA RecordInv == ASSUME IInv, NEW d \in Calls, Record(d) PROVE IInv'
  <1>1. calls[d].stage \in Stages /\ GoTo(d, "unlocking") /\ "unlocking" \in Stages
    BY DEF Record, Stages
  <1>2. UNCHANGED <<claims, markers, done, sent, lock, accepted, excused, active, faults>>
    BY DEF Record
  <1>3. CallsOK' /\ \A e \in Calls : calls'[e].wrote = calls[e].wrote
    BY <1>1, <1>2, StageStep
  <1>4. row' \in Calls \cup {None}
    BY DEF Record, IInv, Rows
  <1>5. RowHeldByWriter'
    BY <1>3 DEF Record, IInv, Rows, RowHeldByWriter
  <1> QED BY <1>2, <1>3, <1>4, <1>5 DEF IInv, Rows, MarkerIsHonest

\* The lock is given back.
LEMMA UnlockInv == ASSUME IInv, NEW d \in Calls, Unlock(d) PROVE IInv'
  <1> DEFINE last == ~(calls[d].at < Len(calls[d].batch))
             next == [calls[d] EXCEPT !.stage = "locking", !.at = calls[d].at + 1]
  <1>1. calls[d].stage = "unlocking" /\ calls[d].stage \in Stages
    BY DEF Unlock, Stages
  <1>2. calls \in [Calls -> Call] /\ calls[d] \in Call /\ CallOK(calls[d], claims, sent)
    BY DEF IInv, CallsOK
  <1>3. lock' \in [Messages -> Calls \cup {None}]
    BY DEF Unlock, IInv, Rows
  <1>4. UNCHANGED <<claims, markers, done, sent, row, accepted, excused, active, faults>>
    BY DEF Unlock
  <1>6. CASE last
    <2>1. GoTo(d, "committing")
      BY <1>6 DEF Unlock
    <2>2. "committing" \in Stages
      BY DEF Stages
    <2>3. excused' \subseteq Messages
      BY <1>4 DEF IInv, Rows
    <2> QED BY <1>1, <1>3, <1>4, <2>1, <2>2, <2>3, MoveInv
  <1>7. CASE ~last
    <2>1. /\ calls[d].batch \in Batches /\ Len(calls[d].batch) \in Nat
          /\ calls[d].at \in 1 .. Len(calls[d].batch)
      BY <1>1, CurrentIsMessage
    <2>2. calls[d].at + 1 \in 1 .. Len(calls[d].batch)
      BY <1>7, <2>1
    <2>3. "locking" \in Stages
      BY DEF Stages
    <2>4. next \in Call
      <3>1. calls[d].at + 1 \in Nat
        BY <2>1
      <3>2. "locking" \in Stages \cup {"ended"}
        BY <2>3
      <3> HIDE DEF last
      <3> QED BY <1>2, <3>1, <3>2 DEF Call
    <2>5. /\ next.stage = "locking" /\ next.batch = calls[d].batch
          /\ next.at = calls[d].at + 1 /\ next.work = calls[d].work
          /\ next.replied = calls[d].replied /\ next.wrote = calls[d].wrote
      BY <1>2 DEF Call
    <2>6. IsCall(next)
      BY <1>2, <2>1, <2>2, <2>4, <2>5 DEF CallOK, IsCall
    <2>7. CallOK(next, claims, sent)
      BY <1>2, <2>5, <2>6 DEF CallOK
    <2>8. calls' = [calls EXCEPT ![d] = next]
      BY <1>2, <1>7 DEF Unlock
    <2>9. calls' \in [Calls -> Call] /\ calls'[d] = next
          /\ \A e \in Calls : e # d => calls'[e] = calls[e]
      BY <1>2, <2>4, <2>8
    <2>10. claims \subseteq claims' /\ \A m \in Messages : sent[m] > 0 => sent'[m] > 0
      BY <1>4
    <2>11. CallOK(next, claims', sent')
      BY <1>4, <2>7
    <2>12. \A e \in Calls : calls'[e] = calls[e] \/ CallOK(calls'[e], claims', sent')
      BY <2>9, <2>11
    <2>13. CallsOK'
      BY <2>9, <2>10, <2>12, CallsStep DEF IInv
    <2>14. RowHeldByWriter'
      BY <1>4, <2>5, <2>9 DEF IInv, Rows, RowHeldByWriter
    <2> QED BY <1>3, <1>4, <2>13, <2>14 DEF IInv, Rows, MarkerIsHonest
  <1> QED BY <1>6, <1>7

\* The unlock fails with its connection.
LEMMA UnlockFailsInv == ASSUME IInv, NEW d \in Calls, UnlockFails(d) PROVE IInv'
  <1>1. calls \in [Calls -> Call] /\ calls' = [calls EXCEPT ![d] = Ended]
    BY DEF IInv, CallsOK, UnlockFails
  <1>2. calls' \in [Calls -> Call] /\ calls'[d] = Ended /\ \A e \in Calls : e # d => calls'[e] = calls[e]
    BY <1>1, EndedIsCall
  <1>3. UNCHANGED <<claims, markers, done, sent, lock, accepted, excused, active, faults>>
    BY DEF UnlockFails
  <1>4. CallsOK'
    BY <1>2, <1>3, EndedIsCall, CallsStep DEF IInv
  <1>5. row' \in Calls \cup {None} /\ row' # d /\ (row' # None => row' = row)
    BY BatchAssumption DEF UnlockFails, Free, IInv, Rows
  <1>6. RowHeldByWriter'
    BY <1>2, <1>5 DEF IInv, RowHeldByWriter
  <1> QED BY <1>3, <1>4, <1>5, <1>6 DEF IInv, Rows, MarkerIsHonest

\* The final commit, whether or not Meta takes the response.
LEMMA FinalCommit ==
    ASSUME IInv, NEW d \in Calls, Commit(d), calls' = [calls EXCEPT ![d] = Ended],
           UNCHANGED <<claims, sent, lock, excused, active>>,
           accepted' \subseteq Batches, faults' \in 0 .. MaxFaults
    PROVE  IInv'
  <1>1. calls \in [Calls -> Call]
    BY DEF IInv, CallsOK
  <1>2. calls' \in [Calls -> Call] /\ calls'[d] = Ended /\ \A e \in Calls : e # d => calls'[e] = calls[e]
    BY <1>1, EndedIsCall
  <1>3. CallsOK'
    BY <1>2, EndedIsCall, CallsStep DEF IInv
  <1>4. /\ done' \in [Messages -> Nat] /\ row' \in Calls \cup {None}
        /\ row' # d /\ (row' # None => row' = row) /\ MarkerIsHonest'
    BY CommitStep
  <1>5. RowHeldByWriter'
    BY <1>2, <1>4 DEF IInv, RowHeldByWriter
  <1> QED BY <1>3, <1>4, <1>5 DEF IInv, Rows

\* Meta is told that all is well.
LEMMA RespondInv == ASSUME IInv, NEW d \in Calls, Respond(d) PROVE IInv'
  <1>1. calls[d].stage \in Stages
    BY DEF Respond, Stages
  <1>2. accepted' \subseteq Batches
    BY <1>1, CurrentIsMessage DEF Respond, IInv, Rows
  <1> QED BY <1>2, FinalCommit DEF Respond, IInv, Rows

\* A fault stays within its bound.
LEMMA FaultBound == ASSUME IInv, Fault PROVE faults' \in 0 .. MaxFaults
  BY BatchAssumption DEF Fault, IInv, Rows

\* Or too late.
LEMMA RespondLateInv == ASSUME IInv, NEW d \in Calls, RespondLate(d) PROVE IInv'
  BY FinalCommit, FaultBound DEF RespondLate, IInv, Rows

\* A process dies.
LEMMA CrashInv == ASSUME IInv, NEW ds \in SUBSET Calls, Crash(ds) PROVE IInv'
  <1>1. calls \in [Calls -> Call] /\ calls' = [d \in Calls |-> IF d \in ds THEN Ended ELSE calls[d]]
    BY DEF IInv, CallsOK, Crash
  <1>2. calls' \in [Calls -> Call] /\ \A e \in Calls : /\ e \in ds => calls'[e] = Ended
                                                       /\ e \notin ds => calls'[e] = calls[e]
    BY <1>1, EndedIsCall
  <1>3. UNCHANGED <<claims, markers, done, sent, accepted, excused, active>>
    BY DEF Crash
  <1>4. CallsOK'
    BY <1>2, <1>3, EndedIsCall, CallsStep DEF IInv
  <1>5. lock' \in [Messages -> Calls \cup {None}]
    BY DEF Crash, IInv, Rows
  <1>6. row' \in Calls \cup {None} /\ row' \notin ds /\ (row' # None => row' = row)
    BY BatchAssumption DEF Crash, IInv, Rows
  <1>7. RowHeldByWriter'
    BY <1>2, <1>6 DEF IInv, RowHeldByWriter
  <1>8. faults' \in 0 .. MaxFaults
    BY FaultBound DEF Crash
  <1> QED BY <1>3, <1>4, <1>5, <1>6, <1>7, <1>8 DEF IInv, Rows, MarkerIsHonest

\* The database drops the lock of a lost session.
LEMMA DropLockInv == ASSUME IInv, NEW m \in Messages, DropLock(m) PROVE IInv'
  <1>1. lock' \in [Messages -> Calls \cup {None}]
    BY DEF DropLock, IInv, Rows
  <1>2. faults' \in 0 .. MaxFaults
    BY FaultBound DEF DropLock
  <1>3. UNCHANGED <<claims, markers, done, sent, row, calls, accepted, excused, active>>
    BY DEF DropLock
  <1> QED BY <1>1, <1>2, <1>3 DEF IInv, Rows, CallsOK, RowHeldByWriter, MarkerIsHonest

\* A subscription starts or ends.
LEMMA SetSubscriptionInv == ASSUME IInv, SetSubscription PROVE IInv'
  <1>1. faults' \in 0 .. MaxFaults
    BY FaultBound DEF SetSubscription
  <1>2. UNCHANGED <<claims, markers, done, sent, lock, row, calls, accepted, excused>>
    BY DEF SetSubscription
  <1>3. active' \in BOOLEAN
    BY DEF SetSubscription
  <1> QED BY <1>1, <1>2, <1>3 DEF IInv, Rows, CallsOK, RowHeldByWriter, MarkerIsHonest

\* So every step keeps the invariant.
LEMMA NextInv == ASSUME IInv, [Next]_vars PROVE IInv'
  <1>1. ASSUME NEW d \in Calls, NEW b \in Batches, Deliver(d, b) PROVE IInv'
    BY <1>1, DeliverInv
  <1>2. ASSUME NEW d \in Calls, Work(d) PROVE IInv'
    <2>1. ASSUME NEW writes \in BOOLEAN, Answer(d, writes) PROVE IInv'
      BY <2>1, AnswerInv
    <2>2. CASE Lock(d) \/ LookUp(d) \/ Claim(d) \/ LoseRace(d) \/ PassOver(d)
      BY <2>2, LockInv, LookUpInv, ClaimInv, LoseRaceInv, PassOverInv
    <2>3. CASE Record(d) \/ Unlock(d) \/ UnlockFails(d) \/ Respond(d)
      BY <2>3, RecordInv, UnlockInv, UnlockFailsInv, RespondInv
    <2> QED BY <1>2, <2>1, <2>2, <2>3 DEF Work
  <1>3. ASSUME NEW d \in Calls, NEW writes \in BOOLEAN, AnswerUnsent(d, writes) PROVE IInv'
    BY <1>3, AnswerUnsentInv
  <1>4. ASSUME NEW d \in Calls, RespondLate(d) PROVE IInv'
    BY <1>4, RespondLateInv
  <1>5. ASSUME NEW ds \in SUBSET Calls \ {{}}, Crash(ds) PROVE IInv'
    BY <1>5, CrashInv
  <1>6. ASSUME NEW m \in Messages, DropLock(m) PROVE IInv'
    BY <1>6, DropLockInv
  <1>7. CASE SetSubscription
    BY <1>7, SetSubscriptionInv
  <1>8. CASE UNCHANGED vars
    BY <1>8 DEF vars, IInv, Rows, CallsOK, RowHeldByWriter, MarkerIsHonest
  <1> QED BY <1>1, <1>2, <1>3, <1>4, <1>5, <1>6, <1>7, <1>8 DEF Next

\* Every reachable state satisfies the inductive invariant.
THEOREM Invariance == Spec => []IInv
  BY InitInv, NextInv, PTL DEF Spec

\* Every value of the webhook's state lies where it should: no marker without a
\* claim, no row lock with a call that has written nothing.
THEOREM TypeCorrect == Spec => []TypeOK
  <1>1. IInv => TypeOK
    BY DEF IInv, Rows, CallsOK, RowHeldByWriter, MarkerIsHonest, CallOK, TypeOK
  <1> QED BY <1>1, Invariance, PTL

\* _reply_already_sent may trust a committed marker: the message is on record,
\* its reply was really sent, and its run is committed.
THEOREM MarkerCorrect == Spec => []MarkerIsHonest
  <1>1. IInv => MarkerIsHonest
    BY DEF IInv
  <1> QED BY <1>1, Invariance, PTL

\* Only a commit writes markers, and it commits the runs of their messages too.
THEOREM MarkersCarryRuns == Spec => MarkerCarriesItsRun
  <1> DEFINE Carried == \A m \in markers' \ markers : done'[m] = done[m] + 1
  <1>1. ASSUME IInv, NEW d \in Calls, Commit(d) PROVE Carried
    <2>1. calls[d] \in Call /\ calls[d].replied \subseteq calls[d].work
      BY <1>1 DEF IInv, CallsOK, CallOK, IsCall
    <2>2. calls[d].work \subseteq Messages
      BY <2>1 DEF Call
    <2> QED BY <1>1, <2>1, <2>2 DEF Commit
  <1>2. ASSUME IInv, [Next]_vars PROVE Carried \/ UNCHANGED vars
    <2>1. ASSUME NEW d \in Calls, Work(d) PROVE Carried
      <3>1. CASE Claim(d)
        BY <1>1, <1>2, <3>1 DEF Claim
      <3>2. CASE Respond(d)
        BY <1>1, <1>2, <3>2 DEF Respond
      <3>3. CASE Lock(d) \/ LookUp(d) \/ LoseRace(d) \/ PassOver(d) \/ Record(d)
                 \/ Unlock(d) \/ UnlockFails(d)
        BY <3>3 DEF Lock, LookUp, LoseRace, PassOver, Record, Unlock, UnlockFails
      <3>4. ASSUME NEW writes \in BOOLEAN, Answer(d, writes) PROVE Carried
        BY <3>4 DEF Answer
      <3> QED BY <2>1, <3>1, <3>2, <3>3, <3>4 DEF Work
    <2>2. ASSUME NEW d \in Calls, RespondLate(d) PROVE Carried
      BY <1>1, <1>2, <2>2 DEF RespondLate
    <2>3. ASSUME NEW d \in Calls, NEW b \in Batches, Deliver(d, b) PROVE Carried
      BY <2>3 DEF Deliver
    <2>4. ASSUME NEW d \in Calls, NEW writes \in BOOLEAN, AnswerUnsent(d, writes) PROVE Carried
      BY <2>4 DEF AnswerUnsent
    <2>5. ASSUME NEW ds \in SUBSET Calls \ {{}}, Crash(ds) PROVE Carried
      BY <2>5 DEF Crash
    <2>6. ASSUME NEW m \in Messages, DropLock(m) PROVE Carried
      BY <2>6 DEF DropLock
    <2>7. CASE SetSubscription
      BY <2>7 DEF SetSubscription
    <2> QED BY <1>2, <2>1, <2>2, <2>3, <2>4, <2>5, <2>6, <2>7 DEF Next
  <1>3. IInv /\ [Next]_vars => [Carried]_vars
    BY <1>2
  <1> QED BY <1>3, Invariance, PTL DEF Spec, MarkerCarriesItsRun

----------------------------------------------------------------------------
\* The locks.  A step of one call leaves the others where they are.

\* A call that neither comes to a message nor leaves one changes no guard.
LEMMA SamePlace ==
    ASSUME IInv, LockGuards, NEW d \in Calls, lock' = lock, faults' = 0 => faults = 0,
           \A e \in Calls : e # d => calls'[e] = calls[e],
           calls'[d].stage \in Holding <=> calls[d].stage \in Holding,
           calls[d].stage \in Holding =>
               calls'[d].batch = calls[d].batch /\ calls'[d].at = calls[d].at
    PROVE  LockGuards'
  <1>1. \A m \in Messages : At(m)' = At(m)
    BY DEF At, Current
  <1> QED BY <1>1 DEF LockGuards

\* A call that goes from one stage between lock and unlock to another.
LEMMA MoveGuards ==
    ASSUME IInv, LockGuards, NEW d \in Calls, NEW c, lock' = lock,
           faults' = 0 => faults = 0, calls' = [calls EXCEPT ![d] = c],
           c.stage \in Holding, calls[d].stage \in Holding,
           c.batch = calls[d].batch, c.at = calls[d].at
    PROVE  LockGuards'
  <1>1. calls \in [Calls -> Call]
    BY DEF IInv, CallsOK
  <1>2. calls'[d] = c /\ \A e \in Calls : e # d => calls'[e] = calls[e]
    BY <1>1
  <1> QED BY <1>2, SamePlace

\* The same of a call of which only the stage changes.
LEMMA GoToGuards ==
    ASSUME IInv, LockGuards, NEW d \in Calls, NEW s \in Holding, GoTo(d, s),
           lock' = lock, faults' = 0 => faults = 0, calls[d].stage \in Holding
    PROVE  LockGuards'
  <1> DEFINE c == [calls[d] EXCEPT !.stage = s]
  <1>1. calls \in [Calls -> Call] /\ calls[d] \in Call /\ s \in Stages
    BY DEF IInv, CallsOK, Holding
  <1>2. c.stage = s /\ c.batch = calls[d].batch /\ c.at = calls[d].at
    BY <1>1, CallRecords
  <1>3. calls' = [calls EXCEPT ![d] = c]
    BY <1>1 DEF GoTo
  <1> HIDE DEF c
  <1> QED BY <1>2, <1>3, MoveGuards

\* The lock that is taken was free.
LEMMA LockKeepsGuards ==
    ASSUME IInv, LockGuards, NEW d \in Calls, Lock(d) PROVE LockGuards'
  <1>1. calls[d].stage = "locking" /\ calls[d].stage \in Stages /\ lock[Current(d)] = None
    BY DEF Lock, Stages
  <1>2. Current(d) \in Messages
    BY <1>1, CurrentIsMessage
  <1>3. calls \in [Calls -> Call] /\ calls[d] \in Call /\ lock \in [Messages -> Calls \cup {None}]
    BY DEF IInv, CallsOK, Rows
  <1>4. calls' = [calls EXCEPT ![d] = [calls[d] EXCEPT !.stage = "looking"]]
    BY <1>3 DEF Lock, GoTo
  <1>5. /\ calls'[d].stage = "looking" /\ calls'[d].batch = calls[d].batch
        /\ calls'[d].at = calls[d].at
        /\ \A e \in Calls : e # d => calls'[e] = calls[e]
    <2>1. "looking" \in Stages
      BY DEF Stages
    <2> QED BY <1>3, <1>4, <2>1, CallRecords
  <1>6. Current(d)' = Current(d)
    BY <1>5 DEF Current
  <1>7. \A m \in Messages : At(m)' = IF m = Current(d) THEN At(m) \cup {d} ELSE At(m)
    BY <1>1, <1>5, <1>6 DEF At, Holding, Stages, Current
  <1>8. lock' = [lock EXCEPT ![Current(d)] = d] /\ faults' = faults
    BY DEF Lock
  <1>9. \A m \in Messages : lock'[m] = IF m = Current(d) THEN d ELSE lock[m]
    BY <1>3, <1>8
  <1>10. faults = 0 => At(Current(d)) = {}
    <2>1. At(Current(d)) \subseteq Calls
      BY DEF At
    <2> QED BY <1>1, <1>2, <2>1, BatchAssumption DEF LockGuards
  <1>11. ASSUME NEW m \in Messages
         PROVE  /\ lock'[m] # None => lock'[m] \in At(m)'
                /\ faults' = 0 => At(m)' \subseteq {lock'[m]}
    <2>1. CASE m = Current(d)
      BY <1>7, <1>8, <1>9, <1>10, <2>1
    <2>2. CASE m # Current(d)
      BY <1>7, <1>8, <1>9, <2>2 DEF LockGuards
    <2> QED BY <2>1, <2>2
  <1> QED BY <1>11 DEF LockGuards

\* A call that leaves the message it is at.
LEMMA Leave ==
    ASSUME IInv, NEW d \in Calls, calls[d].stage = "unlocking",
           calls'[d].stage \notin Holding,
           \A e \in Calls : e # d => calls'[e] = calls[e]
    PROVE  /\ Current(d) \in Messages /\ d \in At(Current(d))
           /\ \A m \in Messages : At(m)' = At(m) \ {d}
           /\ \A m \in Messages : m # Current(d) => At(m)' = At(m)
  <1>1. calls[d].stage \in Stages /\ calls[d].stage \in Holding
    BY DEF Stages, Holding
  <1>2. Current(d) \in Messages /\ d \in At(Current(d))
    BY <1>1, CurrentIsMessage DEF At
  <1>3. \A m \in Messages : At(m)' = At(m) \ {d}
    BY DEF At, Current
  <1>4. \A m \in Messages : m # Current(d) => d \notin At(m)
    BY DEF At
  <1> QED BY <1>2, <1>3, <1>4

\* The lock that is given back was this call's.
LEMMA UnlockKeepsGuards ==
    ASSUME IInv, LockGuards, NEW d \in Calls, Unlock(d) PROVE LockGuards'
  <1>1. calls[d].stage = "unlocking" /\ lock[Current(d)] = d
    BY DEF Unlock
  <1>2. calls \in [Calls -> Call] /\ calls[d] \in Call /\ lock \in [Messages -> Calls \cup {None}]
    BY DEF IInv, CallsOK, Rows
  <1>3. /\ calls'[d].stage \in {"locking", "committing"}
        /\ \A e \in Calls : e # d => calls'[e] = calls[e]
    <2>1. CASE calls[d].at < Len(calls[d].batch)
      <3>1. calls' = [calls EXCEPT ![d] = [calls[d] EXCEPT !.stage = "locking",
                                                           !.at = calls[d].at + 1]]
        BY <1>2, <2>1 DEF Unlock
      <3>2. [calls[d] EXCEPT !.stage = "locking", !.at = calls[d].at + 1].stage = "locking"
        BY <1>2 DEF Call
      <3> QED BY <1>2, <3>1, <3>2
    <2>2. CASE ~(calls[d].at < Len(calls[d].batch))
      <3>1. calls' = [calls EXCEPT ![d] = [calls[d] EXCEPT !.stage = "committing"]]
        BY <1>2, <2>2 DEF Unlock, GoTo
      <3>2. [calls[d] EXCEPT !.stage = "committing"].stage = "committing"
        BY <1>2 DEF Call
      <3> QED BY <1>2, <3>1, <3>2
    <2> QED BY <2>1, <2>2
  <1>4. calls'[d].stage \notin Holding
    BY <1>3 DEF Holding
  <1>5. /\ Current(d) \in Messages /\ d \in At(Current(d))
        /\ \A m \in Messages : At(m)' = At(m) \ {d}
        /\ \A m \in Messages : m # Current(d) => At(m)' = At(m)
    BY <1>1, <1>3, <1>4, Leave
  <1>6. lock' = [lock EXCEPT ![Current(d)] = None] /\ faults' = faults
    BY DEF Unlock
  <1>7. \A m \in Messages : lock'[m] = IF m = Current(d) THEN None ELSE lock[m]
    BY <1>2, <1>6
  <1>8. ASSUME NEW m \in Messages
        PROVE  /\ lock'[m] # None => lock'[m] \in At(m)'
               /\ faults' = 0 => At(m)' \subseteq {lock'[m]}
    <2>1. CASE m = Current(d)
      BY <1>1, <1>5, <1>6, <1>7, <2>1 DEF LockGuards
    <2>2. CASE m # Current(d)
      BY <1>5, <1>6, <1>7, <2>2 DEF LockGuards
    <2> QED BY <2>1, <2>2
  <1> QED BY <1>8 DEF LockGuards

\* A failed unlock is a fault.
LEMMA UnlockFailsKeepsGuards ==
    ASSUME IInv, LockGuards, NEW d \in Calls, UnlockFails(d) PROVE LockGuards'
  <1>1. calls[d].stage = "unlocking" /\ lock[Current(d)] # d /\ lock' = lock /\ faults' = faults
    BY DEF UnlockFails
  <1>2. calls \in [Calls -> Call] /\ calls' = [calls EXCEPT ![d] = Ended]
    BY DEF IInv, CallsOK, UnlockFails
  <1>3. calls'[d] = Ended /\ Ended.stage = "ended" /\ \A e \in Calls : e # d => calls'[e] = calls[e]
    BY <1>2 DEF Ended
  <1>4. calls'[d].stage \notin Holding
    BY <1>3 DEF Holding, Stages
  <1>5. /\ Current(d) \in Messages /\ d \in At(Current(d))
        /\ \A m \in Messages : At(m)' = At(m) \ {d}
        /\ \A m \in Messages : m # Current(d) => At(m)' = At(m)
    BY <1>1, <1>3, <1>4, Leave
  <1>6. ASSUME NEW m \in Messages
        PROVE  /\ lock'[m] # None => lock'[m] \in At(m)'
               /\ faults' = 0 => At(m)' \subseteq {lock'[m]}
    <2>1. CASE m = Current(d)
      BY <1>1, <1>5, <2>1 DEF LockGuards
    <2>2. CASE m # Current(d)
      BY <1>1, <1>5, <2>2 DEF LockGuards
    <2> QED BY <2>1, <2>2
  <1> QED BY <1>6 DEF LockGuards

\* So is a crash.
LEMMA CrashKeepsGuards ==
    ASSUME IInv, LockGuards, NEW ds \in SUBSET Calls, Crash(ds) PROVE LockGuards'
  <1>1. calls \in [Calls -> Call] /\ lock \in [Messages -> Calls \cup {None}] /\ faults \in Nat
    BY BatchAssumption DEF IInv, CallsOK, Rows
  <1>2. /\ lock' = [m \in Messages |-> IF lock[m] \in ds THEN None ELSE lock[m]]
        /\ calls' = [d \in Calls |-> IF d \in ds THEN Ended ELSE calls[d]]
        /\ faults' = faults + 1
    BY DEF Crash, Fault
  <1>3. \A d \in Calls : d \notin ds => calls'[d] = calls[d]
    BY <1>2
  <1>4. \A m \in Messages : \A d \in At(m) : d \notin ds => d \in At(m)'
    BY <1>3 DEF At, Current
  <1>5. ASSUME NEW m \in Messages, lock'[m] # None PROVE lock'[m] \in At(m)'
    <2>1. lock'[m] = lock[m] /\ lock[m] \notin ds /\ lock[m] # None
      BY <1>2, <1>5
    <2>2. lock[m] \in At(m)
      BY <2>1 DEF LockGuards
    <2> QED BY <1>4, <2>1, <2>2
  <1>6. faults' # 0
    BY <1>1, <1>2
  <1> QED BY <1>5, <1>6 DEF LockGuards

\* A lock is dropped of a call that is gone.
LEMMA DropLockKeepsGuards ==
    ASSUME IInv, LockGuards, NEW m \in Messages, DropLock(m) PROVE LockGuards'
  <1>1. lock \in [Messages -> Calls \cup {None}] /\ faults \in Nat
    BY BatchAssumption DEF IInv, Rows
  <1>2. lock' = [lock EXCEPT ![m] = None] /\ faults' = faults + 1 /\ calls' = calls
    BY DEF DropLock, Fault
  <1>3. \A n \in Messages : At(n)' = At(n)
    BY <1>2 DEF At, Current
  <1>4. \A n \in Messages : lock'[n] # None => lock'[n] = lock[n]
    BY <1>1, <1>2
  <1>5. faults' # 0
    BY <1>1, <1>2
  <1> QED BY <1>3, <1>4, <1>5 DEF LockGuards

\* Answering leaves the call at its message.
LEMMA AnswerKeepsGuards ==
    ASSUME IInv, LockGuards, NEW d \in Calls, NEW writes \in BOOLEAN,
           Answer(d, writes) \/ AnswerUnsent(d, writes)
    PROVE  LockGuards'
  <1>1. calls \in [Calls -> Call] /\ calls[d] \in Call /\ faults \in Nat
    BY BatchAssumption DEF IInv, CallsOK, Rows
  <1>2. calls[d].stage \in Holding /\ "recording" \in Holding /\ lock' = lock
    BY DEF Answer, AnswerUnsent, Holding, Stages
  <1>3. faults' = 0 => faults = 0
    BY <1>1 DEF Answer, AnswerUnsent, Fault
  <1>4. /\ calls'[d].stage = "recording" /\ calls'[d].batch = calls[d].batch
        /\ calls'[d].at = calls[d].at
        /\ \A e \in Calls : e # d => calls'[e] = calls[e]
    <2>1. CASE Answer(d, writes)
      BY <1>1, <2>1 DEF Answer, Call
    <2>2. CASE AnswerUnsent(d, writes)
      BY <1>1, <2>2 DEF AnswerUnsent, Call
    <2> QED BY <2>1, <2>2
  <1> QED BY <1>2, <1>3, <1>4, SamePlace

\* Taking up or ending a post is no place at a message.
LEMMA OutsideKeepsGuards ==
    ASSUME IInv, LockGuards, NEW d \in Calls,
           Respond(d) \/ RespondLate(d) \/ \E b \in Batches : Deliver(d, b)
    PROVE  LockGuards'
  <1>1. calls \in [Calls -> Call] /\ faults \in Nat
    BY BatchAssumption DEF IInv, CallsOK, Rows
  <1>2. lock' = lock /\ (faults' = 0 => faults = 0)
    <2>1. CASE Respond(d)
      BY <2>1 DEF Respond
    <2>2. CASE RespondLate(d)
      BY <1>1, <2>2 DEF RespondLate, Fault
    <2>3. CASE \E b \in Batches : Deliver(d, b)
      BY <2>3 DEF Deliver
    <2> QED BY <2>1, <2>2, <2>3
  <1>3. calls[d].stage \notin Holding
    <2>1. CASE Respond(d) \/ RespondLate(d)
      BY <2>1 DEF Respond, RespondLate, Holding
    <2>2. CASE \E b \in Batches : Deliver(d, b)
      <3>1. calls[d] = Ended
        BY <2>2 DEF Deliver
      <3>2. calls[d].stage = "ended"
        BY <3>1 DEF Ended
      <3> QED BY <3>2 DEF Holding, Stages
    <2> QED BY <2>1, <2>2
  <1>4. /\ calls'[d].stage \notin Holding
        /\ \A e \in Calls : e # d => calls'[e] = calls[e]
    <2>1. CASE Respond(d) \/ RespondLate(d)
      <3>1. calls' = [calls EXCEPT ![d] = Ended]
        BY <2>1 DEF Respond, RespondLate
      <3> QED BY <1>1, <3>1 DEF Ended, Holding, Stages
    <2>2. ASSUME NEW b \in Batches, Deliver(d, b)
          PROVE  /\ calls'[d].stage \notin Holding
                 /\ \A e \in Calls : e # d => calls'[e] = calls[e]
      <3>1. calls' = [calls EXCEPT ![d] =
                         [Ended EXCEPT !.stage = "locking", !.batch = b, !.at = 1]]
        BY <2>2 DEF Deliver
      <3>2. [Ended EXCEPT !.stage = "locking", !.batch = b, !.at = 1].stage = "locking"
        BY DEF Ended
      <3> QED BY <1>1, <3>1, <3>2 DEF Holding
    <2> QED BY <2>1, <2>2
  <1> QED BY <1>2, <1>3, <1>4, SamePlace

\* So no work of a call disturbs the guards.
LEMMA WorkKeepsGuards ==
    ASSUME IInv, LockGuards, NEW d \in Calls, Work(d) PROVE LockGuards'
  <1>1. calls \in [Calls -> Call] /\ calls[d] \in Call
    BY DEF IInv, CallsOK
  <1>2. /\ {"unlocking", "claiming", "answering"} \subseteq Holding
        /\ {"looking", "recording"} \subseteq Holding
        /\ Holding \subseteq Stages
    BY DEF Holding, Stages
  <1>3. CASE LookUp(d)
    <2>1. PICK s \in {"unlocking", "claiming", "answering"} : GoTo(d, s)
      BY <1>3 DEF LookUp
    <2>2. lock' = lock /\ faults' = faults /\ calls[d].stage \in Holding
      BY <1>2, <1>3 DEF LookUp
    <2> QED BY <1>2, <2>1, <2>2, GoToGuards
  <1>4. CASE PassOver(d) \/ Record(d)
    <2>1. GoTo(d, "unlocking") /\ "unlocking" \in Holding
      BY <1>2, <1>4 DEF PassOver, Record
    <2>2. lock' = lock /\ faults' = faults /\ calls[d].stage \in Holding
      BY <1>2, <1>4 DEF PassOver, Record
    <2> QED BY <2>1, <2>2, GoToGuards
  <1>5. CASE Claim(d) \/ LoseRace(d)
    <2>1. PICK s \in {"answering", "unlocking"} : calls' = [calls EXCEPT ![d] = Clean(calls[d], s)]
      BY <1>5 DEF Claim, LoseRace
    <2>2. s \in Stages /\ s \in Holding
      BY <1>2
    <2>3. /\ Clean(calls[d], s).stage = s /\ Clean(calls[d], s).batch = calls[d].batch
          /\ Clean(calls[d], s).at = calls[d].at
      BY <1>1, <2>2, CallRecords
    <2>4. lock' = lock /\ faults' = faults /\ calls[d].stage \in Holding
      BY <1>2, <1>5 DEF Claim, LoseRace
    <2> QED BY <2>1, <2>2, <2>3, <2>4, MoveGuards
  <1>6. CASE Lock(d) \/ Unlock(d) \/ UnlockFails(d) \/ Respond(d)
    BY <1>6, LockKeepsGuards, UnlockKeepsGuards, UnlockFailsKeepsGuards, OutsideKeepsGuards
  <1>7. ASSUME NEW writes \in BOOLEAN, Answer(d, writes) PROVE LockGuards'
    BY <1>7, AnswerKeepsGuards
  <1> QED BY <1>3, <1>4, <1>5, <1>6, <1>7 DEF Work

\* A message's advisory lock is never left behind by a call that is gone, and
\* without a fault nobody is at a message but the holder of its lock.
THEOREM LocksCorrect == Spec => []LockGuards
  <1>1. Init => LockGuards
    <2> SUFFICES ASSUME Init PROVE LockGuards
      OBVIOUS
    <2>1. \A d \in Calls : calls[d].stage = "ended"
      BY DEF Init, Ended
    <2>2. \A m \in Messages : At(m) = {}
      BY <2>1 DEF At, Holding, Stages
    <2>3. \A m \in Messages : lock[m] = None
      BY DEF Init
    <2> QED BY <2>2, <2>3 DEF LockGuards
  <1>2. ASSUME IInv, LockGuards, [Next]_vars PROVE LockGuards'
    <2>1. ASSUME NEW d \in Calls, NEW b \in Batches, Deliver(d, b) PROVE LockGuards'
      BY <1>2, <2>1, OutsideKeepsGuards
    <2>2. ASSUME NEW d \in Calls, Work(d) PROVE LockGuards'
      BY <1>2, <2>2, WorkKeepsGuards
    <2>3. ASSUME NEW d \in Calls, NEW writes \in BOOLEAN, AnswerUnsent(d, writes)
          PROVE  LockGuards'
      BY <1>2, <2>3, AnswerKeepsGuards
    <2>4. ASSUME NEW d \in Calls, RespondLate(d) PROVE LockGuards'
      BY <1>2, <2>4, OutsideKeepsGuards
    <2>5. ASSUME NEW ds \in SUBSET Calls \ {{}}, Crash(ds) PROVE LockGuards'
      BY <1>2, <2>5, CrashKeepsGuards
    <2>6. ASSUME NEW m \in Messages, DropLock(m) PROVE LockGuards'
      BY <1>2, <2>6, DropLockKeepsGuards
    <2>7. CASE SetSubscription
      <3>1. faults \in Nat /\ faults' = faults + 1 /\ lock' = lock /\ calls' = calls
        BY <1>2, <2>7, BatchAssumption DEF SetSubscription, Fault, IInv, Rows
      <3> QED BY <1>2, <3>1 DEF LockGuards, At, Current
    <2>8. CASE UNCHANGED vars
      BY <1>2, <2>8 DEF vars, LockGuards, At, Current
    <2> QED BY <1>2, <2>1, <2>2, <2>3, <2>4, <2>5, <2>6, <2>7, <2>8 DEF Next
  <1>3. IInv /\ LockGuards /\ [Next]_vars => LockGuards'
    BY <1>2
  <1> QED BY <1>1, <1>3, Invariance, PTL DEF Spec

----------------------------------------------------------------------------
\* A 200 means answers.  A call goes through its batch in order, and leaves no
\* message behind that it has not dealt with.

\* Message m needs no answer, has its marker, or gets it with c's next commit.
Dealt(c, m) == m \in Known => m \in excused \cup markers \cup c.replied

\* Call c has dealt with what is behind it, and gives its 200 at the end only.
InOrder(c) ==
    c.stage \in Stages =>
        /\ \A i \in 1 .. c.at - 1 : Dealt(c, c.batch[i])
        /\ c.stage \in {"recording", "unlocking", "committing"} => Dealt(c, c.batch[c.at])
        /\ c.stage = "committing" => c.at = Len(c.batch)

\* The inductive invariant of AcceptedIsAnswered.
AllInOrder ==
    /\ \A d \in Calls : InOrder(calls[d])
    /\ AcceptedIsAnswered

\* What is dealt with stays dealt with, whatever other calls do.
LEMMA OrderStep ==
    ASSUME IInv, AllInOrder, markers \subseteq markers', excused \subseteq excused',
           \A e \in Calls : calls'[e] = calls[e] \/ InOrder(calls[e])'
    PROVE  /\ \A e \in Calls : InOrder(calls[e])'
           /\ \A b \in accepted : \A i \in DOMAIN b :
                  b[i] \in Known \ excused' => b[i] \in markers'
  <1>1. ASSUME NEW e \in Calls, calls'[e] = calls[e] PROVE InOrder(calls[e])'
    <2>1. InOrder(calls[e])
      BY DEF AllInOrder
    <2> QED BY <1>1, <2>1 DEF InOrder, Dealt
  <1> QED BY <1>1 DEF AllInOrder, AcceptedIsAnswered

\* A call that stays at its message.
LEMMA MoveKeepsOrder ==
    ASSUME IInv, AllInOrder, NEW d \in Calls, calls[d].stage \in Stages,
           calls'[d].stage # "committing",
           calls'[d].batch = calls[d].batch, calls'[d].at = calls[d].at,
           \A e \in Calls : e # d => calls'[e] = calls[e],
           calls[d].replied \subseteq calls'[d].replied \cup markers' \cup excused',
           markers \subseteq markers', excused \subseteq excused', accepted' = accepted,
           \/ calls'[d].stage \notin {"recording", "unlocking"}
           \/ calls[d].stage = "recording"
           \/ Current(d) \in Known
                => Current(d) \in excused' \cup markers' \cup calls'[d].replied
    PROVE  AllInOrder'
  <1>1. InOrder(calls[d])
    BY DEF AllInOrder
  <1>2. \A m : Dealt(calls[d], m) => Dealt(calls[d], m)'
    BY DEF Dealt
  <1>3. InOrder(calls[d])'
    BY <1>1, <1>2 DEF InOrder, Current, Dealt
  <1>4. \A e \in Calls : calls'[e] = calls[e] \/ InOrder(calls[e])'
    BY <1>3
  <1> QED BY <1>4, OrderStep DEF AllInOrder, AcceptedIsAnswered

\* A call that begins, or ends without a 200.
LEMMA OutsideKeepsOrder ==
    ASSUME IInv, AllInOrder, markers \subseteq markers', excused \subseteq excused',
           accepted' = accepted,
           \A e \in Calls : \/ calls'[e] = calls[e]
                            \/ calls'[e].stage = "ended"
                            \/ calls'[e].stage = "locking" /\ calls'[e].at = 1
    PROVE  AllInOrder'
  <1>1. ASSUME NEW e \in Calls, calls'[e].stage = "ended" PROVE InOrder(calls[e])'
    BY <1>1 DEF InOrder, Stages
  <1>2. ASSUME NEW e \in Calls, calls'[e].stage = "locking", calls'[e].at = 1
        PROVE  InOrder(calls[e])'
    BY <1>2 DEF InOrder
  <1> QED BY <1>1, <1>2, OrderStep DEF AllInOrder, AcceptedIsAnswered

\* The stages a call goes through at one message.
LEMMA WorkKeepsOrder ==
    ASSUME IInv, AllInOrder, NEW d \in Calls,
           \/ Lock(d) \/ LookUp(d) \/ Claim(d) \/ LoseRace(d) \/ PassOver(d) \/ Record(d)
    PROVE  AllInOrder'
  <1>1. calls \in [Calls -> Call] /\ calls[d] \in Call /\ calls[d].stage \in Stages
    <2>1. calls[d].stage \in {"locking", "looking", "claiming", "answering", "recording"}
      BY DEF Lock, LookUp, Claim, LoseRace, PassOver, Record
    <2> QED BY <2>1 DEF IInv, CallsOK, Stages
  <1>2. calls[d].replied \subseteq calls[d].work
    BY DEF IInv, CallsOK, CallOK, IsCall
  <1>3. ASSUME NEW s \in Stages \ {"committing"}, GoTo(d, s),
               markers' = markers, excused \subseteq excused', accepted' = accepted,
               \/ s \notin {"recording", "unlocking"}
               \/ calls[d].stage = "recording"
               \/ Current(d) \in Known => Current(d) \in excused' \cup markers \cup calls[d].replied
        PROVE  AllInOrder'
    <2>1. calls' = [calls EXCEPT ![d] = [calls[d] EXCEPT !.stage = s]]
      BY <1>1, <1>3 DEF GoTo
    <2>2. /\ calls'[d].stage = s /\ calls'[d].batch = calls[d].batch
          /\ calls'[d].at = calls[d].at /\ calls'[d].replied = calls[d].replied
          /\ \A e \in Calls : e # d => calls'[e] = calls[e]
      BY <1>1, <2>1, CallRecords
    <2> QED BY <1>1, <1>3, <2>2, MoveKeepsOrder
  <1>4. ASSUME NEW s \in {"answering", "unlocking"},
               calls' = [calls EXCEPT ![d] = Clean(calls[d], s)],
               markers \subseteq markers', excused \subseteq excused', accepted' = accepted,
               calls[d].replied \subseteq markers' \cup excused',
               s = "unlocking" => Current(d) \in excused'
        PROVE  AllInOrder'
    <2>1. s \in Stages /\ s # "committing"
      BY DEF Stages
    <2>2. /\ calls'[d].stage = s /\ calls'[d].batch = calls[d].batch
          /\ calls'[d].at = calls[d].at
          /\ \A e \in Calls : e # d => calls'[e] = calls[e]
      BY <1>1, <1>4, <2>1, CallRecords
    <2> QED BY <1>1, <1>4, <2>1, <2>2, MoveKeepsOrder
  <1>5. CASE Lock(d)
    BY <1>3, <1>5 DEF Lock, Stages
  <1>6. CASE LookUp(d)
    <2>1. CASE Current(d) \in Known /\ Current(d) \notin claims
      BY <1>3, <1>6, <2>1 DEF LookUp, Stages
    <2>2. CASE Current(d) \in Known /\ Current(d) \in claims
               /\ Current(d) \notin markers \cup calls[d].replied
      BY <1>3, <1>6, <2>2 DEF LookUp, Stages
    <2>3. CASE Current(d) \in Known => Current(d) \in claims
                                       /\ Current(d) \in markers \cup calls[d].replied
      <3>1. GoTo(d, "unlocking") /\ UNCHANGED <<markers, excused, accepted>>
        BY <1>6, <2>3 DEF LookUp
      <3>2. "unlocking" \in Stages \ {"committing"}
        BY DEF Stages
      <3> QED BY <1>3, <2>3, <3>1, <3>2
    <2> QED BY <2>1, <2>2, <2>3
  <1>7. CASE Claim(d)
    BY <1>4, <1>7 DEF Claim, Commit
  <1>8. CASE LoseRace(d)
    BY <1>2, <1>4, <1>8 DEF LoseRace
  <1>9. CASE PassOver(d)
    <2>1. GoTo(d, "unlocking") /\ UNCHANGED <<markers, accepted>>
          /\ excused' = excused \cup {Current(d)}
      BY <1>9 DEF PassOver
    <2>2. "unlocking" \in Stages \ {"committing"}
      BY DEF Stages
    <2> QED BY <1>3, <2>1, <2>2
  <1>10. CASE Record(d)
    <2>1. GoTo(d, "unlocking") /\ UNCHANGED <<markers, excused, accepted>>
          /\ calls[d].stage = "recording"
      BY <1>10 DEF Record
    <2>2. "unlocking" \in Stages \ {"committing"}
      BY DEF Stages
    <2> QED BY <1>3, <2>1, <2>2
  <1> QED BY <1>5, <1>6, <1>7, <1>8, <1>9, <1>10

\* An answer that was sent gets its marker; one that was not excuses its message.
LEMMA AnswerKeepsOrder ==
    ASSUME IInv, AllInOrder, NEW d \in Calls, NEW writes \in BOOLEAN,
           Answer(d, writes) \/ AnswerUnsent(d, writes)
    PROVE  AllInOrder'
  <1>1. calls \in [Calls -> Call] /\ calls[d] \in Call /\ calls[d].stage = "answering"
    BY DEF IInv, CallsOK, Answer, AnswerUnsent
  <1>2. /\ markers' = markers /\ excused \subseteq excused' /\ accepted' = accepted
        /\ \A e \in Calls : e # d => calls'[e] = calls[e]
    BY <1>1 DEF Answer, AnswerUnsent
  <1>3. /\ calls'[d].stage = "recording" /\ calls'[d].batch = calls[d].batch
        /\ calls'[d].at = calls[d].at /\ calls[d].replied \subseteq calls'[d].replied
        /\ Current(d) \in excused' \cup calls'[d].replied
    <2>1. CASE Answer(d, writes)
      BY <1>1, <2>1 DEF Answer, Call
    <2>2. CASE AnswerUnsent(d, writes)
      BY <1>1, <2>2 DEF AnswerUnsent, Call
    <2> QED BY <2>1, <2>2
  <1>4. calls[d].stage \in Stages
    BY <1>1 DEF Stages
  <1> QED BY <1>2, <1>3, <1>4, MoveKeepsOrder

\* The next message is taken up when this one is dealt with; after the last of
\* the batch comes the 200.
LEMMA UnlockKeepsOrder ==
    ASSUME IInv, AllInOrder, NEW d \in Calls, Unlock(d) PROVE AllInOrder'
  <1>1. calls \in [Calls -> Call] /\ calls[d] \in Call /\ calls[d].stage = "unlocking"
    BY DEF IInv, CallsOK, Unlock
  <1>2. /\ UNCHANGED <<markers, excused, accepted>>
        /\ \A e \in Calls : e # d => calls'[e] = calls[e]
    BY <1>1 DEF Unlock, GoTo
  <1>3. calls[d].stage \in Stages /\ "locking" \in Stages /\ "committing" \in Stages
    BY <1>1 DEF Stages
  <1>4. calls[d].at \in 1 .. Len(calls[d].batch) /\ Len(calls[d].batch) \in Nat
    BY <1>3, CurrentIsMessage
  <1>5. \A i \in 1 .. calls[d].at : Dealt(calls[d], calls[d].batch[i])
    <2>1. InOrder(calls[d])
      BY DEF AllInOrder
    <2>2. \A i \in 1 .. calls[d].at : i = calls[d].at \/ i \in 1 .. calls[d].at - 1
      BY <1>4
    <2> QED BY <1>1, <1>3, <2>1, <2>2 DEF InOrder
  <1>6. CASE calls[d].at < Len(calls[d].batch)
    <2>1. calls' = [calls EXCEPT ![d] = [calls[d] EXCEPT !.stage = "locking",
                                                         !.at = calls[d].at + 1]]
      BY <1>1, <1>6 DEF Unlock
    <2>2. /\ calls'[d].stage = "locking" /\ calls'[d].batch = calls[d].batch
          /\ calls'[d].at = calls[d].at + 1 /\ calls'[d].replied = calls[d].replied
      BY <1>1, <2>1 DEF Call
    <2>3. \A i \in 1 .. calls'[d].at - 1 : i \in 1 .. calls[d].at
      BY <1>4, <2>2
    <2>4. InOrder(calls[d])'
      BY <1>2, <1>5, <2>2, <2>3 DEF InOrder, Dealt
    <2> QED BY <1>2, <2>4, OrderStep DEF AllInOrder, AcceptedIsAnswered
  <1>7. CASE ~(calls[d].at < Len(calls[d].batch))
    <2>1. calls' = [calls EXCEPT ![d] = [calls[d] EXCEPT !.stage = "committing"]]
      BY <1>1, <1>7 DEF Unlock, GoTo
    <2>2. /\ calls'[d].stage = "committing" /\ calls'[d].batch = calls[d].batch
          /\ calls'[d].at = calls[d].at /\ calls'[d].replied = calls[d].replied
      BY <1>1, <2>1 DEF Call
    <2>3. calls[d].at = Len(calls[d].batch)
      BY <1>4, <1>7
    <2>4. \A i \in 1 .. calls[d].at - 1 : i \in 1 .. calls[d].at
      BY <1>4
    <2>5. calls[d].at \in 1 .. calls[d].at
      BY <1>4
    <2>6. InOrder(calls[d])'
      BY <1>2, <1>5, <2>2, <2>3, <2>4, <2>5 DEF InOrder, Dealt
    <2> QED BY <1>2, <2>6, OrderStep DEF AllInOrder, AcceptedIsAnswered
  <1> QED BY <1>6, <1>7

\* The 200 is given when every message is dealt with, and its commit makes the
\* markers durable.
LEMMA RespondKeepsOrder ==
    ASSUME IInv, AllInOrder, NEW d \in Calls, Respond(d) PROVE AllInOrder'
  <1>1. calls \in [Calls -> Call] /\ calls[d].stage = "committing"
    BY DEF IInv, CallsOK, Respond
  <1>2. /\ calls' = [calls EXCEPT ![d] = Ended] /\ excused' = excused
        /\ markers' = markers \cup calls[d].replied
        /\ accepted' = accepted \cup {calls[d].batch}
    BY DEF Respond, Commit
  <1>3. calls[d].stage \in Stages
    BY <1>1 DEF Stages
  <1>4. /\ calls[d].at \in 1 .. Len(calls[d].batch) /\ Len(calls[d].batch) \in Nat
        /\ calls[d].batch \in Seq(Messages)
    BY <1>3, CurrentIsMessage, BatchAssumption
  <1>5. InOrder(calls[d])
    BY DEF AllInOrder
  <1>6. ASSUME NEW i \in DOMAIN calls[d].batch PROVE Dealt(calls[d], calls[d].batch[i])
    <2>1. i \in 1 .. Len(calls[d].batch) /\ calls[d].at = Len(calls[d].batch)
      BY <1>1, <1>3, <1>4, <1>5 DEF InOrder
    <2>2. i = calls[d].at \/ i \in 1 .. calls[d].at - 1
      BY <1>4, <2>1
    <2> QED BY <1>1, <1>3, <1>5, <2>2 DEF InOrder
  <1>7. \A i \in DOMAIN calls[d].batch :
            calls[d].batch[i] \in Known \ excused' => calls[d].batch[i] \in markers'
    BY <1>2, <1>6 DEF Dealt
  <1>8. \A e \in Calls : calls'[e] = calls[e] \/ InOrder(calls[e])'
    BY <1>1, <1>2 DEF InOrder, Ended, Stages
  <1>9. /\ \A e \in Calls : InOrder(calls[e])'
        /\ \A b \in accepted : \A i \in DOMAIN b :
               b[i] \in Known \ excused' => b[i] \in markers'
    BY <1>2, <1>8, OrderStep
  <1> QED BY <1>2, <1>7, <1>9 DEF AllInOrder, AcceptedIsAnswered

\* Posts that begin, and calls that fail.
LEMMA EndingKeepsOrder ==
    ASSUME IInv, AllInOrder,
           \/ \E d \in Calls : UnlockFails(d) \/ RespondLate(d)
           \/ \E d \in Calls, b \in Batches : Deliver(d, b)
           \/ \E ds \in SUBSET Calls \ {{}} : Crash(ds)
    PROVE  AllInOrder'
  <1>1. calls \in [Calls -> Call] /\ Ended.stage = "ended"
    BY DEF IInv, CallsOK, Ended
  <1>2. ASSUME NEW d \in Calls, UnlockFails(d) \/ RespondLate(d) PROVE AllInOrder'
    <2>1. /\ calls' = [calls EXCEPT ![d] = Ended] /\ UNCHANGED <<excused, accepted>>
          /\ markers \subseteq markers'
      BY <1>2 DEF UnlockFails, RespondLate, Commit
    <2> QED BY <1>1, <2>1, OutsideKeepsOrder
  <1>3. ASSUME NEW d \in Calls, NEW b \in Batches, Deliver(d, b) PROVE AllInOrder'
    <2> DEFINE c == [Ended EXCEPT !.stage = "locking", !.batch = b, !.at = 1]
    <2>1. c.stage = "locking" /\ c.at = 1
      BY DEF Ended
    <2>2. calls' = [calls EXCEPT ![d] = c] /\ UNCHANGED <<markers, excused, accepted>>
      BY <1>3 DEF Deliver
    <2> HIDE DEF c
    <2> QED BY <1>1, <2>1, <2>2, OutsideKeepsOrder
  <1>4. ASSUME NEW ds \in SUBSET Calls \ {{}}, Crash(ds) PROVE AllInOrder'
    <2>1. /\ calls' = [d \in Calls |-> IF d \in ds THEN Ended ELSE calls[d]]
          /\ UNCHANGED <<markers, excused, accepted>>
      BY <1>4 DEF Crash
    <2> QED BY <1>1, <2>1, OutsideKeepsOrder
  <1> QED BY <1>2, <1>3, <1>4

\* A message Meta has a 200 for was answered or given up: the call that gives the
\* 200 went through all of its batch.
THEOREM AcceptedMeansAnswered == Spec => []AcceptedIsAnswered
  <1>1. Init => AllInOrder
    BY DEF Init, AllInOrder, AcceptedIsAnswered, InOrder, Ended, Stages
  <1>2. ASSUME IInv, AllInOrder, [Next]_vars PROVE AllInOrder'
    <2>1. ASSUME NEW d \in Calls, Work(d) PROVE AllInOrder'
      <3>1. ASSUME NEW writes \in BOOLEAN, Answer(d, writes) PROVE AllInOrder'
        BY <1>2, <3>1, AnswerKeepsOrder
      <3>2. CASE Unlock(d) \/ UnlockFails(d) \/ Respond(d)
        BY <1>2, <3>2, UnlockKeepsOrder, EndingKeepsOrder, RespondKeepsOrder
      <3>3. CASE Lock(d) \/ LookUp(d) \/ Claim(d) \/ LoseRace(d) \/ PassOver(d) \/ Record(d)
        BY <1>2, <3>3, WorkKeepsOrder
      <3> QED BY <2>1, <3>1, <3>2, <3>3 DEF Work
    <2>2. ASSUME NEW d \in Calls, NEW writes \in BOOLEAN, AnswerUnsent(d, writes)
          PROVE  AllInOrder'
      BY <1>2, <2>2, AnswerKeepsOrder
    <2>3. CASE \/ \E d \in Calls : RespondLate(d)
               \/ \E d \in Calls, b \in Batches : Deliver(d, b)
               \/ \E ds \in SUBSET Calls \ {{}} : Crash(ds)
      BY <1>2, <2>3, EndingKeepsOrder
    <2>4. CASE UNCHANGED <<calls, markers, excused, accepted>>
      BY <1>2, <2>4 DEF AllInOrder, AcceptedIsAnswered, InOrder, Dealt
    <2>5. ASSUME NEW m \in Messages, DropLock(m) PROVE AllInOrder'
      BY <2>4, <2>5 DEF DropLock
    <2> QED BY <1>2, <2>1, <2>2, <2>3, <2>4, <2>5 DEF Next, vars, SetSubscription
  <1>3. IInv /\ AllInOrder /\ [Next]_vars => AllInOrder'
    BY <1>2
  <1>4. AllInOrder => AcceptedIsAnswered
    BY DEF AllInOrder
  <1> QED BY <1>1, <1>3, <1>4, Invariance, PTL DEF Spec

----------------------------------------------------------------------------
\* A message that is answered for good.

\* A call at the message finds the marker and goes on to the unlock.
Answered(m) ==
    /\ m \in markers /\ Running(m) = {}
    /\ \A d \in At(m) : calls[d].stage \in {"looking", "unlocking"}

\* No step takes up an answered message again.
LEMMA AnsweredStays ==
    ASSUME IInv, [Next]_vars, NEW m \in Known, Answered(m) PROVE Answered(m)'
  <1>1. calls \in [Calls -> Call] /\ m \in Messages
    BY BatchAssumption DEF IInv, CallsOK
  <1>2. \A d \in Calls :
            /\ m \notin calls[d].work
            /\ calls[d].stage \in Holding /\ Current(d) = m
                 => calls[d].stage \in {"looking", "unlocking"}
    BY DEF Answered, Running, At
  <1>3. ASSUME markers \subseteq markers',
               \A e \in Calls :
                  \/ calls'[e] = calls[e]
                  \/ /\ m \notin calls'[e].work
                     /\ calls'[e].stage \in Holding
                          => calls'[e].stage \in {"looking", "unlocking"} \/ Current(e)' # m
        PROVE  Answered(m)'
    <2>1. ASSUME NEW e \in Calls
          PROVE  /\ m \notin calls'[e].work
                 /\ calls'[e].stage \in Holding /\ Current(e)' = m
                      => calls'[e].stage \in {"looking", "unlocking"}
      BY <1>2, <1>3 DEF Current
    <2>2. "recording" \in Holding
      BY DEF Holding, Stages
    <2>3. Running(m)' = {}
      BY <2>1, <2>2 DEF Running
    <2>4. \A d \in At(m)' : calls'[d].stage \in {"looking", "unlocking"}
      BY <2>1 DEF At
    <2> QED BY <1>3, <2>3, <2>4 DEF Answered
  <1>4. ASSUME NEW d \in Calls, NEW s, GoTo(d, s), markers' = markers, s \in Stages,
               s \in {"looking", "unlocking", "locking", "committing"} \/ Current(d) # m
        PROVE  Answered(m)'
    <2>1. calls' = [calls EXCEPT ![d] = [calls[d] EXCEPT !.stage = s]] /\ calls[d] \in Call
      BY <1>1, <1>4 DEF GoTo
    <2>2. /\ calls'[d].stage = s /\ calls'[d].batch = calls[d].batch
          /\ calls'[d].at = calls[d].at /\ calls'[d].work = calls[d].work
          /\ \A e \in Calls : e # d => calls'[e] = calls[e]
      BY <1>1, <1>4, <2>1, CallRecords
    <2> QED BY <1>2, <1>3, <1>4, <2>2 DEF Current, Holding
  <1>5. ASSUME NEW d \in Calls, NEW c, calls' = [calls EXCEPT ![d] = c],
               markers \subseteq markers', m \notin c.work,
               c.stage \in Holding => c.batch[c.at] # m \/ c.stage \in {"looking", "unlocking"}
        PROVE  Answered(m)'
    BY <1>1, <1>3, <1>5 DEF Current
  <1>6. ASSUME NEW d \in Calls, Work(d) PROVE Answered(m)'
    <2>1. CASE Lock(d)
      BY <1>4, <2>1 DEF Lock, Stages
    <2>2. CASE LookUp(d)
      <3>1. CASE Current(d) = m
        BY <1>4, <2>2, <3>1 DEF LookUp, Stages, Answered, IInv, MarkerIsHonest
      <3>2. CASE Current(d) # m
        <4>1. PICK s \in {"unlocking", "claiming", "answering"} : GoTo(d, s)
          BY <2>2 DEF LookUp
        <4> QED BY <1>4, <2>2, <3>2, <4>1 DEF LookUp, Stages
      <3> QED BY <3>1, <3>2
    <2>3. CASE Claim(d)
      <3>1. calls[d].stage \in Holding /\ "answering" \in Stages /\ calls[d].stage = "claiming"
        BY <2>3 DEF Claim, Holding, Stages
      <3>2. Current(d) # m
        BY <1>2, <3>1
      <3>3. /\ calls' = [calls EXCEPT ![d] = Clean(calls[d], "answering")]
            /\ markers \subseteq markers'
        BY <1>1, <2>3 DEF Claim, Commit
      <3>4. /\ Clean(calls[d], "answering").work = {}
            /\ Clean(calls[d], "answering").batch = calls[d].batch
            /\ Clean(calls[d], "answering").at = calls[d].at
        BY <1>1, <3>1, CallRecords
      <3> QED BY <1>5, <3>2, <3>3, <3>4 DEF Current
    <2>4. CASE LoseRace(d)
      <3>1. /\ calls' = [calls EXCEPT ![d] = Clean(calls[d], "unlocking")]
            /\ markers' = markers /\ "unlocking" \in Stages
        BY <1>1, <2>4 DEF LoseRace, Stages
      <3>2. /\ Clean(calls[d], "unlocking").work = {}
            /\ Clean(calls[d], "unlocking").stage = "unlocking"
        BY <1>1, <3>1, CallRecords
      <3> QED BY <1>5, <3>1, <3>2
    <2>5. CASE PassOver(d) \/ Record(d)
      BY <1>4, <2>5 DEF PassOver, Record, Stages
    <2>6. ASSUME NEW writes \in BOOLEAN, Answer(d, writes) PROVE Answered(m)'
      <3>1. Current(d) # m
        BY <1>2, <2>6 DEF Answer, Holding, Stages
      <3>2. /\ calls'[d].batch = calls[d].batch /\ calls'[d].at = calls[d].at
            /\ calls'[d].work = calls[d].work \cup {Current(d)} /\ markers' = markers
            /\ \A e \in Calls : e # d => calls'[e] = calls[e]
        BY <1>1, <2>6 DEF Answer, Call
      <3> QED BY <1>2, <1>3, <3>1, <3>2 DEF Current
    <2>7. CASE Unlock(d)
      <3>1. CASE calls[d].at < Len(calls[d].batch)
        <4>1. calls' = [calls EXCEPT ![d] = [calls[d] EXCEPT !.stage = "locking",
                                                             !.at = calls[d].at + 1]]
              /\ markers' = markers
          BY <1>1, <2>7, <3>1 DEF Unlock
        <4>2. /\ calls'[d].stage = "locking" /\ calls'[d].work = calls[d].work
              /\ \A e \in Calls : e # d => calls'[e] = calls[e]
          BY <1>1, <4>1 DEF Call
        <4> QED BY <1>2, <1>3, <4>1, <4>2 DEF Holding
      <3>2. CASE ~(calls[d].at < Len(calls[d].batch))
        BY <1>4, <2>7, <3>2 DEF Unlock, Stages
      <3> QED BY <3>1, <3>2
    <2>8. CASE UnlockFails(d) \/ Respond(d)
      <3>1. calls' = [calls EXCEPT ![d] = Ended] /\ markers \subseteq markers'
        BY <2>8 DEF UnlockFails, Respond, Commit
      <3>2. m \notin Ended.work /\ Ended.stage \notin Holding
        BY DEF Ended, Holding, Stages
      <3> QED BY <1>5, <3>1, <3>2
    <2> QED BY <1>6, <2>1, <2>2, <2>3, <2>4, <2>5, <2>6, <2>7, <2>8 DEF Work
  <1>7. ASSUME NEW d \in Calls, NEW writes \in BOOLEAN, AnswerUnsent(d, writes)
        PROVE  Answered(m)'
    <2>1. Current(d) # m
      BY <1>2, <1>7 DEF AnswerUnsent, Holding, Stages
    <2>2. /\ calls'[d].batch = calls[d].batch /\ calls'[d].at = calls[d].at
          /\ calls'[d].work = calls[d].work \cup {Current(d)} /\ markers' = markers
          /\ \A e \in Calls : e # d => calls'[e] = calls[e]
      BY <1>1, <1>7 DEF AnswerUnsent, Call
    <2> QED BY <1>2, <1>3, <2>1, <2>2 DEF Current
  <1>8. ASSUME NEW d \in Calls, RespondLate(d) PROVE Answered(m)'
    <2>1. calls' = [calls EXCEPT ![d] = Ended] /\ markers \subseteq markers'
      BY <1>8 DEF RespondLate, Commit
    <2>2. m \notin Ended.work /\ Ended.stage \notin Holding
      BY DEF Ended, Holding, Stages
    <2> QED BY <1>5, <2>1, <2>2
  <1>9. ASSUME NEW d \in Calls, NEW b \in Batches, Deliver(d, b) PROVE Answered(m)'
    <2> DEFINE c == [Ended EXCEPT !.stage = "locking", !.batch = b, !.at = 1]
    <2>1. c.stage = "locking" /\ c.work = {}
      BY DEF Ended
    <2>2. calls' = [calls EXCEPT ![d] = c] /\ markers' = markers
      BY <1>9 DEF Deliver
    <2>3. c.stage \notin Holding
      BY <2>1 DEF Holding
    <2> HIDE DEF c
    <2> QED BY <1>5, <2>1, <2>2, <2>3
  <1>10. ASSUME NEW ds \in SUBSET Calls \ {{}}, Crash(ds) PROVE Answered(m)'
    <2>1. /\ calls' = [d \in Calls |-> IF d \in ds THEN Ended ELSE calls[d]]
          /\ markers' = markers
      BY <1>10 DEF Crash
    <2>2. Ended.stage \notin Holding /\ Ended.work = {}
      BY DEF Ended, Holding, Stages
    <2> QED BY <1>3, <2>1, <2>2
  <1>11. CASE UNCHANGED <<calls, markers>>
    BY <1>3, <1>11
  <1>12. ASSUME NEW n \in Messages, DropLock(n) PROVE Answered(m)'
    BY <1>11, <1>12 DEF DropLock
  <1> QED
    BY <1>6, <1>7, <1>8, <1>9, <1>10, <1>11, <1>12 DEF Next, vars, SetSubscription

\* Once a message is answered and nothing of it is under way, no redelivery runs
\* it again, whatever crashes, drops or fails.
THEOREM AnsweredForGood == Spec => AnsweredStaysAnswered
  <1>1. ASSUME NEW m \in Known PROVE Spec => [](Settled(m) => [](Running(m) = {}))
    <2>1. Settled(m) => Answered(m)
      BY DEF Settled, Answered
    <2>2. Answered(m) => Running(m) = {}
      BY DEF Answered
    <2>3. IInv /\ Answered(m) /\ [Next]_vars => Answered(m)'
      BY AnsweredStays
    <2> QED BY <2>1, <2>2, <2>3, Invariance, PTL DEF Spec
  <1> QED BY <1>1 DEF AnsweredStaysAnswered
=============================================================================
