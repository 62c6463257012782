---------------------------- MODULE DailyDispatch ----------------------------
(***************************************************************************)
(* The scheduled messages of one company on one business day: the morning  *)
(* briefing, which an LLM chain narrates, and the evening brief.           *)
(*                                                                         *)
(* app/core/scheduler.py::_dispatch_for_company runs at every tick, of the *)
(* in-process poller or of the external cron, under a try-lock on a        *)
(* connection of its own.  The same rows are written, without that lock,   *)
(* by the admin API (a preview of the briefing, the evening brief sent by  *)
(* hand) and by a founder who asks for the briefing.  So each message is   *)
(* guarded by its row: morning_briefings is unique per company and day and *)
(* carries a delivery claim, daily_business_snapshots carries the other.   *)
(*                                                                         *)
(* A session's writes are visible when it commits; a write of a row waits  *)
(* for the session that has an uncommitted write of it.  The follow-up and *)
(* the notification rules of the same tick are in Conversation.            *)
(***************************************************************************)
EXTENDS Naturals

CONSTANTS
    Sessions,       \* bound: database sessions at work at once
    None,           \* SQL NULL, no row, no holder, no alert
    BriefingHour, RetryHour, EveningHour,
    LastHour,       \* bound: the day's hours are 0 .. LastHour
    MaxFaults       \* bound: crashes and dropped connections of the tick's lock, together

ASSUME HoursAssumption ==
    /\ {BriefingHour, RetryHour, EveningHour} \subseteq 0 .. LastHour
    /\ LastHour \in Nat /\ MaxFaults \in Nat

VARIABLES
    hour,           \* the company's local hour
    briefing,       \* the committed row of morning_briefings, or None
    evening,        \* the committed evening brief: claimed (delivered_at) and logged
    alerts,         \* committed founder_alert_sent events of the day, by reason
    tickLock,       \* the session holding the advisory lock of a tick
    briefingLock,   \* the session with an uncommitted write of the briefing's row
    eveningLock,    \* ... of the snapshot's row
    sessions,       \* session -> what it is doing
    pushed,         \* briefings WhatsApp took from a tick
    refused,        \* pushes WhatsApp refused, up to two
    evenings,       \* evening briefs WhatsApp took
    alerted,        \* reason -> alerts sent to the operator
    crashes, drops  \* how many of each there were

rows     == <<briefing, evening, alerts>>
locks    == <<tickLock, briefingLock, eveningLock>>
outside  == <<pushed, refused, evenings, alerted>>
faults   == <<crashes, drops>>
vars     == <<hour, rows, locks, sessions, outside, faults>>

Reasons == {"briefing_failed", "evening_brief_failed"}
Statuses == {None, "failed_to_send", "sent"}
Row == [status : Statuses, claimed : BOOLEAN]
NewRow == [status |-> None, claimed |-> FALSE]

\* seen is the row a session has read and row the one it will commit; a retry
\* is a push of a briefing an earlier push of which has failed.
Kinds == {"tick", "preview", "asked", "evening_now"}
Stages == {"reading", "inserting", "generating", "claiming", "pushing", "recording",
           "replying", "marking", "evening", "upserting", "sending", "logging",
           "checking", "alerting"}

ASSUME NoneAssumption ==
    None \notin Sessions \cup Kinds \cup Stages \cup Reasons \cup Row \cup {"sent", "failed_to_send"}

Done == [kind |-> None, stage |-> None, hour |-> 0, seen |-> None, row |-> None,
         retry |-> FALSE, sent |-> FALSE, alert |-> None]

Session == [kind : Kinds \cup {None}, stage : Stages \cup {None}, hour : 0 .. LastHour,
            seen : Row \cup {None}, row : Row \cup {None}, retry : BOOLEAN, sent : BOOLEAN,
            alert : Reasons \cup {None}]

TypeOK ==
    /\ hour \in 0 .. LastHour
    /\ briefing \in Row \cup {None}
    /\ evening \in [claimed : BOOLEAN, logged : BOOLEAN]
    /\ alerts \subseteq Reasons
    /\ {tickLock, briefingLock, eveningLock} \subseteq Sessions \cup {None}
    /\ sessions \in [Sessions -> Session]
    /\ \A s \in Sessions : /\ (sessions[s].kind = None) = (sessions[s].stage = None)
                           /\ sessions[s].stage = "alerting" => sessions[s].alert # None
    /\ pushed \in Nat /\ refused \in 0 .. 2 /\ evenings \in Nat
    /\ alerted \in [Reasons -> Nat]
    /\ crashes \in Nat /\ drops \in Nat /\ crashes + drops <= MaxFaults

Init ==
    /\ hour = 0 /\ briefing = None
    /\ evening = [claimed |-> FALSE, logged |-> FALSE] /\ alerts = {}
    /\ tickLock = None /\ briefingLock = None /\ eveningLock = None
    /\ sessions = [s \in Sessions |-> Done]
    /\ pushed = 0 /\ refused = 0 /\ evenings = 0
    /\ alerted = [r \in Reasons |-> 0]
    /\ crashes = 0 /\ drops = 0

----------------------------------------------------------------------------
At(s, stage) == sessions[s].stage = stage
Kind(s) == sessions[s].kind
GoTo(s, stage) == sessions' = [sessions EXCEPT ![s].stage = stage]
Finish(s) == sessions' = [sessions EXCEPT ![s] = Done]
Free(holder, s) == IF holder = s THEN None ELSE holder

\* The end of a dispatch, or of send_evening_brief_now.
Leave(s) == /\ Finish(s)
            /\ tickLock' = Free(tickLock, s)

\* The briefing's branch of a dispatch is over.
ToEvening(s) ==
    sessions' = [sessions EXCEPT ![s] = [Done EXCEPT !.kind = "tick", !.hour = sessions[s].hour,
                                                     !.stage = "evening"]]

\* A session whose connection is closed, in the end or too soon.
Release(s) == /\ tickLock' = Free(tickLock, s)
              /\ briefingLock' = Free(briefingLock, s)
              /\ eveningLock' = Free(eveningLock, s)

Begin(s, kind, stage, at) ==
    sessions' = [sessions EXCEPT ![s] = [Done EXCEPT !.kind = kind, !.stage = stage,
                                                     !.hour = at]]

\* run_scheduled_tick takes the lock or skips; _dispatch_for_company takes
\* the hour.
StartTick(s) ==
    /\ sessions[s] = Done /\ tickLock = None
    /\ tickLock' = s
    /\ Begin(s, "tick", IF hour >= BriefingHour THEN "reading" ELSE "evening", hour)
    /\ UNCHANGED <<hour, rows, briefingLock, eveningLock, outside, faults>>

\* The admin API's POST /briefing and POST /evening-brief/send, and the
\* founder's "my briefing".
StartOther(s) ==
    /\ sessions[s] = Done
    /\ \/ Begin(s, "preview", "inserting", 0)
       \/ Begin(s, "asked", "reading", 0)
       \/ Begin(s, "evening_now", "evening", 0)
    /\ UNCHANGED <<hour, rows, locks, outside, faults>>

----------------------------------------------------------------------------
\* The morning briefing.

\* A mutant of Due: a failed briefing is given up.
DueOnce(s, row) == row.status = None

\* Is a row a tick has read to be pushed: never delivered, or failed and the
\* retry hour has come.
Due(s, row) == \/ row.status = None
               \/ row.status = "failed_to_send" /\ sessions[s].hour >= RetryHour

\* latest_briefing_today, and what a tick and _morning_briefing_reply make of
\* it.
ReadBriefing(s) ==
    /\ At(s, "reading")
    /\ IF briefing # None /\ Kind(s) = "tick" /\ ~Due(s, briefing)
       THEN ToEvening(s)
       ELSE sessions' = [sessions EXCEPT
               ![s].seen = briefing,
               ![s].retry = briefing # None /\ briefing.status = "failed_to_send",
               ![s].stage = IF briefing = None THEN "inserting"
                            ELSE IF Kind(s) = "tick" THEN "claiming" ELSE "replying"]
    /\ UNCHANGED <<hour, rows, locks, outside, faults>>

\* generate_briefing claims the day: the placeholder is inserted first.  It
\* waits for another session's uncommitted one.
Insert(s) ==
    /\ At(s, "inserting") /\ briefingLock = None /\ briefing = None
    /\ briefingLock' = s
    /\ GoTo(s, "generating")
    /\ UNCHANGED <<hour, rows, tickLock, eveningLock, outside, faults>>

\* IntegrityError: a tick goes on to deliver the winner's row, a preview shows it.
\* A founder's message fails: the rollback has expired its inbound event, so
\* the reply cannot be logged, and the redelivery is another request.
LoseRace(s) ==
    /\ At(s, "inserting") /\ briefingLock = None /\ briefing # None
    /\ IF Kind(s) = "tick"
       THEN sessions' = [sessions EXCEPT ![s].seen = briefing, ![s].stage = "claiming"]
       ELSE Finish(s)
    /\ UNCHANGED <<hour, rows, locks, outside, faults>>

\* The narration is there and the row is committed.
Generate(s) ==
    /\ At(s, "generating")
    /\ briefing' = NewRow
    /\ briefingLock' = None
    /\ sessions' = [sessions EXCEPT
          ![s] = CASE Kind(s) = "tick"    -> [@ EXCEPT !.seen = NewRow, !.stage = "claiming"]
                   [] Kind(s) = "asked"   -> [@ EXCEPT !.seen = NewRow, !.stage = "replying"]
                   [] Kind(s) = "preview" -> Done]
    /\ UNCHANGED <<hour, evening, alerts, tickLock, eveningLock, outside, faults>>

\* Every provider fails: the claim is rolled back.  The rollback expires the
\* company the tick has loaded, so notify_briefing_generation_failed raises
\* on company.id and the company's dispatch is over.
GenerateFails(s) ==
    /\ At(s, "generating")
    /\ Release(s)
    /\ Finish(s)
    /\ UNCHANGED <<hour, rows, outside, faults>>

\* A mutant of ClaimDelivery: the status is looked at, not the claim.
ClaimUnclaimed(s) ==
    /\ At(s, "claiming") /\ briefingLock = None
    /\ IF sessions[s].seen.status = "sent"
       THEN ToEvening(s) /\ UNCHANGED briefingLock
       ELSE briefingLock' = s /\ GoTo(s, "pushing")
    /\ UNCHANGED <<hour, rows, tickLock, eveningLock, outside, faults>>

\* _deliver_briefing: UPDATE ... WHERE delivery_claimed_at IS NULL.  A lost
\* claim counts as delivered if the row by now says so.
ClaimDelivery(s) ==
    /\ At(s, "claiming") /\ briefingLock = None
    /\ IF ~briefing.claimed
       THEN briefingLock' = s /\ GoTo(s, "pushing")
       ELSE /\ UNCHANGED briefingLock
            /\ IF briefing.status # "sent" /\ sessions[s].retry
               THEN sessions' = [sessions EXCEPT ![s].alert = "briefing_failed",
                                                 ![s].stage = "alerting"]
               ELSE ToEvening(s)
    /\ UNCHANGED <<hour, rows, tickLock, eveningLock, outside, faults>>

\* A status is written only if it differs from the one the session has read.
FailedStatus(s) == IF sessions[s].seen.status = "failed_to_send"
                   THEN briefing.status ELSE "failed_to_send"

\* WhatsApp takes the briefing.
Push(s) ==
    /\ At(s, "pushing")
    /\ pushed' = pushed + 1
    /\ sessions' = [sessions EXCEPT ![s].row = [status |-> "sent", claimed |-> TRUE],
                                    ![s].sent = TRUE, ![s].stage = "recording"]
    /\ UNCHANGED <<hour, rows, locks, refused, evenings, alerted, faults>>

\* A mutant of PushFails: the claim is not given back.
PushFailsClaimed(s) ==
    /\ At(s, "pushing")
    /\ refused' = IF refused < 2 THEN refused + 1 ELSE 2
    /\ sessions' = [sessions EXCEPT
          ![s].row = [status |-> FailedStatus(s), claimed |-> TRUE],
          ![s].alert = IF sessions[s].retry THEN "briefing_failed" ELSE None,
          ![s].stage = IF sessions[s].retry THEN "alerting" ELSE "recording"]
    /\ UNCHANGED <<hour, rows, locks, pushed, evenings, alerted, faults>>

\* WhatsApp does not: the claim is given back, and a retry alerts.
PushFails(s) ==
    /\ At(s, "pushing")
    /\ refused' = IF refused < 2 THEN refused + 1 ELSE 2
    /\ sessions' = [sessions EXCEPT
          ![s].row = [status |-> FailedStatus(s), claimed |-> FALSE],
          ![s].alert = IF sessions[s].retry THEN "briefing_failed" ELSE None,
          ![s].stage = IF sessions[s].retry THEN "alerting" ELSE "recording"]
    /\ UNCHANGED <<hour, rows, locks, pushed, evenings, alerted, faults>>

\* The commit of what the branch has written; the evening's is the last.
Record(s) ==
    /\ At(s, "recording")
    /\ briefing' = IF sessions[s].row = None THEN briefing ELSE sessions[s].row
    /\ alerts' = alerts \cup ({sessions[s].alert} \ {None})
    /\ briefingLock' = Free(briefingLock, s)
    /\ IF sessions[s].alert = "evening_brief_failed"
       THEN Leave(s)
       ELSE ToEvening(s) /\ UNCHANGED tickLock
    /\ UNCHANGED <<hour, evening, eveningLock, outside, faults>>

\* _morning_briefing_reply sets the status, then the webhook sends the text.
Reply(s) ==
    /\ At(s, "replying")
    /\ \E sent \in BOOLEAN :
          sessions' = [sessions EXCEPT ![s].sent = sent, ![s].stage = "marking"]
    /\ UNCHANGED <<hour, rows, locks, outside, faults>>

\* The webhook's flush and commit write the status, unless it was read as sent.
Mark(s) ==
    /\ At(s, "marking")
    /\ IF sessions[s].seen.status = "sent"
       THEN UNCHANGED briefing
       ELSE briefingLock = None /\ briefing' = [briefing EXCEPT !.status = "sent"]
    /\ Finish(s)
    /\ UNCHANGED <<hour, evening, alerts, locks, outside, faults>>

----------------------------------------------------------------------------
\* The evening brief.

\* evening_brief_delivered_today
CheckEvening(s) ==
    /\ At(s, "evening")
    /\ IF (Kind(s) = "tick" /\ sessions[s].hour < EveningHour) \/ evening.logged
       THEN Leave(s)
       ELSE GoTo(s, "upserting") /\ UNCHANGED tickLock
    /\ UNCHANGED <<hour, rows, briefingLock, eveningLock, outside, faults>>

\* finalize_daily_snapshot upserts the row, then UPDATE ... WHERE delivered_at
\* IS NULL claims it.
UpsertSnapshot(s) ==
    /\ At(s, "upserting") /\ eveningLock = None
    /\ IF evening.claimed
       THEN UNCHANGED eveningLock /\ GoTo(s, "checking")
       ELSE eveningLock' = s /\ GoTo(s, "sending")
    /\ UNCHANGED <<hour, rows, tickLock, briefingLock, outside, faults>>

SendEvening(s) ==
    /\ At(s, "sending")
    /\ evenings' = evenings + 1
    /\ sessions' = [sessions EXCEPT ![s].sent = TRUE, ![s].stage = "logging"]
    /\ UNCHANGED <<hour, rows, locks, pushed, refused, alerted, faults>>

SendEveningFails(s) ==
    /\ At(s, "sending")
    /\ GoTo(s, "logging")
    /\ UNCHANGED <<hour, rows, locks, outside, faults>>

\* The commit: claim and log, or neither.
LogEvening(s) ==
    /\ At(s, "logging")
    /\ evening' = [claimed |-> sessions[s].sent, logged |-> evening.logged \/ sessions[s].sent]
    /\ eveningLock' = None
    /\ sessions' = [sessions EXCEPT ![s].sent = FALSE, ![s].stage = "checking"]
    /\ UNCHANGED <<hour, briefing, alerts, tickLock, briefingLock, outside, faults>>

\* A mutant of CheckAgain: the alert is given no reason.
CheckAgainUnnamed(s) ==
    /\ At(s, "checking")
    /\ IF Kind(s) = "tick" /\ ~evening.logged /\ sessions[s].hour >= EveningHour + 1
       THEN GoTo(s, "alerting") /\ UNCHANGED tickLock
       ELSE Leave(s)
    /\ UNCHANGED <<hour, rows, briefingLock, eveningLock, outside, faults>>

\* A tick whose brief is not delivered an hour after its time alerts.
CheckAgain(s) ==
    /\ At(s, "checking")
    /\ IF Kind(s) = "tick" /\ ~evening.logged /\ sessions[s].hour >= EveningHour + 1
       THEN /\ sessions' = [sessions EXCEPT ![s].alert = "evening_brief_failed",
                                            ![s].stage = "alerting"]
            /\ UNCHANGED tickLock
       ELSE Leave(s)
    /\ UNCHANGED <<hour, rows, briefingLock, eveningLock, outside, faults>>

----------------------------------------------------------------------------
\* notify_briefing_failed and notify_evening_brief_failed: once a day.

\* The alert is recorded whether or not WhatsApp takes it.
SendAlert(s) ==
    /\ At(s, "alerting")
    /\ IF sessions[s].alert \notin alerts
       THEN /\ alerted' = [alerted EXCEPT ![sessions[s].alert] = @ + 1]
            /\ GoTo(s, "recording") /\ UNCHANGED tickLock
       ELSE /\ IF sessions[s].alert = "evening_brief_failed"
               THEN Leave(s)
               ELSE /\ sessions' = [sessions EXCEPT ![s].alert = None, ![s].stage = "recording"]
                    /\ UNCHANGED tickLock
            /\ UNCHANGED alerted
    /\ UNCHANGED <<hour, rows, briefingLock, eveningLock, pushed, refused, evenings,
                   faults>>

----------------------------------------------------------------------------
\* The clock, and what goes wrong outside.

TickHour ==
    /\ hour < LastHour
    /\ hour' = hour + 1
    /\ UNCHANGED <<rows, locks, sessions, outside, faults>>

\* The process of a session is gone: nothing it has not committed is kept.
Crash(s) ==
    /\ crashes + drops < MaxFaults /\ sessions[s] # Done
    /\ crashes' = crashes + 1
    /\ Release(s) /\ Finish(s)
    /\ UNCHANGED <<hour, rows, outside, drops>>

\* The lock's own connection is dropped while the tick goes on.
DropTickLock ==
    /\ crashes + drops < MaxFaults /\ tickLock # None
    /\ drops' = drops + 1
    /\ tickLock' = None
    /\ UNCHANGED <<hour, rows, briefingLock, eveningLock, sessions, outside, crashes>>

Work(s) ==
    \/ ReadBriefing(s) \/ Insert(s) \/ LoseRace(s) \/ Generate(s) \/ GenerateFails(s)
    \/ ClaimDelivery(s) \/ Push(s) \/ PushFails(s) \/ Record(s) \/ Reply(s) \/ Mark(s)
    \/ CheckEvening(s) \/ UpsertSnapshot(s) \/ SendEvening(s) \/ SendEveningFails(s)
    \/ LogEvening(s) \/ CheckAgain(s) \/ SendAlert(s)

Next ==
    \/ \E s \in Sessions : StartTick(s) \/ StartOther(s) \/ Work(s) \/ Crash(s)
    \/ TickHour
    \/ DropTickLock

Spec == Init /\ [][Next]_vars

\* Time passes; the poller gets the lock, as nobody keeps it; a session goes on,
\* and PostgreSQL grants a row to each that waits; and no outage of the language
\* models or of WhatsApp outlasts every attempt (each of the three succeeds a
\* bounded number of times, so one conjunct says it of each).
Fairness ==
    /\ WF_vars(TickHour)
    /\ SF_vars(\E s \in Sessions : StartTick(s))
    /\ \A s \in Sessions : SF_vars(Work(s))
    /\ SF_vars(\E s \in Sessions : Generate(s) \/ Push(s) \/ SendEvening(s))

FairSpec == Spec /\ Fairness

----------------------------------------------------------------------------
\* Properties.

\* However ticks overlap, and whoever else writes the row, WhatsApp takes one
\* briefing from the scheduler a day, and one more for each crash between a
\* send and its commit (_deliver_briefing, and the order of _dispatch_for_company).
OneBriefingPushed == pushed <= 1 + crashes

\* The same of the evening brief, which three callers may send (the three
\* briefs of one evening that send_evening_brief describes).
OneEveningBrief == evenings <= 1 + crashes

\* The operator hears of an undelivered message once a day, though every tick
\* finds it undelivered.  The evening brief's alert has no row that orders two
\* ticks, so there the tick's lock counts (notify_evening_brief_failed).
AlertsOncePerDay ==
    /\ alerted["briefing_failed"] <= 1 + crashes
    /\ alerted["evening_brief_failed"] <= 1 + crashes + drops

\* notify_briefing_failed is for a briefing that "has already failed once and
\* its retry failed too": two pushes were refused.
AlertMeansTwoFailures == alerted["briefing_failed"] > 0 => refused = 2

\* Nothing is sent twice, and the operator is told once, however ticks overlap
\* and whatever fails in one of them.
NothingTwice == OneBriefingPushed /\ OneEveningBrief /\ AlertsOncePerDay /\ AlertMeansTwoFailures

\* No claim outlives its attempt: what is claimed was sent, so a failure, a
\* crash or a lost race never keeps a later tick from trying again.
ClaimsAreSettled ==
    /\ briefing # None /\ briefing.claimed => briefing.status = "sent"
    /\ evening.claimed <=> evening.logged

\* A briefing that cannot be generated holds the day for nobody: the row that
\* claims it is gone again, until one is generated and marked as sent.
BriefingIsSettled == <>[](briefing # None /\ briefing.status = "sent")

\* The evening brief goes out, whatever failed before.
EveningGoesOut == <>(evenings > 0 /\ evening.logged)

\* So the day's two messages go out in the end, with none but the fairness above.
DayIsServed == BriefingIsSettled /\ EveningGoesOut

\* notifications.py of notify_briefing_generation_failed: "Without this, a broken
\* LLM chain silently produces zero briefings, zero retries ... and zero visibility":
\* a tick that fails to generate leaves the day's alert behind.
UnwrittenIsAlerted ==
    [][\A s \in Sessions : GenerateFails(s) /\ Kind(s) = "tick"
                            => "briefing_failed" \in alerts']_vars
=============================================================================
