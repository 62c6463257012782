---------------------------- MODULE StaleDigest -----------------------------
(***************************************************************************)
(* The founder's digest of companies without fresh data                    *)
(* (services/notifications.py, once per scheduler tick): companies past    *)
(* their briefing hour and stale are listed once a day each, in one        *)
(* message, and at most one message goes out per interval whatever the     *)
(* companies are.  The day is cut into slots.                              *)
(***************************************************************************)
EXTENDS Naturals, FiniteSets

CONSTANTS Companies,
          BriefingSlot, \* [company -> slot from which it may be listed]
          Slots,        \* slots of a day
          Interval      \* _STALE_DIGEST_MIN_INTERVAL_HOURS, in slots

VARIABLES slot,      \* slot of the day
          stale,     \* companies without a recent import
          listed,    \* companies with a digest mark of today
          sinceMark, \* slots since the last committed mark, at most Interval
          sending,   \* the digest sent and not yet committed
          sinceDigest, \* history: slots since the founder got a digest
          lostMark   \* history: the marks of that digest were lost

vars == <<slot, stale, listed, sinceMark, sending, sinceDigest, lostMark>>

Init == /\ slot = 0
        /\ stale = {}
        /\ listed = {}
        /\ sinceMark = Interval
        /\ sending = {}
        /\ sinceDigest = Interval
        /\ lostMark = FALSE

(* _detect_stale_companies *)
Detected == {c \in stale \ listed : slot >= BriefingSlot[c]}

(* A mutant of TooSoon: only the marks of today count. *)
TooSoonToday == sinceMark < Interval /\ listed # {}

(* _stale_digest_sent_within *)
TooSoon == sinceMark < Interval

(* One message for all; refused or sent, the marks are written.            *)
Send(arrives) == /\ sending = {} /\ Detected # {}
                 /\ ~TooSoon
                 /\ sending' = Detected
                 /\ sinceDigest' = IF arrives THEN 0 ELSE sinceDigest
                 /\ lostMark' = (lostMark /\ ~arrives)
                 /\ UNCHANGED <<slot, stale, listed, sinceMark>>

Commit == /\ sending # {}
          /\ listed' = listed \cup sending
          /\ sinceMark' = 0
          /\ sending' = {}
          /\ UNCHANGED <<slot, stale, sinceDigest, lostMark>>

Crash == /\ sending # {}
         /\ sending' = {}
         /\ lostMark' = TRUE
         /\ UNCHANGED <<slot, stale, listed, sinceMark, sinceDigest>>

Older(age) == IF age < Interval THEN age + 1 ELSE age

(* Time passes between ticks; at midnight the marks are yesterday's.       *)
NextSlot == /\ sending = {}
            /\ slot' = (slot + 1) % Slots
            /\ listed' = IF slot' = 0 THEN {} ELSE listed
            /\ sinceMark' = Older(sinceMark)
            /\ sinceDigest' = Older(sinceDigest)
            /\ UNCHANGED <<stale, sending, lostMark>>

DataArrives(c) == /\ stale' = stale \ {c}
                  /\ UNCHANGED <<slot, listed, sinceMark, sending, sinceDigest, lostMark>>

GoesStale(c) == /\ stale' = stale \cup {c}
                /\ UNCHANGED <<slot, listed, sinceMark, sending, sinceDigest, lostMark>>

Next == \/ Commit \/ Crash \/ NextSlot
        \/ \E arrives \in BOOLEAN : Send(arrives)
        \/ \E c \in Companies : DataArrives(c) \/ GoesStale(c)

Spec == Init /\ [][Next]_vars

(* Time passes.  The scheduler ticks every few minutes and does not die    *)
(* for ever before its commit: a company that can be listed again and      *)
(* again, with no digest too close, is sent and committed in the end.      *)
SendFor(c) == c \in Detected /\ \E arrives \in BOOLEAN : Send(arrives)
CommitFor(c) == c \in sending /\ Commit
FairSpec == /\ Spec
            /\ WF_vars(NextSlot)
            /\ \A c \in Companies : SF_vars(SendFor(c)) /\ SF_vars(CommitFor(c))

-----------------------------------------------------------------------------
(* Types of the variables. *)
TypeOK == /\ slot \in 0..(Slots - 1)
          /\ stale \subseteq Companies /\ listed \subseteq Companies
          /\ sending \subseteq Companies
          /\ sinceMark \in 0..Interval /\ sinceDigest \in 0..Interval
          /\ lostMark \in BOOLEAN

(* "The founder can receive at most one stale digest per interval", across *)
(* midnight and whatever batch of companies goes stale, except for one     *)
(* whose marks a crash took.                                               *)
OneDigestPerInterval ==
  [][sending = {} /\ sending' # {} /\ sinceDigest' = 0 /\ sinceDigest < Interval => lostMark]_vars

(* "These companies are simply reported in the next interval's digest, so  *)
(* nothing is lost": a company that stays stale is listed again and again. *)
NothingIsLost == \A c \in Companies : <>[](c \in stale) => []<>(c \in listed)

=============================================================================
