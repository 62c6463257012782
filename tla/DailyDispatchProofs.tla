-------------------------- MODULE DailyDispatchProofs --------------------------
(***************************************************************************)
(* The day's two messages, for any number of sessions, hours and faults.   *)
(*                                                                         *)
(* The stage of a session tells which row it has an uncommitted write of;  *)
(* what is written stays unknown to the others until it is committed; and  *)
(* every message that went out has been committed, is about to be, or was  *)
(* lost with a crash.                                                      *)
(***************************************************************************)
EXTENDS DailyDispatch, FiniteSetTheorems, TLAPS

\* What each kind of session does.
StagesOf(kind) ==
    CASE kind = "tick" -> Stages \ {"replying", "marking"}
      [] kind = "preview" -> {"inserting", "generating"}
      [] kind = "asked" -> {"reading", "inserting", "generating", "replying", "marking"}
      [] kind = "evening_now" -> {"evening", "upserting", "sending", "logging", "checking"}
      [] OTHER -> {None}

\* The session has an uncommitted write of the briefing's row, of the snapshot's.
WritesBriefing(x) == x.stage \in {"generating", "pushing"} \/ x.row # None
WritesEvening(x) == x.stage \in {"sending", "logging"}

\* The stages at which a session has a briefing it has read.
HasRead == {"claiming", "pushing", "replying", "marking"}

\* The stages at which it has something to tell or to commit.
Concludes == {"recording", "alerting"}

\* What a session holds besides its stage: a row it has read where it needs
\* one, the row or the alert it is going to commit, and never both a row of
\* the briefing and an alert about the evening.
Consistent(x) ==
    /\ x \in Session
    /\ x.kind = None => x = Done
    /\ x.stage \in StagesOf(x.kind)
    /\ x.stage \in HasRead => x.seen # None
    /\ x.stage \notin Concludes => x.row = None /\ x.alert = None
    /\ x.stage \in Concludes => (x.row = None <=> x.alert = "evening_brief_failed")
    /\ x.stage = "alerting" => x.alert # None /\ (x.row # None => ~x.row.claimed)
    /\ x.row # None /\ x.row.claimed => x.row.status = "sent"
    /\ x.sent => x.stage \in {"recording", "marking", "logging"}

\* A push is retried, or recorded as failed, only after one was refused, and
\* the operator is told of two.
Remembers(x, pushesRefused) ==
    /\ x.retry => pushesRefused >= 1
    /\ x.row # None /\ x.row.status = "failed_to_send" => pushesRefused >= 1
    /\ x.alert = "briefing_failed" => pushesRefused = 2

\* What the committed rows are while the session uses them.
FitsRows(x, b, e) ==
    /\ x.stage \in HasRead => b # None
    /\ x.stage = "generating" => b = None
    /\ x.stage = "pushing" \/ x.row # None => b # None /\ ~b.claimed
    /\ WritesEvening(x) => ~e.claimed

\* The locks are held by the sessions that write, the tick's by a tick.
HoldsLocks(s, x, tick, forBriefing, forEvening) ==
    /\ WritesBriefing(x) <=> forBriefing = s
    /\ WritesEvening(x) <=> forEvening = s
    /\ tick = s => x.kind = "tick"

Fits(s, x) == /\ Consistent(x) /\ Remembers(x, refused) /\ FitsRows(x, briefing, evening)
              /\ HoldsLocks(s, x, tickLock, briefingLock, eveningLock)

SessionsFit == \A s \in Sessions : Fits(s, sessions[s])

\* Types, of the rows and of the counters.
RowTypes ==
    /\ hour \in 0 .. LastHour
    /\ briefing \in Row \cup {None}
    /\ evening \in [claimed : BOOLEAN, logged : BOOLEAN]
    /\ alerts \subseteq Reasons
    /\ {tickLock, briefingLock, eveningLock} \subseteq Sessions \cup {None}
    /\ sessions \in [Sessions -> Session]
    /\ refused \in 0 .. 2

CountTypes == /\ pushed \in Nat /\ evenings \in Nat
              /\ alerted \in [Reasons -> Nat]
              /\ crashes \in Nat /\ drops \in Nat /\ crashes + drops <= MaxFaults

\* No claim without its message, no failure without a refusal.
BriefingIsSound(b, pushesRefused) ==
    b # None => /\ b.claimed => b.status = "sent"
                /\ b.status = "failed_to_send" => pushesRefused >= 1

RowsSound == BriefingIsSound(briefing, refused) /\ (evening.claimed <=> evening.logged)

\* Every push that was taken is claimed, about to be, or lost with a crash.
ClaimsPush(x) == x.row # None /\ x.row.claimed
PushIsKnown == \/ briefing # None /\ briefing.claimed
               \/ \E s \in Sessions : ClaimsPush(sessions[s])
PushesCovered == pushed <= crashes + (IF PushIsKnown THEN 1 ELSE 0)

\* The same of the evening brief.
ClaimsEvening(x) == x.stage = "logging" /\ x.sent
EveningIsKnown == evening.claimed \/ \E s \in Sessions : ClaimsEvening(sessions[s])
EveningsCovered == evenings <= crashes + (IF EveningIsKnown THEN 1 ELSE 0)

\* And of the alert about the briefing.
Told(x, reason) == x.stage = "recording" /\ x.alert = reason
AlertIsKnown == \/ "briefing_failed" \in alerts
                \/ \E s \in Sessions : Told(sessions[s], "briefing_failed")
AlertsCovered == /\ alerted["briefing_failed"] <= crashes + (IF AlertIsKnown THEN 1 ELSE 0)
                 /\ alerted["briefing_failed"] > 0 => refused = 2

\* Ticks without the tick's lock, each by a dropped connection; sessions that
\* have told of the evening and not committed it.
Strays == {s \in Sessions : sessions[s].kind = "tick" /\ tickLock # s}
Tellers == {s \in Sessions : Told(sessions[s], "evening_brief_failed")}

\* The evening's alerts are one for the lock and one for each fault.
EveningAlertsCovered ==
    /\ IsFiniteSet(Strays) /\ Cardinality(Strays) <= drops
    /\ "evening_brief_failed" \notin alerts
         => alerted["evening_brief_failed"] <= crashes + Cardinality(Tellers)
    /\ alerted["evening_brief_failed"] <= 1 + crashes + drops

DayIsSound == /\ RowTypes /\ CountTypes /\ SessionsFit /\ RowsSound
              /\ PushesCovered /\ EveningsCovered /\ AlertsCovered /\ EveningAlertsCovered

\* The invariant gives the types and the properties.
LEMMA SoundMeansTyped == DayIsSound => TypeOK
  <1> SUFFICES ASSUME DayIsSound PROVE TypeOK
    OBVIOUS
  <1>1. ASSUME NEW s \in Sessions
        PROVE  /\ (sessions[s].kind = None) = (sessions[s].stage = None)
               /\ sessions[s].stage = "alerting" => sessions[s].alert # None
    <2>1. Consistent(sessions[s])
      BY DEF DayIsSound, SessionsFit, Fits
    <2>2. sessions[s].kind = None => sessions[s].stage = None
      BY <2>1 DEF Consistent, Done
    <2>3. sessions[s].kind # None => sessions[s].stage # None
      BY <2>1, NoneAssumption DEF Consistent, StagesOf, Session, Kinds, Stages
    <2> QED
      BY <2>1, <2>2, <2>3 DEF Consistent
  <1> QED
    BY <1>1 DEF DayIsSound, RowTypes, CountTypes, TypeOK

\* The counts are covered, so they are bounded.
LEMMA SoundMeansOnce == DayIsSound => NothingTwice
  <1> SUFFICES ASSUME DayIsSound PROVE NothingTwice
    OBVIOUS
  <1>1. CountTypes /\ alerted["briefing_failed"] \in Nat
    BY DEF DayIsSound, CountTypes, Reasons
  <1>2. OneBriefingPushed
    BY <1>1 DEF DayIsSound, CountTypes, PushesCovered, OneBriefingPushed
  <1>3. OneEveningBrief
    BY <1>1 DEF DayIsSound, CountTypes, EveningsCovered, OneEveningBrief
  <1>4. AlertsOncePerDay
    BY <1>1 DEF DayIsSound, CountTypes, AlertsCovered, EveningAlertsCovered, AlertsOncePerDay
  <1>5. AlertMeansTwoFailures
    BY DEF DayIsSound, AlertsCovered, AlertMeansTwoFailures
  <1> QED
    BY <1>2, <1>3, <1>4, <1>5 DEF NothingTwice

\* And claims are settled.
LEMMA SoundMeansSettled == DayIsSound => ClaimsAreSettled
  BY DEF DayIsSound, RowsSound, BriefingIsSound, ClaimsAreSettled

\* A day begins with nothing done.
LEMMA DayBegins == Init => DayIsSound
  <1> SUFFICES ASSUME Init PROVE DayIsSound
    OBVIOUS
  <1> USE NoneAssumption
  <1>1. Done \in Session /\ RowTypes /\ CountTypes
    <2>1. Done \in Session
      BY HoursAssumption DEF Done, Session
    <2> QED
      BY <2>1, HoursAssumption DEF Init, RowTypes, CountTypes, Reasons
  <1>2. ASSUME NEW s \in Sessions PROVE Fits(s, sessions[s])
    <2>1. sessions[s] = Done
      BY DEF Init
    <2>2. Consistent(Done)
      BY <1>1 DEF Consistent, Done, StagesOf, HasRead, Concludes, Stages, Kinds
    <2>3. Remembers(Done, refused)
      BY DEF Remembers, Done, Reasons
    <2>4. /\ FitsRows(Done, briefing, evening)
          /\ HoldsLocks(s, Done, tickLock, briefingLock, eveningLock)
      BY DEF Init, FitsRows, HoldsLocks, WritesEvening, WritesBriefing, Done, HasRead, Stages
    <2> QED
      BY <2>1, <2>2, <2>3, <2>4 DEF Fits
  <1>3. RowsSound
    BY DEF Init, RowsSound, BriefingIsSound
  <1>4. PushesCovered /\ EveningsCovered /\ AlertsCovered
    BY DEF Init, PushesCovered, EveningsCovered, AlertsCovered, Reasons
  <1>5. EveningAlertsCovered
    <2>1. Strays = {} /\ Tellers = {}
      BY DEF Init, Strays, Tellers, Told, Done, Kinds, Stages
    <2> QED
      BY <2>1, FS_EmptySet DEF Init, EveningAlertsCovered, Reasons
  <1> QED
    BY <1>1, <1>2, <1>3, <1>4, <1>5 DEF DayIsSound, SessionsFit

--------------------------------------------------------------------------------
\* A step of one session.  It may write a row only if no other session has an
\* uncommitted write of it, and takes or gives back only its own locks.

OwnLock(s, lock, next) == next = lock \/ {lock, next} \subseteq {s, None}

BriefingMoves(s) ==
    \/ briefing' = briefing
    \/ /\ briefingLock \in {s, None} /\ briefing' \in Row
       /\ briefing # None /\ briefing.claimed => briefing'.claimed
       /\ BriefingIsSound(briefing', refused')

EveningMoves(s) ==
    \/ evening' = evening
    \/ /\ eveningLock \in {s, None} /\ evening' \in [claimed : BOOLEAN, logged : BOOLEAN]
       /\ evening.claimed => evening'.claimed
       /\ evening'.claimed <=> evening'.logged

Moved(s, y) ==
    /\ sessions' = [sessions EXCEPT ![s] = y]
    /\ hour' = hour
    /\ refused' \in 0 .. 2 /\ refused' >= refused
    /\ alerts \subseteq alerts' /\ alerts' \subseteq Reasons
    /\ BriefingMoves(s) /\ EveningMoves(s)
    /\ OwnLock(s, tickLock, tickLock') /\ OwnLock(s, briefingLock, briefingLock')
    /\ OwnLock(s, eveningLock, eveningLock')

FitsThen(s, y) == /\ Consistent(y) /\ Remembers(y, refused') /\ FitsRows(y, briefing', evening')
                  /\ HoldsLocks(s, y, tickLock', briefingLock', eveningLock')

\* The session moved is where it moved to, the others are where they were.
LEMMA OneMoves ==
    ASSUME DayIsSound, NEW s \in Sessions, NEW y, Moved(s, y)
    PROVE  sessions'[s] = y /\ \A q \in Sessions \ {s} : sessions'[q] = sessions[q]
  BY DEF DayIsSound, RowTypes, Moved

\* The step does not disturb the sessions that do not move.
LEMMA OthersFit ==
    ASSUME DayIsSound, NEW s \in Sessions, NEW y, Moved(s, y), NEW q \in Sessions \ {s}
    PROVE  Fits(q, sessions[q])'
  <1> DEFINE x == sessions[q]
  <1>1. Consistent(x) /\ Remembers(x, refused) /\ FitsRows(x, briefing, evening)
        /\ HoldsLocks(q, x, tickLock, briefingLock, eveningLock)
    BY DEF DayIsSound, SessionsFit, Fits
  <1>2. sessions'[q] = x
    BY OneMoves
  <1>3. Remembers(x, refused')
    BY <1>1 DEF Remembers, Moved, DayIsSound, RowTypes
  <1>4. HoldsLocks(q, x, tickLock', briefingLock', eveningLock')
    BY <1>1, NoneAssumption DEF HoldsLocks, Moved, OwnLock
  <1>5. FitsRows(x, briefing', evening')
    <2>1. WritesBriefing(x) => briefing' = briefing
      BY <1>1, NoneAssumption DEF HoldsLocks, Moved, BriefingMoves
    <2>2. WritesEvening(x) => evening' = evening
      BY <1>1, NoneAssumption DEF HoldsLocks, Moved, EveningMoves
    <2>3. briefing # None => briefing' # None
      BY NoneAssumption DEF Moved, BriefingMoves
    <2> QED
      BY <1>1, <2>1, <2>2, <2>3 DEF FitsRows, WritesBriefing
  <1> QED
    BY <1>1, <1>2, <1>3, <1>4, <1>5 DEF Fits

\* So a step is sound where its own session is.
LEMMA MoveIsSound ==
    ASSUME DayIsSound, NEW s \in Sessions, NEW y, Moved(s, y), FitsThen(s, y)
    PROVE  RowTypes' /\ SessionsFit' /\ RowsSound'
  <1>1. RowTypes'
    <2>1. y \in Session
      BY DEF FitsThen, Consistent
    <2>2. sessions' \in [Sessions -> Session]
      BY <2>1 DEF DayIsSound, RowTypes, Moved
    <2>3. briefing' \in Row \cup {None} /\ evening' \in [claimed : BOOLEAN, logged : BOOLEAN]
      BY DEF DayIsSound, RowTypes, Moved, BriefingMoves, EveningMoves
    <2>4. {tickLock', briefingLock', eveningLock'} \subseteq Sessions \cup {None}
      BY DEF DayIsSound, RowTypes, Moved, OwnLock
    <2> QED
      BY <2>2, <2>3, <2>4 DEF DayIsSound, RowTypes, Moved
  <1>2. SessionsFit'
    <2>1. Fits(s, sessions[s])'
      BY OneMoves DEF FitsThen, Fits
    <2> QED
      BY <2>1, OthersFit DEF SessionsFit
  <1>3. RowsSound'
    <2>1. BriefingIsSound(briefing', refused')
      BY DEF DayIsSound, RowTypes, RowsSound, Moved, BriefingMoves, BriefingIsSound
    <2>2. evening'.claimed <=> evening'.logged
      BY DEF DayIsSound, RowsSound, Moved, EveningMoves
    <2> QED
      BY <2>1, <2>2 DEF RowsSound
  <1> QED
    BY <1>1, <1>2, <1>3

\* What is known to have been sent stays known, if what the session knew is
\* committed or still known to it.
LEMMA PushStaysKnown ==
    ASSUME DayIsSound, NEW s \in Sessions, NEW y, Moved(s, y), PushIsKnown,
           ClaimsPush(sessions[s]) => ClaimsPush(y) \/ (briefing' # None /\ briefing'.claimed)
    PROVE  PushIsKnown'
  <1>1. CASE briefing # None /\ briefing.claimed
    BY <1>1, NoneAssumption DEF Moved, BriefingMoves, PushIsKnown
  <1>2. ASSUME NEW q \in Sessions, ClaimsPush(sessions[q]) PROVE PushIsKnown'
    BY <1>2, OneMoves DEF PushIsKnown
  <1> QED
    BY <1>1, <1>2 DEF PushIsKnown

\* So is the evening brief that was sent.
LEMMA EveningStaysKnown ==
    ASSUME DayIsSound, NEW s \in Sessions, NEW y, Moved(s, y), EveningIsKnown,
           ClaimsEvening(sessions[s]) => ClaimsEvening(y) \/ evening'.claimed
    PROVE  EveningIsKnown'
  <1>1. CASE evening.claimed
    BY <1>1 DEF Moved, EveningMoves, EveningIsKnown
  <1>2. ASSUME NEW q \in Sessions, ClaimsEvening(sessions[q]) PROVE EveningIsKnown'
    BY <1>2, OneMoves DEF EveningIsKnown
  <1> QED
    BY <1>1, <1>2 DEF EveningIsKnown

\* And the alert that was told.
LEMMA AlertStaysKnown ==
    ASSUME DayIsSound, NEW s \in Sessions, NEW y, Moved(s, y), AlertIsKnown,
           Told(sessions[s], "briefing_failed")
             => Told(y, "briefing_failed") \/ "briefing_failed" \in alerts'
    PROVE  AlertIsKnown'
  <1>1. CASE "briefing_failed" \in alerts
    BY <1>1 DEF Moved, AlertIsKnown
  <1>2. ASSUME NEW q \in Sessions, Told(sessions[q], "briefing_failed") PROVE AlertIsKnown'
    BY <1>2, OneMoves DEF AlertIsKnown
  <1> QED
    BY <1>1, <1>2 DEF AlertIsKnown

\* No tick goes astray by a step of its own.
LEMMA NoMoreStrays ==
    ASSUME DayIsSound, NEW s \in Sessions, NEW y, Moved(s, y),
           y.kind = "tick" => tickLock' = s \/ (sessions[s].kind = "tick" /\ tickLock # s)
    PROVE  Strays' \subseteq Strays
  <1> SUFFICES ASSUME NEW q \in Sessions, sessions'[q].kind = "tick", tickLock' # q
               PROVE  sessions[q].kind = "tick" /\ tickLock # q
    BY DEF Strays
  <1>1. CASE q = s
    BY <1>1, OneMoves
  <1>2. CASE q # s
    BY <1>2, OneMoves, NoneAssumption DEF Moved, OwnLock
  <1> QED
    BY <1>1, <1>2

\* A step that sends nothing and is no crash keeps the counts covered.
Quiet(s, y) ==
    /\ UNCHANGED <<pushed, evenings, alerted, crashes, drops>>
    /\ ClaimsPush(sessions[s]) => ClaimsPush(y) \/ (briefing' # None /\ briefing'.claimed)
    /\ ClaimsEvening(sessions[s]) => ClaimsEvening(y) \/ evening'.claimed
    /\ \A r \in Reasons : Told(sessions[s], r) => Told(y, r) \/ r \in alerts'
    /\ y.kind = "tick" => tickLock' = s \/ (sessions[s].kind = "tick" /\ tickLock # s)

\* Fewer strays need fewer drops.
LEMMA StraysCovered ==
    ASSUME DayIsSound, Strays' \subseteq Strays, drops' = drops
    PROVE  IsFiniteSet(Strays') /\ Cardinality(Strays') <= drops'
  <1>1. IsFiniteSet(Strays) /\ Cardinality(Strays) <= drops
    BY DEF DayIsSound, EveningAlertsCovered
  <1>2. IsFiniteSet(Strays') /\ Cardinality(Strays') <= Cardinality(Strays)
    BY <1>1, FS_Subset
  <1>3. Cardinality(Strays) \in Nat /\ Cardinality(Strays') \in Nat /\ drops \in Nat
    BY <1>1, <1>2, FS_CardinalityType DEF DayIsSound, CountTypes
  <1> QED
    BY <1>1, <1>2, <1>3

\* There is one tick with the lock and one for each dropped connection.
LEMMA TicksAreFew ==
    ASSUME DayIsSound, NEW T \in SUBSET Sessions, \A s \in T : sessions[s].kind = "tick"
    PROVE  IsFiniteSet(T) /\ Cardinality(T) \in Nat /\ Cardinality(T) <= 1 + drops
  <1>1. IsFiniteSet(Strays) /\ Cardinality(Strays) <= drops
    BY DEF DayIsSound, EveningAlertsCovered
  <1>2. Cardinality(Strays) \in Nat /\ drops \in Nat
    BY <1>1, FS_CardinalityType DEF DayIsSound, CountTypes
  <1>3. T \subseteq Strays \cup {tickLock}
    BY DEF Strays
  <1>4. /\ IsFiniteSet(Strays \cup {tickLock})
        /\ Cardinality(Strays \cup {tickLock}) <= Cardinality(Strays) + 1
    <2>1. /\ IsFiniteSet(Strays \cup {tickLock})
          /\ Cardinality(Strays \cup {tickLock}) =
                IF tickLock \in Strays THEN Cardinality(Strays) ELSE Cardinality(Strays) + 1
      BY <1>1, FS_AddElement
    <2> QED
      BY <1>2, <2>1
  <1>5. IsFiniteSet(T) /\ Cardinality(T) <= Cardinality(Strays \cup {tickLock})
    BY <1>3, <1>4, FS_Subset
  <1>6. Cardinality(T) \in Nat /\ Cardinality(Strays \cup {tickLock}) \in Nat
    BY <1>4, <1>5, FS_CardinalityType
  <1> QED
    BY <1>1, <1>2, <1>4, <1>5, <1>6

\* Only ticks tell of the evening.
LEMMA TellersAreFew ==
    ASSUME DayIsSound
    PROVE  /\ \A s \in Tellers : sessions[s].kind = "tick"
           /\ IsFiniteSet(Tellers) /\ Cardinality(Tellers) \in Nat
  <1>1. ASSUME NEW s \in Tellers PROVE sessions[s].kind = "tick"
    <2>1. Consistent(sessions[s]) /\ sessions[s].stage = "recording"
      BY DEF DayIsSound, SessionsFit, Fits, Tellers, Told
    <2> QED
      BY <2>1, NoneAssumption DEF Consistent, StagesOf, Stages
  <1> QED
    BY <1>1, TicksAreFew DEF Tellers

\* Each count stays covered by a step that is not about it.
LEMMA PushesStay ==
    ASSUME DayIsSound, NEW s \in Sessions, NEW y, Moved(s, y),
           ClaimsPush(sessions[s]) => ClaimsPush(y) \/ (briefing' # None /\ briefing'.claimed),
           pushed' = pushed, crashes' = crashes
    PROVE  PushesCovered'
  BY PushStaysKnown DEF DayIsSound, CountTypes, PushesCovered

\* The evening briefs.
LEMMA EveningsStay ==
    ASSUME DayIsSound, NEW s \in Sessions, NEW y, Moved(s, y),
           ClaimsEvening(sessions[s]) => ClaimsEvening(y) \/ evening'.claimed,
           evenings' = evenings, crashes' = crashes
    PROVE  EveningsCovered'
  BY EveningStaysKnown DEF DayIsSound, CountTypes, EveningsCovered

\* The briefing's alerts.
LEMMA AlertsStay ==
    ASSUME DayIsSound, NEW s \in Sessions, NEW y, Moved(s, y),
           Told(sessions[s], "briefing_failed")
             => Told(y, "briefing_failed") \/ "briefing_failed" \in alerts',
           alerted'["briefing_failed"] = alerted["briefing_failed"], crashes' = crashes
    PROVE  AlertsCovered'
  <1>1. AlertIsKnown => AlertIsKnown'
    BY AlertStaysKnown
  <1>2. alerted["briefing_failed"] > 0 => refused' = 2
    BY DEF DayIsSound, RowTypes, AlertsCovered, Moved
  <1>3. alerted["briefing_failed"] \in Nat /\ crashes \in Nat
    BY DEF DayIsSound, CountTypes, Reasons
  <1> QED
    BY <1>1, <1>2, <1>3 DEF DayIsSound, AlertsCovered

\* The evening's alerts.
LEMMA EveningAlertsStay ==
    ASSUME DayIsSound, NEW s \in Sessions, NEW y, Moved(s, y),
           IsFiniteSet(Strays') /\ Cardinality(Strays') <= drops', drops' \in Nat, drops' >= drops,
           Told(sessions[s], "evening_brief_failed")
             => Told(y, "evening_brief_failed") \/ "evening_brief_failed" \in alerts',
           alerted'["evening_brief_failed"] = alerted["evening_brief_failed"], crashes' = crashes
    PROVE  EveningAlertsCovered'
  <1>1. "evening_brief_failed" \notin alerts' => Tellers \subseteq Tellers'
    BY OneMoves DEF Tellers
  <1>2. IsFiniteSet(Tellers')
    <2>1. IsFiniteSet(Tellers \cup {s})
      BY TellersAreFew, FS_AddElement
    <2>2. Tellers' \subseteq Tellers \cup {s}
      BY OneMoves DEF Tellers
    <2> QED
      BY <2>1, <2>2, FS_Subset
  <1>3. Cardinality(Tellers) \in Nat /\ Cardinality(Tellers') \in Nat
    BY <1>2, TellersAreFew, FS_CardinalityType
  <1>4. "evening_brief_failed" \notin alerts' => Cardinality(Tellers) <= Cardinality(Tellers')
    BY <1>1, <1>2, FS_Subset
  <1>5. /\ "evening_brief_failed" \notin alerts' => "evening_brief_failed" \notin alerts
        /\ alerted["evening_brief_failed"] \in Nat /\ crashes \in Nat /\ drops \in Nat
    BY DEF Moved, DayIsSound, CountTypes, Reasons
  <1> QED
    BY <1>3, <1>4, <1>5 DEF DayIsSound, EveningAlertsCovered

\* A step that sends nothing and is no crash.
LEMMA QuietStep ==
    ASSUME DayIsSound, NEW s \in Sessions, NEW y, Moved(s, y), FitsThen(s, y), Quiet(s, y)
    PROVE  DayIsSound'
  <1>1. RowTypes' /\ SessionsFit' /\ RowsSound'
    BY MoveIsSound
  <1>2. CountTypes'
    BY DEF DayIsSound, CountTypes, Quiet
  <1>3. PushesCovered' /\ EveningsCovered'
    BY PushesStay, EveningsStay DEF Quiet
  <1>4. AlertsCovered'
    BY AlertsStay DEF Quiet, Reasons
  <1>5. IsFiniteSet(Strays') /\ Cardinality(Strays') <= drops'
    BY NoMoreStrays, StraysCovered DEF Quiet
  <1>6. drops' \in Nat /\ drops' >= drops
    BY DEF Quiet, DayIsSound, CountTypes
  <1>7. EveningAlertsCovered'
    BY <1>5, <1>6, EveningAlertsStay DEF Quiet, Reasons
  <1> QED
    BY <1>1, <1>2, <1>3, <1>4, <1>7 DEF DayIsSound

\* The rows a session makes are rows.
LEMMA NewRowIsRow == NewRow \in Row
  BY DEF NewRow, Row, Statuses

\* So is the row of a push that was refused.
LEMMA FailedIsRow ==
    ASSUME NEW s, sessions[s].seen \in Row, briefing \in Row
    PROVE  [status |-> FailedStatus(s), claimed |-> FALSE] \in Row
  BY DEF FailedStatus, Row, Statuses

\* A session that has nothing to do.
LEMMA DoneFits ==
    ASSUME NEW r, NEW b, NEW e
    PROVE  Consistent(Done) /\ Remembers(Done, r) /\ FitsRows(Done, b, e)
  <1> USE NoneAssumption
  <1>1. Done \in Session
    BY HoursAssumption DEF Done, Session
  <1>2. Consistent(Done)
    BY <1>1 DEF Consistent, Done, StagesOf, HasRead, Concludes, Stages, Kinds
  <1> QED
    BY <1>2 DEF Remembers, FitsRows, Done, Reasons, WritesEvening, HasRead, Stages

\* And a tick whose briefing is over.
LEMMA EveningFits ==
    ASSUME NEW x, Consistent(x), NEW r, NEW b, NEW e
    PROVE  LET y == [Done EXCEPT !.kind = "tick", !.hour = x.hour, !.stage = "evening"]
           IN Consistent(y) /\ Remembers(y, r) /\ FitsRows(y, b, e)
  <1> USE NoneAssumption
  <1> DEFINE y == [Done EXCEPT !.kind = "tick", !.hour = x.hour, !.stage = "evening"]
  <1>1. y \in Session
    BY DEF Consistent, Done, Session, Kinds, Stages
  <1>2. Consistent(y)
    BY <1>1 DEF Consistent, Done, StagesOf, HasRead, Concludes, Stages, Kinds
  <1> QED
    BY <1>2 DEF Remembers, FitsRows, Done, Reasons, WritesEvening, HasRead, Stages

\* A tick that has the lock is no stray.
LEMMA StartTickMorning ==
    ASSUME DayIsSound, NEW s \in Sessions, StartTick(s), hour >= BriefingHour
    PROVE  DayIsSound'
  <1> DEFINE x == sessions[s]
             y == [Done EXCEPT !.kind = "tick", !.stage = "reading", !.hour = hour]
  <1> USE NoneAssumption
  <1>1. /\ Consistent(x) /\ Remembers(x, refused) /\ FitsRows(x, briefing, evening)
        /\ HoldsLocks(s, x, tickLock, briefingLock, eveningLock)
    BY DEF DayIsSound, SessionsFit, Fits
  <1>2. x = Done /\ tickLock = None /\ hour \in 0 .. LastHour
    BY <1>1, HoursAssumption
       DEF StartTick, Begin, rows, locks, outside, faults, HasRead, DayIsSound, RowTypes, Done,
           FitsRows, HasRead
  <1>3. Moved(s, y)
    BY <1>1, <1>2
       DEF StartTick, Begin, rows, locks, outside, faults, Moved, BriefingMoves, EveningMoves,
           OwnLock, Free, DayIsSound, RowTypes, BriefingIsSound, Remembers
  <1>4. Consistent(y)
    BY <1>1, <1>2, HoursAssumption
       DEF Consistent, StagesOf, Stages, Concludes, HasRead, Session, Kinds, Reasons, Done
  <1>5. Remembers(y, refused') /\ FitsRows(y, briefing', evening')
    BY <1>1, <1>2, <1>3
       DEF Remembers, FitsRows, WritesEvening, HasRead, Moved, Session, Consistent, Reasons, Done
  <1>6. HoldsLocks(s, y, tickLock', briefingLock', eveningLock')
    BY <1>1, <1>2
       DEF StartTick, Begin, rows, HoldsLocks, WritesBriefing, WritesEvening, Stages, Kinds, Done
  <1>7. Quiet(s, y)
    BY <1>1, <1>2
       DEF StartTick, Begin, rows, locks, outside, faults, Quiet, ClaimsPush, ClaimsEvening, Told,
           HoldsLocks, Free, Kinds, Reasons, Done
  <1> QED
    BY <1>3, <1>4, <1>5, <1>6, <1>7, QuietStep DEF FitsThen

\* Before the briefing hour a tick goes on to the evening.
LEMMA StartTickEvening ==
    ASSUME DayIsSound, NEW s \in Sessions, StartTick(s), ~(hour >= BriefingHour)
    PROVE  DayIsSound'
  <1> DEFINE x == sessions[s]
             y == [Done EXCEPT !.kind = "tick", !.stage = "evening", !.hour = hour]
  <1> USE NoneAssumption
  <1>1. /\ Consistent(x) /\ Remembers(x, refused) /\ FitsRows(x, briefing, evening)
        /\ HoldsLocks(s, x, tickLock, briefingLock, eveningLock)
    BY DEF DayIsSound, SessionsFit, Fits
  <1>2. x = Done /\ tickLock = None /\ hour \in 0 .. LastHour
    BY <1>1, HoursAssumption
       DEF StartTick, Begin, rows, locks, outside, faults, HasRead, DayIsSound, RowTypes, Done,
           FitsRows, HasRead
  <1>3. Moved(s, y)
    BY <1>1, <1>2
       DEF StartTick, Begin, rows, locks, outside, faults, Moved, BriefingMoves, EveningMoves,
           OwnLock, Free, DayIsSound, RowTypes, BriefingIsSound, Remembers
  <1>4. Consistent(y)
    BY <1>1, <1>2, HoursAssumption
       DEF Consistent, StagesOf, Stages, Concludes, HasRead, Session, Kinds, Reasons, Done
  <1>5. Remembers(y, refused') /\ FitsRows(y, briefing', evening')
    BY <1>1, <1>2, <1>3
       DEF Remembers, FitsRows, WritesEvening, HasRead, Moved, Session, Consistent, Reasons, Done
  <1>6. HoldsLocks(s, y, tickLock', briefingLock', eveningLock')
    BY <1>1, <1>2
       DEF StartTick, Begin, rows, HoldsLocks, WritesBriefing, WritesEvening, Stages, Kinds, Done
  <1>7. Quiet(s, y)
    BY <1>1, <1>2
       DEF StartTick, Begin, rows, locks, outside, faults, Quiet, ClaimsPush, ClaimsEvening, Told,
           HoldsLocks, Free, Kinds, Reasons, Done
  <1> QED
    BY <1>3, <1>4, <1>5, <1>6, <1>7, QuietStep DEF FitsThen

\* A preview holds nothing yet.
LEMMA StartPreview ==
    ASSUME DayIsSound, NEW s \in Sessions, StartOther(s), Begin(s, "preview", "inserting", 0)
    PROVE  DayIsSound'
  <1> DEFINE x == sessions[s]
             y == [Done EXCEPT !.kind = "preview", !.stage = "inserting", !.hour = 0]
  <1> USE NoneAssumption
  <1>1. /\ Consistent(x) /\ Remembers(x, refused) /\ FitsRows(x, briefing, evening)
        /\ HoldsLocks(s, x, tickLock, briefingLock, eveningLock)
    BY DEF DayIsSound, SessionsFit, Fits
  <1>2. x = Done /\ 0 \in 0 .. LastHour
    BY <1>1, HoursAssumption DEF StartOther, Begin, rows, locks, outside, faults
  <1>3. Moved(s, y)
    BY <1>1, <1>2
       DEF StartOther, Begin, rows, locks, outside, faults, Moved, BriefingMoves, EveningMoves,
           OwnLock, Free, DayIsSound, RowTypes, BriefingIsSound, Remembers
  <1>4. Consistent(y)
    BY <1>1, <1>2, HoursAssumption
       DEF Consistent, StagesOf, Stages, Concludes, HasRead, Session, Kinds, Reasons, Done
  <1>5. Remembers(y, refused') /\ FitsRows(y, briefing', evening')
    BY <1>1, <1>2, <1>3
       DEF Remembers, FitsRows, WritesEvening, HasRead, Moved, Session, Consistent, Reasons, Done
  <1>6. HoldsLocks(s, y, tickLock', briefingLock', eveningLock')
    BY <1>1, <1>2
       DEF StartOther, Begin, rows, locks, outside, faults, HoldsLocks, WritesBriefing,
           WritesEvening, Stages, Kinds, Done
  <1>7. Quiet(s, y)
    BY <1>1, <1>2
       DEF StartOther, Begin, rows, locks, outside, faults, Quiet, ClaimsPush, ClaimsEvening, Told,
           HoldsLocks, Free, Kinds, Reasons, Done
  <1> QED
    BY <1>3, <1>4, <1>5, <1>6, <1>7, QuietStep DEF FitsThen

\* Nor does a founder's message.
LEMMA StartAsked ==
    ASSUME DayIsSound, NEW s \in Sessions, StartOther(s), Begin(s, "asked", "reading", 0)
    PROVE  DayIsSound'
  <1> DEFINE x == sessions[s]
             y == [Done EXCEPT !.kind = "asked", !.stage = "reading", !.hour = 0]
  <1> USE NoneAssumption
  <1>1. /\ Consistent(x) /\ Remembers(x, refused) /\ FitsRows(x, briefing, evening)
        /\ HoldsLocks(s, x, tickLock, briefingLock, eveningLock)
    BY DEF DayIsSound, SessionsFit, Fits
  <1>2. x = Done /\ 0 \in 0 .. LastHour
    BY <1>1, HoursAssumption DEF StartOther, Begin, rows, locks, outside, faults
  <1>3. Moved(s, y)
    BY <1>1, <1>2
       DEF StartOther, Begin, rows, locks, outside, faults, Moved, BriefingMoves, EveningMoves,
           OwnLock, Free, DayIsSound, RowTypes, BriefingIsSound, Remembers
  <1>4. Consistent(y)
    BY <1>1, <1>2, HoursAssumption
       DEF Consistent, StagesOf, Stages, Concludes, HasRead, Session, Kinds, Reasons, Done
  <1>5. Remembers(y, refused') /\ FitsRows(y, briefing', evening')
    BY <1>1, <1>2, <1>3
       DEF Remembers, FitsRows, WritesEvening, HasRead, Moved, Session, Consistent, Reasons, Done
  <1>6. HoldsLocks(s, y, tickLock', briefingLock', eveningLock')
    BY <1>1, <1>2
       DEF StartOther, Begin, rows, locks, outside, faults, HoldsLocks, WritesBriefing,
           WritesEvening, Stages, Kinds, Done
  <1>7. Quiet(s, y)
    BY <1>1, <1>2
       DEF StartOther, Begin, rows, locks, outside, faults, Quiet, ClaimsPush, ClaimsEvening, Told,
           HoldsLocks, Free, Kinds, Reasons, Done
  <1> QED
    BY <1>3, <1>4, <1>5, <1>6, <1>7, QuietStep DEF FitsThen

\* Nor does an evening brief sent by hand.
LEMMA StartEveningNow ==
    ASSUME DayIsSound, NEW s \in Sessions, StartOther(s), Begin(s, "evening_now", "evening", 0)
    PROVE  DayIsSound'
  <1> DEFINE x == sessions[s]
             y == [Done EXCEPT !.kind = "evening_now", !.stage = "evening", !.hour = 0]
  <1> USE NoneAssumption
  <1>1. /\ Consistent(x) /\ Remembers(x, refused) /\ FitsRows(x, briefing, evening)
        /\ HoldsLocks(s, x, tickLock, briefingLock, eveningLock)
    BY DEF DayIsSound, SessionsFit, Fits
  <1>2. x = Done /\ 0 \in 0 .. LastHour
    BY <1>1, HoursAssumption DEF StartOther, Begin, rows, locks, outside, faults
  <1>3. Moved(s, y)
    BY <1>1, <1>2
       DEF StartOther, Begin, rows, locks, outside, faults, Moved, BriefingMoves, EveningMoves,
           OwnLock, Free, DayIsSound, RowTypes, BriefingIsSound, Remembers
  <1>4. Consistent(y)
    BY <1>1, <1>2, HoursAssumption
       DEF Consistent, StagesOf, Stages, Concludes, HasRead, Session, Kinds, Reasons, Done
  <1>5. Remembers(y, refused') /\ FitsRows(y, briefing', evening')
    BY <1>1, <1>2, <1>3
       DEF Remembers, FitsRows, WritesEvening, HasRead, Moved, Session, Consistent, Reasons, Done
  <1>6. HoldsLocks(s, y, tickLock', briefingLock', eveningLock')
    BY <1>1, <1>2
       DEF StartOther, Begin, rows, locks, outside, faults, HoldsLocks, WritesBriefing,
           WritesEvening, Stages, Kinds, Done
  <1>7. Quiet(s, y)
    BY <1>1, <1>2
       DEF StartOther, Begin, rows, locks, outside, faults, Quiet, ClaimsPush, ClaimsEvening, Told,
           HoldsLocks, Free, Kinds, Reasons, Done
  <1> QED
    BY <1>3, <1>4, <1>5, <1>6, <1>7, QuietStep DEF FitsThen

\* What is read is a row that was committed.
LEMMA ReadNotDue ==
    ASSUME DayIsSound, NEW s \in Sessions, ReadBriefing(s), briefing # None, Kind(s) = "tick",
           ~Due(s, briefing)
    PROVE  DayIsSound'
  <1> DEFINE x == sessions[s]
             y == [Done EXCEPT !.kind = "tick", !.hour = sessions[s].hour, !.stage = "evening"]
  <1> USE NoneAssumption
  <1>1. /\ Consistent(x) /\ Remembers(x, refused) /\ FitsRows(x, briefing, evening)
        /\ HoldsLocks(s, x, tickLock, briefingLock, eveningLock)
    BY DEF DayIsSound, SessionsFit, Fits
  <1>2. x.stage = "reading" /\ x.kind = "tick" /\ x.row = None /\ x \in Session
    BY <1>1, HoursAssumption
       DEF ReadBriefing, ToEvening, rows, locks, outside, faults, At, Kind, Consistent, StagesOf,
           Stages, Concludes
  <1>3. Moved(s, y)
    BY <1>1, <1>2
       DEF ReadBriefing, ToEvening, rows, locks, outside, faults, Moved, BriefingMoves,
           EveningMoves, OwnLock, Free, DayIsSound, RowTypes, BriefingIsSound, Remembers
  <1>4. Consistent(y) /\ Remembers(y, refused') /\ FitsRows(y, briefing', evening')
    BY <1>1, <1>2, EveningFits
  <1>6. HoldsLocks(s, y, tickLock', briefingLock', eveningLock')
    BY <1>1, <1>2
       DEF ReadBriefing, ToEvening, rows, locks, outside, faults, HoldsLocks, WritesBriefing,
           WritesEvening, Stages, Kinds, Done
  <1>7. Quiet(s, y)
    BY <1>1, <1>2
       DEF ReadBriefing, ToEvening, rows, locks, outside, faults, Quiet, ClaimsPush, ClaimsEvening,
           Told, HoldsLocks, Free
  <1> QED
    BY <1>3, <1>4, <1>6, <1>7, QuietStep DEF FitsThen

\* Without a row the day is still to be claimed.
LEMMA ReadNone ==
    ASSUME DayIsSound, NEW s \in Sessions, ReadBriefing(s), briefing = None
    PROVE  DayIsSound'
  <1> DEFINE x == sessions[s]
             y == [x EXCEPT !.seen = None, !.retry = FALSE, !.stage = "inserting"]
  <1> USE NoneAssumption
  <1>1. /\ Consistent(x) /\ Remembers(x, refused) /\ FitsRows(x, briefing, evening)
        /\ HoldsLocks(s, x, tickLock, briefingLock, eveningLock)
    BY DEF DayIsSound, SessionsFit, Fits
  <1>2. x.stage = "reading" /\ x.kind \in {"tick", "asked"} /\ x \in Session
    BY <1>1, HoursAssumption
       DEF ReadBriefing, rows, locks, outside, faults, At, DayIsSound, RowTypes, Done, FitsRows,
           HoldsLocks, WritesBriefing, WritesEvening, RowsSound, BriefingIsSound, Session, Kinds,
           Reasons
  <1>3. Moved(s, y)
    BY <1>1, <1>2
       DEF ReadBriefing, rows, locks, outside, OwnLock, Free, DayIsSound, RowTypes,
           BriefingIsSound, Remembers, Consistent, Session
  <1>4. Consistent(y)
    BY <1>1, <1>2, HoursAssumption
       DEF Consistent, StagesOf, Stages, Concludes, HasRead, Session, Kinds, Reasons
  <1>5. Remembers(y, refused') /\ FitsRows(y, briefing', evening')
    BY <1>1, <1>2, <1>3
       DEF faults, Remembers, FitsRows, WritesEvening, HasRead, Moved, Session, Consistent
  <1>6. HoldsLocks(s, y, tickLock', briefingLock', eveningLock')
    BY <1>1, <1>2
       DEF ReadBriefing, rows, locks, outside, faults, HoldsLocks, WritesBriefing, WritesEvening,
           Free
  <1>7. Quiet(s, y)
    BY <1>1, <1>2
       DEF ReadBriefing, rows, locks, outside, faults, Quiet, ClaimsPush, ClaimsEvening, Told,
           HoldsLocks, Free, Session
  <1> QED
    BY <1>3, <1>4, <1>5, <1>6, <1>7, QuietStep DEF FitsThen

\* A tick remembers that it retries.
LEMMA ReadDue ==
    ASSUME DayIsSound, NEW s \in Sessions, ReadBriefing(s), briefing # None, Kind(s) = "tick",
           Due(s, briefing)
    PROVE  DayIsSound'
  <1> DEFINE x == sessions[s]
             y == [x EXCEPT !.seen = briefing, !.retry = (briefing.status = "failed_to_send"),
                            !.stage = "claiming"]
  <1> USE NoneAssumption
  <1>1. /\ Consistent(x) /\ Remembers(x, refused) /\ FitsRows(x, briefing, evening)
        /\ HoldsLocks(s, x, tickLock, briefingLock, eveningLock)
    BY DEF DayIsSound, SessionsFit, Fits
  <1>2. /\ x.stage = "reading" /\ x.kind = "tick" /\ x \in Session /\ briefing \in Row
        /\ (briefing.status = "failed_to_send" => refused >= 1)
    BY <1>1, HoursAssumption
       DEF ReadBriefing, rows, locks, outside, faults, At, DayIsSound, RowTypes, Done, FitsRows,
           HoldsLocks, WritesBriefing, WritesEvening, RowsSound, BriefingIsSound, Session, Kinds,
           Reasons
  <1>3. Moved(s, y)
    BY <1>1, <1>2
       DEF ReadBriefing, rows, locks, outside, OwnLock, Free, DayIsSound, RowTypes,
           BriefingIsSound, Remembers, Consistent, Session
  <1>4. Consistent(y)
    BY <1>1, <1>2, HoursAssumption
       DEF Consistent, StagesOf, Stages, Concludes, HasRead, Session, Kinds, Reasons
  <1>5. Remembers(y, refused') /\ FitsRows(y, briefing', evening')
    BY <1>1, <1>2, <1>3
       DEF ReadBriefing, rows, locks, outside, faults, Remembers, FitsRows, WritesEvening, HasRead,
           Moved, Session, Consistent
  <1>6. HoldsLocks(s, y, tickLock', briefingLock', eveningLock')
    BY <1>1, <1>2
       DEF ReadBriefing, rows, locks, outside, faults, HoldsLocks, WritesBriefing, WritesEvening,
           Free
  <1>7. Quiet(s, y)
    BY <1>1, <1>2
       DEF ReadBriefing, rows, locks, outside, faults, Quiet, ClaimsPush, ClaimsEvening, Told,
           HoldsLocks, Free, Session
  <1> QED
    BY <1>3, <1>4, <1>5, <1>6, <1>7, QuietStep DEF FitsThen

\* A founder who asks reads the same row.
LEMMA ReadAsked ==
    ASSUME DayIsSound, NEW s \in Sessions, ReadBriefing(s), briefing # None, Kind(s) # "tick"
    PROVE  DayIsSound'
  <1> DEFINE x == sessions[s]
             y == [x EXCEPT !.seen = briefing, !.retry = (briefing.status = "failed_to_send"),
                            !.stage = "replying"]
  <1> USE NoneAssumption
  <1>1. /\ Consistent(x) /\ Remembers(x, refused) /\ FitsRows(x, briefing, evening)
        /\ HoldsLocks(s, x, tickLock, briefingLock, eveningLock)
    BY DEF DayIsSound, SessionsFit, Fits
  <1>2. /\ x.stage = "reading" /\ x.kind = "asked" /\ x \in Session /\ briefing \in Row
        /\ (briefing.status = "failed_to_send" => refused >= 1)
    BY <1>1, HoursAssumption
       DEF ReadBriefing, rows, locks, outside, faults, At, DayIsSound, RowTypes, Done, FitsRows,
           HoldsLocks, WritesBriefing, WritesEvening, RowsSound, BriefingIsSound, Session, Kinds,
           Reasons
  <1>3. Moved(s, y)
    BY <1>1, <1>2
       DEF ReadBriefing, rows, locks, outside, OwnLock, Free, DayIsSound, RowTypes,
           BriefingIsSound, Remembers, Consistent, Session
  <1>4. Consistent(y)
    BY <1>1, <1>2, HoursAssumption
       DEF Consistent, StagesOf, Stages, Concludes, HasRead, Session, Kinds, Reasons
  <1>5. Remembers(y, refused') /\ FitsRows(y, briefing', evening')
    BY <1>1, <1>2, <1>3
       DEF ReadBriefing, rows, locks, outside, faults, Remembers, FitsRows, WritesEvening, HasRead,
           Moved, Session, Consistent
  <1>6. HoldsLocks(s, y, tickLock', briefingLock', eveningLock')
    BY <1>1, <1>2
       DEF ReadBriefing, rows, locks, outside, faults, HoldsLocks, WritesBriefing, WritesEvening,
           Free
  <1>7. Quiet(s, y)
    BY <1>1, <1>2
       DEF ReadBriefing, rows, locks, outside, faults, Quiet, ClaimsPush, ClaimsEvening, Told,
           HoldsLocks, Free, Session
  <1> QED
    BY <1>3, <1>4, <1>5, <1>6, <1>7, QuietStep DEF FitsThen

\* The day is claimed by one session.
LEMMA InsertKeeps ==
    ASSUME DayIsSound, NEW s \in Sessions, Insert(s)
    PROVE  DayIsSound'
  <1> DEFINE x == sessions[s]
             y == [x EXCEPT !.stage = "generating"]
  <1> USE NoneAssumption
  <1>1. /\ Consistent(x) /\ Remembers(x, refused) /\ FitsRows(x, briefing, evening)
        /\ HoldsLocks(s, x, tickLock, briefingLock, eveningLock)
    BY DEF DayIsSound, SessionsFit, Fits
  <1>2. /\ x.stage = "inserting" /\ x.kind \in {"tick", "preview", "asked"} /\ x \in Session
        /\ x.row = None
    BY <1>1, HoursAssumption
       DEF Insert, GoTo, rows, locks, outside, faults, At, Kind, Consistent, StagesOf, Stages,
           Concludes
  <1>3. Moved(s, y)
    BY <1>1, <1>2
       DEF Insert, GoTo, rows, locks, outside, faults, Moved, BriefingMoves, EveningMoves, OwnLock,
           Free, DayIsSound, RowTypes, BriefingIsSound, Remembers
  <1>4. Consistent(y)
    BY <1>1, <1>2, HoursAssumption
       DEF Consistent, StagesOf, Stages, Concludes, HasRead, Session, Kinds, Reasons
  <1>5. Remembers(y, refused') /\ FitsRows(y, briefing', evening')
    BY <1>1, <1>2, <1>3
       DEF Insert, GoTo, rows, locks, outside, faults, Remembers, FitsRows, WritesEvening, HasRead,
           Moved, Session
  <1>6. HoldsLocks(s, y, tickLock', briefingLock', eveningLock')
    BY <1>1, <1>2 DEF Insert, GoTo, rows, HoldsLocks, WritesBriefing, WritesEvening
  <1>7. Quiet(s, y)
    BY <1>1, <1>2
       DEF Insert, GoTo, rows, locks, outside, faults, Quiet, ClaimsPush, ClaimsEvening, Told,
           HoldsLocks, Free
  <1> QED
    BY <1>3, <1>4, <1>5, <1>6, <1>7, QuietStep DEF FitsThen

\* A lost race leaves a row to go on with.
LEMMA LoseRaceTick ==
    ASSUME DayIsSound, NEW s \in Sessions, LoseRace(s), Kind(s) = "tick"
    PROVE  DayIsSound'
  <1> DEFINE x == sessions[s]
             y == [x EXCEPT !.seen = briefing, !.stage = "claiming"]
  <1> USE NoneAssumption
  <1>1. /\ Consistent(x) /\ Remembers(x, refused) /\ FitsRows(x, briefing, evening)
        /\ HoldsLocks(s, x, tickLock, briefingLock, eveningLock)
    BY DEF DayIsSound, SessionsFit, Fits
  <1>2. x.stage = "inserting" /\ x.kind = "tick" /\ x \in Session /\ briefing \in Row
    BY <1>1, HoursAssumption
       DEF LoseRace, rows, locks, outside, faults, At, DayIsSound, RowTypes, Done, FitsRows,
           HoldsLocks, WritesBriefing, WritesEvening, RowsSound, BriefingIsSound, Session, Kinds,
           Reasons
  <1>3. Moved(s, y)
    BY <1>1, <1>2
       DEF LoseRace, rows, locks, outside, OwnLock, Free, DayIsSound, RowTypes, BriefingIsSound,
           Remembers, Consistent, Session
  <1>4. Consistent(y)
    BY <1>1, <1>2, HoursAssumption
       DEF Consistent, StagesOf, Stages, Concludes, HasRead, Session, Kinds, Reasons
  <1>5. Remembers(y, refused') /\ FitsRows(y, briefing', evening')
    BY <1>1, <1>2, <1>3
       DEF LoseRace, rows, locks, outside, faults, Remembers, FitsRows, WritesEvening, HasRead
  <1>6. HoldsLocks(s, y, tickLock', briefingLock', eveningLock')
    BY <1>1, <1>2
       DEF LoseRace, rows, locks, outside, faults, HoldsLocks, WritesBriefing, WritesEvening, Free
  <1>7. Quiet(s, y)
    BY <1>1, <1>2
       DEF LoseRace, rows, locks, outside, faults, Quiet, ClaimsPush, ClaimsEvening, Told,
           HoldsLocks, Free, Session
  <1> QED
    BY <1>3, <1>4, <1>5, <1>6, <1>7, QuietStep DEF FitsThen

\* A preview or a founder's message that loses it is over.
LEMMA LoseRaceOther ==
    ASSUME DayIsSound, NEW s \in Sessions, LoseRace(s), Kind(s) # "tick"
    PROVE  DayIsSound'
  <1> DEFINE x == sessions[s]
             y == Done
  <1> USE NoneAssumption
  <1>1. /\ Consistent(x) /\ Remembers(x, refused) /\ FitsRows(x, briefing, evening)
        /\ HoldsLocks(s, x, tickLock, briefingLock, eveningLock)
    BY DEF DayIsSound, SessionsFit, Fits
  <1>2. x.stage = "inserting" /\ x.kind # "tick" /\ x \in Session /\ tickLock # s
    BY <1>1, HoursAssumption
       DEF LoseRace, Finish, rows, locks, outside, faults, At, Kind, Consistent, StagesOf, Stages,
           Concludes, HoldsLocks, WritesBriefing, WritesEvening, RowsSound, BriefingIsSound, Session
  <1>3. Moved(s, y)
    BY <1>1, <1>2
       DEF LoseRace, Finish, rows, locks, outside, faults, Moved, BriefingMoves, EveningMoves,
           OwnLock, Free, DayIsSound, RowTypes, BriefingIsSound, Remembers
  <1>4. Consistent(y) /\ Remembers(y, refused') /\ FitsRows(y, briefing', evening')
    BY DoneFits
  <1>6. HoldsLocks(s, y, tickLock', briefingLock', eveningLock')
    BY <1>1, <1>2
       DEF LoseRace, Finish, rows, locks, outside, faults, HoldsLocks, WritesBriefing,
           WritesEvening, Stages, Kinds, Done
  <1>7. Quiet(s, y)
    BY <1>1, <1>2
       DEF LoseRace, Finish, rows, locks, outside, faults, Quiet, ClaimsPush, ClaimsEvening, Told,
           HoldsLocks, Free, Session, Consistent, Concludes, Stages, Kinds, Reasons, Done
  <1> QED
    BY <1>3, <1>4, <1>6, <1>7, QuietStep DEF FitsThen

\* The first row of the day is nobody's claim.
LEMMA GenerateTick ==
    ASSUME DayIsSound, NEW s \in Sessions, Generate(s), Kind(s) = "tick"
    PROVE  DayIsSound'
  <1> DEFINE x == sessions[s]
             y == [x EXCEPT !.seen = NewRow, !.stage = "claiming"]
  <1> USE NoneAssumption
  <1>1. /\ Consistent(x) /\ Remembers(x, refused) /\ FitsRows(x, briefing, evening)
        /\ HoldsLocks(s, x, tickLock, briefingLock, eveningLock)
    BY DEF DayIsSound, SessionsFit, Fits
  <1>2. /\ x.stage = "generating" /\ x.kind = "tick" /\ x \in Session /\ x.row = None
        /\ briefing = None /\ briefingLock = s
    BY <1>1, HoursAssumption
       DEF Generate, rows, locks, outside, faults, At, Kind, Consistent, StagesOf, Stages,
           Concludes, HasRead, DayIsSound, RowTypes, Done, FitsRows, HasRead, HoldsLocks,
           WritesBriefing, WritesEvening, RowsSound, BriefingIsSound, Session, Kinds
  <1>3. Moved(s, y)
    BY <1>1, <1>2, NewRowIsRow
       DEF Generate, rows, locks, outside, faults, Moved, BriefingMoves, EveningMoves, OwnLock,
           Free, DayIsSound, RowTypes, BriefingIsSound, Remembers, Consistent, Session, Row,
           NewRow, Statuses
  <1>4. Consistent(y)
    BY <1>1, <1>2, HoursAssumption, NewRowIsRow
       DEF Consistent, StagesOf, Stages, Concludes, HasRead, Session, Kinds, Reasons
  <1>5. Remembers(y, refused') /\ FitsRows(y, briefing', evening')
    BY <1>1, <1>2, <1>3, NewRowIsRow
       DEF Generate, rows, locks, outside, faults, Remembers, FitsRows, WritesEvening, HasRead
  <1>6. HoldsLocks(s, y, tickLock', briefingLock', eveningLock')
    BY <1>1, <1>2, NewRowIsRow
       DEF Generate, rows, locks, outside, faults, HoldsLocks, WritesBriefing, WritesEvening, Free
  <1>7. Quiet(s, y)
    BY <1>1, <1>2, NewRowIsRow
       DEF Generate, rows, locks, outside, faults, Quiet, ClaimsPush, ClaimsEvening, Told,
           HoldsLocks, Free, Session
  <1> QED
    BY <1>3, <1>4, <1>5, <1>6, <1>7, QuietStep DEF FitsThen

\* A founder's briefing has a row like any other.
LEMMA GenerateAsked ==
    ASSUME DayIsSound, NEW s \in Sessions, Generate(s), Kind(s) = "asked"
    PROVE  DayIsSound'
  <1> DEFINE x == sessions[s]
             y == [x EXCEPT !.seen = NewRow, !.stage = "replying"]
  <1> USE NoneAssumption
  <1>1. /\ Consistent(x) /\ Remembers(x, refused) /\ FitsRows(x, briefing, evening)
        /\ HoldsLocks(s, x, tickLock, briefingLock, eveningLock)
    BY DEF DayIsSound, SessionsFit, Fits
  <1>2. /\ x.stage = "generating" /\ x.kind = "asked" /\ x \in Session /\ x.row = None
        /\ briefing = None /\ briefingLock = s
    BY <1>1, HoursAssumption
       DEF Generate, rows, locks, outside, faults, At, Kind, Consistent, StagesOf, Stages,
           Concludes, HasRead, DayIsSound, RowTypes, Done, FitsRows, HasRead, HoldsLocks,
           WritesBriefing, WritesEvening, RowsSound, BriefingIsSound, Session, Kinds
  <1>3. Moved(s, y)
    BY <1>1, <1>2, NewRowIsRow
       DEF Generate, rows, locks, outside, faults, Moved, BriefingMoves, EveningMoves, OwnLock,
           Free, DayIsSound, RowTypes, BriefingIsSound, Remembers, Consistent, Session, Row,
           NewRow, Statuses
  <1>4. Consistent(y)
    BY <1>1, <1>2, HoursAssumption, NewRowIsRow
       DEF Consistent, StagesOf, Stages, Concludes, HasRead, Session, Kinds, Reasons
  <1>5. Remembers(y, refused') /\ FitsRows(y, briefing', evening')
    BY <1>1, <1>2, <1>3, NewRowIsRow
       DEF Generate, rows, locks, outside, faults, Remembers, FitsRows, WritesEvening, HasRead
  <1>6. HoldsLocks(s, y, tickLock', briefingLock', eveningLock')
    BY <1>1, <1>2, NewRowIsRow
       DEF Generate, rows, locks, outside, faults, HoldsLocks, WritesBriefing, WritesEvening, Free
  <1>7. Quiet(s, y)
    BY <1>1, <1>2, NewRowIsRow
       DEF Generate, rows, locks, outside, faults, Quiet, ClaimsPush, ClaimsEvening, Told,
           HoldsLocks, Free, Session
  <1> QED
    BY <1>3, <1>4, <1>5, <1>6, <1>7, QuietStep DEF FitsThen

\* A preview leaves the row to the next tick.
LEMMA GeneratePreview ==
    ASSUME DayIsSound, NEW s \in Sessions, Generate(s), Kind(s) = "preview"
    PROVE  DayIsSound'
  <1> DEFINE x == sessions[s]
             y == Done
  <1> USE NoneAssumption
  <1>1. /\ Consistent(x) /\ Remembers(x, refused) /\ FitsRows(x, briefing, evening)
        /\ HoldsLocks(s, x, tickLock, briefingLock, eveningLock)
    BY DEF DayIsSound, SessionsFit, Fits
  <1>2. /\ x.stage = "generating" /\ x.kind = "preview" /\ x \in Session /\ x.row = None
        /\ briefing = None /\ briefingLock = s
    BY <1>1, HoursAssumption
       DEF Generate, rows, locks, outside, faults, At, Kind, Consistent, StagesOf, Stages,
           Concludes, HasRead, DayIsSound, RowTypes, Done, FitsRows, HasRead, HoldsLocks,
           WritesBriefing, WritesEvening, RowsSound, BriefingIsSound, Session, Kinds
  <1>3. Moved(s, y)
    BY <1>1, <1>2
       DEF Generate, rows, locks, outside, faults, Moved, BriefingMoves, EveningMoves, OwnLock,
           Free, DayIsSound, RowTypes, BriefingIsSound, Remembers, Consistent, Session, Row,
           NewRow, Statuses
  <1>4. Consistent(y) /\ Remembers(y, refused') /\ FitsRows(y, briefing', evening')
    BY DoneFits
  <1>6. HoldsLocks(s, y, tickLock', briefingLock', eveningLock')
    BY <1>1, <1>2
       DEF Generate, rows, locks, outside, faults, HoldsLocks, WritesBriefing, WritesEvening, Free,
           Session, Consistent, Stages, Kinds, Done
  <1>7. Quiet(s, y)
    BY <1>1, <1>2
       DEF Generate, rows, locks, outside, faults, Quiet, ClaimsPush, ClaimsEvening, Told,
           HoldsLocks, Free, Session, Consistent, Concludes, Stages, Kinds, Reasons, Done
  <1> QED
    BY <1>3, <1>4, <1>6, <1>7, QuietStep DEF FitsThen

\* Without a narration the row is gone again.
LEMMA GenerateFailsKeeps ==
    ASSUME DayIsSound, NEW s \in Sessions, GenerateFails(s)
    PROVE  DayIsSound'
  <1> DEFINE x == sessions[s]
             y == Done
  <1> USE NoneAssumption
  <1>1. /\ Consistent(x) /\ Remembers(x, refused) /\ FitsRows(x, briefing, evening)
        /\ HoldsLocks(s, x, tickLock, briefingLock, eveningLock)
    BY DEF DayIsSound, SessionsFit, Fits
  <1>2. x.stage = "generating" /\ x \in Session /\ x.row = None
    BY <1>1, HoursAssumption
       DEF GenerateFails, Release, Finish, rows, locks, outside, faults, At, Kind, Consistent,
           StagesOf, Stages, Concludes, DayIsSound, RowTypes, Done, FitsRows, Session
  <1>3. Moved(s, y)
    BY <1>1, <1>2
       DEF GenerateFails, Release, Finish, rows, locks, outside, faults, Moved, BriefingMoves,
           EveningMoves, OwnLock, Free, DayIsSound, RowTypes, BriefingIsSound
  <1>4. Consistent(y) /\ Remembers(y, refused') /\ FitsRows(y, briefing', evening')
    BY DoneFits
  <1>6. HoldsLocks(s, y, tickLock', briefingLock', eveningLock')
    BY <1>1, <1>2
       DEF GenerateFails, Release, locks, outside, faults, HoldsLocks, WritesBriefing,
           WritesEvening, Free, Session, Consistent, Stages, Kinds, Done
  <1>7. Quiet(s, y)
    BY <1>1, <1>2
       DEF GenerateFails, Release, locks, outside, faults, Quiet, ClaimsPush, ClaimsEvening, Told,
           HoldsLocks, Free, Session, Consistent, Concludes, Stages, Kinds, Reasons, Done
  <1> QED
    BY <1>3, <1>4, <1>6, <1>7, QuietStep DEF FitsThen

\* A claim that is won is of a row nobody is pushing.
LEMMA ClaimWon ==
    ASSUME DayIsSound, NEW s \in Sessions, ClaimDelivery(s), ~briefing.claimed
    PROVE  DayIsSound'
  <1> DEFINE x == sessions[s]
             y == [x EXCEPT !.stage = "pushing"]
  <1> USE NoneAssumption
  <1>1. /\ Consistent(x) /\ Remembers(x, refused) /\ FitsRows(x, briefing, evening)
        /\ HoldsLocks(s, x, tickLock, briefingLock, eveningLock)
    BY DEF DayIsSound, SessionsFit, Fits
  <1>2. x.stage = "claiming" /\ x.kind = "tick" /\ x \in Session /\ x.row = None /\ briefing \in Row
    BY <1>1, HoursAssumption
       DEF ClaimDelivery, GoTo, rows, locks, outside, faults, At, Kind, Consistent, StagesOf,
           Stages, Concludes, HasRead, DayIsSound, RowTypes, Done, FitsRows, HasRead
  <1>3. Moved(s, y)
    BY <1>1, <1>2
       DEF ClaimDelivery, GoTo, rows, locks, outside, faults, Moved, BriefingMoves, EveningMoves,
           OwnLock, Free, DayIsSound, RowTypes, BriefingIsSound, Remembers
  <1>4. Consistent(y)
    BY <1>1, <1>2, HoursAssumption
       DEF Consistent, StagesOf, Stages, Concludes, HasRead, Session, Kinds, Reasons
  <1>5. Remembers(y, refused') /\ FitsRows(y, briefing', evening')
    BY <1>1, <1>2, <1>3
       DEF ClaimDelivery, GoTo, rows, locks, outside, faults, Remembers, FitsRows, WritesEvening
  <1>6. HoldsLocks(s, y, tickLock', briefingLock', eveningLock')
    BY <1>1, <1>2 DEF ClaimDelivery, GoTo, rows, HoldsLocks, WritesBriefing, WritesEvening
  <1>7. Quiet(s, y)
    BY <1>1, <1>2
       DEF ClaimDelivery, GoTo, rows, locks, outside, faults, Quiet, ClaimsPush, ClaimsEvening,
           Told, HoldsLocks, Free
  <1> QED
    BY <1>3, <1>4, <1>5, <1>6, <1>7, QuietStep DEF FitsThen

\* A claim that is lost was lost to a push that went out.
LEMMA ClaimLost ==
    ASSUME DayIsSound, NEW s \in Sessions, ClaimDelivery(s), briefing.claimed
    PROVE  DayIsSound'
  <1> DEFINE x == sessions[s]
             y == [Done EXCEPT !.kind = "tick", !.hour = sessions[s].hour, !.stage = "evening"]
  <1> USE NoneAssumption
  <1>1. /\ Consistent(x) /\ Remembers(x, refused) /\ FitsRows(x, briefing, evening)
        /\ HoldsLocks(s, x, tickLock, briefingLock, eveningLock)
    BY DEF DayIsSound, SessionsFit, Fits
  <1>2. /\ x.stage = "claiming" /\ x.kind = "tick" /\ x \in Session /\ x.row = None
        /\ briefing \in Row /\ briefing.status = "sent"
    BY <1>1, HoursAssumption
       DEF ClaimDelivery, ToEvening, rows, locks, outside, faults, At, Kind, Consistent, StagesOf,
           Stages, Concludes, HasRead, DayIsSound, RowTypes, Done, FitsRows, HasRead, HoldsLocks,
           WritesBriefing, WritesEvening, RowsSound, BriefingIsSound, Session
  <1>3. Moved(s, y)
    BY <1>1, <1>2
       DEF ClaimDelivery, ToEvening, rows, locks, outside, faults, Moved, BriefingMoves,
           EveningMoves, OwnLock, Free, DayIsSound, RowTypes, BriefingIsSound, Remembers
  <1>4. Consistent(y) /\ Remembers(y, refused') /\ FitsRows(y, briefing', evening')
    BY <1>1, <1>2, EveningFits
  <1>6. HoldsLocks(s, y, tickLock', briefingLock', eveningLock')
    BY <1>1, <1>2
       DEF ClaimDelivery, ToEvening, rows, HoldsLocks, WritesBriefing, WritesEvening, Stages,
           Kinds, Done
  <1>7. Quiet(s, y)
    BY <1>1, <1>2
       DEF ClaimDelivery, ToEvening, rows, locks, outside, faults, Quiet, ClaimsPush,
           ClaimsEvening, Told, HoldsLocks, Free
  <1> QED
    BY <1>3, <1>4, <1>6, <1>7, QuietStep DEF FitsThen

\* A refused push is remembered.
LEMMA RetryFails ==
    ASSUME DayIsSound, NEW s \in Sessions, PushFails(s), sessions[s].retry
    PROVE  DayIsSound'
  <1> DEFINE x == sessions[s]
             y == [x EXCEPT !.row = [status |-> FailedStatus(s), claimed |-> FALSE],
                           !.alert = "briefing_failed",
                           !.stage = "alerting"]
  <1> USE NoneAssumption
  <1>1. /\ Consistent(x) /\ Remembers(x, refused) /\ FitsRows(x, briefing, evening)
        /\ HoldsLocks(s, x, tickLock, briefingLock, eveningLock)
    BY DEF DayIsSound, SessionsFit, Fits
  <1>2. /\ x.stage = "pushing" /\ x.kind = "tick" /\ x \in Session /\ x.row = None
        /\ x.alert = None /\ briefing \in Row /\ ~briefing.claimed /\ x.seen \in Row
        /\ briefingLock = s
    BY <1>1, HoursAssumption
       DEF PushFails, rows, locks, outside, faults, At, DayIsSound, RowTypes, Done, FitsRows,
           HoldsLocks, WritesBriefing, WritesEvening, RowsSound, BriefingIsSound, Session, Kinds,
           Reasons
  <1>8. LET failed == [status |-> FailedStatus(s), claimed |-> FALSE]
        IN failed \in Row /\ failed # None
    BY <1>2, FailedIsRow
  <1>9. refused' >= 1 /\ (x.retry => refused' = 2)
    BY <1>1 DEF PushFails, DayIsSound, RowTypes, Remembers
  <1>3. Moved(s, y)
    BY <1>1, <1>2, <1>8
       DEF PushFails, rows, locks, outside, OwnLock, Free, DayIsSound, RowTypes, BriefingIsSound,
           Remembers, Consistent, Session
  <1>4. Consistent(y)
    BY <1>1, <1>2, HoursAssumption, <1>8
       DEF Consistent, StagesOf, Stages, Concludes, HasRead, Session, Kinds, Reasons
  <1>5. Remembers(y, refused') /\ FitsRows(y, briefing', evening')
    BY <1>1, <1>2, <1>3, <1>8, <1>9
       DEF PushFails, rows, locks, outside, faults, Remembers, FitsRows, WritesEvening, HasRead
  <1>6. HoldsLocks(s, y, tickLock', briefingLock', eveningLock')
    BY <1>1, <1>2, <1>8
       DEF PushFails, rows, locks, outside, faults, HoldsLocks, WritesBriefing, WritesEvening, Free
  <1>7. Quiet(s, y)
    BY <1>1, <1>2, <1>8
       DEF PushFails, rows, locks, outside, faults, Quiet, ClaimsPush, ClaimsEvening, Told,
           HoldsLocks, Free, Session
  <1> QED
    BY <1>3, <1>4, <1>5, <1>6, <1>7, QuietStep DEF FitsThen

\* A first refusal is recorded and not told.
LEMMA FirstFails ==
    ASSUME DayIsSound, NEW s \in Sessions, PushFails(s), ~sessions[s].retry
    PROVE  DayIsSound'
  <1> DEFINE x == sessions[s]
             y == [x EXCEPT !.row = [status |-> FailedStatus(s), claimed |-> FALSE], !.alert = None,
                            !.stage = "recording"]
  <1> USE NoneAssumption
  <1>1. /\ Consistent(x) /\ Remembers(x, refused) /\ FitsRows(x, briefing, evening)
        /\ HoldsLocks(s, x, tickLock, briefingLock, eveningLock)
    BY DEF DayIsSound, SessionsFit, Fits
  <1>2. /\ x.stage = "pushing" /\ x.kind = "tick" /\ x \in Session /\ x.row = None
        /\ x.alert = None /\ briefing \in Row /\ ~briefing.claimed /\ x.seen \in Row
        /\ briefingLock = s
    BY <1>1, HoursAssumption
       DEF PushFails, rows, locks, outside, faults, At, DayIsSound, RowTypes, Done, FitsRows,
           HoldsLocks, WritesBriefing, WritesEvening, RowsSound, BriefingIsSound, Session, Kinds,
           Reasons
  <1>8. LET failed == [status |-> FailedStatus(s), claimed |-> FALSE]
        IN failed \in Row /\ failed # None
    BY <1>2, FailedIsRow
  <1>9. refused' >= 1 /\ (x.retry => refused' = 2)
    BY <1>1 DEF PushFails, DayIsSound, RowTypes, Remembers
  <1>3. Moved(s, y)
    BY <1>1, <1>2, <1>8
       DEF PushFails, rows, locks, outside, OwnLock, Free, DayIsSound, RowTypes, BriefingIsSound,
           Remembers, Consistent, Session
  <1>4. Consistent(y)
    BY <1>1, <1>2, HoursAssumption, <1>8
       DEF Consistent, StagesOf, Stages, Concludes, HasRead, Session, Kinds, Reasons
  <1>5. Remembers(y, refused') /\ FitsRows(y, briefing', evening')
    BY <1>1, <1>2, <1>3, <1>8, <1>9
       DEF PushFails, rows, locks, outside, faults, Remembers, FitsRows, WritesEvening, HasRead
  <1>6. HoldsLocks(s, y, tickLock', briefingLock', eveningLock')
    BY <1>1, <1>2, <1>8
       DEF PushFails, rows, locks, outside, faults, HoldsLocks, WritesBriefing, WritesEvening, Free
  <1>7. Quiet(s, y)
    BY <1>1, <1>2, <1>8
       DEF PushFails, rows, locks, outside, faults, Quiet, ClaimsPush, ClaimsEvening, Told,
           HoldsLocks, Free, Session
  <1> QED
    BY <1>3, <1>4, <1>5, <1>6, <1>7, QuietStep DEF FitsThen

\* What a session knows is committed before it goes on.
LEMMA RecordEvening ==
    ASSUME DayIsSound, NEW s \in Sessions, Record(s), sessions[s].alert = "evening_brief_failed"
    PROVE  DayIsSound'
  <1> DEFINE x == sessions[s]
             y == Done
  <1> USE NoneAssumption
  <1>1. /\ Consistent(x) /\ Remembers(x, refused) /\ FitsRows(x, briefing, evening)
        /\ HoldsLocks(s, x, tickLock, briefingLock, eveningLock)
    BY DEF DayIsSound, SessionsFit, Fits
  <1>2. /\ x.stage = "recording" /\ x.kind = "tick" /\ x \in Session
        /\ x.alert \in Reasons \cup {None} /\ x.row = None
    BY <1>1, HoursAssumption
       DEF Record, Leave, Finish, rows, locks, outside, faults, At, Kind, Consistent, StagesOf,
           Stages, Kinds, Reasons
  <1>3. Moved(s, y)
    BY <1>1, <1>2
       DEF Record, Leave, Finish, rows, locks, outside, faults, Moved, BriefingMoves, EveningMoves,
           OwnLock, Free, DayIsSound, RowTypes, BriefingIsSound
  <1>4. Consistent(y) /\ Remembers(y, refused') /\ FitsRows(y, briefing', evening')
    BY DoneFits
  <1>6. HoldsLocks(s, y, tickLock', briefingLock', eveningLock')
    BY <1>1, <1>2
       DEF Record, Leave, locks, outside, faults, HoldsLocks, WritesBriefing, WritesEvening, Free,
           Session, Consistent, Stages, Kinds, Done
  <1>7. Quiet(s, y)
    BY <1>1, <1>2
       DEF Record, Leave, locks, outside, faults, Quiet, ClaimsPush, ClaimsEvening, Told,
           HoldsLocks, Free, Session, Consistent, Concludes, Stages, Kinds, Reasons, Done
  <1> QED
    BY <1>3, <1>4, <1>6, <1>7, QuietStep DEF FitsThen

\* The row that was written under the lock is committed with the alert.
LEMMA RecordBriefing ==
    ASSUME DayIsSound, NEW s \in Sessions, Record(s), sessions[s].alert # "evening_brief_failed"
    PROVE  DayIsSound'
  <1> DEFINE x == sessions[s]
             y == [Done EXCEPT !.kind = "tick", !.hour = sessions[s].hour, !.stage = "evening"]
  <1> USE NoneAssumption
  <1>1. /\ Consistent(x) /\ Remembers(x, refused) /\ FitsRows(x, briefing, evening)
        /\ HoldsLocks(s, x, tickLock, briefingLock, eveningLock)
    BY DEF DayIsSound, SessionsFit, Fits
  <1>2. /\ x.stage = "recording" /\ x.kind = "tick" /\ x \in Session
        /\ x.alert \in Reasons \cup {None} /\ x.row \in Row /\ briefingLock = s
        /\ briefing \in Row /\ ~briefing.claimed
    BY <1>1, HoursAssumption
       DEF Record, ToEvening, rows, locks, outside, faults, At, Kind, Consistent, StagesOf, Stages,
           Concludes, HasRead, DayIsSound, RowTypes, Done, FitsRows, HasRead, HoldsLocks,
           WritesBriefing, WritesEvening, RowsSound, BriefingIsSound, Session
  <1>3. Moved(s, y)
    BY <1>1, <1>2
       DEF Record, ToEvening, outside, faults, Moved, BriefingMoves, EveningMoves, OwnLock, Free,
           DayIsSound, RowTypes, BriefingIsSound, Remembers, Consistent, Session, Row, NewRow,
           Statuses
  <1>4. Consistent(y) /\ Remembers(y, refused') /\ FitsRows(y, briefing', evening')
    BY <1>1, <1>2, EveningFits
  <1>6. HoldsLocks(s, y, tickLock', briefingLock', eveningLock')
    BY <1>1, <1>2
       DEF Record, ToEvening, rows, HoldsLocks, WritesBriefing, WritesEvening, Free, Session,
           Consistent, Stages, Kinds, Done
  <1>7. Quiet(s, y)
    BY <1>1, <1>2
       DEF Record, ToEvening, rows, locks, outside, faults, Quiet, ClaimsPush, ClaimsEvening, Told,
           HoldsLocks, Free
  <1> QED
    BY <1>3, <1>4, <1>6, <1>7, QuietStep DEF FitsThen

\* A reply writes no row, and its mark one that exists.
LEMMA ReplyKeeps ==
    ASSUME DayIsSound, NEW s \in Sessions, Reply(s), NEW sent \in BOOLEAN,
           sessions' = [sessions EXCEPT ![s].sent = sent, ![s].stage = "marking"]
    PROVE  DayIsSound'
  <1> DEFINE x == sessions[s]
             y == [x EXCEPT !.sent = sent, !.stage = "marking"]
  <1> USE NoneAssumption
  <1>1. /\ Consistent(x) /\ Remembers(x, refused) /\ FitsRows(x, briefing, evening)
        /\ HoldsLocks(s, x, tickLock, briefingLock, eveningLock)
    BY DEF DayIsSound, SessionsFit, Fits
  <1>2. x.stage = "replying" /\ x.kind = "asked" /\ x \in Session /\ x.row = None
    BY <1>1, HoursAssumption
       DEF Reply, rows, locks, outside, faults, At, DayIsSound, RowTypes, Done, FitsRows,
           HoldsLocks, WritesBriefing, WritesEvening, RowsSound, BriefingIsSound, Session, Kinds,
           Reasons
  <1>3. Moved(s, y)
    BY <1>1, <1>2 DEF DayIsSound, RowTypes, BriefingIsSound, Remembers, Consistent, Session
  <1>4. Consistent(y)
    BY <1>1, <1>2, HoursAssumption
       DEF Consistent, StagesOf, Stages, Concludes, HasRead, Session, Kinds, Reasons
  <1>5. Remembers(y, refused') /\ FitsRows(y, briefing', evening')
    BY <1>1, <1>2, <1>3
       DEF Reply, rows, locks, outside, faults, Remembers, FitsRows, WritesEvening, HasRead
  <1>6. HoldsLocks(s, y, tickLock', briefingLock', eveningLock')
    BY <1>1, <1>2
       DEF Reply, rows, locks, outside, faults, HoldsLocks, WritesBriefing, WritesEvening, Free
  <1>7. Quiet(s, y)
    BY <1>1, <1>2
       DEF Reply, rows, locks, outside, faults, Quiet, ClaimsPush, ClaimsEvening, Told, HoldsLocks,
           Free, Session
  <1> QED
    BY <1>3, <1>4, <1>5, <1>6, <1>7, QuietStep DEF FitsThen

\* The mark of a reply leaves the claim alone.
LEMMA MarkKeeps ==
    ASSUME DayIsSound, NEW s \in Sessions, Mark(s)
    PROVE  DayIsSound'
  <1> DEFINE x == sessions[s]
             y == Done
  <1> USE NoneAssumption
  <1>1. /\ Consistent(x) /\ Remembers(x, refused) /\ FitsRows(x, briefing, evening)
        /\ HoldsLocks(s, x, tickLock, briefingLock, eveningLock)
    BY DEF DayIsSound, SessionsFit, Fits
  <1>2. /\ x.stage = "marking" /\ x.kind = "asked" /\ x \in Session /\ x.row = None
        /\ briefing \in Row /\ tickLock # s
    BY <1>1, HoursAssumption
       DEF Mark, Finish, rows, locks, outside, faults, At, Kind, Consistent, StagesOf, Stages,
           Concludes, HasRead, DayIsSound, RowTypes, Done, FitsRows, HasRead, HoldsLocks,
           WritesBriefing, WritesEvening, RowsSound, BriefingIsSound, Session
  <1>3. Moved(s, y)
    BY <1>1, <1>2
       DEF Mark, Finish, rows, locks, outside, faults, Moved, BriefingMoves, EveningMoves, OwnLock,
           Free, DayIsSound, RowTypes, BriefingIsSound, Remembers, Consistent, Session, Row,
           NewRow, Statuses
  <1>4. Consistent(y) /\ Remembers(y, refused') /\ FitsRows(y, briefing', evening')
    BY DoneFits
  <1>6. HoldsLocks(s, y, tickLock', briefingLock', eveningLock')
    BY <1>1, <1>2
       DEF Mark, Finish, rows, locks, outside, faults, HoldsLocks, WritesBriefing, WritesEvening,
           Stages, Kinds, Done
  <1>7. Quiet(s, y)
    BY <1>1, <1>2
       DEF Mark, Finish, rows, locks, outside, faults, Quiet, ClaimsPush, ClaimsEvening, Told,
           HoldsLocks, Free, Kinds, Reasons, Done
  <1> QED
    BY <1>3, <1>4, <1>6, <1>7, QuietStep DEF FitsThen

\* The evening brief is claimed by one session and logged in the same commit.
LEMMA EveningNotDue ==
    ASSUME DayIsSound, NEW s \in Sessions, CheckEvening(s),
           (Kind(s) = "tick" /\ sessions[s].hour < EveningHour) \/ evening.logged
    PROVE  DayIsSound'
  <1> DEFINE x == sessions[s]
             y == Done
  <1> USE NoneAssumption
  <1>1. /\ Consistent(x) /\ Remembers(x, refused) /\ FitsRows(x, briefing, evening)
        /\ HoldsLocks(s, x, tickLock, briefingLock, eveningLock)
    BY DEF DayIsSound, SessionsFit, Fits
  <1>2. x.stage = "evening" /\ x.kind \in {"tick", "evening_now"} /\ x \in Session /\ x.row = None
    BY <1>1, HoursAssumption
       DEF CheckEvening, Leave, Finish, rows, locks, outside, faults, At, Kind, Consistent,
           StagesOf, Stages, Concludes, DayIsSound, RowTypes, Done, FitsRows, Session
  <1>3. Moved(s, y)
    BY <1>1, <1>2
       DEF CheckEvening, Leave, Finish, rows, locks, outside, faults, Moved, BriefingMoves,
           EveningMoves, OwnLock, Free, DayIsSound, RowTypes, BriefingIsSound
  <1>4. Consistent(y) /\ Remembers(y, refused') /\ FitsRows(y, briefing', evening')
    BY DoneFits
  <1>6. HoldsLocks(s, y, tickLock', briefingLock', eveningLock')
    BY <1>1, <1>2
       DEF CheckEvening, Leave, locks, outside, faults, HoldsLocks, WritesBriefing, WritesEvening,
           Free, Session, Consistent, Stages, Kinds, Done
  <1>7. Quiet(s, y)
    BY <1>1, <1>2
       DEF CheckEvening, Leave, locks, outside, faults, Quiet, ClaimsPush, ClaimsEvening, Told,
           HoldsLocks, Free, Session, Consistent, Concludes, Stages, Kinds, Reasons, Done
  <1> QED
    BY <1>3, <1>4, <1>6, <1>7, QuietStep DEF FitsThen

\* A brief that is not logged is still to be sent.
LEMMA EveningDue ==
    ASSUME DayIsSound, NEW s \in Sessions, CheckEvening(s),
           ~((Kind(s) = "tick" /\ sessions[s].hour < EveningHour) \/ evening.logged)
    PROVE  DayIsSound'
  <1> DEFINE x == sessions[s]
             y == [x EXCEPT !.stage = "upserting"]
  <1> USE NoneAssumption
  <1>1. /\ Consistent(x) /\ Remembers(x, refused) /\ FitsRows(x, briefing, evening)
        /\ HoldsLocks(s, x, tickLock, briefingLock, eveningLock)
    BY DEF DayIsSound, SessionsFit, Fits
  <1>2. x.stage = "evening" /\ x.kind \in {"tick", "evening_now"} /\ x \in Session /\ x.row = None
    BY <1>1, HoursAssumption
       DEF CheckEvening, GoTo, rows, locks, outside, faults, At, Kind, Consistent, StagesOf,
           Stages, Concludes
  <1>3. Moved(s, y)
    BY <1>1, <1>2
       DEF CheckEvening, GoTo, rows, locks, outside, faults, Moved, BriefingMoves, EveningMoves,
           OwnLock, Free, DayIsSound, RowTypes, BriefingIsSound, Remembers
  <1>4. Consistent(y)
    BY <1>1, <1>2, HoursAssumption
       DEF Consistent, StagesOf, Stages, Concludes, HasRead, Session, Kinds, Reasons
  <1>5. Remembers(y, refused') /\ FitsRows(y, briefing', evening')
    BY <1>1, <1>2, <1>3
       DEF CheckEvening, GoTo, rows, locks, outside, faults, Remembers, FitsRows, WritesEvening,
           HasRead, Moved, Session
  <1>6. HoldsLocks(s, y, tickLock', briefingLock', eveningLock')
    BY <1>1, <1>2 DEF CheckEvening, GoTo, rows, HoldsLocks, WritesBriefing, WritesEvening
  <1>7. Quiet(s, y)
    BY <1>1, <1>2
       DEF CheckEvening, GoTo, rows, locks, outside, faults, Quiet, ClaimsPush, ClaimsEvening,
           Told, HoldsLocks, Free
  <1> QED
    BY <1>3, <1>4, <1>5, <1>6, <1>7, QuietStep DEF FitsThen

\* A lost claim sends nothing.
LEMMA UpsertLost ==
    ASSUME DayIsSound, NEW s \in Sessions, UpsertSnapshot(s), evening.claimed
    PROVE  DayIsSound'
  <1> DEFINE x == sessions[s]
             y == [x EXCEPT !.stage = "checking"]
  <1> USE NoneAssumption
  <1>1. /\ Consistent(x) /\ Remembers(x, refused) /\ FitsRows(x, briefing, evening)
        /\ HoldsLocks(s, x, tickLock, briefingLock, eveningLock)
    BY DEF DayIsSound, SessionsFit, Fits
  <1>2. x.stage = "upserting" /\ x.kind \in {"tick", "evening_now"} /\ x \in Session /\ x.row = None
    BY <1>1, HoursAssumption
       DEF UpsertSnapshot, GoTo, rows, locks, outside, faults, At, Kind, Consistent, StagesOf,
           Stages, Concludes
  <1>3. Moved(s, y)
    BY <1>1, <1>2
       DEF UpsertSnapshot, GoTo, rows, locks, outside, faults, Moved, BriefingMoves, EveningMoves,
           OwnLock, Free, DayIsSound, RowTypes, BriefingIsSound, Remembers
  <1>4. Consistent(y)
    BY <1>1, <1>2, HoursAssumption
       DEF Consistent, StagesOf, Stages, Concludes, HasRead, Session, Kinds, Reasons
  <1>5. Remembers(y, refused') /\ FitsRows(y, briefing', evening')
    BY <1>1, <1>2, <1>3
       DEF UpsertSnapshot, GoTo, rows, locks, outside, faults, Remembers, FitsRows, WritesEvening,
           HasRead, Moved, Session
  <1>6. HoldsLocks(s, y, tickLock', briefingLock', eveningLock')
    BY <1>1, <1>2 DEF UpsertSnapshot, GoTo, rows, HoldsLocks, WritesBriefing, WritesEvening
  <1>7. Quiet(s, y)
    BY <1>1, <1>2
       DEF UpsertSnapshot, GoTo, rows, locks, outside, faults, Quiet, ClaimsPush, ClaimsEvening,
           Told, HoldsLocks, Free
  <1> QED
    BY <1>3, <1>4, <1>5, <1>6, <1>7, QuietStep DEF FitsThen

\* A claim that is won is of a brief that was not sent.
LEMMA UpsertWon ==
    ASSUME DayIsSound, NEW s \in Sessions, UpsertSnapshot(s), ~evening.claimed
    PROVE  DayIsSound'
  <1> DEFINE x == sessions[s]
             y == [x EXCEPT !.stage = "sending"]
  <1> USE NoneAssumption
  <1>1. /\ Consistent(x) /\ Remembers(x, refused) /\ FitsRows(x, briefing, evening)
        /\ HoldsLocks(s, x, tickLock, briefingLock, eveningLock)
    BY DEF DayIsSound, SessionsFit, Fits
  <1>2. x.stage = "upserting" /\ x.kind \in {"tick", "evening_now"} /\ x \in Session /\ x.row = None
    BY <1>1, HoursAssumption
       DEF UpsertSnapshot, GoTo, rows, locks, outside, faults, At, Kind, Consistent, StagesOf,
           Stages, Concludes
  <1>3. Moved(s, y)
    BY <1>1, <1>2
       DEF UpsertSnapshot, GoTo, rows, locks, outside, faults, Moved, BriefingMoves, EveningMoves,
           OwnLock, Free, DayIsSound, RowTypes, BriefingIsSound, Remembers
  <1>4. Consistent(y)
    BY <1>1, <1>2, HoursAssumption
       DEF Consistent, StagesOf, Stages, Concludes, HasRead, Session, Kinds, Reasons
  <1>5. Remembers(y, refused') /\ FitsRows(y, briefing', evening')
    BY <1>1, <1>2, <1>3
       DEF UpsertSnapshot, GoTo, rows, locks, outside, faults, Remembers, FitsRows, WritesEvening,
           HasRead, Moved, Session
  <1>6. HoldsLocks(s, y, tickLock', briefingLock', eveningLock')
    BY <1>1, <1>2 DEF UpsertSnapshot, GoTo, rows, HoldsLocks, WritesBriefing, WritesEvening
  <1>7. Quiet(s, y)
    BY <1>1, <1>2
       DEF UpsertSnapshot, GoTo, rows, locks, outside, faults, Quiet, ClaimsPush, ClaimsEvening,
           Told, HoldsLocks, Free
  <1> QED
    BY <1>3, <1>4, <1>5, <1>6, <1>7, QuietStep DEF FitsThen

\* A refused brief takes its claim back.
LEMMA SendEveningFailsKeeps ==
    ASSUME DayIsSound, NEW s \in Sessions, SendEveningFails(s)
    PROVE  DayIsSound'
  <1> DEFINE x == sessions[s]
             y == [x EXCEPT !.stage = "logging"]
  <1> USE NoneAssumption
  <1>1. /\ Consistent(x) /\ Remembers(x, refused) /\ FitsRows(x, briefing, evening)
        /\ HoldsLocks(s, x, tickLock, briefingLock, eveningLock)
    BY DEF DayIsSound, SessionsFit, Fits
  <1>2. /\ x.stage = "sending" /\ x.kind \in {"tick", "evening_now"} /\ x \in Session
        /\ x.row = None /\ ~x.sent /\ ~evening.claimed
    BY <1>1, HoursAssumption
       DEF SendEveningFails, GoTo, rows, locks, outside, faults, At, Kind, Consistent, StagesOf,
           Stages, Concludes, HasRead, DayIsSound, RowTypes, Done, FitsRows, HasRead, HoldsLocks,
           WritesBriefing, WritesEvening, RowsSound, BriefingIsSound, Session
  <1>3. Moved(s, y)
    BY <1>1, <1>2
       DEF SendEveningFails, GoTo, rows, locks, outside, faults, Moved, BriefingMoves,
           EveningMoves, OwnLock, Free, DayIsSound, RowTypes, BriefingIsSound, Remembers
  <1>4. Consistent(y)
    BY <1>1, <1>2, HoursAssumption
       DEF Consistent, StagesOf, Stages, Concludes, HasRead, Session, Kinds, Reasons
  <1>5. Remembers(y, refused') /\ FitsRows(y, briefing', evening')
    BY <1>1, <1>2, <1>3
       DEF SendEveningFails, GoTo, rows, locks, outside, faults, Remembers, FitsRows,
           WritesEvening, HasRead, Moved, Session
  <1>6. HoldsLocks(s, y, tickLock', briefingLock', eveningLock')
    BY <1>1, <1>2
       DEF SendEveningFails, GoTo, rows, locks, outside, faults, HoldsLocks, WritesBriefing,
           WritesEvening
  <1>7. Quiet(s, y)
    BY <1>1, <1>2
       DEF SendEveningFails, GoTo, rows, locks, outside, faults, Quiet, ClaimsPush, ClaimsEvening,
           Told, HoldsLocks, Free
  <1> QED
    BY <1>3, <1>4, <1>5, <1>6, <1>7, QuietStep DEF FitsThen

\* The commit has claim and log agree.
LEMMA LogEveningKeeps ==
    ASSUME DayIsSound, NEW s \in Sessions, LogEvening(s)
    PROVE  DayIsSound'
  <1> DEFINE x == sessions[s]
             y == [x EXCEPT !.sent = FALSE, !.stage = "checking"]
  <1> USE NoneAssumption
  <1>1. /\ Consistent(x) /\ Remembers(x, refused) /\ FitsRows(x, briefing, evening)
        /\ HoldsLocks(s, x, tickLock, briefingLock, eveningLock)
    BY DEF DayIsSound, SessionsFit, Fits
  <1>2. /\ x.stage = "logging" /\ x.kind \in {"tick", "evening_now"} /\ x \in Session
        /\ x.row = None /\ ~evening.claimed /\ ~evening.logged /\ eveningLock = s
        /\ x.sent \in BOOLEAN
    BY <1>1, HoursAssumption
       DEF LogEvening, rows, locks, outside, faults, At, DayIsSound, RowTypes, Done, FitsRows,
           HoldsLocks, WritesBriefing, WritesEvening, RowsSound, BriefingIsSound, Session, Kinds,
           Reasons
  <1>3. Moved(s, y)
    BY <1>1, <1>2
       DEF LogEvening, rows, locks, outside, OwnLock, Free, DayIsSound, RowTypes, BriefingIsSound,
           Remembers, Consistent, Session
  <1>4. Consistent(y)
    BY <1>1, <1>2, HoursAssumption
       DEF Consistent, StagesOf, Stages, Concludes, HasRead, Session, Kinds, Reasons
  <1>5. Remembers(y, refused') /\ FitsRows(y, briefing', evening')
    BY <1>1, <1>2, <1>3
       DEF LogEvening, rows, locks, outside, faults, Remembers, FitsRows, WritesEvening, HasRead
  <1>6. HoldsLocks(s, y, tickLock', briefingLock', eveningLock')
    BY <1>1, <1>2
       DEF LogEvening, rows, locks, outside, faults, HoldsLocks, WritesBriefing, WritesEvening, Free
  <1>7. Quiet(s, y)
    BY <1>1, <1>2
       DEF LogEvening, rows, locks, outside, faults, Quiet, ClaimsPush, ClaimsEvening, Told,
           HoldsLocks, Free, Session
  <1> QED
    BY <1>3, <1>4, <1>5, <1>6, <1>7, QuietStep DEF FitsThen

\* A delivered brief ends the dispatch.
LEMMA CheckFinds ==
    ASSUME DayIsSound, NEW s \in Sessions, CheckAgain(s),
           ~(Kind(s) = "tick" /\ ~evening.logged /\ sessions[s].hour >= EveningHour + 1)
    PROVE  DayIsSound'
  <1> DEFINE x == sessions[s]
             y == Done
  <1> USE NoneAssumption
  <1>1. /\ Consistent(x) /\ Remembers(x, refused) /\ FitsRows(x, briefing, evening)
        /\ HoldsLocks(s, x, tickLock, briefingLock, eveningLock)
    BY DEF DayIsSound, SessionsFit, Fits
  <1>2. x.stage = "checking" /\ x.kind \in {"tick", "evening_now"} /\ x \in Session /\ x.row = None
    BY <1>1, HoursAssumption
       DEF CheckAgain, Leave, Finish, rows, locks, outside, faults, At, Kind, Consistent, StagesOf,
           Stages, Concludes, DayIsSound, RowTypes, Done, FitsRows, Session
  <1>3. Moved(s, y)
    BY <1>1, <1>2
       DEF CheckAgain, Leave, Finish, rows, locks, outside, faults, Moved, BriefingMoves,
           EveningMoves, OwnLock, Free, DayIsSound, RowTypes, BriefingIsSound
  <1>4. Consistent(y) /\ Remembers(y, refused') /\ FitsRows(y, briefing', evening')
    BY DoneFits
  <1>6. HoldsLocks(s, y, tickLock', briefingLock', eveningLock')
    BY <1>1, <1>2
       DEF CheckAgain, Leave, locks, outside, faults, HoldsLocks, WritesBriefing, WritesEvening,
           Free, Session, Consistent, Stages, Kinds, Done
  <1>7. Quiet(s, y)
    BY <1>1, <1>2
       DEF CheckAgain, Leave, locks, outside, faults, Quiet, ClaimsPush, ClaimsEvening, Told,
           HoldsLocks, Free, Session, Consistent, Concludes, Stages, Kinds, Reasons, Done
  <1> QED
    BY <1>3, <1>4, <1>6, <1>7, QuietStep DEF FitsThen

\* An undelivered one is told.
LEMMA CheckMisses ==
    ASSUME DayIsSound, NEW s \in Sessions, CheckAgain(s),
           Kind(s) = "tick" /\ ~evening.logged /\ sessions[s].hour >= EveningHour + 1
    PROVE  DayIsSound'
  <1> DEFINE x == sessions[s]
             y == [x EXCEPT !.alert = "evening_brief_failed", !.stage = "alerting"]
  <1> USE NoneAssumption
  <1>1. /\ Consistent(x) /\ Remembers(x, refused) /\ FitsRows(x, briefing, evening)
        /\ HoldsLocks(s, x, tickLock, briefingLock, eveningLock)
    BY DEF DayIsSound, SessionsFit, Fits
  <1>2. x.stage = "checking" /\ x.kind = "tick" /\ x \in Session /\ x.row = None
    BY <1>1, HoursAssumption
       DEF CheckAgain, rows, locks, outside, faults, At, DayIsSound, RowTypes, Done, FitsRows,
           HoldsLocks, WritesBriefing, WritesEvening, RowsSound, BriefingIsSound, Session, Kinds,
           Reasons
  <1>3. Moved(s, y)
    BY <1>1, <1>2
       DEF CheckAgain, rows, locks, outside, OwnLock, Free, DayIsSound, RowTypes, BriefingIsSound,
           Remembers, Consistent, Session
  <1>4. Consistent(y)
    BY <1>1, <1>2, HoursAssumption
       DEF Consistent, StagesOf, Stages, Concludes, HasRead, Session, Kinds, Reasons
  <1>5. Remembers(y, refused') /\ FitsRows(y, briefing', evening')
    BY <1>1, <1>2, <1>3
       DEF CheckAgain, rows, locks, outside, faults, Remembers, FitsRows, WritesEvening, HasRead
  <1>6. HoldsLocks(s, y, tickLock', briefingLock', eveningLock')
    BY <1>1, <1>2
       DEF CheckAgain, rows, locks, outside, faults, HoldsLocks, WritesBriefing, WritesEvening, Free
  <1>7. Quiet(s, y)
    BY <1>1, <1>2
       DEF CheckAgain, rows, locks, outside, faults, Quiet, ClaimsPush, ClaimsEvening, Told,
           HoldsLocks, Free, Session
  <1> QED
    BY <1>3, <1>4, <1>5, <1>6, <1>7, QuietStep DEF FitsThen

\* What the operator has been told today is not told again.
LEMMA ToldEvening ==
    ASSUME DayIsSound, NEW s \in Sessions, SendAlert(s), sessions[s].alert \in alerts,
           sessions[s].alert = "evening_brief_failed"
    PROVE  DayIsSound'
  <1> DEFINE x == sessions[s]
             y == Done
  <1> USE NoneAssumption
  <1>1. /\ Consistent(x) /\ Remembers(x, refused) /\ FitsRows(x, briefing, evening)
        /\ HoldsLocks(s, x, tickLock, briefingLock, eveningLock)
    BY DEF DayIsSound, SessionsFit, Fits
  <1>2. x.stage = "alerting" /\ x.kind = "tick" /\ x \in Session /\ x.row = None
    BY <1>1, HoursAssumption
       DEF SendAlert, Leave, Finish, rows, locks, outside, faults, At, Kind, Consistent, StagesOf,
           Stages
  <1>3. Moved(s, y)
    BY <1>1, <1>2
       DEF SendAlert, Leave, Finish, rows, locks, outside, faults, Moved, BriefingMoves,
           EveningMoves, OwnLock, Free, DayIsSound, RowTypes, BriefingIsSound
  <1>4. Consistent(y) /\ Remembers(y, refused') /\ FitsRows(y, briefing', evening')
    BY DoneFits
  <1>6. HoldsLocks(s, y, tickLock', briefingLock', eveningLock')
    BY <1>1, <1>2
       DEF SendAlert, Leave, locks, outside, faults, HoldsLocks, WritesBriefing, WritesEvening,
           Free, Session, Consistent, Stages, Kinds, Done
  <1>7. Quiet(s, y)
    BY <1>1, <1>2
       DEF SendAlert, Leave, locks, outside, faults, Quiet, ClaimsPush, ClaimsEvening, Told,
           HoldsLocks, Free, Session, Consistent, Concludes, Stages, Kinds, Reasons, Done
  <1> QED
    BY <1>3, <1>4, <1>6, <1>7, QuietStep DEF FitsThen

\* A briefing's failure that was told is only recorded.
LEMMA ToldBriefing ==
    ASSUME DayIsSound, NEW s \in Sessions, SendAlert(s), sessions[s].alert \in alerts,
           sessions[s].alert # "evening_brief_failed"
    PROVE  DayIsSound'
  <1> DEFINE x == sessions[s]
             y == [x EXCEPT !.alert = None, !.stage = "recording"]
  <1> USE NoneAssumption
  <1>1. /\ Consistent(x) /\ Remembers(x, refused) /\ FitsRows(x, briefing, evening)
        /\ HoldsLocks(s, x, tickLock, briefingLock, eveningLock)
    BY DEF DayIsSound, SessionsFit, Fits
  <1>2. x.stage = "alerting" /\ x.kind = "tick" /\ x \in Session /\ x.row # None
    BY <1>1, HoursAssumption
       DEF SendAlert, rows, locks, outside, faults, At, DayIsSound, RowTypes, Done, FitsRows,
           HoldsLocks, WritesBriefing, WritesEvening, RowsSound, BriefingIsSound, Session, Kinds,
           Reasons
  <1>3. Moved(s, y)
    BY <1>1, <1>2
       DEF SendAlert, rows, locks, outside, OwnLock, Free, DayIsSound, RowTypes, BriefingIsSound,
           Remembers, Consistent, Session
  <1>4. Consistent(y)
    BY <1>1, <1>2, HoursAssumption
       DEF Consistent, StagesOf, Stages, Concludes, HasRead, Session, Kinds, Reasons
  <1>5. Remembers(y, refused') /\ FitsRows(y, briefing', evening')
    BY <1>1, <1>2, <1>3
       DEF SendAlert, rows, locks, outside, faults, Remembers, FitsRows, WritesEvening, HasRead,
           Reasons
  <1>6. HoldsLocks(s, y, tickLock', briefingLock', eveningLock')
    BY <1>1, <1>2
       DEF SendAlert, rows, locks, outside, faults, HoldsLocks, WritesBriefing, WritesEvening, Free
  <1>7. Quiet(s, y)
    BY <1>1, <1>2
       DEF SendAlert, rows, locks, outside, faults, Quiet, ClaimsPush, ClaimsEvening, Told,
           HoldsLocks, Free, Session
  <1> QED
    BY <1>3, <1>4, <1>5, <1>6, <1>7, QuietStep DEF FitsThen

--------------------------------------------------------------------------------
\* The steps that send, and the faults.

\* Nothing is known of a push while a session is about to make one.
LEMMA PushIsNew ==
    ASSUME DayIsSound, NEW s \in Sessions, sessions[s].stage = "pushing"
    PROVE  ~PushIsKnown /\ briefingLock = s
  <1>1. Fits(s, sessions[s]) /\ sessions[s].row = None
    BY DEF DayIsSound, SessionsFit, Fits, Consistent, Concludes
  <1>2. briefingLock = s /\ ~briefing.claimed
    BY <1>1 DEF Fits, HoldsLocks, WritesBriefing, FitsRows
  <1>3. ASSUME NEW q \in Sessions PROVE ~ClaimsPush(sessions[q])
    BY <1>1, <1>2 DEF DayIsSound, SessionsFit, Fits, HoldsLocks, WritesBriefing, ClaimsPush
  <1> QED
    BY <1>2, <1>3 DEF PushIsKnown

\* The push is the first that no crash has taken.
LEMMA PushKeeps ==
    ASSUME DayIsSound, NEW s \in Sessions, Push(s)
    PROVE  DayIsSound'
  <1> DEFINE x == sessions[s]
             y == [x EXCEPT !.row = [status |-> "sent", claimed |-> TRUE], !.sent = TRUE,
                            !.stage = "recording"]
  <1> USE NoneAssumption
  <1>1. /\ Consistent(x) /\ Remembers(x, refused) /\ FitsRows(x, briefing, evening)
        /\ HoldsLocks(s, x, tickLock, briefingLock, eveningLock)
    BY DEF DayIsSound, SessionsFit, Fits
  <1>2. /\ x.stage = "pushing" /\ x.kind = "tick" /\ x \in Session /\ x.row = None /\ x.alert = None
        /\ briefing # None /\ ~briefing.claimed
    BY <1>1 DEF Push, At, Consistent, StagesOf, Stages, Concludes, FitsRows
  <1>3. Moved(s, y)
    BY <1>2 DEF Push, rows, locks, Session, DayIsSound, RowTypes
  <1>4. [status |-> "sent", claimed |-> TRUE] \in Row
    BY DEF Row, Statuses
  <1>5. /\ y \in Session /\ y.row = [status |-> "sent", claimed |-> TRUE] /\ y.row # None
        /\ y.stage = "recording" /\ y.kind = "tick" /\ y.alert = None /\ y.retry = x.retry
    BY <1>2, <1>4 DEF Session, Stages
  <1>6. Consistent(y)
    BY <1>5 DEF Consistent, StagesOf, Stages, Concludes, HasRead, Kinds, Reasons
  <1>7. Remembers(y, refused') /\ FitsRows(y, briefing', evening')
    BY <1>1, <1>2, <1>5 DEF Push, rows, Remembers, FitsRows, WritesEvening, Reasons
  <1>8. HoldsLocks(s, y, tickLock', briefingLock', eveningLock')
    BY <1>1, <1>2, <1>5 DEF Push, locks, HoldsLocks, WritesBriefing, WritesEvening
  <1>9. RowTypes' /\ SessionsFit' /\ RowsSound'
    BY <1>3, <1>6, <1>7, <1>8, MoveIsSound DEF FitsThen
  <1>10. /\ UNCHANGED <<evenings, alerted, crashes, drops>> /\ pushed' = pushed + 1
         /\ crashes \in Nat /\ drops \in Nat /\ pushed \in Nat
    BY DEF Push, faults, DayIsSound, CountTypes
  <1>11. CountTypes'
    BY <1>10 DEF DayIsSound, CountTypes
  <1>12. PushesCovered'
    <2>1. PushIsKnown'
      <3>1. sessions'[s] = y /\ ClaimsPush(y)
        BY <1>3, <1>5, OneMoves DEF ClaimsPush
      <3> QED
        BY <3>1 DEF PushIsKnown
    <2> QED
      BY <1>2, <1>10, <2>1, PushIsNew DEF DayIsSound, PushesCovered
  <1>13. EveningsCovered' /\ AlertsCovered'
    BY <1>2, <1>3, <1>10, EveningsStay, AlertsStay DEF ClaimsEvening, Told
  <1>14. Strays' \subseteq Strays
    BY <1>2, <1>3, NoMoreStrays DEF Push, locks
  <1>15. EveningAlertsCovered'
    BY <1>2, <1>3, <1>10, <1>14, StraysCovered, EveningAlertsStay DEF Told
  <1> QED
    BY <1>9, <1>11, <1>12, <1>13, <1>15 DEF DayIsSound

\* The same of the evening brief.
LEMMA EveningIsNew ==
    ASSUME DayIsSound, NEW s \in Sessions, sessions[s].stage = "sending"
    PROVE  ~EveningIsKnown
  <1>1. Fits(s, sessions[s])
    BY DEF DayIsSound, SessionsFit
  <1>2. eveningLock = s /\ ~evening.claimed
    BY <1>1 DEF Fits, HoldsLocks, WritesEvening, FitsRows
  <1>3. ASSUME NEW q \in Sessions PROVE ~ClaimsEvening(sessions[q])
    BY <1>2 DEF DayIsSound, SessionsFit, Fits, HoldsLocks, WritesEvening, ClaimsEvening
  <1> QED
    BY <1>2, <1>3 DEF EveningIsKnown

\* The brief is the first that no crash has taken.
LEMMA SendEveningKeeps ==
    ASSUME DayIsSound, NEW s \in Sessions, SendEvening(s)
    PROVE  DayIsSound'
  <1> DEFINE x == sessions[s]
             y == [x EXCEPT !.sent = TRUE, !.stage = "logging"]
  <1> USE NoneAssumption
  <1>1. /\ Consistent(x) /\ Remembers(x, refused) /\ FitsRows(x, briefing, evening)
        /\ HoldsLocks(s, x, tickLock, briefingLock, eveningLock)
    BY DEF DayIsSound, SessionsFit, Fits
  <1>2. /\ x.stage = "sending" /\ x.kind \in {"tick", "evening_now"} /\ x \in Session
        /\ x.row = None /\ x.alert = None
    BY <1>1 DEF SendEvening, At, Consistent, StagesOf, Stages, Concludes
  <1>3. Moved(s, y)
    BY <1>2 DEF SendEvening, rows, locks, Session, DayIsSound, RowTypes
  <1>4. /\ y \in Session /\ y.row = None /\ y.stage = "logging" /\ y.kind = x.kind /\ y.alert = None
        /\ y.retry = x.retry /\ y.sent
    BY <1>2 DEF Session, Stages
  <1>5. Consistent(y)
    BY <1>2, <1>4 DEF Consistent, StagesOf, Stages, Concludes, HasRead, Kinds, Reasons
  <1>6. Remembers(y, refused') /\ FitsRows(y, briefing', evening')
    BY <1>1, <1>2, <1>4 DEF SendEvening, rows, Remembers, FitsRows, WritesEvening, HasRead, Reasons
  <1>7. HoldsLocks(s, y, tickLock', briefingLock', eveningLock')
    BY <1>1, <1>2, <1>4 DEF SendEvening, locks, HoldsLocks, WritesBriefing, WritesEvening
  <1>8. RowTypes' /\ SessionsFit' /\ RowsSound'
    BY <1>3, <1>5, <1>6, <1>7, MoveIsSound DEF FitsThen
  <1>9. /\ UNCHANGED <<pushed, alerted, crashes, drops>> /\ evenings' = evenings + 1
        /\ crashes \in Nat /\ drops \in Nat /\ evenings \in Nat
    BY DEF SendEvening, faults, DayIsSound, CountTypes
  <1>10. CountTypes'
    BY <1>9 DEF DayIsSound, CountTypes
  <1>11. EveningsCovered'
    <2>1. EveningIsKnown'
      BY <1>3, <1>4, OneMoves DEF EveningIsKnown, ClaimsEvening
    <2> QED
      BY <1>2, <1>9, <2>1, EveningIsNew DEF DayIsSound, EveningsCovered
  <1>12. PushesCovered' /\ AlertsCovered'
    BY <1>2, <1>3, <1>9, PushesStay, AlertsStay DEF ClaimsPush, Told
  <1>13. Strays' \subseteq Strays
    BY <1>2, <1>3, <1>4, NoMoreStrays DEF SendEvening, locks
  <1>14. EveningAlertsCovered'
    BY <1>2, <1>3, <1>9, <1>13, StraysCovered, EveningAlertsStay DEF Told
  <1> QED
    BY <1>8, <1>10, <1>11, <1>12, <1>14 DEF DayIsSound

\* The alert about the briefing is told under the lock of its row.
LEMMA AlertIsNew ==
    ASSUME DayIsSound, NEW s \in Sessions, sessions[s].stage = "alerting",
           sessions[s].alert = "briefing_failed", "briefing_failed" \notin alerts
    PROVE  ~AlertIsKnown /\ refused = 2
  <1>1. Fits(s, sessions[s]) /\ sessions[s].row # None
    BY DEF DayIsSound, SessionsFit, Fits, Consistent, Concludes
  <1>2. briefingLock = s /\ refused = 2
    BY <1>1 DEF Fits, HoldsLocks, WritesBriefing, Remembers
  <1>3. ASSUME NEW q \in Sessions, Told(sessions[q], "briefing_failed") PROVE FALSE
    <2>1. sessions[q].row # None
      BY <1>3 DEF DayIsSound, SessionsFit, Fits, Consistent, Concludes, Told
    <2>2. q = s
      BY <1>2, <2>1 DEF DayIsSound, SessionsFit, Fits, HoldsLocks, WritesBriefing
    <2> QED
      BY <1>3, <2>2 DEF Told
  <1> QED
    BY <1>2, <1>3 DEF AlertIsKnown

\* The operator is told what nobody has committed to have told him.
LEMMA TellKeeps ==
    ASSUME DayIsSound, NEW s \in Sessions, SendAlert(s), sessions[s].alert \notin alerts
    PROVE  DayIsSound'
  <1> DEFINE x == sessions[s]
             y == [x EXCEPT !.stage = "recording"]
  <1> USE NoneAssumption
  <1>1. /\ Consistent(x) /\ Remembers(x, refused) /\ FitsRows(x, briefing, evening)
        /\ HoldsLocks(s, x, tickLock, briefingLock, eveningLock)
    BY DEF DayIsSound, SessionsFit, Fits
  <1>2. /\ x.stage = "alerting" /\ x.kind = "tick" /\ x \in Session /\ x.alert \in Reasons
        /\ x.row # None => ~x.row.claimed
    BY <1>1 DEF SendAlert, At, Consistent, StagesOf, Stages, Session
  <1>3. Moved(s, y)
    BY
       DEF SendAlert, GoTo, rows, locks, Moved, BriefingMoves, EveningMoves, OwnLock, DayIsSound,
           RowTypes
  <1>4. /\ y \in Session /\ y.row = x.row /\ y.stage = "recording" /\ y.kind = x.kind
        /\ y.alert = x.alert /\ y.retry = x.retry /\ y.sent = x.sent
    BY <1>2 DEF Session, Stages
  <1>5. Consistent(y)
    BY <1>1, <1>2, <1>4 DEF Consistent, StagesOf, Stages, Concludes, HasRead, Kinds, Reasons
  <1>6. Remembers(y, refused') /\ FitsRows(y, briefing', evening')
    BY <1>1, <1>2, <1>4 DEF SendAlert, rows, Remembers, FitsRows, WritesEvening, HasRead
  <1>7. HoldsLocks(s, y, tickLock', briefingLock', eveningLock')
    BY <1>1, <1>2, <1>4 DEF SendAlert, HoldsLocks, WritesBriefing, WritesEvening
  <1>8. RowTypes' /\ SessionsFit' /\ RowsSound'
    BY <1>3, <1>5, <1>6, <1>7, MoveIsSound DEF FitsThen
  <1>9. /\ UNCHANGED <<pushed, evenings, crashes, drops, alerts, tickLock>>
        /\ alerted' = [alerted EXCEPT ![x.alert] = @ + 1]
        /\ crashes \in Nat /\ drops \in Nat /\ alerted \in [Reasons -> Nat]
    BY DEF SendAlert, rows, faults, DayIsSound, CountTypes
  <1>10. CountTypes'
    BY <1>2, <1>9 DEF DayIsSound, CountTypes
  <1>11. PushesCovered' /\ EveningsCovered'
    BY <1>2, <1>3, <1>4, <1>9, PushesStay, EveningsStay DEF ClaimsPush, ClaimsEvening
  <1>12. IsFiniteSet(Strays') /\ Cardinality(Strays') <= drops'
    BY <1>2, <1>3, <1>9, NoMoreStrays, StraysCovered
  <1>13. CASE x.alert = "briefing_failed"
    <2>1. /\ alerted'["briefing_failed"] = alerted["briefing_failed"] + 1
          /\ alerted'["evening_brief_failed"] = alerted["evening_brief_failed"]
          /\ alerted["briefing_failed"] \in Nat
      BY <1>9, <1>13 DEF Reasons
    <2>2. AlertIsKnown'
      BY <1>3, <1>4, <1>13, OneMoves DEF AlertIsKnown, Told
    <2>3. ~AlertIsKnown /\ refused = 2
      BY <1>2, <1>13, AlertIsNew
    <2>4. AlertsCovered'
      BY <1>9, <2>1, <2>2, <2>3 DEF DayIsSound, RowTypes, AlertsCovered, SendAlert
    <2>5. EveningAlertsCovered'
      BY <1>2, <1>3, <1>9, <1>12, <2>1, EveningAlertsStay DEF Told
    <2> QED
      BY <1>8, <1>10, <1>11, <2>4, <2>5 DEF DayIsSound
  <1>14. CASE x.alert = "evening_brief_failed"
    <2>1. /\ alerted'["evening_brief_failed"] = alerted["evening_brief_failed"] + 1
          /\ alerted'["briefing_failed"] = alerted["briefing_failed"]
          /\ alerted["evening_brief_failed"] \in Nat
      BY <1>9, <1>14 DEF Reasons
    <2>2. AlertsCovered'
      BY <1>2, <1>3, <1>9, <2>1, AlertsStay DEF Told
    <2>3. Tellers' = Tellers \cup {s} /\ s \notin Tellers
      <3>1. sessions'[s] = y /\ \A q \in Sessions \ {s} : sessions'[q] = sessions[q]
        BY <1>3, OneMoves
      <3>2. Told(y, "evening_brief_failed") /\ ~Told(x, "evening_brief_failed")
        BY <1>2, <1>4, <1>14 DEF Told
      <3> QED
        BY <3>1, <3>2 DEF Tellers
    <2>4. /\ Cardinality(Tellers') = Cardinality(Tellers) + 1
          /\ Cardinality(Tellers) \in Nat
      BY <2>3, TellersAreFew, FS_AddElement
    <2>5. Cardinality(Tellers \cup {s}) <= 1 + drops
      BY <1>2, TellersAreFew, TicksAreFew DEF Tellers
    <2>6. alerted["evening_brief_failed"] <= crashes + Cardinality(Tellers)
      BY <1>14 DEF DayIsSound, EveningAlertsCovered
    <2>7. EveningAlertsCovered'
      BY <1>9, <1>12, <2>1, <2>3, <2>4, <2>5, <2>6 DEF EveningAlertsCovered
    <2> QED
      BY <1>8, <1>10, <1>11, <2>2, <2>7 DEF DayIsSound
  <1> QED
    BY <1>2, <1>13, <1>14 DEF Reasons

\* A crash takes with it what its session had not committed: one message of
\* each kind at most, so the crash itself covers it.
LEMMA CrashKeeps ==
    ASSUME DayIsSound, NEW s \in Sessions, Crash(s)
    PROVE  DayIsSound'
  <1> USE NoneAssumption
  <1>1. HoldsLocks(s, sessions[s], tickLock, briefingLock, eveningLock)
    BY DEF DayIsSound, SessionsFit, Fits
  <1>2. Moved(s, Done)
    BY
       DEF Crash, Finish, Release, Free, rows, outside, Moved, BriefingMoves, EveningMoves,
           OwnLock, DayIsSound, RowTypes
  <1>3. HoldsLocks(s, Done, tickLock', briefingLock', eveningLock')
    BY DEF Crash, Release, Free, HoldsLocks, WritesBriefing, WritesEvening, Done, Stages
  <1>4. RowTypes' /\ SessionsFit' /\ RowsSound'
    BY <1>2, <1>3, DoneFits, MoveIsSound DEF FitsThen
  <1>5. /\ UNCHANGED <<pushed, evenings, alerted, drops, alerts, refused>> /\ crashes' = crashes + 1
        /\ crashes + drops < MaxFaults
        /\ crashes \in Nat /\ drops \in Nat /\ pushed \in Nat /\ evenings \in Nat
        /\ alerted \in [Reasons -> Nat]
    BY DEF Crash, outside, rows, DayIsSound, CountTypes
  <1>6. CountTypes'
    BY <1>5, HoursAssumption DEF DayIsSound, CountTypes
  <1>7. PushesCovered' /\ EveningsCovered'
    BY <1>5 DEF DayIsSound, PushesCovered, EveningsCovered
  <1>8. AlertsCovered'
    BY <1>5 DEF DayIsSound, AlertsCovered, Reasons
  <1>9. EveningAlertsCovered'
    <2>1. Strays' \subseteq Strays
      BY <1>2, NoMoreStrays DEF Done, Kinds
    <2>2. IsFiniteSet(Strays') /\ Cardinality(Strays') <= drops'
      BY <1>5, <2>1, StraysCovered
    <2>3. Tellers' = Tellers \ {s}
      BY <1>2, OneMoves DEF Tellers, Told, Done, Stages
    <2>4. Cardinality(Tellers') \in Nat /\ Cardinality(Tellers) <= Cardinality(Tellers') + 1
      <3>1. CASE s \in Tellers
        <4>1. IsFiniteSet(Tellers') /\ Cardinality(Tellers') = Cardinality(Tellers) - 1
          BY <2>3, <3>1, TellersAreFew, FS_RemoveElement
        <4> QED
          BY <4>1, TellersAreFew, FS_CardinalityType
      <3>2. CASE s \notin Tellers
        BY <2>3, <3>2, TellersAreFew
      <3> QED
        BY <3>1, <3>2
    <2>5. Cardinality(Tellers) \in Nat /\ alerted["evening_brief_failed"] \in Nat
      BY <1>5, TellersAreFew DEF Reasons
    <2> QED
      BY <1>5, <2>2, <2>4, <2>5 DEF DayIsSound, EveningAlertsCovered
  <1> QED
    BY <1>4, <1>6, <1>7, <1>8, <1>9 DEF DayIsSound

\* A dropped connection makes one more stray.
LEMMA DropKeeps ==
    ASSUME DayIsSound, DropTickLock
    PROVE  DayIsSound'
  <1> USE NoneAssumption
  <1> DEFINE s == tickLock
  <1>1. s \in Sessions
    BY DEF DropTickLock, DayIsSound, RowTypes
  <1>2. Fits(s, sessions[s]) /\ sessions[s].kind = "tick"
    BY <1>1 DEF DayIsSound, SessionsFit, Fits, HoldsLocks
  <1>3. Moved(s, sessions[s])
    BY <1>1
       DEF DropTickLock, rows, outside, Moved, BriefingMoves, EveningMoves, OwnLock, DayIsSound,
           RowTypes
  <1>4. FitsThen(s, sessions[s])
    BY <1>1, <1>2 DEF DropTickLock, rows, outside, FitsThen, Fits, HoldsLocks
  <1>5. RowTypes' /\ SessionsFit' /\ RowsSound'
    BY <1>1, <1>3, <1>4, MoveIsSound
  <1>6. /\ UNCHANGED <<pushed, evenings, alerted, crashes, alerts, sessions>> /\ drops' = drops + 1
        /\ crashes + drops < MaxFaults
        /\ crashes \in Nat /\ drops \in Nat /\ alerted \in [Reasons -> Nat]
    BY DEF DropTickLock, outside, rows, DayIsSound, CountTypes
  <1>7. CountTypes'
    BY <1>6, HoursAssumption DEF DayIsSound, CountTypes
  <1>8. PushesCovered' /\ EveningsCovered' /\ AlertsCovered'
    BY <1>1, <1>3, <1>6, PushesStay, EveningsStay, AlertsStay
  <1>9. EveningAlertsCovered'
    <2>1. Strays' \subseteq Strays \cup {s}
      BY <1>6 DEF Strays
    <2>2. IsFiniteSet(Strays) /\ Cardinality(Strays) \in Nat /\ Cardinality(Strays) <= drops
      BY FS_CardinalityType DEF DayIsSound, EveningAlertsCovered
    <2>3. IsFiniteSet(Strays \cup {s}) /\ Cardinality(Strays \cup {s}) <= Cardinality(Strays) + 1
      <3>1. CASE s \in Strays
        BY <2>2, <3>1, FS_AddElement
      <3>2. CASE s \notin Strays
        <4>1. IsFiniteSet(Strays \cup {s}) /\ Cardinality(Strays \cup {s}) = Cardinality(Strays) + 1
          BY <2>2, <3>2, FS_AddElement
        <4> QED
          BY <2>2, <4>1
      <3> QED
        BY <3>1, <3>2
    <2>4. IsFiniteSet(Strays') /\ Cardinality(Strays') <= Cardinality(Strays \cup {s})
      BY <2>1, <2>3, FS_Subset
    <2>5. Cardinality(Strays') \in Nat /\ Cardinality(Strays \cup {s}) \in Nat
      BY <2>3, <2>4, FS_CardinalityType
    <2>6. Cardinality(Strays') <= drops'
      BY <1>6, <2>2, <2>3, <2>4, <2>5
    <2> QED
      BY <1>1, <1>3, <1>6, <2>4, <2>6, EveningAlertsStay
  <1> QED
    BY <1>5, <1>7, <1>8, <1>9 DEF DayIsSound

\* The clock concerns no row.
LEMMA ClockKeeps ==
    ASSUME DayIsSound, hour' \in 0 .. LastHour, UNCHANGED <<rows, locks, sessions, outside, faults>>
    PROVE  DayIsSound'
  <1>1. UNCHANGED <<briefing, evening, alerts, tickLock, briefingLock, eveningLock,
                    sessions, pushed,
                    refused, evenings, alerted, crashes, drops>>
    BY DEF rows, locks, outside, faults
  <1>2. RowTypes' /\ CountTypes' /\ SessionsFit' /\ RowsSound'
    BY <1>1 DEF DayIsSound, RowTypes, CountTypes, SessionsFit, Fits, RowsSound
  <1>3. PushesCovered' /\ EveningsCovered' /\ AlertsCovered'
    BY <1>1
       DEF DayIsSound, PushesCovered, PushIsKnown, EveningsCovered, EveningIsKnown, AlertsCovered,
           AlertIsKnown
  <1>4. EveningAlertsCovered'
    BY <1>1 DEF DayIsSound, EveningAlertsCovered, Strays, Tellers
  <1> QED
    BY <1>2, <1>3, <1>4 DEF DayIsSound

--------------------------------------------------------------------------------
\* A session's step, whichever of its branches it takes.

\* A session begins.
LEMMA BeginsKeep ==
    ASSUME DayIsSound, NEW s \in Sessions, StartTick(s) \/ StartOther(s)
    PROVE  DayIsSound'
  <1>1. CASE StartTick(s)
    BY <1>1, StartTickMorning, StartTickEvening
  <1>2. CASE StartOther(s)
    BY <1>2, StartPreview, StartAsked, StartEveningNow DEF StartOther
  <1> QED
    BY <1>1, <1>2

\* It is about the briefing.
LEMMA BriefingKeeps ==
    ASSUME DayIsSound, NEW s \in Sessions,
           \/ ReadBriefing(s) \/ Insert(s) \/ LoseRace(s) \/ Generate(s) \/ GenerateFails(s)
           \/ ClaimDelivery(s) \/ Push(s) \/ PushFails(s) \/ Record(s) \/ Reply(s) \/ Mark(s)
    PROVE  DayIsSound'
  <1>1. CASE ReadBriefing(s)
    BY <1>1, ReadNone, ReadNotDue, ReadDue, ReadAsked
  <1>2. CASE Insert(s) \/ LoseRace(s)
    BY <1>2, InsertKeeps, LoseRaceTick, LoseRaceOther
  <1>3. CASE Generate(s)
    <2>1. sessions[s].stage = "generating" /\ Consistent(sessions[s])
      BY <1>3 DEF Generate, At, DayIsSound, SessionsFit, Fits
    <2>2. Kind(s) \in {"tick", "asked", "preview"}
      BY <2>1, NoneAssumption DEF Kind, Consistent, StagesOf, Stages
    <2> QED
      BY <1>3, <2>2, GenerateTick, GenerateAsked, GeneratePreview
  <1>4. CASE ClaimDelivery(s)
    BY <1>4, ClaimWon, ClaimLost
  <1>5. CASE PushFails(s)
    BY <1>5, RetryFails, FirstFails
  <1>6. CASE Record(s)
    BY <1>6, RecordEvening, RecordBriefing
  <1>7. CASE Reply(s)
    BY <1>7, ReplyKeeps DEF Reply
  <1> QED
    BY <1>1, <1>2, <1>3, <1>4, <1>5, <1>6, <1>7, GenerateFailsKeeps, PushKeeps, MarkKeeps

\* It is about the evening brief, or an alert.
LEMMA EveningKeeps ==
    ASSUME DayIsSound, NEW s \in Sessions,
           \/ CheckEvening(s) \/ UpsertSnapshot(s) \/ SendEvening(s) \/ SendEveningFails(s)
           \/ LogEvening(s) \/ CheckAgain(s) \/ SendAlert(s)
    PROVE  DayIsSound'
  <1>1. CASE CheckEvening(s)
    BY <1>1, EveningNotDue, EveningDue
  <1>2. CASE UpsertSnapshot(s)
    BY <1>2, UpsertLost, UpsertWon
  <1>3. CASE CheckAgain(s)
    BY <1>3, CheckFinds, CheckMisses
  <1>4. CASE SendAlert(s)
    BY <1>4, TellKeeps, ToldEvening, ToldBriefing
  <1> QED
    BY <1>1, <1>2, <1>3, <1>4, SendEveningKeeps, SendEveningFailsKeeps, LogEveningKeeps

\* The invariant is inductive.
LEMMA DayGoesOn == DayIsSound /\ [Next]_vars => DayIsSound'
  <1> SUFFICES ASSUME DayIsSound, [Next]_vars PROVE DayIsSound'
    OBVIOUS
  <1>1. ASSUME NEW s \in Sessions, StartTick(s) \/ StartOther(s) \/ Work(s) \/ Crash(s)
        PROVE  DayIsSound'
    BY <1>1, BeginsKeep, BriefingKeeps, EveningKeeps, CrashKeeps DEF Work
  <1>2. CASE TickHour
    <2>1. hour' \in 0 .. LastHour
      BY <1>2, HoursAssumption DEF TickHour, DayIsSound, RowTypes
    <2> QED
      BY <1>2, <2>1, ClockKeeps DEF TickHour
  <1>3. CASE UNCHANGED vars
    BY <1>3, ClockKeeps DEF vars, DayIsSound, RowTypes
  <1> QED
    BY <1>1, <1>2, <1>3, DropKeeps DEF Next

\* So it holds all day.
LEMMA DayStaysSound == Spec => []DayIsSound
  BY DayBegins, DayGoesOn, PTL DEF Spec

--------------------------------------------------------------------------------
\* The variables of the day are what they are declared to be.
THEOREM DailyTypes == Spec => []TypeOK
  BY DayStaysSound, SoundMeansTyped, PTL

\* However many sessions write the day's rows, and however many crash: one
\* briefing, one evening brief and one alert of each kind, and one more for
\* each fault (_dispatch_for_company, _deliver_briefing, send_evening_brief,
\* notify_briefing_failed, notify_evening_brief_failed).
THEOREM DailyOnce == Spec => []NothingTwice
  BY DayStaysSound, SoundMeansOnce, PTL

\* No claim of a row outlives its attempt: a message that is claimed was sent.
THEOREM DailyClaims == Spec => []ClaimsAreSettled
  BY DayStaysSound, SoundMeansSettled, PTL
================================================================================
