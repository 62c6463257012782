------------------------------ MODULE Outreach ------------------------------
(***************************************************************************)
(* The notification rules of services/notifications.py for one company:    *)
(* every tick after the briefing hour runs the five rules in order.  A     *)
(* rule asks which suppliers, dealers, products or bills are due and not   *)
(* inside their quiet window, sends one message about each, and commits    *)
(* the marks of those it knows were sent.  A send may be refused, or       *)
(* accepted by Meta without an answer that arrives; the process may die    *)
(* between a send and the commit; the founder's own messages are handled   *)
(* by other sessions meanwhile.  Time is counted in days since the last    *)
(* mark.                                                                   *)
(***************************************************************************)
EXTENDS Naturals, Sequences, FiniteSets, SequencesExt, Queues

CONSTANTS Subjects,   \* [rule -> the subjects it may message about]
          DueOrder,   \* the suppliers by the due date of their first bill
          AlwaysDue,  \* the suppliers with a bill that stays unpaid
          Cap,        \* _MAX_SUPPLIER_REMINDERS_PER_TICK
          Quiet,      \* [rule -> days of its quiet window]
          MaxFaults   \* bound: crashes and lost answers

RuleNames == {"supplier", "dealer", "cash", "stock", "predue"}
Order == <<"supplier", "dealer", "cash", "stock", "predue">>
Pairs == UNION {{<<r, e>> : e \in Subjects[r]} : r \in RuleNames}

ASSUME OutreachConstants == /\ DOMAIN Subjects = RuleNames
                            /\ DOMAIN Quiet = RuleNames
                            /\ \A r \in RuleNames : Quiet[r] \in Nat \ {0}
                            /\ \A r \in RuleNames : IsFiniteSet(Subjects[r])
                            /\ DueOrder \in Seq(Subjects["supplier"]) /\ IsInjective(DueOrder)
                            /\ AlwaysDue \subseteq Subjects["supplier"]
                            /\ Cap \in Nat \ {0}
                            /\ MaxFaults \in Nat

VARIABLES since,   \* days since the committed mark of a pair, at most its window
          heard,   \* history: days since a message about the pair arrived
          excused, \* history: pairs heard of whose mark a fault took away
          ranking, \* suppliers, the least recently reminded first
          flow,    \* what the founder is in: none, other, or the reminder's question
          pass,    \* the running pass of the rules
          faults

vars == <<since, heard, excused, ranking, flow, pass, faults>>

(* at: index of the rule, 0 between passes; loaded: the flow the company   *)
(* row showed when the pass loaded it; todo: subjects chosen and not yet   *)
(* messaged; marks: marks added and not committed; asks: the reminder's    *)
(* question is set on the loaded row.                                      *)
NoPass == [at |-> 0, stage |-> "idle", loaded |-> "none", todo |-> <<>>, marks |-> {}, asks |-> FALSE]

Init == /\ since = [p \in Pairs |-> Quiet[p[1]]]
        /\ heard = [p \in Pairs |-> Quiet[p[1]]]
        /\ excused = {}
        /\ ranking = DueOrder
        /\ flow = "none"
        /\ pass = NoPass
        /\ faults = 0

Rule == Order[pass.at]
Lapsed(r) == {e \in Subjects[r] : since[<<r, e>>] = Quiet[r]}

-----------------------------------------------------------------------------
(* Choosing.  What is due is read from the snapshot built when the pass    *)
(* starts: any set of subjects.                                            *)

(* Over the cap, the suppliers least recently reminded are kept. *)
Kept(eligible) ==
  LET byTurn == KeepOnly(ranking, eligible)
  IN ToSet(SubSeq(byTurn, 1, IF Len(byTurn) < Cap THEN Len(byTurn) ELSE Cap))

(* Rule 1: bills overdue, due today or tomorrow, one message per supplier, *)
(* sent in the order of the due dates.                                     *)
SupplierChoice(due) == KeepOnly(DueOrder, Kept(due \cap Lapsed("supplier")))

(* Rules 2, 5, 6 and 7: a High-risk dealer without an alert or a follow-up *)
(* lately, a projected cash deficit, a product about to run out, a bill    *)
(* due in a day or two.                                                    *)
DealerChoice(due) == SetToSeq(due \cap Lapsed("dealer"))
CashChoice(due)   == SetToSeq(due \cap Lapsed("cash"))
StockChoice(due)  == SetToSeq(due \cap Lapsed("stock"))
PredueChoice(due) == SetToSeq(due \cap Lapsed("predue"))

Choice(r, due) == CASE r = "supplier" -> SupplierChoice(due)
                    [] r = "dealer"   -> DealerChoice(due)
                    [] r = "cash"     -> CashChoice(due)
                    [] r = "stock"    -> StockChoice(due)
                    [] r = "predue"   -> PredueChoice(due)

(* run_notification_checks loads the company and builds the snapshot.      *)
StartPass == /\ pass.at = 0
             /\ pass' = [NoPass EXCEPT !.at = 1, !.stage = "choose", !.loaded = flow]
             /\ UNCHANGED <<since, heard, excused, ranking, flow, faults>>

(* The reminder's question is set on the loaded row before its message is  *)
(* sent, if that row shows a set-up company in no conversation.            *)
ChooseFor(due) == /\ pass.stage = "choose"
                  /\ Rule = "supplier" => AlwaysDue \subseteq due
                  /\ pass' = [pass EXCEPT !.stage = "send", !.todo = Choice(Rule, due),
                                          !.asks = /\ Rule = "supplier"
                                                    /\ pass.loaded = "none"
                                                    /\ Choice(Rule, due) # <<>>]
                  /\ UNCHANGED <<since, heard, excused, ranking, flow, faults>>

-----------------------------------------------------------------------------
(* Sending.  Meta accepts and answers, refuses, or accepts while the       *)
(* answer is lost, which the client reports as a failed send.              *)

Outcomes == {"accepted", "refused", "unanswered"}
Arrives(outcome) == outcome # "refused"

(* _send_and_log: only a send known to have gone out leaves a mark.  (The  *)
(* reminder of his own a dealer gets before the alert is looked at by no   *)
(* rule.)                                                                  *)
Marks(outcome, p) == IF outcome = "accepted" THEN {p} ELSE {}

SendNext(outcome) ==
  LET p == <<Rule, Head(pass.todo)>> IN
  /\ pass.stage = "send"
  /\ pass.todo # <<>>
  /\ pass' = [pass EXCEPT !.todo = Tail(@), !.marks = @ \cup Marks(outcome, p)]
  /\ heard' = IF Arrives(outcome) THEN [heard EXCEPT ![p] = 0] ELSE heard
  /\ IF outcome = "unanswered"
       THEN faults < MaxFaults /\ faults' = faults + 1 /\ excused' = excused \cup {p}
       ELSE UNCHANGED <<faults, excused>>
  /\ UNCHANGED <<since, ranking, flow>>

(* A mutant of CommitRule: one commit at the end of the pass. *)
CommitOnlyAtEnd ==
  /\ pass.stage = "send"
  /\ pass.todo = <<>>
  /\ IF pass.at < Len(Order)
       THEN /\ pass' = [pass EXCEPT !.at = @ + 1, !.stage = "choose"]
            /\ UNCHANGED <<since, excused, ranking, flow>>
       ELSE /\ since' = [p \in Pairs |-> IF p \in pass.marks THEN 0 ELSE since[p]]
            /\ ranking' = LET told == {s \in Subjects["supplier"] : <<"supplier", s>> \in pass.marks}
                          IN KeepOnly(ranking, Subjects["supplier"] \ told) \o KeepOnly(DueOrder, told)
            /\ excused' = excused \ pass.marks
            /\ flow' = IF pass.asks THEN "reminder" ELSE flow
            /\ pass' = NoPass
  /\ UNCHANGED <<heard, faults>>

(* A mutant of CommitRule: the last rule is followed by another. *)
CommitRulePastTheLast ==
  /\ pass.stage = "send"
  /\ pass.todo = <<>>
  /\ since' = [p \in Pairs |-> IF p \in pass.marks THEN 0 ELSE since[p]]
  /\ ranking' = LET told == {s \in Subjects["supplier"] : <<"supplier", s>> \in pass.marks}
                IN KeepOnly(ranking, Subjects["supplier"] \ told) \o KeepOnly(DueOrder, told)
  /\ excused' = excused \ pass.marks
  /\ flow' = IF pass.asks THEN "reminder" ELSE flow
  /\ pass' = IF pass.at <= Len(Order)
               THEN [pass EXCEPT !.at = @ + 1, !.stage = "choose", !.marks = {}, !.asks = FALSE]
               ELSE NoPass
  /\ UNCHANGED <<heard, faults>>

(* Each rule is committed as it returns: its marks, and after the first    *)
(* the question on the company row.                                        *)
CommitRule ==
  /\ pass.stage = "send"
  /\ pass.todo = <<>>
  /\ since' = [p \in Pairs |-> IF p \in pass.marks THEN 0 ELSE since[p]]
  /\ ranking' = LET told == {s \in Subjects["supplier"] : <<"supplier", s>> \in pass.marks}
                IN KeepOnly(ranking, Subjects["supplier"] \ told) \o KeepOnly(DueOrder, told)
  /\ excused' = excused \ pass.marks
  /\ flow' = IF pass.asks THEN "reminder" ELSE flow
  /\ pass' = IF pass.at < Len(Order)
               THEN [pass EXCEPT !.at = @ + 1, !.stage = "choose", !.marks = {}, !.asks = FALSE]
               ELSE NoPass
  /\ UNCHANGED <<heard, faults>>

(* The process dies: what was sent stays sent, what was not committed of   *)
(* the rule it was in is gone.                                             *)
Crash == /\ pass.at # 0
         /\ faults < MaxFaults
         /\ faults' = faults + 1
         /\ excused' = excused \cup {p \in pass.marks : p[1] = Rule}
         /\ pass' = NoPass
         /\ UNCHANGED <<since, heard, ranking, flow>>

-----------------------------------------------------------------------------
(* Around it.                                                              *)

Older(age, window) == IF age < window THEN age + 1 ELSE age

(* A pass is short against a day. *)
NewDay == /\ pass.at = 0
          /\ since' = [p \in Pairs |-> Older(since[p], Quiet[p[1]])]
          /\ heard' = [p \in Pairs |-> Older(heard[p], Quiet[p[1]])]
          /\ UNCHANGED <<excused, ranking, flow, pass, faults>>

(* The founder's messages, in a session of their own: a flow is started or *)
(* ended, the reminder's question answered.                                *)
FounderActs == /\ flow' \in {"none", "other"} \ {flow}
               /\ UNCHANGED <<since, heard, excused, ranking, pass, faults>>

Next == \/ StartPass
        \/ pass.stage = "choose" /\ \E due \in SUBSET Subjects[Rule] : ChooseFor(due)
        \/ \E outcome \in Outcomes : SendNext(outcome)
        \/ CommitRule
        \/ Crash
        \/ NewDay
        \/ FounderActs

(* The cron keeps ticking and days pass; a message to a founder is not     *)
(* refused for ever.                                                       *)
AcceptFor(s) == pass.todo # <<>> /\ <<Rule, Head(pass.todo)>> = <<"supplier", s>> /\ SendNext("accepted")
PassMoves == \/ StartPass
             \/ pass.stage = "choose" /\ \E due \in SUBSET Subjects[Rule] : ChooseFor(due)
             \/ \E outcome \in Outcomes : SendNext(outcome)
             \/ CommitRule

Spec == /\ Init /\ [][Next]_vars
        /\ WF_vars(PassMoves) /\ WF_vars(NewDay)
        /\ \A s \in Subjects["supplier"] : SF_vars(AcceptFor(s))

-----------------------------------------------------------------------------
(* Types of the variables. *)
TypeOK == /\ since \in [Pairs -> Nat] /\ heard \in [Pairs -> Nat]
          /\ \A p \in Pairs : since[p] <= Quiet[p[1]] /\ heard[p] <= Quiet[p[1]]
          /\ excused \subseteq Pairs
          /\ ToSet(ranking) = ToSet(DueOrder) /\ Len(ranking) = Len(DueOrder)
          /\ flow \in {"none", "other", "reminder"}
          /\ pass.at \in 0..Len(Order) /\ pass.stage \in {"idle", "choose", "send"}
          /\ pass.loaded \in {"none", "other", "reminder"} /\ pass.asks \in BOOLEAN
          /\ pass.marks \subseteq Pairs
          /\ pass.at # 0 => ToSet(pass.todo) \subseteq Subjects[Rule]
          /\ faults \in 0..MaxFaults

(* The founder hears of a subject once per quiet window: a second message  *)
(* inside the window follows a fault that took the mark of the first, and  *)
(* a fault costs the marks of one rule, not of the pass.                   *)
OncePerQuietWindow ==
  [][\A p \in Pairs : /\ pass.todo # <<>>
                      /\ p = <<Rule, Head(pass.todo)>>
                      /\ pass'.todo = Tail(pass.todo)
                      /\ heard'[p] = 0
                      /\ heard[p] < Quiet[p[1]]
                      => p \in excused]_vars

(* "The cap rotates rather than starves": a supplier that every pass finds *)
(* due is reminded again and again, however many others are due with it.   *)
EverySupplierGetsItsTurn == \A s \in AlwaysDue : []<>(heard[<<"supplier", s>>] = 0)

(* "If the founder is already mid some other guided flow, none of today's  *)
(* bills interrupt it."                                                    *)
NoFlowIsInterrupted == [][flow = "other" => flow' # "reminder"]_vars

=============================================================================
