---------------------------- MODULE Conversation ----------------------------
(***************************************************************************)
(* One company's WhatsApp conversation: the reply ladder of                *)
(* app/api/webhooks/whatsapp.py::_handle_text_message, the pending         *)
(* confirmations of app/services/writes/pending_operation.py, the supplier *)
(* reminder conversation of                                                *)
(* app/services/workflows/payment_reminder_confirm.py, the follow-up of    *)
(* app/services/followup.py, and the scheduler's two ways of starting a    *)
(* conversation.                                                           *)
(*                                                                         *)
(* company is the conversation part of the Company row.  Every handler     *)
(* mutates that row in memory and the caller commits it, so a handler's    *)
(* effect is an operator from a row to a row, and an action is one inbound *)
(* message, or one scheduler rule, up to its commit.  What a write does to *)
(* the books is in Ledger, how messages are claimed and committed in       *)
(* WebhookDelivery.                                                        *)
(***************************************************************************)
EXTENDS Naturals, Sequences

CONSTANTS
    Flows,      \* the guided workflows (see Workflows)
    Steps,      \* every value of workflow_scratch["step"] in those workflows
    Chart,      \* flow, step, something gathered -> the outcomes of a message
    Gathering,  \* <<flow, step>> pairs that append to the flow's list
    Triggers,   \* _WORKFLOW_START_TRIGGERS, one phrase per starter
    Starter,    \* trigger -> the flow and the step it starts at
    Bills,      \* payable invoices a reminder can be about
    MaxBatch,   \* bound: bills in one batch of reminders
    OpIds,      \* identifiers of pending_operations rows
    None        \* SQL NULL

Reminder == "confirm_supplier_payment"
ReminderSteps == {"awaiting_paid_choice", "awaiting_amount_confirm", "awaiting_reschedule"}
\* Workflows an instant command starts, so without a start trigger.
Instant == {"void_payment", "void_order"}

\* The steps a flow's handler has a branch for.
Known(flow) == {s \in Steps : \E g \in BOOLEAN : Chart[flow][s][g] # {}}

ASSUME ChartAssumption ==
    /\ {"record_payment", "create_order"} \cup Instant \subseteq Flows
    /\ Reminder \notin Flows
    /\ {"end", "confirm", ""} \cap Steps = {}
    /\ Chart \in [Flows -> [Steps -> [BOOLEAN -> SUBSET (Steps \cup {"end", "confirm"})]]]
    /\ \A flow \in Flows, s \in Steps, g \in BOOLEAN :
          Chart[flow][s][g] \cap Steps \subseteq Known(flow)
    /\ "awaiting_amount" \in Known("record_payment")
    /\ \A flow \in Instant : "awaiting_reason" \in Known(flow)
    /\ "awaiting_dealer" \in Known("create_order")

ASSUME StarterAssumption ==
    /\ Starter \in [Triggers -> [flow : Flows, step : Steps]]
    /\ \A t \in Triggers : Starter[t].step \in Known(Starter[t].flow)

ASSUME BatchAssumption == MaxBatch \in Nat \ {0}

ASSUME NoneAssumption ==
    /\ None \notin Flows \cup {Reminder}
    /\ None \notin Triggers
    /\ None \notin Bills
    /\ None \notin OpIds

VARIABLES
    company,    \* the conversation columns of the company's row
    operations  \* the company's rows of pending_operations

vars == <<company, operations>>

----------------------------------------------------------------------------
\* workflow_scratch: the step, whether a list has an item yet, and for the
\* reminder conversation the bill asked about and those queued behind it.
Scratch == [step : Steps \cup ReminderSteps \cup {""}, gathered : BOOLEAN,
            bill : Bills \cup {None}, queue : Seq(Bills)]

NoScratch == [step |-> "", gathered |-> FALSE, bill |-> None, queue |-> <<>>]

FollowUpStates == {"awaiting_confirmation", "awaiting_partial_amount", "awaiting_expected_date"}

Company ==
    [onboarded      : BOOLEAN,                          \* onboarding_state = completed
     workflow       : Flows \cup {Reminder, None},      \* active_workflow
     scratch        : Scratch,                          \* workflow_scratch
     trigger        : Triggers \cup {None},             \* active_workflow_start_trigger
     interrupt      : Triggers \cup {None},             \* pending_workflow_interrupt
     continuePrompt : Triggers \cup {None},             \* pending_continue_prompt
     followUp       : FollowUpStates \cup {None},       \* pending_follow_up_state
     pointer        : OpIds \cup {None}]                \* active_pending_operation_id

\* create_order's preview can be asked for an advance before it is confirmed.
Stages == {"preview", "awaiting_advance_amount", "awaiting_advance_method"}

\* A pending_operations row: its payload's start_trigger, and, when it comes
\* from a reminder, the bill and the reminder_queue.
Operation == [id : OpIds, type : Flows \cup {"bulk_opt_in_dealers"}, stage : Stages,
              expired : BOOLEAN, trigger : Triggers \cup {None},
              bill : Bills \cup {None}, queue : Seq(Bills)]

TypeOK == /\ company \in Company
          /\ operations \in SUBSET Operation

Init == /\ company = [onboarded |-> FALSE, workflow |-> None, scratch |-> NoScratch,
                      trigger |-> None, interrupt |-> None, continuePrompt |-> None,
                      followUp |-> None, pointer |-> None]
        /\ operations = {}

----------------------------------------------------------------------------
\* What handlers do to the company row.

Fresh(step) == [NoScratch EXCEPT !.step = step]

\* A flow at one of its steps, with the trigger it can be started by again.
Begin(c, flow, step, t) ==
    [c EXCEPT !.workflow = flow, !.scratch = Fresh(step), !.trigger = t]

\* A starter, and the trigger every caller of one records after it.
StartBy(c, t) == Begin(c, Starter[t].flow, Starter[t].step, t)

\* A mutant of EndFlow: the follow-up goes too.
EndFlowDropsFollowUp(c) == [c EXCEPT !.workflow = None, !.scratch = NoScratch, !.followUp = None]

\* active_workflow and workflow_scratch are cleared together, and the start
\* trigger is left as it is.
EndFlow(c) == [c EXCEPT !.workflow = None, !.scratch = NoScratch]

MoveTo(c, step) ==
    [c EXCEPT !.scratch.step = step,
              !.scratch.gathered = @ \/ <<c.workflow, c.scratch.step>> \in Gathering]

\* A mutant of StartReminder: a step nobody handles.
StartReminderAtChoice(c, bill, queue) ==
    [c EXCEPT !.workflow = Reminder, !.trigger = None,
              !.scratch = [step |-> "awaiting_choice", gathered |-> FALSE,
                           bill |-> bill, queue |-> queue]]

\* start_reminder_confirm clears the trigger itself: a reminder has none.
StartReminder(c, bill, queue) ==
    [c EXCEPT !.workflow = Reminder, !.trigger = None,
              !.scratch = [step |-> "awaiting_paid_choice", gathered |-> FALSE,
                           bill |-> bill, queue |-> queue]]

\* A mutant of AdvanceQueue: the next bill is not taken off the queue.
AdvanceQueueKeepsHead(c, queue) ==
    IF queue = <<>> THEN c ELSE StartReminder(c, Head(queue), queue)

\* advance_reminder_queue
AdvanceQueue(c, queue) ==
    IF queue = <<>> THEN c ELSE StartReminder(c, Head(queue), Tail(queue))

\* _offer_continue_or_end, called when neither a workflow nor a confirmation
\* is left, with the trigger that was recorded before the message.
Offer(c, t) ==
    IF c.workflow = None /\ c.pointer = None /\ t \in Triggers
    THEN [c EXCEPT !.continuePrompt = t]
    ELSE c

\* A mutant of DropPointer: the pointer outlives its row.
DropPointerForgets(c) == c

DropPointer(c) == [c EXCEPT !.pointer = None]

\* promote_queued_reminder: the i-th queued bill becomes the active one, and
\* the active one goes to the front of the others.
Promote(c, i) ==
    StartReminder(c, c.scratch.queue[i],
                  <<c.scratch.bill>> \o SubSeq(c.scratch.queue, 1, i - 1)
                                     \o SubSeq(c.scratch.queue, i + 1, Len(c.scratch.queue)))

\* create_pending_operation, after which every caller but the instant
\* command "opt in all" has its workflow cleared.
AskConfirm(c, type, bill, queue) ==
    \E id \in OpIds \ {op.id : op \in operations} :
        /\ operations' = {[id |-> id, type |-> type, stage |-> "preview", expired |-> FALSE,
                           trigger |-> c.trigger, bill |-> bill, queue |-> queue]}
        /\ company' = [EndFlow(c) EXCEPT !.trigger = None, !.pointer = id]

----------------------------------------------------------------------------
\* The rungs of the ladder, in order: the first that is not empty answers.

OnContinue(c)  == c.onboarded /\ c.continuePrompt # None
OnInterrupt(c) == c.onboarded /\ c.continuePrompt = None /\ c.interrupt # None
OnWorkflow(c)  == /\ c.onboarded /\ c.continuePrompt = None /\ c.interrupt = None
                  /\ c.workflow # None
OnConfirm(c)   == /\ c.onboarded /\ c.continuePrompt = None /\ c.interrupt = None
                  /\ c.workflow = None /\ c.pointer # None
OnFollowUp(c)  == /\ c.onboarded /\ c.continuePrompt = None /\ c.interrupt = None
                  /\ c.workflow = None /\ c.pointer = None /\ c.followUp # None
Idle(c)        == /\ c.onboarded /\ c.continuePrompt = None /\ c.interrupt = None
                  /\ c.workflow = None /\ c.pointer = None /\ c.followUp = None

\* Onboarding outranks everything; its own steps are not this module's.
FinishOnboarding(c) ==
    /\ ~c.onboarded
    /\ company' = [c EXCEPT !.onboarded = TRUE]
    /\ UNCHANGED operations

\* _resolve_continue_or_end: "done" and its synonyms.
ContinueDone(c) ==
    /\ OnContinue(c)
    /\ company' = [c EXCEPT !.continuePrompt = None]
    /\ UNCHANGED operations

\* A start trigger starts that flow; "yes" starts the offered one again.
ContinueStart(c) ==
    /\ OnContinue(c)
    /\ \E t \in Triggers : company' = StartBy([c EXCEPT !.continuePrompt = None], t)
    /\ UNCHANGED operations

\* Any other text restarts the offered flow and is its first answer.  The
\* flow may be over at once, and then nothing is offered.
ContinueAnswer(c) ==
    /\ OnContinue(c)
    /\ LET s == StartBy([c EXCEPT !.continuePrompt = None], c.continuePrompt)
           outcomes == Chart[s.workflow][s.scratch.step][FALSE]
       IN \/ \E step \in outcomes \cap Steps : company' = MoveTo(s, step)
          \/ "end" \in outcomes /\ company' = EndFlow(s)
    /\ UNCHANGED operations

\* _resolve_workflow_interrupt: YES replaces the flow, NO resumes it.
InterruptYes(c) ==
    /\ OnInterrupt(c)
    /\ company' = StartBy([c EXCEPT !.interrupt = None], c.interrupt)
    /\ UNCHANGED operations

InterruptNo(c) ==
    /\ OnInterrupt(c)
    /\ company' = [c EXCEPT !.interrupt = None]
    /\ UNCHANGED operations

\* A mutant of AskInterrupt: the trigger switches at once.
SwitchAtOnce(c) ==
    /\ OnWorkflow(c)
    /\ \E t \in Triggers : company' = StartBy(c, t)
    /\ UNCHANGED operations

\* A start trigger in the middle of a flow asks before it switches.
AskInterrupt(c) ==
    /\ OnWorkflow(c)
    /\ \E t \in Triggers : company' = [c EXCEPT !.interrupt = t]
    /\ UNCHANGED operations

\* The workflow's handler, by its flow chart.
Outcomes(c) == Chart[c.workflow][c.scratch.step][c.scratch.gathered]

FlowMoves(c) ==
    /\ OnWorkflow(c) /\ c.workflow # Reminder
    /\ \E step \in Outcomes(c) \cap Steps : company' = MoveTo(c, step)
    /\ UNCHANGED operations

\* The flow is over, by its chart or because the founder cancels it.
FlowEnds(c) ==
    /\ OnWorkflow(c) /\ c.workflow # Reminder
    /\ company' = Offer(EndFlow(c), c.trigger)
    /\ UNCHANGED operations

FlowConfirms(c) ==
    /\ OnWorkflow(c) /\ c.workflow # Reminder
    /\ "confirm" \in Outcomes(c)
    /\ AskConfirm(c, c.workflow, None, <<>>)

----------------------------------------------------------------------------
\* handle_reminder_confirm_workflow_message

\* "cancel" or "stop" ends the conversation, queue included.
ReminderCancel(c) ==
    /\ OnWorkflow(c) /\ c.workflow = Reminder
    /\ company' = Offer(EndFlow(c), c.trigger)
    /\ UNCHANGED operations

\* "Did you pay this?": 1 asks for the amount, 2 for a new date.
ReminderChoice(c) ==
    /\ OnWorkflow(c) /\ c.workflow = Reminder
    /\ c.scratch.step = "awaiting_paid_choice"
    /\ \E step \in {"awaiting_amount_confirm", "awaiting_reschedule"} :
          company' = [c EXCEPT !.scratch.step = step]
    /\ UNCHANGED operations

\* An amount creates a record_payment confirmation that carries the queue.
ReminderAmount(c) ==
    /\ OnWorkflow(c) /\ c.workflow = Reminder
    /\ c.scratch.step = "awaiting_amount_confirm"
    /\ AskConfirm(c, "record_payment", c.scratch.bill, c.scratch.queue)

\* "skip", a new due date, or a date for an invoice that is gone.
ReminderReschedule(c) ==
    /\ OnWorkflow(c) /\ c.workflow = Reminder
    /\ c.scratch.step = "awaiting_reschedule"
    /\ company' = Offer(AdvanceQueue(EndFlow(c), c.scratch.queue), c.trigger)
    /\ UNCHANGED operations

----------------------------------------------------------------------------
\* The confirmation rung.  op is the row the pointer names.

Pointed(c) == {op \in operations : op.id = c.pointer}

\* The row is gone, or older than its time to live: it is dropped, and so is
\* the reminder queue it carried.
ConfirmExpired(c) ==
    /\ OnConfirm(c)
    /\ \A op \in Pointed(c) : op.expired
    /\ company' = DropPointer(c)
    /\ operations' = operations \ Pointed(c)

\* execute_pending_operation: whether the write succeeds or is refused, the
\* row is deleted and the next queued bill gets its turn.
ConfirmYes(c) ==
    /\ OnConfirm(c)
    /\ \E op \in Pointed(c) :
          /\ ~op.expired
          /\ company' = Offer(AdvanceQueue(DropPointer(c), op.queue), op.trigger)
          /\ operations' = operations \ {op}

\* NO to a payment goes back to the amount of the same payment ...
Amends(op) == op.type = "record_payment" /\ op.queue = <<>>

ConfirmAmend(c) ==
    /\ OnConfirm(c)
    /\ \E op \in Pointed(c) :
          /\ ~op.expired /\ Amends(op)
          /\ company' = Begin(DropPointer(c), "record_payment", "awaiting_amount", op.trigger)
          /\ operations' = operations \ {op}

\* A mutant of ConfirmNo: the queue goes with the declined payment.
ConfirmNoStops(c) ==
    /\ OnConfirm(c)
    /\ \E op \in Pointed(c) :
          /\ ~op.expired /\ ~Amends(op)
          /\ company' = Offer(DropPointer(c), op.trigger)
          /\ operations' = operations \ {op}

\* ... and to anything else it cancels.
ConfirmNo(c) ==
    /\ OnConfirm(c)
    /\ \E op \in Pointed(c) :
          /\ ~op.expired /\ ~Amends(op)
          /\ company' = Offer(AdvanceQueue(DropPointer(c), op.queue), op.trigger)
          /\ operations' = operations \ {op}

\* create_order only: "advance", then its amount, then its method.
AdvanceStage(stage) == CASE stage = "preview"                 -> "awaiting_advance_amount"
                         [] stage = "awaiting_advance_amount" -> "awaiting_advance_method"
                         [] stage = "awaiting_advance_method" -> "preview"

ConfirmAdvance(c) ==
    /\ OnConfirm(c)
    /\ \E op \in Pointed(c) :
          /\ ~op.expired /\ op.type = "create_order"
          /\ operations' = (operations \ {op})
                              \cup {[op EXCEPT !.stage = AdvanceStage(op.stage)]}
    /\ company' = c

----------------------------------------------------------------------------
\* handle_follow_up_reply: 1 pays in full, 2 asks how much, 3 asks when.

FollowUpChoice(c) ==
    /\ OnFollowUp(c) /\ c.followUp = "awaiting_confirmation"
    /\ \E state \in {"awaiting_partial_amount", "awaiting_expected_date"} :
          company' = [c EXCEPT !.followUp = state]
    /\ UNCHANGED operations

\* Paid, partly paid or rescheduled, cancelled, or its invoice is not open
\* any more.
FollowUpClosed(c) ==
    /\ OnFollowUp(c)
    /\ company' = [c EXCEPT !.followUp = None]
    /\ UNCHANGED operations

----------------------------------------------------------------------------
\* Nothing is pending: commands.

StartFlow(c) ==
    /\ Idle(c)
    /\ \E t \in Triggers : company' = StartBy(c, t)
    /\ UNCHANGED operations

\* "undo payment" and "undo order" are instant commands: they set the
\* workflow and its scratch, and leave the trigger as it is.
StartVoid(c) ==
    /\ Idle(c)
    /\ \E flow \in Instant : company' = Begin(c, flow, "awaiting_reason", c.trigger)
    /\ UNCHANGED operations

\* "opt in all dealers" goes straight to a confirmation.
OptInAll(c) ==
    /\ Idle(c)
    /\ AskConfirm(c, "bulk_opt_in_dealers", None, <<>>)

\* "change language" goes back through the onboarding picker.
ChangeLanguage(c) ==
    /\ Idle(c)
    /\ company' = [c EXCEPT !.onboarded = FALSE]
    /\ UNCHANGED operations

\* A photo of an invoice starts an order, when nothing at all is pending.
InvoicePhoto ==
    /\ Idle(company)
    /\ company' = Begin(company, "create_order", "awaiting_dealer", None)
    /\ UNCHANGED operations

----------------------------------------------------------------------------
\* A text message.  A reply that quotes a queued reminder promotes its bill
\* first; then the ladder answers, if only by asking again.

Quoted == IF company.workflow = Reminder
          THEN {Promote(company, i) : i \in 1 .. Len(company.scratch.queue)}
          ELSE {}

AskAgain(c) == c # company /\ company' = c /\ UNCHANGED operations

Message ==
    \E c \in {company} \cup Quoted :
        \/ AskAgain(c)
        \/ FinishOnboarding(c)
        \/ ContinueDone(c) \/ ContinueStart(c) \/ ContinueAnswer(c)
        \/ InterruptYes(c) \/ InterruptNo(c)
        \/ AskInterrupt(c) \/ FlowMoves(c) \/ FlowEnds(c) \/ FlowConfirms(c)
        \/ ReminderCancel(c) \/ ReminderChoice(c) \/ ReminderAmount(c) \/ ReminderReschedule(c)
        \/ ConfirmExpired(c) \/ ConfirmYes(c) \/ ConfirmAmend(c) \/ ConfirmNo(c)
        \/ ConfirmAdvance(c)
        \/ FollowUpChoice(c) \/ FollowUpClosed(c)
        \/ StartFlow(c) \/ StartVoid(c) \/ OptInAll(c) \/ ChangeLanguage(c)

----------------------------------------------------------------------------
\* The scheduler.

\* check_supplier_payment_reminders: the first due bill is asked about and
\* the others queue behind it, unless a conversation is going on.
ReminderTick ==
    /\ company.onboarded /\ company.workflow = None /\ company.pointer = None
    /\ company.followUp = None
    /\ \E n \in 1 .. MaxBatch : \E due \in [1 .. n -> Bills] :
          /\ \A i, j \in 1 .. n : i # j => due[i] # due[j]
          /\ company' = StartReminder(company, Head(due), Tail(due))
    /\ UNCHANGED operations

\* send_due_today_follow_up: a follow-up whose invoice was closed elsewhere
\* is dropped first; a new one needs a free slot and no live workflow or
\* confirmation.
FollowUpTick ==
    /\ \/ /\ company.workflow = None /\ company.pointer = None
          /\ company' = [company EXCEPT !.followUp = "awaiting_confirmation"]
       \/ company' = [company EXCEPT !.followUp = None]
    /\ company' # company
    /\ UNCHANGED operations

\* PENDING_OPERATION_TTL_MINUTES go by.
Expire ==
    /\ \E op \in operations :
          /\ ~op.expired
          /\ operations' = (operations \ {op}) \cup {[op EXCEPT !.expired = TRUE]}
    /\ UNCHANGED company

Next == Message \/ InvoicePhoto \/ ReminderTick \/ FollowUpTick \/ Expire

Spec == Init /\ [][Next]_vars

----------------------------------------------------------------------------
(***************************************************************************)
(* Safety.                                                                 *)
(***************************************************************************)

\* The pointer and the table agree: with no confirmation pending the company
\* has no row at all, otherwise the one row it has is the one pointed at.
\* create_pending_operation deletes the company's rows and every deletion
\* clears the pointer, so "Pointer stale" in the ladder never happens.
PointerNamesTheRow ==
    IF company.pointer = None
    THEN operations = {}
    ELSE \E op \in operations : operations = {op} /\ op.id = company.pointer

\* A guided workflow and a confirmation are never live together, whatever
\* hands over to what: a flow to its confirmation, a declined payment back to
\* its amount, a resolved bill to the next reminder.
FlowOrPointer(c) == c.workflow = None \/ c.pointer = None
FlowOrConfirmation == FlowOrPointer(company)

\* workflow_scratch belongs to the live workflow: it is empty without one,
\* it has a bill exactly in the reminder conversation, and its step is one
\* the handler has a branch for, so no "unreachable" fallback ever runs.
ScratchFits(c) ==
    /\ c.workflow = None <=> c.scratch.step = ""
    /\ c.workflow = Reminder <=> c.scratch.bill # None
    /\ c.workflow = Reminder => c.scratch.step \in ReminderSteps
    /\ c.workflow \in Flows  => c.scratch.step \in Known(c.workflow)
    /\ c.workflow # Reminder => c.scratch.queue = <<>>
ScratchFitsTheFlow == ScratchFits(company)

\* At most one of the two prompts outranking a flow is up; a prompt to switch
\* has a flow to switch from, and under a prompt to go on nothing waits for
\* a YES and no flow is live but a reminder the scheduler started.
PromptsFit(c) ==
    /\ c.interrupt # None => c.workflow # None /\ c.continuePrompt = None
    /\ c.continuePrompt # None => c.pointer = None /\ c.workflow \in {None, Reminder}
PromptsFitTheFlow == PromptsFit(company)

\* A reminder conversation, and the payment it asks to confirm, have no
\* trigger to start again with, so ending one never offers an unrelated flow.
NoReminderTrigger(c) == c.workflow = Reminder => c.trigger = None
ReminderHasNoTrigger ==
    /\ NoReminderTrigger(company)
    /\ \A op \in operations : op.bill # None => op.trigger = None

\* The pointer, the table of confirmations, the workflow, its scratch, the
\* prompts above it and the trigger it started with, written by different
\* functions, always tell one story.
ConversationHangsTogether ==
    /\ PointerNamesTheRow
    /\ FlowOrConfirmation
    /\ ScratchFitsTheFlow
    /\ PromptsFitTheFlow
    /\ ReminderHasNoTrigger

\* A bill is asked about, or queued, at most once, however often the founder
\* jumps the queue by quoting.
BillsAreDistinct ==
    LET line == <<company.scratch.bill>> \o company.scratch.queue
    IN  /\ \A i, j \in 1 .. Len(line) : i # j => line[i] # line[j]
        /\ \A op \in operations : \A i \in 1 .. Len(op.queue) : op.queue[i] # op.bill

----------------------------------------------------------------------------
(***************************************************************************)
(* What a step may never do.                                               *)
(***************************************************************************)

\* What a reminder's batch still waits for, in turn: the bill asked about, or
\* the one whose payment waits for a YES, and those queued behind it.
BatchOf(c, rows) ==
    LET asked == {op \in rows : op.bill # None}
    IN  IF c.workflow = Reminder THEN <<c.scratch.bill>> \o c.scratch.queue
        ELSE IF asked = {} THEN <<>>
        ELSE LET op == CHOOSE op \in asked : TRUE IN <<op.bill>> \o op.queue
Batch == BatchOf(company, operations)

\* The bill in front is settled: it gets a new date, is skipped, or the
\* founder says YES or NO to its payment in time.
Answered == \/ ReminderReschedule(company)
            \/ \E op \in operations : op.bill # None /\ ~op.expired /\ operations' = {}

\* The whole batch goes, unasked bills included: the founder cancels, starts
\* another flow over the reminder, or lets the confirmation expire.
LetGo == \/ company.workflow = Reminder /\ company'.workflow = None
         \/ company.interrupt # None \/ company.continuePrompt # None
         \/ \E op \in operations : op.bill # None /\ op.expired

\* The i-th bill goes to the front, those before it one place back.
Jumped(line, i) == [k \in 1 .. Len(line) |-> IF k = 1 THEN line[i]
                                             ELSE IF k <= i THEN line[k - 1] ELSE line[k]]

BillsLeaveInTurn ==
    [][Batch # <<>> =>
          IF Answered THEN Batch' = Tail(Batch)
          ELSE \/ Batch' = Batch
               \/ \E i \in 2 .. Len(Batch) : Batch' = Jumped(Batch, i)
               \/ LetGo /\ Batch' = <<>>]_vars

\* A batch is worked off from the front: no bill is in line twice; a settled
\* bill hands over to the next with the rest behind it in order; a quote puts
\* one bill first and loses none; on the way from the conversation into a
\* confirmation the line stays what it is, and no new batch replaces it.  The
\* rest of a line is lost in the three cases of LetGo only, and is then lost
\* without a word.
BillsGoInTurn == []BillsAreDistinct /\ BillsLeaveInTurn

\* A pending follow-up is changed only by its own rung or the scheduler: a
\* message that some other question takes leaves it alone, and a follow-up's
\* answer changes nothing else.
OneAnswerOneQuestion ==
    [][company'.followUp # company.followUp =>
          /\ [company' EXCEPT !.followUp = company.followUp] = company
          /\ operations' = operations]_vars

\* No switch without consent: a live flow is replaced by another one only
\* after the founder was asked and said YES, except that the offer to go on
\* outranks a reminder.
SwitchNeedsConsent ==
    [][(/\ company.workflow \notin {None, Reminder}
        /\ company'.workflow \notin {None, company.workflow})
          => company.interrupt # None /\ company'.trigger = company.interrupt]_vars

----------------------------------------------------------------------------
(***************************************************************************)
(* Liveness.  The founder is not obliged to answer, so this assumes one    *)
(* who does: who does not leave the same question unanswered for ever      *)
(* while the conversation keeps coming back to it (strong fairness), and   *)
(* who does answer a prompt.  Nothing is assumed of quoting, switching,    *)
(* cancelling or the clock.                                                *)
(***************************************************************************)

Answering ==
    /\ SF_vars(ReminderChoice(company))
    /\ SF_vars(ReminderAmount(company))
    /\ SF_vars(ReminderReschedule(company))
    /\ SF_vars(ConfirmYes(company) \/ ConfirmAmend(company) \/ ConfirmNo(company)
                  \/ ConfirmExpired(company))
    /\ WF_vars(InterruptYes(company) \/ InterruptNo(company))
    /\ WF_vars(ContinueDone(company) \/ ContinueStart(company))

FairSpec == Spec /\ Answering

Queued(b) == \/ \E i \in 1 .. Len(company.scratch.queue) : company.scratch.queue[i] = b
             \/ \E op \in operations : \E i \in 1 .. Len(op.queue) : op.queue[i] = b

\* No bill stays in the queue for ever: it is asked about, or leaves with the
\* conversation it was queued in, even if the founder keeps jumping the queue.
NoBillStaysQueued == \A b \in Bills : Queued(b) ~> ~Queued(b)

=============================================================================
