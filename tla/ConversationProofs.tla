-------------------------- MODULE ConversationProofs --------------------------
(***************************************************************************)
(* The safety of Conversation, for every set of workflows, charts,         *)
(* triggers and bills that satisfies its assumptions.                      *)
(*                                                                         *)
(* RowInv is what every handler keeps true of the company row.  The lemmas *)
(* say so of the operators handlers are built from; the inductive step     *)
(* then only has to look at the rows of pending_operations.                *)
(*                                                                         *)
(* The second half is about steps: each rung is shown to keep the bills of *)
(* a batch in turn (InTurn), and to leave alone what it is not asked about.*)
(***************************************************************************)
EXTENDS Conversation, SequenceTheorems, TLAPS

RowInv(c) == /\ c \in Company
             /\ FlowOrPointer(c)
             /\ ScratchFits(c)
             /\ PromptsFit(c)
             /\ NoReminderTrigger(c)

RowsInv == /\ operations \in SUBSET Operation
           /\ \A op \in operations : op.bill # None => op.trigger = None

Inv == RowInv(company) /\ RowsInv /\ PointerNamesTheRow

----------------------------------------------------------------------------
\* Names of steps and workflows that the code fixes are what they should be.
LEMMA Names ==
    /\ None # Reminder /\ None \notin Flows /\ Reminder \notin Flows
    /\ "record_payment" \in Flows /\ "create_order" \in Flows /\ Instant \subseteq Flows
    /\ \A flow \in Flows : Known(flow) \subseteq Steps
    /\ "" \notin Steps /\ "" \notin ReminderSteps
    /\ \A t \in Triggers : /\ Starter[t].flow \in Flows
                           /\ Starter[t].step \in Known(Starter[t].flow)
                           /\ t # None
    /\ \A b \in Bills : b # None
    /\ \A id \in OpIds : id # None
  <1>1. \A flow \in Flows : Known(flow) \subseteq Steps
    BY DEF Known
  <1>2. "" \notin Steps /\ Reminder \notin Flows
    BY ChartAssumption
  <1>3. "record_payment" \in Flows /\ "create_order" \in Flows /\ Instant \subseteq Flows
    BY ChartAssumption
  <1>4. "" \notin ReminderSteps
    BY DEF ReminderSteps
  <1>5. \A t \in Triggers : Starter[t].flow \in Flows /\ Starter[t].step \in Known(Starter[t].flow)
    BY StarterAssumption
  <1> QED
    BY <1>1, <1>2, <1>3, <1>4, <1>5, NoneAssumption

\* A queue without its first bill, or with one bill moved out, is a queue.
LEMMA Queues ==
    ASSUME NEW q \in Seq(Bills)
    PROVE  /\ q # <<>> => Head(q) \in Bills /\ Tail(q) \in Seq(Bills)
           /\ \A i \in 1 .. Len(q), b \in Bills :
                 /\ q[i] \in Bills
                 /\ <<b>> \o SubSeq(q, 1, i - 1) \o SubSeq(q, i + 1, Len(q)) \in Seq(Bills)
  <1>1. q # <<>> => Head(q) \in Bills /\ Tail(q) \in Seq(Bills)
    OBVIOUS
  <1>2. ASSUME NEW i \in 1 .. Len(q), NEW b \in Bills
        PROVE  /\ q[i] \in Bills
               /\ <<b>> \o SubSeq(q, 1, i - 1) \o SubSeq(q, i + 1, Len(q)) \in Seq(Bills)
    <2>1. q[i] \in Bills
      OBVIOUS
    <2>2. SubSeq(q, 1, i - 1) \in Seq(Bills)
      OBVIOUS
    <2>3. SubSeq(q, i + 1, Len(q)) \in Seq(Bills)
      OBVIOUS
    <2>4. <<b>> \in Seq(Bills)
      OBVIOUS
    <2> QED
      BY <2>1, <2>2, <2>3, <2>4
  <1> QED
    BY <1>1, <1>2

\* The empty scratch, and one at its first step, are about no bill.
LEMMA FreshScratch ==
    /\ NoScratch \in Scratch /\ NoScratch.step = "" /\ NoScratch.bill = None
    /\ NoScratch.queue = <<>>
    /\ \A s \in Steps : /\ Fresh(s) \in Scratch /\ Fresh(s).step = s
                        /\ Fresh(s).bill = None /\ Fresh(s).queue = <<>>
  <1>1. /\ NoScratch \in Scratch /\ NoScratch.step = "" /\ NoScratch.bill = None
        /\ NoScratch.queue = <<>>
    BY DEF NoScratch, Scratch
  <1>2. ASSUME NEW s \in Steps
        PROVE  /\ Fresh(s) \in Scratch /\ Fresh(s).step = s
               /\ Fresh(s).bill = None /\ Fresh(s).queue = <<>>
    <2>1. [NoScratch EXCEPT !.step = s] \in Scratch
      BY <1>1 DEF Scratch
    <2>2. Fresh(s).step = s
      BY DEF Fresh, NoScratch
    <2>3. Fresh(s).bill = None /\ Fresh(s).queue = <<>>
      BY DEF Fresh, NoScratch
    <2> QED
      BY <2>1, <2>2, <2>3 DEF Fresh
  <1> QED
    BY <1>1, <1>2

----------------------------------------------------------------------------
\* Ending a flow nobody is asked to switch from.
LEMMA EndFlowKeeps ==
    ASSUME NEW c, RowInv(c), c.interrupt = None
    PROVE  RowInv(EndFlow(c)) /\ EndFlow(c).pointer = c.pointer
  <1>1. c \in Company
    BY DEF RowInv
  <1>2. /\ EndFlow(c) \in Company
        /\ EndFlow(c).workflow = None /\ EndFlow(c).scratch = NoScratch
    BY <1>1, FreshScratch DEF Company, EndFlow
  <1>3. /\ EndFlow(c).interrupt = None /\ EndFlow(c).continuePrompt = c.continuePrompt
        /\ EndFlow(c).pointer = c.pointer
    BY <1>1 DEF Company, EndFlow
  <1> QED
    BY <1>2, <1>3, FreshScratch, Names
       DEF RowInv, FlowOrPointer, ScratchFits, PromptsFit, NoReminderTrigger

\* Beginning a flow on a row without a confirmation or an offer to go on.
LEMMA BeginKeeps ==
    ASSUME NEW c, RowInv(c), c.pointer = None, c.continuePrompt = None,
           NEW flow \in Flows, NEW s \in Known(flow), NEW t \in Triggers \cup {None}
    PROVE  RowInv(Begin(c, flow, s, t)) /\ Begin(c, flow, s, t).pointer = None
  <1>1. c \in Company
    BY DEF RowInv
  <1>2. /\ Fresh(s) \in Scratch /\ Fresh(s).step = s /\ s # ""
        /\ Fresh(s).bill = None /\ Fresh(s).queue = <<>>
    BY Names, FreshScratch
  <1>3. /\ Begin(c, flow, s, t) \in Company
        /\ Begin(c, flow, s, t).workflow = flow
        /\ Begin(c, flow, s, t).scratch = Fresh(s)
    BY <1>1, <1>2 DEF Company, Begin
  <1>4. /\ Begin(c, flow, s, t).continuePrompt = None
        /\ Begin(c, flow, s, t).pointer = None
    BY <1>1 DEF Company, Begin
  <1> QED
    BY <1>2, <1>3, <1>4, Names
       DEF RowInv, FlowOrPointer, ScratchFits, PromptsFit, NoReminderTrigger

\* A flow started by a trigger.
LEMMA StartByKeeps ==
    ASSUME NEW c, RowInv(c), c.pointer = None, c.continuePrompt = None, NEW t \in Triggers
    PROVE  RowInv(StartBy(c, t)) /\ StartBy(c, t).pointer = None
  BY Names, BeginKeeps DEF StartBy

\* Moving to a step the flow's handler knows.
LEMMA MoveToKeeps ==
    ASSUME NEW c, RowInv(c), c.workflow \in Flows, NEW s \in Known(c.workflow)
    PROVE  RowInv(MoveTo(c, s)) /\ MoveTo(c, s).pointer = c.pointer
  <1> DEFINE scratch == [c.scratch EXCEPT !.step = s,
                            !.gathered = @ \/ <<c.workflow, c.scratch.step>> \in Gathering]
  <1>1. c \in Company /\ c.scratch \in Scratch
    BY DEF RowInv, Company
  <1>2. /\ scratch \in Scratch /\ scratch.step = s /\ s # ""
        /\ scratch.bill = c.scratch.bill /\ scratch.queue = c.scratch.queue
    BY <1>1, Names DEF Scratch
  <1>3. MoveTo(c, s) = [c EXCEPT !.scratch = scratch]
    BY <1>1 DEF MoveTo, Company, Scratch
  <1> HIDE DEF scratch
  <1>4. /\ MoveTo(c, s) \in Company
        /\ MoveTo(c, s).workflow = c.workflow
        /\ MoveTo(c, s).scratch = scratch
    BY <1>1, <1>2, <1>3 DEF Company
  <1>5. /\ MoveTo(c, s).pointer = c.pointer /\ MoveTo(c, s).trigger = c.trigger
        /\ MoveTo(c, s).interrupt = c.interrupt
        /\ MoveTo(c, s).continuePrompt = c.continuePrompt
    BY <1>1, <1>3 DEF Company
  <1> QED
    BY <1>2, <1>4, <1>5, Names
       DEF RowInv, FlowOrPointer, ScratchFits, PromptsFit, NoReminderTrigger

\* Starting a reminder on a row without a confirmation.
LEMMA StartReminderKeeps ==
    ASSUME NEW c, RowInv(c), c.pointer = None, NEW bill \in Bills, NEW queue \in Seq(Bills)
    PROVE  /\ RowInv(StartReminder(c, bill, queue))
           /\ StartReminder(c, bill, queue).pointer = None
  <1> DEFINE scratch == [step |-> "awaiting_paid_choice", gathered |-> FALSE,
                         bill |-> bill, queue |-> queue]
  <1>1. c \in Company
    BY DEF RowInv
  <1>2. /\ scratch \in Scratch /\ scratch.step \in ReminderSteps
        /\ scratch.bill # None /\ scratch.step # ""
    BY Names DEF Scratch, ReminderSteps
  <1>3. /\ StartReminder(c, bill, queue) \in Company
        /\ StartReminder(c, bill, queue).workflow = Reminder
        /\ StartReminder(c, bill, queue).scratch = scratch
        /\ StartReminder(c, bill, queue).trigger = None
    BY <1>1, <1>2 DEF Company, StartReminder
  <1>4. /\ StartReminder(c, bill, queue).pointer = None
        /\ StartReminder(c, bill, queue).interrupt = c.interrupt
        /\ StartReminder(c, bill, queue).continuePrompt = c.continuePrompt
    BY <1>1 DEF Company, StartReminder
  <1> HIDE DEF scratch
  <1> QED
    BY <1>2, <1>3, <1>4, Names
       DEF RowInv, FlowOrPointer, ScratchFits, PromptsFit, NoReminderTrigger

\* The next bill of a batch, or the end of it.
LEMMA AdvanceQueueKeeps ==
    ASSUME NEW c, RowInv(c), c.pointer = None, NEW queue \in Seq(Bills)
    PROVE  RowInv(AdvanceQueue(c, queue)) /\ AdvanceQueue(c, queue).pointer = None
  BY Queues, StartReminderKeeps DEF AdvanceQueue

\* Offering to go on, which the ladder does when it has no switch to ask about.
LEMMA OfferKeeps ==
    ASSUME NEW c, RowInv(c), NEW t \in Triggers \cup {None}
    PROVE  RowInv(Offer(c, t)) /\ Offer(c, t).pointer = c.pointer
  <1> DEFINE d == [c EXCEPT !.continuePrompt = t]
  <1>1. CASE ~(c.workflow = None /\ c.pointer = None /\ t \in Triggers)
    BY <1>1 DEF Offer
  <1>2. CASE c.workflow = None /\ c.pointer = None /\ t \in Triggers
    <2>1. c \in Company
      BY DEF RowInv
    <2>2. /\ d \in Company /\ d.workflow = c.workflow /\ d.scratch = c.scratch
          /\ d.trigger = c.trigger
      BY <2>1 DEF Company
    <2>3. d.pointer = c.pointer /\ d.interrupt = c.interrupt
      BY <2>1 DEF Company
    <2>4. Offer(c, t) = d
      BY <1>2 DEF Offer
    <2> HIDE DEF d
    <2> QED
      BY <1>2, <2>2, <2>3, <2>4
         DEF RowInv, FlowOrPointer, ScratchFits, PromptsFit, NoReminderTrigger
  <1> QED
    BY <1>1, <1>2

\* The confirmation that was asked for is dropped.
LEMMA DropPointerKeeps ==
    ASSUME NEW c, RowInv(c)
    PROVE  /\ RowInv(DropPointer(c)) /\ DropPointer(c).pointer = None
           /\ DropPointer(c).continuePrompt = c.continuePrompt
  <1>1. c \in Company
    BY DEF RowInv
  <1>2. /\ DropPointer(c) \in Company /\ DropPointer(c).pointer = None
        /\ DropPointer(c).workflow = c.workflow /\ DropPointer(c).scratch = c.scratch
    BY <1>1 DEF Company, DropPointer
  <1>3. /\ DropPointer(c).trigger = c.trigger /\ DropPointer(c).interrupt = c.interrupt
        /\ DropPointer(c).continuePrompt = c.continuePrompt
    BY <1>1 DEF Company, DropPointer
  <1> QED
    BY <1>2, <1>3 DEF RowInv, FlowOrPointer, ScratchFits, PromptsFit, NoReminderTrigger

\* A reply that quotes a queued reminder.
LEMMA QuotedKeeps ==
    ASSUME RowInv(company), NEW c \in {company} \cup Quoted
    PROVE  RowInv(c) /\ c.pointer = company.pointer
  <1>1. CASE c = company
    BY <1>1
  <1>2. CASE c # company
    <2>1. PICK i \in 1 .. Len(company.scratch.queue) :
              c = Promote(company, i) /\ company.workflow = Reminder
      BY <1>2 DEF Quoted
    <2>2. /\ company.scratch.queue \in Seq(Bills) /\ company.pointer = None
          /\ company.scratch.bill \in Bills
      BY <2>1, Names DEF RowInv, Company, Scratch, ScratchFits, FlowOrPointer
    <2>3. /\ company.scratch.queue[i] \in Bills
          /\ <<company.scratch.bill>> \o SubSeq(company.scratch.queue, 1, i - 1)
                \o SubSeq(company.scratch.queue, i + 1, Len(company.scratch.queue)) \in Seq(Bills)
      BY <2>1, <2>2, Queues
    <2> QED
      BY <2>1, <2>2, <2>3, StartReminderKeeps DEF Promote
  <1> QED
    BY <1>1, <1>2

\* Asking for a YES: the new row is the only one, and the one pointed at.
LEMMA AskConfirmKeeps ==
    ASSUME NEW c, RowInv(c), c.interrupt = None, c.continuePrompt = None,
           NEW type \in Flows \cup {"bulk_opt_in_dealers"},
           NEW bill \in Bills \cup {None}, bill # None => c.trigger = None,
           NEW queue \in Seq(Bills), AskConfirm(c, type, bill, queue)
    PROVE  Inv'
  <1>1. PICK id \in OpIds :
            /\ operations' = {[id |-> id, type |-> type, stage |-> "preview", expired |-> FALSE,
                               trigger |-> c.trigger, bill |-> bill, queue |-> queue]}
            /\ company' = [EndFlow(c) EXCEPT !.trigger = None, !.pointer = id]
    BY DEF AskConfirm
  <1> DEFINE op == [id |-> id, type |-> type, stage |-> "preview", expired |-> FALSE,
                    trigger |-> c.trigger, bill |-> bill, queue |-> queue]
             e  == EndFlow(c)
  <1>2. c.trigger \in Triggers \cup {None} /\ c \in Company
    BY DEF RowInv, Company
  <1>3. op \in Operation /\ op.bill = bill /\ op.trigger = c.trigger /\ op.id = id
    BY <1>2 DEF Operation, Stages
  <1>4. /\ e \in Company /\ e.workflow = None /\ e.scratch = NoScratch
        /\ e.interrupt = None /\ e.continuePrompt = None
    BY <1>2, FreshScratch DEF Company, EndFlow
  <1> HIDE DEF op, e
  <1>5. /\ company' \in Company
        /\ company'.workflow = None /\ company'.scratch = NoScratch
    BY <1>1, <1>4 DEF Company, e
  <1>6. /\ company'.interrupt = None /\ company'.continuePrompt = None
        /\ company'.pointer = id
    BY <1>1, <1>4 DEF Company, e
  <1>7. RowInv(company)'
    BY <1>5, <1>6, FreshScratch, Names
       DEF RowInv, FlowOrPointer, ScratchFits, PromptsFit, NoReminderTrigger
  <1>8. RowsInv'
    BY <1>1, <1>3 DEF RowsInv, op
  <1>9. PointerNamesTheRow'
    BY <1>1, <1>3, <1>6, Names DEF PointerNamesTheRow, op
  <1> QED
    BY <1>7, <1>8, <1>9 DEF Inv

\* The two ways a handler leaves the table: as it is, or empty.
LEMMA SameRows ==
    ASSUME Inv, RowInv(company)', company'.pointer = company.pointer, operations' = operations
    PROVE  Inv'
  BY DEF Inv, RowsInv, PointerNamesTheRow

\* Nothing waits for a confirmation.
LEMMA NoRows ==
    ASSUME RowInv(company)', company'.pointer = None, operations' = {}
    PROVE  Inv'
  BY DEF Inv, RowsInv, PointerNamesTheRow

----------------------------------------------------------------------------
\* What the rungs keep true of the row a message is answered with.
Ready(c) == Inv /\ RowInv(c) /\ c.pointer = company.pointer

\* A prompt on the row is cleared, or a switch is asked about.
LEMMA PromptsKeep ==
    ASSUME NEW c, RowInv(c)
    PROVE  /\ RowInv([c EXCEPT !.continuePrompt = None])
           /\ [c EXCEPT !.continuePrompt = None].pointer = c.pointer
           /\ [c EXCEPT !.continuePrompt = None].continuePrompt = None
           /\ [c EXCEPT !.continuePrompt = None].interrupt = c.interrupt
           /\ RowInv([c EXCEPT !.interrupt = None])
           /\ [c EXCEPT !.interrupt = None].pointer = c.pointer
           /\ [c EXCEPT !.interrupt = None].continuePrompt = c.continuePrompt
  <1> DEFINE d == [c EXCEPT !.continuePrompt = None]
             e == [c EXCEPT !.interrupt = None]
  <1>1. c \in Company
    BY DEF RowInv
  <1>2. /\ d \in Company /\ d.workflow = c.workflow /\ d.scratch = c.scratch
        /\ e \in Company /\ e.workflow = c.workflow /\ e.scratch = c.scratch
    BY <1>1 DEF Company
  <1>3. /\ d.trigger = c.trigger /\ d.interrupt = c.interrupt /\ d.continuePrompt = None
        /\ d.pointer = c.pointer
    BY <1>1 DEF Company
  <1>4. /\ e.trigger = c.trigger /\ e.interrupt = None
        /\ e.continuePrompt = c.continuePrompt /\ e.pointer = c.pointer
    BY <1>1 DEF Company
  <1>5. RowInv(d)
    BY <1>2, <1>3 DEF RowInv, FlowOrPointer, ScratchFits, PromptsFit, NoReminderTrigger
  <1>6. RowInv(e)
    BY <1>2, <1>4 DEF RowInv, FlowOrPointer, ScratchFits, PromptsFit, NoReminderTrigger
  <1> QED
    BY <1>3, <1>4, <1>5, <1>6

\* "Continue?" and "switch?".
LEMMA PromptRungs ==
    ASSUME NEW c, Ready(c),
           \/ ContinueDone(c) \/ ContinueStart(c) \/ ContinueAnswer(c)
           \/ InterruptYes(c) \/ InterruptNo(c)
    PROVE  Inv'
  <1> DEFINE d == [c EXCEPT !.continuePrompt = None]
             e == [c EXCEPT !.interrupt = None]
  <1>1. /\ RowInv(d) /\ d.pointer = company.pointer /\ d.continuePrompt = None
        /\ d.interrupt = c.interrupt
        /\ RowInv(e) /\ e.pointer = company.pointer /\ e.continuePrompt = c.continuePrompt
    BY PromptsKeep DEF Ready
  <1>2. c.continuePrompt \in Triggers \cup {None} /\ c.interrupt \in Triggers \cup {None}
    BY DEF Ready, RowInv, Company
  <1> HIDE DEF d, e
  <1>3. CASE ContinueDone(c)
    BY <1>1, <1>3, SameRows DEF Ready, ContinueDone, d
  <1>4. CASE ContinueStart(c)
    <2>1. c.pointer = None
      BY <1>4 DEF ContinueStart, OnContinue, Ready, RowInv, PromptsFit
    <2>2. PICK t \in Triggers : company' = StartBy(d, t)
      BY <1>4 DEF ContinueStart, d
    <2>3. RowInv(company)' /\ company'.pointer = company.pointer
      BY <1>1, <2>1, <2>2, StartByKeeps DEF Ready
    <2> QED
      BY <1>4, <2>3, SameRows DEF ContinueStart, Ready
  <1>5. CASE ContinueAnswer(c)
    <2> DEFINE s == StartBy(d, c.continuePrompt)
    <2>1. c.pointer = None /\ c.continuePrompt \in Triggers /\ c.interrupt = None
      BY <1>2, <1>5 DEF ContinueAnswer, OnContinue, Ready, RowInv, PromptsFit
    <2>2. RowInv(s) /\ s.pointer = company.pointer
      BY <1>1, <2>1, StartByKeeps DEF Ready
    <2>3. s.workflow \in Flows /\ s.scratch.step \in Steps
      <3>1. d \in Company
        BY <1>1 DEF RowInv
      <3>2. s.workflow = Starter[c.continuePrompt].flow
        BY <3>1 DEF StartBy, Begin, Company
      <3>3. s.scratch = Fresh(Starter[c.continuePrompt].step)
        BY <3>1 DEF StartBy, Begin, Company
      <3>4. Starter[c.continuePrompt].flow \in Flows /\ Starter[c.continuePrompt].step \in Steps
        BY <2>1, Names
      <3>5. Fresh(Starter[c.continuePrompt].step).step = Starter[c.continuePrompt].step
        BY <3>4, FreshScratch
      <3> QED
        BY <3>2, <3>3, <3>4, <3>5
    <2>4. s.interrupt = None
      <3>1. d \in Company
        BY <1>1 DEF RowInv
      <3>2. d.interrupt = None
        BY <1>1, <2>1
      <3> QED
        BY <3>1, <3>2 DEF StartBy, Begin, Company
    <2>5. \/ \E step \in Chart[s.workflow][s.scratch.step][FALSE] \cap Steps :
                company' = MoveTo(s, step)
          \/ company' = EndFlow(s)
      BY <1>5 DEF ContinueAnswer, d
    <2>6. \A step \in Chart[s.workflow][s.scratch.step][FALSE] \cap Steps :
             step \in Known(s.workflow)
      BY <2>3, ChartAssumption
    <2>7. operations' = operations
      BY <1>5 DEF ContinueAnswer
    <2> HIDE DEF s
    <2>8. RowInv(company)' /\ company'.pointer = company.pointer
      BY <2>2, <2>3, <2>4, <2>5, <2>6, MoveToKeeps, EndFlowKeeps
    <2> QED
      BY <2>7, <2>8, SameRows DEF Ready
  <1>6. CASE InterruptYes(c)
    <2>1. c.interrupt \in Triggers /\ c.workflow # None
      BY <1>2, <1>6 DEF InterruptYes, OnInterrupt, Ready, RowInv, PromptsFit
    <2>2. c.pointer = None
      BY <2>1 DEF Ready, RowInv, FlowOrPointer
    <2>3. company' = StartBy(e, c.interrupt) /\ c.continuePrompt = None
      BY <1>6 DEF InterruptYes, OnInterrupt, e
    <2>4. RowInv(company)' /\ company'.pointer = company.pointer
      BY <1>1, <2>1, <2>2, <2>3, StartByKeeps DEF Ready
    <2> QED
      BY <1>6, <2>4, SameRows DEF InterruptYes, Ready
  <1>7. CASE InterruptNo(c)
    BY <1>1, <1>7, SameRows DEF Ready, InterruptNo, e
  <1> QED
    BY <1>3, <1>4, <1>5, <1>6, <1>7

\* The founder is in a flow.
LEMMA FlowRung ==
    ASSUME NEW c, Ready(c), AskInterrupt(c) \/ FlowMoves(c) \/ FlowEnds(c) \/ FlowConfirms(c)
    PROVE  Inv'
  <1>1. /\ c \in Company /\ c.scratch \in Scratch /\ c.pointer = None
        /\ c.continuePrompt = None /\ c.interrupt = None /\ c.workflow # None
        /\ c.trigger \in Triggers \cup {None}
    BY DEF AskInterrupt, FlowMoves, FlowEnds, FlowConfirms, OnWorkflow, Ready, RowInv,
           FlowOrPointer, Company
  <1>2. CASE AskInterrupt(c)
    <2>1. PICK t \in Triggers : company' = [c EXCEPT !.interrupt = t]
      BY <1>2 DEF AskInterrupt
    <2>2. /\ company' \in Company
          /\ company'.workflow = c.workflow /\ company'.scratch = c.scratch
      BY <1>1, <2>1 DEF Company
    <2>3. /\ company'.trigger = c.trigger /\ company'.pointer = None
          /\ company'.continuePrompt = None
      BY <1>1, <2>1 DEF Company
    <2>4. RowInv(company)'
      BY <1>1, <2>2, <2>3
         DEF Ready, RowInv, FlowOrPointer, ScratchFits, PromptsFit, NoReminderTrigger
    <2> QED
      BY <1>1, <1>2, <2>3, <2>4, SameRows DEF Ready, AskInterrupt
  <1>3. CASE FlowMoves(c)
    <2>1. c.workflow \in Flows
      BY <1>1, <1>3 DEF FlowMoves, Company
    <2>2. c.scratch.step \in Steps /\ c.scratch.gathered \in BOOLEAN
      BY <1>1, <2>1, Names DEF Scratch, Ready, RowInv, ScratchFits
    <2>3. \A step \in Outcomes(c) \cap Steps : step \in Known(c.workflow)
      BY <2>1, <2>2, ChartAssumption DEF Outcomes
    <2>4. RowInv(company)' /\ company'.pointer = company.pointer
      BY <1>3, <2>1, <2>3, MoveToKeeps DEF FlowMoves, Ready
    <2> QED
      BY <1>3, <2>4, SameRows DEF Ready, FlowMoves
  <1>4. CASE FlowEnds(c)
    <2>1. RowInv(company)' /\ company'.pointer = company.pointer
      BY <1>1, <1>4, EndFlowKeeps, OfferKeeps DEF FlowEnds, Ready
    <2> QED
      BY <1>4, <2>1, SameRows DEF Ready, FlowEnds
  <1>5. CASE FlowConfirms(c)
    <2>1. c.workflow \in Flows /\ <<>> \in Seq(Bills)
      BY <1>1, <1>5 DEF FlowConfirms, Company
    <2> QED
      BY <1>1, <1>5, <2>1, AskConfirmKeeps DEF FlowConfirms, Ready
  <1> QED
    BY <1>2, <1>3, <1>4, <1>5

\* The founder is asked about a supplier's bill.
LEMMA ReminderRung ==
    ASSUME NEW c, Ready(c),
           ReminderCancel(c) \/ ReminderChoice(c) \/ ReminderAmount(c) \/ ReminderReschedule(c)
    PROVE  Inv'
  <1>1. /\ c \in Company /\ c.scratch \in Scratch /\ c.pointer = None
        /\ c.continuePrompt = None /\ c.interrupt = None /\ c.workflow = Reminder
    BY Names DEF ReminderCancel, ReminderChoice, ReminderAmount, ReminderReschedule,
           OnWorkflow, Ready, RowInv, FlowOrPointer, Company
  <1>2. /\ c.scratch.bill \in Bills /\ c.scratch.queue \in Seq(Bills)
        /\ c.trigger = None
    BY <1>1 DEF Scratch, Ready, RowInv, ScratchFits, NoReminderTrigger
  <1>3. CASE ReminderCancel(c)
    <2>1. RowInv(company)' /\ company'.pointer = company.pointer
      BY <1>1, <1>2, <1>3, EndFlowKeeps, OfferKeeps DEF ReminderCancel, Ready
    <2> QED
      BY <1>3, <2>1, SameRows DEF Ready, ReminderCancel
  <1>4. CASE ReminderChoice(c)
    <2>1. PICK s \in ReminderSteps : company' = [c EXCEPT !.scratch.step = s]
      BY <1>4 DEF ReminderChoice, ReminderSteps
    <2> DEFINE scratch == [c.scratch EXCEPT !.step = s]
    <2>2. /\ scratch \in Scratch /\ scratch.step = s
          /\ scratch.bill = c.scratch.bill /\ scratch.queue = c.scratch.queue
      BY <1>1 DEF Scratch
    <2>3. company' = [c EXCEPT !.scratch = scratch]
      BY <1>1, <2>1 DEF Company, Scratch
    <2> HIDE DEF scratch
    <2>4. /\ company' \in Company /\ company'.workflow = Reminder
          /\ company'.scratch = scratch
      BY <1>1, <2>2, <2>3 DEF Company
    <2>5. /\ company'.trigger = None /\ company'.pointer = None
          /\ company'.continuePrompt = None /\ company'.interrupt = None
      BY <1>1, <1>2, <2>3 DEF Company
    <2>6. RowInv(company)'
      BY <1>1, <1>2, <2>2, <2>4, <2>5, Names
         DEF RowInv, FlowOrPointer, ScratchFits, PromptsFit, NoReminderTrigger
    <2> QED
      BY <1>1, <1>4, <2>5, <2>6, SameRows DEF Ready, ReminderChoice
  <1>5. CASE ReminderAmount(c)
    BY <1>1, <1>2, <1>5, Names, AskConfirmKeeps DEF ReminderAmount, Ready
  <1>6. CASE ReminderReschedule(c)
    <2>1. RowInv(EndFlow(c)) /\ EndFlow(c).pointer = None
      BY <1>1, EndFlowKeeps DEF Ready
    <2>2. RowInv(company)' /\ company'.pointer = company.pointer
      BY <1>1, <1>2, <1>6, <2>1, AdvanceQueueKeeps, OfferKeeps DEF ReminderReschedule, Ready
    <2> QED
      BY <1>6, <2>2, SameRows DEF Ready, ReminderReschedule
  <1> QED
    BY <1>3, <1>4, <1>5, <1>6

\* The founder is asked for a YES.
LEMMA ConfirmRung ==
    ASSUME NEW c, Ready(c),
           \/ ConfirmExpired(c) \/ ConfirmYes(c) \/ ConfirmAmend(c)
           \/ ConfirmNo(c) \/ ConfirmAdvance(c)
    PROVE  Inv'
  <1>1. /\ c.pointer # None /\ c.continuePrompt = None
        /\ RowInv(DropPointer(c)) /\ DropPointer(c).pointer = None
        /\ DropPointer(c).continuePrompt = None
    BY DropPointerKeeps DEF ConfirmExpired, ConfirmYes, ConfirmAmend, ConfirmNo,
           ConfirmAdvance, OnConfirm, Ready
  <1>2. PICK row \in Operation : operations = {row} /\ row.id = company.pointer
    BY <1>1 DEF Ready, Inv, RowsInv, PointerNamesTheRow
  <1>3. /\ Pointed(c) = {row}
        /\ row.queue \in Seq(Bills) /\ row.trigger \in Triggers \cup {None}
    BY <1>2 DEF Pointed, Ready, Operation
  <1>4. RowInv(AdvanceQueue(DropPointer(c), row.queue))
    BY <1>1, <1>3, AdvanceQueueKeeps
  <1>5. AdvanceQueue(DropPointer(c), row.queue).pointer = None
    BY <1>1, <1>3, AdvanceQueueKeeps
  <1>6. CASE ConfirmExpired(c)
    BY <1>1, <1>2, <1>3, <1>6, NoRows DEF ConfirmExpired
  <1>7. CASE ConfirmYes(c)
    <2>1. /\ company' = Offer(AdvanceQueue(DropPointer(c), row.queue), row.trigger)
          /\ operations' = {}
      BY <1>2, <1>3, <1>7 DEF ConfirmYes
    <2> QED
      BY <1>3, <1>4, <1>5, <2>1, OfferKeeps, NoRows
  <1>8. CASE ConfirmAmend(c)
    <2>1. /\ company' = Begin(DropPointer(c), "record_payment", "awaiting_amount", row.trigger)
          /\ operations' = {}
      BY <1>2, <1>3, <1>8 DEF ConfirmAmend
    <2>2. "record_payment" \in Flows /\ "awaiting_amount" \in Known("record_payment")
      BY Names, ChartAssumption
    <2> QED
      BY <1>1, <1>3, <2>1, <2>2, BeginKeeps, NoRows
  <1>9. CASE ConfirmNo(c)
    <2>1. /\ company' = Offer(AdvanceQueue(DropPointer(c), row.queue), row.trigger)
          /\ operations' = {}
      BY <1>2, <1>3, <1>9 DEF ConfirmNo
    <2> QED
      BY <1>3, <1>4, <1>5, <2>1, OfferKeeps, NoRows
  <1>10. CASE ConfirmAdvance(c)
    <2> DEFINE new == [row EXCEPT !.stage = AdvanceStage(row.stage)]
    <2>1. operations' = {new} /\ company' = c
      BY <1>2, <1>3, <1>10 DEF ConfirmAdvance
    <2>2. AdvanceStage(row.stage) \in Stages
      BY <1>2 DEF AdvanceStage, Stages, Operation
    <2>3. new \in Operation /\ new.id = row.id /\ new.bill = row.bill /\ new.trigger = row.trigger
      BY <1>2, <2>2 DEF Operation
    <2> HIDE DEF new
    <2>4. RowsInv'
      BY <1>2, <2>1, <2>3 DEF RowsInv, Ready, Inv
    <2>5. PointerNamesTheRow'
      BY <1>1, <1>2, <2>1, <2>3 DEF PointerNamesTheRow, Ready
    <2> QED
      BY <2>1, <2>4, <2>5 DEF Inv, Ready
  <1> QED
    BY <1>6, <1>7, <1>8, <1>9, <1>10

\* The follow-up is nobody else's business.
LEMMA FollowUpKeeps ==
    ASSUME NEW c, RowInv(c), NEW state \in FollowUpStates \cup {None}
    PROVE  /\ RowInv([c EXCEPT !.followUp = state])
           /\ [c EXCEPT !.followUp = state].pointer = c.pointer
  <1> DEFINE d == [c EXCEPT !.followUp = state]
  <1>1. c \in Company
    BY DEF RowInv
  <1>2. /\ d \in Company /\ d.workflow = c.workflow /\ d.scratch = c.scratch
        /\ d.trigger = c.trigger
    BY <1>1 DEF Company
  <1>3. /\ d.interrupt = c.interrupt /\ d.continuePrompt = c.continuePrompt
        /\ d.pointer = c.pointer
    BY <1>1 DEF Company
  <1>4. RowInv(d)
    BY <1>2, <1>3 DEF RowInv, FlowOrPointer, ScratchFits, PromptsFit, NoReminderTrigger
  <1> QED
    BY <1>3, <1>4

\* The mark of the setup is no part of the conversation.
LEMMA OnboardedKeeps ==
    ASSUME NEW c, RowInv(c), NEW b \in BOOLEAN
    PROVE  /\ RowInv([c EXCEPT !.onboarded = b])
           /\ [c EXCEPT !.onboarded = b].pointer = c.pointer
  <1> DEFINE d == [c EXCEPT !.onboarded = b]
  <1>1. c \in Company
    BY DEF RowInv
  <1>2. /\ d \in Company /\ d.workflow = c.workflow /\ d.scratch = c.scratch
        /\ d.trigger = c.trigger
    BY <1>1 DEF Company
  <1>3. /\ d.interrupt = c.interrupt /\ d.continuePrompt = c.continuePrompt
        /\ d.pointer = c.pointer
    BY <1>1 DEF Company
  <1>4. RowInv(d)
    BY <1>2, <1>3 DEF RowInv, FlowOrPointer, ScratchFits, PromptsFit, NoReminderTrigger
  <1> QED
    BY <1>3, <1>4

\* The other rungs: onboarding, a follow-up, a command, or no answer yet.
LEMMA OtherRungs ==
    ASSUME NEW c, Ready(c),
           \/ AskAgain(c) \/ FinishOnboarding(c) \/ FollowUpChoice(c) \/ FollowUpClosed(c)
           \/ StartFlow(c) \/ StartVoid(c) \/ OptInAll(c) \/ ChangeLanguage(c)
    PROVE  Inv'
  <1>1. CASE AskAgain(c)
    BY <1>1, SameRows DEF Ready, AskAgain
  <1>2. CASE FinishOnboarding(c)
    BY <1>2, OnboardedKeeps, SameRows DEF Ready, FinishOnboarding
  <1>3. CASE FollowUpChoice(c)
    <2>1. PICK state \in FollowUpStates : company' = [c EXCEPT !.followUp = state]
      BY <1>3 DEF FollowUpChoice, FollowUpStates
    <2> QED
      BY <1>3, <2>1, FollowUpKeeps, SameRows DEF Ready, FollowUpChoice
  <1>4. CASE FollowUpClosed(c)
    BY <1>4, FollowUpKeeps, SameRows DEF Ready, FollowUpClosed
  <1>5. CASE StartFlow(c)
    BY <1>5, StartByKeeps, SameRows DEF Ready, StartFlow, Idle
  <1>6. CASE StartVoid(c)
    <2>1. PICK flow \in Instant : company' = Begin(c, flow, "awaiting_reason", c.trigger)
      BY <1>6 DEF StartVoid
    <2>2. flow \in Flows /\ "awaiting_reason" \in Known(flow) /\ c.trigger \in Triggers \cup {None}
      BY <2>1, Names, ChartAssumption DEF Ready, RowInv, Company
    <2>3. RowInv(company)' /\ company'.pointer = None
      BY <1>6, <2>1, <2>2, BeginKeeps DEF Ready, StartVoid, Idle
    <2> QED
      BY <1>6, <2>3, SameRows DEF Ready, StartVoid, Idle
  <1>7. CASE OptInAll(c)
    <2>1. <<>> \in Seq(Bills)
      OBVIOUS
    <2> QED
      BY <1>7, <2>1, AskConfirmKeeps DEF Ready, OptInAll, Idle
  <1>8. CASE ChangeLanguage(c)
    BY <1>8, OnboardedKeeps, SameRows DEF Ready, ChangeLanguage
  <1> QED
    BY <1>1, <1>2, <1>3, <1>4, <1>5, <1>6, <1>7, <1>8

----------------------------------------------------------------------------
\* Rungs of the scheduler.
LEMMA SchedulerKeeps ==
    ASSUME Inv, ReminderTick \/ FollowUpTick \/ Expire
    PROVE  Inv'
  <1>1. CASE ReminderTick
    <2>0. PICK n \in 1 .. MaxBatch : \E due \in [1 .. n -> Bills] :
              company' = StartReminder(company, Head(due), Tail(due))
      BY <1>1 DEF ReminderTick
    <2>1. PICK due \in [1 .. n -> Bills] :
              company' = StartReminder(company, Head(due), Tail(due))
      BY <2>0
    <2>2. n \in Nat /\ n # 0
      BY BatchAssumption
    <2>3. due \in Seq(Bills) /\ Len(due) = n
      BY <2>2, SeqDef
    <2>4. Head(due) \in Bills /\ Tail(due) \in Seq(Bills)
      BY <2>2, <2>3, Queues
    <2>5. RowInv(company)' /\ company'.pointer = company.pointer
      BY <1>1, <2>1, <2>4, StartReminderKeeps DEF ReminderTick, Inv
    <2> QED
      BY <1>1, <2>5, SameRows DEF ReminderTick
  <1>2. CASE FollowUpTick
    <2>1. PICK state \in FollowUpStates \cup {None} :
              company' = [company EXCEPT !.followUp = state]
      BY <1>2 DEF FollowUpTick, FollowUpStates
    <2>2. RowInv(company)' /\ company'.pointer = company.pointer
      BY <2>1, FollowUpKeeps DEF Inv
    <2> QED
      BY <1>2, <2>2, SameRows DEF FollowUpTick
  <1>3. CASE Expire
    <2>1. PICK op \in operations :
              /\ operations' = (operations \ {op}) \cup {[op EXCEPT !.expired = TRUE]}
              /\ company' = company
      BY <1>3 DEF Expire
    <2> DEFINE new == [op EXCEPT !.expired = TRUE]
    <2>2. op \in Operation /\ operations = {op} /\ op.id = company.pointer /\ company.pointer # None
      BY DEF Inv, RowsInv, PointerNamesTheRow
    <2>3. new \in Operation /\ new.id = op.id /\ new.bill = op.bill /\ new.trigger = op.trigger
      BY <2>2 DEF Operation
    <2>4. operations' = {new}
      BY <2>1, <2>2
    <2> HIDE DEF new
    <2>5. RowsInv' /\ PointerNamesTheRow'
      BY <2>1, <2>2, <2>3, <2>4 DEF RowsInv, PointerNamesTheRow, Inv
    <2> QED
      BY <2>1, <2>5 DEF Inv
  <1> QED
    BY <1>1, <1>2, <1>3

\* The invariant is inductive: it starts true ...
LEMMA InvInit == Init => Inv
  <1> SUFFICES ASSUME Init
               PROVE  Inv
    OBVIOUS
  <1>1. company \in Company
    BY FreshScratch DEF Init, Company
  <1>2. /\ company.workflow = None /\ company.scratch = NoScratch /\ company.pointer = None
        /\ company.interrupt = None /\ company.continuePrompt = None
    BY DEF Init
  <1>3. RowInv(company)
    BY <1>1, <1>2, FreshScratch, Names
       DEF RowInv, FlowOrPointer, ScratchFits, PromptsFit, NoReminderTrigger
  <1> QED
    BY <1>2, <1>3 DEF Init, Inv, RowsInv, PointerNamesTheRow

\* ... and every step keeps it.
LEMMA InvStep == Inv /\ [Next]_vars => Inv'
  <1> SUFFICES ASSUME Inv, [Next]_vars
               PROVE  Inv'
    OBVIOUS
  <1>1. CASE Message
    <2>1. PICK c \in {company} \cup Quoted :
        \/ AskAgain(c)
        \/ FinishOnboarding(c)
        \/ ContinueDone(c) \/ ContinueStart(c) \/ ContinueAnswer(c)
        \/ InterruptYes(c) \/ InterruptNo(c)
        \/ AskInterrupt(c) \/ FlowMoves(c) \/ FlowEnds(c) \/ FlowConfirms(c)
        \/ ReminderCancel(c) \/ ReminderChoice(c) \/ ReminderAmount(c) \/ ReminderReschedule(c)
        \/ ConfirmExpired(c) \/ ConfirmYes(c) \/ ConfirmAmend(c) \/ ConfirmNo(c)
        \/ ConfirmAdvance(c)
        \/ FollowUpChoice(c) \/ FollowUpClosed(c)
        \/ StartFlow(c) \/ StartVoid(c) \/ OptInAll(c) \/ ChangeLanguage(c)
      BY <1>1 DEF Message
    <2>2. Ready(c)
      BY QuotedKeeps DEF Inv, Ready
    <2> QED
      BY <2>1, <2>2, PromptRungs, FlowRung, ReminderRung, ConfirmRung, OtherRungs
  <1>2. CASE InvoicePhoto
    <2>1. "create_order" \in Flows /\ "awaiting_dealer" \in Known("create_order")
      BY ChartAssumption
    <2>2. RowInv(company)' /\ company'.pointer = None /\ company.pointer = None
      BY <1>2, <2>1, BeginKeeps DEF InvoicePhoto, Idle, Inv
    <2> QED
      BY <1>2, <2>2, SameRows DEF InvoicePhoto
  <1>3. CASE ReminderTick \/ FollowUpTick \/ Expire
    BY <1>3, SchedulerKeeps
  <1>4. CASE UNCHANGED vars
    BY <1>4, SameRows DEF vars, Inv, RowInv, FlowOrPointer, ScratchFits, PromptsFit,
       NoReminderTrigger
  <1> QED
    BY <1>1, <1>2, <1>3, <1>4 DEF Next

\* The inductive invariant holds whatever the founder sends and the scheduler
\* does: what the theorems below take their properties from.
THEOREM Invariance == Spec => []Inv
  BY InvInit, InvStep, PTL DEF Spec

----------------------------------------------------------------------------
\* Every handler leaves the conversation columns and the table well-typed.
THEOREM TypeCorrect == Spec => []TypeOK
  <1>1. Inv => TypeOK
    BY DEF Inv, RowInv, RowsInv, TypeOK
  <1> QED
    BY <1>1, Invariance, PTL

\* active_pending_operation_id names the company's only row, whatever the
\* ladder, the handlers and the scheduler do to both.
THEOREM PointerCorrect == Spec => []PointerNamesTheRow
  <1>1. Inv => PointerNamesTheRow
    BY DEF Inv
  <1> QED
    BY <1>1, Invariance, PTL

\* A guided workflow and a confirmation are never live together.
THEOREM OneAtATime == Spec => []FlowOrConfirmation
  <1>1. Inv => FlowOrConfirmation
    BY DEF Inv, RowInv, FlowOrConfirmation
  <1> QED
    BY <1>1, Invariance, PTL

\* workflow_scratch is the live workflow's, at a step its handler knows.
THEOREM ScratchCorrect == Spec => []ScratchFitsTheFlow
  <1>1. Inv => ScratchFitsTheFlow
    BY DEF Inv, RowInv, ScratchFitsTheFlow
  <1> QED
    BY <1>1, Invariance, PTL

\* The prompts that outrank a workflow are never both up, nor misplaced.
THEOREM PromptsCorrect == Spec => []PromptsFitTheFlow
  <1>1. Inv => PromptsFitTheFlow
    BY DEF Inv, RowInv, PromptsFitTheFlow
  <1> QED
    BY <1>1, Invariance, PTL

\* Neither a reminder nor the payment it asks for has a start trigger.
THEOREM TriggerCorrect == Spec => []ReminderHasNoTrigger
  <1>1. Inv => ReminderHasNoTrigger
    BY DEF Inv, RowInv, RowsInv, ReminderHasNoTrigger
  <1> QED
    BY <1>1, Invariance, PTL

\* All of it together: what the pointer, the table, the workflow, its scratch,
\* the prompts and the trigger say of each other, after every message and tick.
THEOREM StateCorrect == Spec => []ConversationHangsTogether
  <1>1. PointerNamesTheRow /\ FlowOrConfirmation /\ ScratchFitsTheFlow
           /\ PromptsFitTheFlow /\ ReminderHasNoTrigger
        => ConversationHangsTogether
    BY DEF ConversationHangsTogether
  <1> QED
    BY <1>1, PointerCorrect, OneAtATime, ScratchCorrect, PromptsCorrect, TriggerCorrect, PTL

----------------------------------------------------------------------------
\* The bill asked about and those behind it, in a row or in a confirmation.
Distinct(line) == \A i, j \in 1 .. Len(line) : i # j => line[i] # line[j]
LineOf(c) == <<c.scratch.bill>> \o c.scratch.queue

\* Moving one queued bill to the front permutes the line.
LEMMA PromotedLine ==
    ASSUME NEW b \in Bills, NEW q \in Seq(Bills), NEW i \in 1 .. Len(q), Distinct(<<b>> \o q)
    PROVE  LET t == <<b>> \o SubSeq(q, 1, i - 1) \o SubSeq(q, i + 1, Len(q))
           IN  /\ Distinct(<<q[i]>> \o t)
               /\ <<q[i]>> \o t = Jumped(<<b>> \o q, i + 1)
  <1> DEFINE n == Len(q)
             f == SubSeq(q, 1, i - 1)
             g == SubSeq(q, i + 1, n)
             t == <<b>> \o f \o g
             s == <<b>> \o q
             u == <<q[i]>> \o t
             From(k) == IF k = 1 THEN i + 1 ELSE IF k <= i + 1 THEN k - 1 ELSE k
  <1>1. n \in Nat /\ i \in 1 .. n
    OBVIOUS
  <1>2. /\ Len(f) = i - 1 /\ \A k \in 1 .. i - 1 : f[k] = q[k]
        /\ Len(g) = n - i /\ \A k \in 1 .. n - i : g[k] = q[i + k]
    OBVIOUS
  <1>3. f \in Seq(Bills) /\ g \in Seq(Bills)
    OBVIOUS
  <1> HIDE DEF f, g
  <1>4. /\ t \in Seq(Bills) /\ Len(t) = n
        /\ t[1] = b
        /\ \A k \in 2 .. i : t[k] = q[k - 1]
        /\ \A k \in i + 1 .. n : t[k] = q[k]
    <2>1. <<b>> \o f \in Seq(Bills) /\ Len(<<b>> \o f) = i
      BY <1>1, <1>2, <1>3
    <2>2. (<<b>> \o f)[1] = b /\ \A k \in 2 .. i : (<<b>> \o f)[k] = q[k - 1]
      BY <1>1, <1>2, <1>3
    <2> DEFINE h == <<b>> \o f
    <2>0. h \in Seq(Bills) /\ Len(h) = i /\ Len(g) = n - i
      BY <1>2, <2>1
    <2> HIDE DEF h
    <2>3. h \o g \in Seq(Bills) /\ Len(h \o g) = n
      <3>1. h \o g \in Seq(Bills) /\ Len(h \o g) = Len(h) + Len(g)
        BY <1>3, <2>0, ConcatProperties
      <3>2. Len(h) + Len(g) = n
        BY <1>1, <2>0
      <3> QED
        BY <3>1, <3>2
    <2>4. \A k \in 1 .. i : (h \o g)[k] = h[k]
      BY <1>1, <1>3, <2>0
    <2>5. \A k \in i + 1 .. n : (h \o g)[k] = g[k - i]
      BY <1>1, <1>3, <2>0
    <2>6. t = h \o g
      BY DEF h
    <2>7. h[1] = b /\ \A k \in 2 .. i : h[k] = q[k - 1]
      BY <2>2 DEF h
    <2> HIDE DEF t
    <2>8. t \in Seq(Bills) /\ Len(t) = n
      BY <2>3, <2>6
    <2>9. t[1] = b /\ \A k \in 2 .. i : t[k] = q[k - 1]
      <3>1. \A k \in 1 .. i : t[k] = h[k]
        BY <2>4, <2>6
      <3> HIDE DEF t
      <3>2. 1 \in 1 .. i /\ \A k \in 2 .. i : k \in 1 .. i
        BY <1>1
      <3> QED
        BY <2>7, <3>1, <3>2
    <2>10. ASSUME NEW k \in i + 1 .. n
           PROVE  t[k] = q[k]
      <3>1. t[k] = g[k - i]
        BY <2>5, <2>6
      <3>2. k - i \in 1 .. n - i /\ i + (k - i) = k
        BY <1>1
      <3> QED
        BY <1>2, <3>1, <3>2
    <2> QED
      BY <2>8, <2>9, <2>10
  <1> HIDE DEF t
  <1>5. /\ Len(s) = n + 1 /\ s[1] = b
        /\ \A k \in 2 .. n + 1 : s[k] = q[k - 1]
    OBVIOUS
  <1>6. /\ Len(u) = n + 1 /\ u[1] = q[i]
        /\ \A k \in 2 .. n + 1 : u[k] = t[k - 1]
    BY <1>1, <1>4
  <1>7. \A k, l \in 1 .. n + 1 : s[k] = s[l] => k = l
    BY <1>5 DEF Distinct
  <1> HIDE DEF s, u
  <1>8. \A k \in 1 .. n + 1 : From(k) \in 1 .. n + 1 /\ u[k] = s[From(k)]
    <2> SUFFICES ASSUME NEW k \in 1 .. n + 1
                 PROVE  From(k) \in 1 .. n + 1 /\ u[k] = s[From(k)]
      OBVIOUS
    <2>1. CASE k = 1
      BY <1>1, <1>5, <1>6, <2>1
    <2>2. CASE k = 2
      BY <1>1, <1>4, <1>5, <1>6, <2>2
    <2>3. CASE k \in 3 .. i + 1
      <3>1. u[k] = t[k - 1] /\ k - 1 \in 2 .. i
        BY <1>1, <1>6, <2>3
      <3>2. t[k - 1] = q[k - 2] /\ s[k - 1] = q[k - 2]
        BY <1>1, <1>4, <1>5, <3>1
      <3> QED
        BY <1>1, <2>3, <3>1, <3>2
    <2>4. CASE k \in i + 2 .. n + 1
      <3>1. u[k] = t[k - 1] /\ k - 1 \in i + 1 .. n
        BY <1>1, <1>6, <2>4
      <3>2. t[k - 1] = q[k - 1]
        BY <1>4, <3>1
      <3>3. s[k] = q[k - 1]
        BY <1>1, <1>5, <2>4
      <3> QED
        BY <1>1, <2>4, <3>1, <3>2, <3>3
    <2> QED
      BY <1>1, <2>1, <2>2, <2>3, <2>4
  <1>9. \A k, l \in 1 .. n + 1 : From(k) = From(l) => k = l
    BY <1>1
  <1> HIDE DEF From
  <1>10. Distinct(u)
    <2>1. \A k, l \in 1 .. n + 1 : u[k] = u[l] => k = l
      BY <1>7, <1>8, <1>9
    <2> QED
      BY <1>6, <2>1 DEF Distinct
  <1>11. u = Jumped(s, i + 1)
    <2>1. i + 1 \in 1 .. n + 1 /\ n + 1 \in Nat
      BY <1>1
    <2>2. u = [k \in 1 .. n + 1 |-> u[k]]
      <3>1. q[i] \in Bills
        BY <1>1
      <3>2. u \in Seq(Bills)
        BY <1>4, <3>1 DEF u
      <3>3. DOMAIN u = 1 .. n + 1
        BY <1>6, <3>2
      <3>4. u = [k \in DOMAIN u |-> u[k]]
        BY <3>2
      <3> QED
        BY <3>3, <3>4
    <2>3. \A k \in 1 .. n + 1 : u[k] = IF k = 1 THEN s[i + 1]
                                     ELSE IF k <= i + 1 THEN s[k - 1] ELSE s[k]
      BY <1>8 DEF From
    <2>4. Jumped(s, i + 1) = [k \in 1 .. n + 1 |-> IF k = 1 THEN s[i + 1]
                                                 ELSE IF k <= i + 1 THEN s[k - 1] ELSE s[k]]
      BY <1>5 DEF Jumped
    <2> QED
      BY <2>2, <2>3, <2>4
  <1> QED
    BY <1>10, <1>11 DEF t, u, f, g, s


\* A line of one bill, and the line behind its first bill.
LEMMA ShorterLine ==
    /\ \A b : Distinct(<<b>> \o <<>>)
    /\ \A b \in Bills \cup {None}, q \in Seq(Bills) :
          (q # <<>> /\ Distinct(<<b>> \o q)) =>
              Distinct(<<Head(q)>> \o Tail(q)) /\ <<Head(q)>> \o Tail(q) = q
  <1>1. \A b : Distinct(<<b>> \o <<>>)
    BY DEF Distinct
  <1>2. ASSUME NEW b \in Bills \cup {None}, NEW q \in Seq(Bills), q # <<>>, Distinct(<<b>> \o q)
        PROVE  Distinct(<<Head(q)>> \o Tail(q)) /\ <<Head(q)>> \o Tail(q) = q
    <2> DEFINE t == Tail(q)
               n == Len(q)
    <2>1. n \in Nat \ {0} /\ Head(q) = q[1]
      BY <1>2
    <2>2. t \in Seq(Bills) /\ Len(t) = n - 1 /\ \A k \in 1 .. n - 1 : t[k] = q[k + 1]
      BY <1>2
    <2>3. \A k, l \in 1 .. n : k # l => q[k] # q[l]
      <3>1. Len(<<b>> \o q) = n + 1 /\ \A k \in 1 .. n : (<<b>> \o q)[k + 1] = q[k]
        OBVIOUS
      <3> DEFINE line == <<b>> \o q
      <3>2. \A k, l \in 1 .. n + 1 : k # l => line[k] # line[l]
        BY <1>2, <3>1 DEF Distinct
      <3> HIDE DEF line
      <3> SUFFICES ASSUME NEW k \in 1 .. n, NEW l \in 1 .. n, k # l
                   PROVE  q[k] # q[l]
        OBVIOUS
      <3>3. k + 1 \in 1 .. n + 1 /\ l + 1 \in 1 .. n + 1 /\ k + 1 # l + 1
        BY <2>1
      <3>4. line[k + 1] = q[k] /\ line[l + 1] = q[l]
        BY <3>1 DEF line
      <3> QED
        BY <3>2, <3>3, <3>4
    <2>4. <<Head(q)>> \o t = q
      BY <1>2
    <2> HIDE DEF t
    <2>5. Distinct(<<Head(q)>> \o t)
      BY <2>3, <2>4 DEF Distinct
    <2> QED
      BY <2>4, <2>5 DEF t
  <1> QED
    BY <1>1, <1>2

\* What each operator of a handler does to the workflow, the scratch and the
\* follow-up of a row: ending a flow,
LEMMA EndFlowShape ==
    ASSUME NEW c \in Company
    PROVE  /\ EndFlow(c).workflow = None /\ EndFlow(c).followUp = c.followUp
           /\ EndFlow(c) \in Company
  BY FreshScratch DEF EndFlow, Company

\* beginning one,
LEMMA BeginShape ==
    ASSUME NEW c \in Company, NEW flow \in Flows, NEW s \in Steps, NEW t \in Triggers \cup {None}
    PROVE  /\ Begin(c, flow, s, t).workflow = flow
           /\ Begin(c, flow, s, t).followUp = c.followUp
           /\ Begin(c, flow, s, t).trigger = t
           /\ Begin(c, flow, s, t) \in Company
  <1>1. Fresh(s) \in Scratch
    BY FreshScratch
  <1> QED
    BY <1>1 DEF Begin, Company

\* starting a reminder,
LEMMA StartReminderShape ==
    ASSUME NEW c \in Company, NEW b \in Bills, NEW q \in Seq(Bills)
    PROVE  /\ StartReminder(c, b, q).workflow = Reminder
           /\ StartReminder(c, b, q).followUp = c.followUp
           /\ StartReminder(c, b, q).scratch.bill = b
           /\ StartReminder(c, b, q).scratch.queue = q
           /\ StartReminder(c, b, q).scratch.step = "awaiting_paid_choice"
           /\ StartReminder(c, b, q).interrupt = c.interrupt
           /\ StartReminder(c, b, q).continuePrompt = c.continuePrompt
  <1> DEFINE scratch == [step |-> "awaiting_paid_choice", gathered |-> FALSE,
                         bill |-> b, queue |-> q]
  <1>1. /\ scratch \in Scratch /\ scratch.bill = b /\ scratch.queue = q
        /\ scratch.step = "awaiting_paid_choice"
    BY DEF Scratch, ReminderSteps
  <1>2. StartReminder(c, b, q) = [c EXCEPT !.workflow = Reminder, !.trigger = None,
                                           !.scratch = scratch]
    BY DEF StartReminder
  <1> HIDE DEF scratch
  <1> QED
    BY <1>1, <1>2 DEF Company

\* offering to go on,
LEMMA OfferShape ==
    ASSUME NEW c \in Company, NEW t
    PROVE  /\ Offer(c, t).workflow = c.workflow /\ Offer(c, t).scratch = c.scratch
           /\ Offer(c, t).followUp = c.followUp
  BY DEF Offer, Company

\* and dropping the pointer.
LEMMA DropPointerShape ==
    ASSUME NEW c \in Company
    PROVE  /\ DropPointer(c).workflow = c.workflow /\ DropPointer(c).scratch = c.scratch
           /\ DropPointer(c).followUp = c.followUp
           /\ DropPointer(c) \in Company
  BY DEF DropPointer, Company

\* A trigger starts its own flow, and nothing else of the row matters to it.
LEMMA StartByShape ==
    ASSUME NEW c \in Company, NEW t \in Triggers
    PROVE  /\ StartBy(c, t).workflow \in Flows /\ StartBy(c, t).trigger = t
           /\ StartBy(c, t).followUp = c.followUp /\ StartBy(c, t) \in Company
           /\ StartBy(c, t).scratch.step \in Steps
  <1>1. Starter[t].flow \in Flows /\ Starter[t].step \in Steps
    BY Names
  <1>2. StartBy(c, t).scratch = Fresh(Starter[t].step)
    BY DEF StartBy, Begin, Company
  <1>3. StartBy(c, t).scratch.step \in Steps
    BY <1>1, <1>2, FreshScratch
  <1> QED
    BY <1>1, <1>3, BeginShape DEF StartBy

\* Moving on inside a flow changes the step and no bill.
LEMMA MoveToShape ==
    ASSUME NEW c \in Company, NEW s \in Steps
    PROVE  /\ MoveTo(c, s).workflow = c.workflow /\ MoveTo(c, s).followUp = c.followUp
           /\ MoveTo(c, s).scratch.bill = c.scratch.bill
           /\ MoveTo(c, s).scratch.queue = c.scratch.queue
  <1> DEFINE scratch == [c.scratch EXCEPT !.step = s,
                            !.gathered = @ \/ <<c.workflow, c.scratch.step>> \in Gathering]
  <1>1. c.scratch \in Scratch
    BY DEF Company
  <1>2. scratch.bill = c.scratch.bill /\ scratch.queue = c.scratch.queue
    BY <1>1 DEF Scratch
  <1>3. MoveTo(c, s) = [c EXCEPT !.scratch = scratch]
    BY <1>1 DEF MoveTo, Company, Scratch
  <1> HIDE DEF scratch
  <1> QED
    BY <1>2, <1>3 DEF Company

\* The next bill of the line is asked about, with the others behind it.
LEMMA AdvanceShape ==
    ASSUME NEW c \in Company, NEW q \in Seq(Bills)
    PROVE  /\ AdvanceQueue(c, q).followUp = c.followUp
           /\ q = <<>> => AdvanceQueue(c, q) = c
           /\ q # <<>> => /\ AdvanceQueue(c, q).workflow = Reminder
                          /\ AdvanceQueue(c, q).scratch.bill = Head(q)
                          /\ AdvanceQueue(c, q).scratch.queue = Tail(q)
  <1>1. CASE q = <<>>
    BY <1>1 DEF AdvanceQueue
  <1>2. CASE q # <<>>
    <2>1. AdvanceQueue(c, q) = StartReminder(c, Head(q), Tail(q))
      BY <1>2 DEF AdvanceQueue
    <2>2. Head(q) \in Bills /\ Tail(q) \in Seq(Bills)
      BY <1>2, Queues
    <2>3. PICK h \in Bills : h = Head(q)
      BY <2>2
    <2>4. PICK r \in Seq(Bills) : r = Tail(q)
      BY <2>2
    <2>5. AdvanceQueue(c, q) = StartReminder(c, h, r)
      BY <2>1, <2>3, <2>4
    <2>6. /\ StartReminder(c, h, r).workflow = Reminder
          /\ StartReminder(c, h, r).followUp = c.followUp
          /\ StartReminder(c, h, r).scratch.bill = h /\ StartReminder(c, h, r).scratch.queue = r
      BY StartReminderShape
    <2> QED
      BY <1>2, <2>3, <2>4, <2>5, <2>6
  <1> QED
    BY <1>1, <1>2


----------------------------------------------------------------------------
\* What a batch is read from: the conversation, or its one confirmation.
LEMMA BatchIs ==
    ASSUME NEW c, NEW rows
    PROVE  /\ c.workflow = Reminder => BatchOf(c, rows) = LineOf(c)
           /\ (c.workflow # Reminder /\ \A op \in rows : op.bill = None) => BatchOf(c, rows) = <<>>
           /\ \A op : (c.workflow # Reminder /\ rows = {op} /\ op.bill # None) =>
                      BatchOf(c, rows) = <<op.bill>> \o op.queue
  <1>1. c.workflow = Reminder => BatchOf(c, rows) = LineOf(c)
    BY DEF BatchOf, LineOf
  <1>2. (c.workflow # Reminder /\ \A op \in rows : op.bill = None) => BatchOf(c, rows) = <<>>
    <2> SUFFICES ASSUME c.workflow # Reminder, \A op \in rows : op.bill = None
                 PROVE  BatchOf(c, rows) = <<>>
      OBVIOUS
    <2>1. {op \in rows : op.bill # None} = {}
      OBVIOUS
    <2> QED
      BY <2>1 DEF BatchOf
  <1>3. ASSUME NEW op, c.workflow # Reminder, rows = {op}, op.bill # None
        PROVE  BatchOf(c, rows) = <<op.bill>> \o op.queue
    <2> DEFINE asked == {o \in rows : o.bill # None}
               one == CHOOSE o \in asked : TRUE
    <2>1. asked = {op} /\ asked # {}
      BY <1>3
    <2>2. BatchOf(c, rows) = <<one.bill>> \o one.queue
      BY <1>3, <2>1 DEF BatchOf
    <2> HIDE DEF asked
    <2>3. one = op
      BY <2>1
    <2> QED
      BY <2>2, <2>3
  <1> QED
    BY <1>1, <1>2, <1>3

\* Only the bill and the queue of a confirmation matter to it.
LEMMA SameBatch ==
    ASSUME NEW c, NEW op, NEW new, new.bill = op.bill, new.queue = op.queue
    PROVE  BatchOf(c, {new}) = BatchOf(c, {op})
  <1>1. CASE c.workflow = Reminder
    BY <1>1, BatchIs
  <1>2. CASE c.workflow # Reminder /\ op.bill = None
    <2>1. (\A o \in {op} : o.bill = None) /\ (\A o \in {new} : o.bill = None)
      BY <1>2
    <2> QED
      BY <1>2, <2>1, BatchIs
  <1>3. CASE c.workflow # Reminder /\ op.bill # None
    <2>1. BatchOf(c, {op}) = <<op.bill>> \o op.queue
      BY <1>3, BatchIs
    <2>2. BatchOf(c, {new}) = <<new.bill>> \o new.queue
      BY <1>3, BatchIs
    <2> QED
      BY <2>1, <2>2
  <1> QED
    BY <1>1, <1>2, <1>3

\* A confirmation is only where a pointer is, and no pointer is beside a flow.
LEMMA NoRowNoBatch ==
    ASSUME Inv
    PROVE  /\ company.workflow # None => operations = {}
           /\ company.pointer = None => operations = {}
           /\ (company.pointer = None /\ company.workflow # Reminder) => Batch = <<>>
  <1>1. company.pointer = None => operations = {}
    BY DEF Inv, PointerNamesTheRow
  <1>2. company.workflow # None => company.pointer = None
    BY DEF Inv, RowInv, FlowOrPointer
  <1> QED
    BY <1>1, <1>2, BatchIs DEF Batch

\* A reply that quotes moves a bill to the front, and leaves the rest.
Turned(c) == /\ c.followUp = company.followUp
             /\ c.interrupt = company.interrupt /\ c.continuePrompt = company.continuePrompt
             /\ c # company =>
                   /\ c.workflow = Reminder /\ company.workflow = Reminder
                   /\ c.scratch.step = "awaiting_paid_choice"
                   /\ \E i \in 2 .. Len(LineOf(company)) : LineOf(c) = Jumped(LineOf(company), i)
             /\ Distinct(LineOf(c))

\* Quoting asks about the same bills in another order.
LEMMA QuotedTurns ==
    ASSUME Inv, Distinct(LineOf(company)), NEW c \in {company} \cup Quoted
    PROVE  Ready(c) /\ Turned(c)
  <1>1. Ready(c)
    BY QuotedKeeps DEF Ready, Inv
  <1>2. CASE c = company
    BY <1>1, <1>2 DEF Turned
  <1>3. CASE c # company
    <2>1. PICK i \in 1 .. Len(company.scratch.queue) :
              c = Promote(company, i) /\ company.workflow = Reminder
      BY <1>3 DEF Quoted
    <2> DEFINE q == company.scratch.queue
               b == company.scratch.bill
               t == <<b>> \o SubSeq(q, 1, i - 1) \o SubSeq(q, i + 1, Len(q))
    <2>2. q \in Seq(Bills) /\ b \in Bills /\ company \in Company
      BY <2>1, Names DEF Inv, RowInv, Company, Scratch, ScratchFits
    <2>3. q[i] \in Bills /\ t \in Seq(Bills)
      BY <2>1, <2>2, Queues
    <2>4. c = StartReminder(company, q[i], t)
      BY <2>1 DEF Promote
    <2>5. /\ Distinct(<<q[i]>> \o t)
          /\ <<q[i]>> \o t = Jumped(<<b>> \o q, i + 1)
          /\ i + 1 \in 2 .. Len(<<b>> \o q)
      <3>1. Distinct(<<b>> \o q)
        BY DEF LineOf
      <3>2. PICK bill \in Bills : bill = b
        BY <2>2
      <3>3. PICK queue \in Seq(Bills) : queue = q
        BY <2>2
      <3>4. i \in 1 .. Len(queue) /\ Distinct(<<bill>> \o queue)
        BY <2>1, <3>1, <3>2, <3>3
      <3> DEFINE r == <<bill>> \o SubSeq(queue, 1, i - 1) \o SubSeq(queue, i + 1, Len(queue))
      <3>5. /\ Distinct(<<queue[i]>> \o r)
            /\ <<queue[i]>> \o r = Jumped(<<bill>> \o queue, i + 1)
        BY <3>4, PromotedLine
      <3>6. i + 1 \in 2 .. Len(<<bill>> \o queue)
        BY <3>4
      <3> QED
        BY <3>2, <3>3, <3>5, <3>6
    <2> HIDE DEF t
    <2>6. /\ c.workflow = Reminder /\ c.followUp = company.followUp
          /\ c.scratch.bill = q[i] /\ c.scratch.queue = t
          /\ c.scratch.step = "awaiting_paid_choice"
          /\ c.interrupt = company.interrupt /\ c.continuePrompt = company.continuePrompt
      <3> DEFINE d == StartReminder(company, q[i], t)
      <3>1. /\ d.workflow = Reminder /\ d.followUp = company.followUp
            /\ d.scratch.bill = q[i] /\ d.scratch.queue = t
            /\ d.scratch.step = "awaiting_paid_choice"
            /\ d.interrupt = company.interrupt /\ d.continuePrompt = company.continuePrompt
        BY <2>2, <2>3, StartReminderShape
      <3> HIDE DEF d
      <3>2. c = d
        BY <2>4 DEF d
      <3> QED
        BY <3>1, <3>2
    <2> QED
      BY <1>1, <2>1, <2>5, <2>6 DEF Turned, LineOf
  <1> QED
    BY <1>2, <1>3

\* The bills of a row of pending_operations.
LinedUp(rows) == \A op \in rows : Distinct(<<op.bill>> \o op.queue)

\* What a step does to the lines of bills.
Turns == Batch # <<>> =>
            IF Answered THEN Batch' = Tail(Batch)
            ELSE \/ Batch' = Batch
                 \/ \E i \in 2 .. Len(Batch) : Batch' = Jumped(Batch, i)
                 \/ LetGo /\ Batch' = <<>>

InTurn == Distinct(LineOf(company')) /\ LinedUp(operations') /\ Turns

\* A bill with a new date, or skipped, yields to the next.
LEMMA DatedYields ==
    ASSUME Inv, ReminderReschedule(company)
    PROVE  Batch' = Tail(Batch)
  <1> DEFINE c == company
             q == c.scratch.queue
             d == EndFlow(c)
  <1>1. /\ c \in Company /\ c.workflow = Reminder /\ c.pointer = None /\ operations = {}
        /\ c.scratch.bill \in Bills /\ q \in Seq(Bills)
    BY NoRowNoBatch, Names
       DEF ReminderReschedule, OnWorkflow, Inv, RowInv, FlowOrPointer, ScratchFits, Company, Scratch
  <1>2. company' = Offer(AdvanceQueue(d, q), c.trigger) /\ operations' = {}
    BY <1>1 DEF ReminderReschedule
  <1>3. Batch = <<c.scratch.bill>> \o q
    BY <1>1, BatchIs DEF Batch, LineOf
  <1>4. Tail(Batch) = q
    BY <1>1, <1>3
  <1>5. d \in Company /\ d.workflow = None /\ RowInv(d) /\ d.pointer = None
    <2>1. RowInv(c) /\ c.interrupt = None
      BY DEF Inv, ReminderReschedule, OnWorkflow
    <2> QED
      BY <1>1, <2>1, EndFlowShape, EndFlowKeeps
  <1>6. AdvanceQueue(d, q) \in Company
    BY <1>1, <1>5, AdvanceQueueKeeps DEF RowInv
  <1>7. /\ company'.workflow = AdvanceQueue(d, q).workflow
        /\ company'.scratch = AdvanceQueue(d, q).scratch
    BY <1>2, <1>6, OfferShape
  <1> HIDE DEF d
  <1>8. CASE q = <<>>
    <2>1. company'.workflow # Reminder
      BY <1>1, <1>5, <1>7, <1>8, AdvanceShape, Names
    <2>2. Batch' = <<>>
      BY <1>2, <2>1, BatchIs DEF Batch
    <2> QED
      BY <1>4, <1>8, <2>2
  <1>9. CASE q # <<>>
    <2>1. /\ company'.workflow = Reminder
          /\ company'.scratch.bill = Head(q) /\ company'.scratch.queue = Tail(q)
      BY <1>1, <1>5, <1>7, <1>9, AdvanceShape
    <2>2. Batch' = <<Head(q)>> \o Tail(q)
      BY <2>1, BatchIs DEF Batch, LineOf
    <2>3. <<Head(q)>> \o Tail(q) = q
      BY <1>1, <1>9
    <2> QED
      BY <1>4, <2>2, <2>3
  <1> QED
    BY <1>8, <1>9

\* A step that leaves a confirmation on file answers none.
LEMMA NotAnswered ==
    ASSUME Inv, operations = {} \/ operations' # {},
           \/ Batch = <<>> \/ Batch' = Batch
           \/ \E i \in 2 .. Len(Batch) : Batch' = Jumped(Batch, i)
           \/ LetGo /\ Batch' = <<>>
    PROVE  Turns
  <1>1. Answered => ReminderReschedule(company)
    BY DEF Answered
  <1> QED
    BY <1>1, DatedYields DEF Turns

\* A step that asks about the same bills and leaves the table.
LEMMA SameLine ==
    ASSUME NEW c, Inv, Turned(c), LinedUp(operations), operations' = operations,
           company'.workflow = c.workflow,
           company'.scratch.bill = c.scratch.bill, company'.scratch.queue = c.scratch.queue
    PROVE  InTurn
  <1>1. LineOf(company') = LineOf(c)
    BY DEF LineOf
  <1>2. CASE c = company
    <2>1. Batch' = Batch
      BY <1>2 DEF Batch, BatchOf
    <2> QED
      BY <1>1, <2>1, NotAnswered DEF InTurn, Turned
  <1>3. CASE c # company
    <2>1. Batch = LineOf(company) /\ Batch' = LineOf(company')
      BY <1>3, BatchIs DEF Batch, Turned
    <2>2. \E i \in 2 .. Len(Batch) : Batch' = Jumped(Batch, i)
      BY <1>1, <1>3, <2>1 DEF Turned
    <2> QED
      BY <1>1, <2>2, NotAnswered DEF InTurn, Turned
  <1> QED
    BY <1>2, <1>3

\* A step out of the reminder conversation, or not into it.
LEMMA NoLine ==
    ASSUME Inv, Inv', company'.workflow # Reminder, LinedUp(operations), operations' = operations,
           company.workflow = Reminder => LetGo
    PROVE  InTurn
  <1>1. company'.scratch.queue = <<>>
    BY DEF Inv, RowInv, ScratchFits
  <1>2. Distinct(LineOf(company'))
    BY <1>1, ShorterLine DEF LineOf
  <1>3. CASE company.workflow = Reminder
    <2>1. operations = {}
      BY <1>3, NoRowNoBatch, Names
    <2>2. Batch' = <<>>
      BY <2>1, BatchIs DEF Batch
    <2> QED
      BY <1>2, <1>3, <2>2, NotAnswered DEF InTurn
  <1>4. CASE company.workflow # Reminder
    <2>1. Batch' = Batch
      BY <1>4 DEF Batch, BatchOf
    <2> QED
      BY <1>2, <2>1, NotAnswered DEF InTurn
  <1> QED
    BY <1>3, <1>4

\* A step that asks for a YES takes the line into the table.
LEMMA AskedLine ==
    ASSUME Inv, Inv', NEW c \in Company, NEW type, NEW bill, NEW queue, AskConfirm(c, type, bill, queue),
           Distinct(<<bill>> \o queue),
           Batch = <<>> \/ (bill # None /\ Batch = <<bill>> \o queue)
    PROVE  InTurn
  <1>1. PICK id \in OpIds :
            /\ operations' = {[id |-> id, type |-> type, stage |-> "preview", expired |-> FALSE,
                               trigger |-> c.trigger, bill |-> bill, queue |-> queue]}
            /\ company' = [EndFlow(c) EXCEPT !.trigger = None, !.pointer = id]
    BY DEF AskConfirm
  <1>2. company'.workflow = None
    BY <1>1, EndFlowShape DEF Company
  <1>3. Distinct(LineOf(company'))
    BY <1>2, Names, ShorterLine DEF Inv, RowInv, ScratchFits, LineOf
  <1>4. LinedUp(operations')
    BY <1>1 DEF LinedUp
  <1>5. bill # None => Batch' = <<bill>> \o queue
    <2> DEFINE row == [id |-> id, type |-> type, stage |-> "preview", expired |-> FALSE,
                       trigger |-> c.trigger, bill |-> bill, queue |-> queue]
    <2>1. operations' = {row} /\ row.bill = bill /\ row.queue = queue
      BY <1>1
    <2> HIDE DEF row
    <2> QED
      BY <1>2, <2>1, BatchIs, Names DEF Batch
  <1>6. Turns
    <2>1. operations' # {}
      BY <1>1
    <2> QED
      BY <1>5, <2>1, NotAnswered
  <1> QED
    BY <1>3, <1>4, <1>6 DEF InTurn


----------------------------------------------------------------------------
\* What the steps of a message rest on: the two invariants, and a row that is
\* the company's own or one of its bills promoted.
Turning(c) == Ready(c) /\ Turned(c) /\ LinedUp(operations) /\ Inv'

\* The prompts leave a line of bills, or let it go for another flow.
LEMMA PromptsInTurn ==
    ASSUME NEW c, Turning(c),
           \/ ContinueDone(c) \/ ContinueStart(c) \/ ContinueAnswer(c)
           \/ InterruptYes(c) \/ InterruptNo(c)
    PROVE  InTurn
  <1> DEFINE d == [c EXCEPT !.continuePrompt = None]
             e == [c EXCEPT !.interrupt = None]
  <1>1. c \in Company /\ Turned(c) /\ LinedUp(operations) /\ Inv /\ Inv'
    BY DEF Turning, Ready, RowInv
  <1>2. /\ d \in Company /\ d.scratch = c.scratch /\ d.workflow = c.workflow
        /\ e \in Company /\ e.scratch = c.scratch /\ e.workflow = c.workflow
    BY <1>1 DEF Company
  <1>3. /\ c.continuePrompt \in Triggers \cup {None}
        /\ c.interrupt \in Triggers \cup {None}
    BY <1>1 DEF Company
  <1>4. operations' = operations
    BY DEF ContinueDone, ContinueStart, ContinueAnswer, InterruptYes, InterruptNo
  <1>12. LetGo
    BY <1>1, Names DEF ContinueDone, ContinueStart, ContinueAnswer, InterruptYes, InterruptNo,
           OnContinue, OnInterrupt, Turned, LetGo
  <1> HIDE DEF d, e
  <1>5. CASE company' = d \/ company' = e
    BY <1>1, <1>2, <1>4, <1>5, SameLine
  <1>6. ASSUME NEW t \in Triggers, company' = StartBy(d, t) \/ company' = StartBy(e, t)
        PROVE  InTurn
    <2>1. company'.workflow \in Flows
      BY <1>2, <1>6, StartByShape
    <2> QED
      BY <1>1, <1>4, <1>12, <2>1, Names, NoLine
  <1>7. CASE ContinueAnswer(c)
    <2> DEFINE s == StartBy(d, c.continuePrompt)
    <2>1. c.continuePrompt \in Triggers
      BY <1>3, <1>7 DEF ContinueAnswer, OnContinue
    <2>2. s \in Company /\ s.workflow \in Flows
      BY <1>2, <2>1, StartByShape
    <2>3. (\E step \in Steps : company' = MoveTo(s, step)) \/ company' = EndFlow(s)
      BY <1>7 DEF ContinueAnswer, d
    <2> HIDE DEF s
    <2>4. company'.workflow # Reminder
      <3>1. ASSUME NEW step \in Steps, company' = MoveTo(s, step)
            PROVE  company'.workflow = s.workflow
        BY <2>2, <3>1, MoveToShape
      <3>2. CASE company' = EndFlow(s)
        BY <2>2, <3>2, EndFlowShape, Names
      <3> QED
        BY <2>2, <2>3, <3>1, <3>2, Names
    <2> QED
      BY <1>1, <1>4, <1>12, <2>4, NoLine
  <1>8. CASE ContinueDone(c)
    BY <1>5, <1>8 DEF ContinueDone, d
  <1>9. CASE ContinueStart(c)
    BY <1>6, <1>9 DEF ContinueStart, d
  <1>10. CASE InterruptYes(c)
    BY <1>3, <1>6, <1>10 DEF InterruptYes, OnInterrupt, e
  <1>11. CASE InterruptNo(c)
    BY <1>5, <1>11 DEF InterruptNo, e
  <1> QED
    BY <1>7, <1>8, <1>9, <1>10, <1>11

\* A guided workflow has no line of bills.
LEMMA FlowInTurn ==
    ASSUME NEW c, Turning(c), AskInterrupt(c) \/ FlowMoves(c) \/ FlowEnds(c) \/ FlowConfirms(c)
    PROVE  InTurn
  <1>1. c \in Company /\ Turned(c) /\ LinedUp(operations) /\ Inv /\ Inv'
    BY DEF Turning, Ready, RowInv
  <1>2. CASE AskInterrupt(c)
    <2>1. PICK t \in Triggers : company' = [c EXCEPT !.interrupt = t] /\ operations' = operations
      BY <1>2 DEF AskInterrupt
    <2>2. company'.scratch = c.scratch /\ company'.workflow = c.workflow
      BY <1>1, <2>1 DEF Company
    <2> QED
      BY <1>1, <2>1, <2>2, SameLine
  <1>3. CASE FlowMoves(c)
    <2>1. PICK s \in Steps : company' = MoveTo(c, s) /\ operations' = operations
      BY <1>3 DEF FlowMoves
    <2> QED
      BY <1>1, <2>1, MoveToShape, SameLine
  <1>4. CASE FlowEnds(c)
    <2>1. /\ company' = Offer(EndFlow(c), c.trigger) /\ operations' = operations
          /\ company.workflow # Reminder
      BY <1>1, <1>4 DEF FlowEnds, Turned
    <2>2. company'.workflow = None
      BY <1>1, <2>1, EndFlowShape, OfferShape
    <2> QED
      BY <1>1, <2>1, <2>2, Names, NoLine
  <1>5. CASE FlowConfirms(c)
    <2>1. AskConfirm(c, c.workflow, None, <<>>) /\ Distinct(<<None>> \o <<>>)
      BY <1>5, ShorterLine DEF FlowConfirms
    <2>2. company.workflow # Reminder /\ company.pointer = None
      BY <1>1, <1>5 DEF FlowConfirms, OnWorkflow, Turned, Inv, RowInv, FlowOrPointer
    <2>3. Batch = <<>>
      BY <1>1, <2>2, NoRowNoBatch
    <2>4. <<>> \in Seq(Bills)
      OBVIOUS
    <2> QED
      BY <1>1, <2>1, <2>3, AskedLine
  <1> QED
    BY <1>2, <1>3, <1>4, <1>5

\* The reminder conversation takes its bills in turn.
LEMMA ReminderInTurn ==
    ASSUME NEW c, Turning(c),
           ReminderCancel(c) \/ ReminderChoice(c) \/ ReminderAmount(c) \/ ReminderReschedule(c)
    PROVE  InTurn
  <1>1. c \in Company /\ Turned(c) /\ LinedUp(operations) /\ Inv /\ Inv'
    BY DEF Turning, Ready, RowInv
  <1>2. /\ c.workflow = Reminder /\ c.scratch \in Scratch
        /\ c.scratch.bill \in Bills /\ c.scratch.queue \in Seq(Bills)
    BY <1>1 DEF ReminderCancel, ReminderChoice, ReminderAmount, ReminderReschedule,
           Turning, Ready, RowInv, ScratchFits, Company, Scratch
  <1>3. CASE ReminderCancel(c)
    <2>1. company' = Offer(EndFlow(c), c.trigger) /\ operations' = operations
      BY <1>3 DEF ReminderCancel
    <2>2. company'.workflow = None
      BY <1>1, <2>1, EndFlowShape, OfferShape
    <2> QED
      BY <1>1, <2>1, <2>2, Names, NoLine DEF LetGo
  <1>4. CASE ReminderChoice(c)
    <2>1. PICK s : company' = [c EXCEPT !.scratch.step = s] /\ operations' = operations
      BY <1>4 DEF ReminderChoice
    <2>2. company'.scratch = [c.scratch EXCEPT !.step = s] /\ company'.workflow = c.workflow
      BY <1>1, <2>1 DEF Company
    <2>3. company'.scratch.bill = c.scratch.bill /\ company'.scratch.queue = c.scratch.queue
      BY <1>2, <2>2 DEF Scratch
    <2> QED
      BY <1>1, <2>1, <2>2, <2>3, SameLine
  <1>5. CASE ReminderAmount(c)
    <2>1. AskConfirm(c, "record_payment", c.scratch.bill, c.scratch.queue)
      BY <1>5 DEF ReminderAmount
    <2>2. c = company
      BY <1>1, <1>5 DEF ReminderAmount, Turned
    <2>3. Batch = <<c.scratch.bill>> \o c.scratch.queue
      BY <1>2, <2>2, BatchIs DEF Batch, LineOf
    <2> QED
      BY <1>1, <1>2, <2>1, <2>3, AskedLine, Names DEF Turned, LineOf
  <1>6. CASE ReminderReschedule(c)
    <2> DEFINE q == c.scratch.queue
               d == EndFlow(c)
    <2>1. /\ c.scratch.step = "awaiting_reschedule" /\ operations' = operations
          /\ company' = Offer(AdvanceQueue(d, q), c.trigger)
      BY <1>6 DEF ReminderReschedule
    <2>2. c = company
      BY <1>1, <2>1 DEF Turned
    <2>3. d \in Company /\ d.workflow = None /\ RowInv(d) /\ d.pointer = None
      BY <1>1, <1>2, <1>6, EndFlowShape, EndFlowKeeps, Names
         DEF Turning, Ready, RowInv, FlowOrPointer, ReminderReschedule, OnWorkflow
    <2>4. AdvanceQueue(d, q) \in Company
      BY <1>2, <2>3, AdvanceQueueKeeps DEF RowInv
    <2>5. /\ company'.workflow = AdvanceQueue(d, q).workflow
          /\ company'.scratch = AdvanceQueue(d, q).scratch
      BY <2>1, <2>4, OfferShape
    <2>6. Turns
      BY <1>1, <1>6, <2>2, DatedYields DEF Turns, Answered
    <2>7. Distinct(LineOf(company'))
      <3>1. CASE q = <<>>
        <4>1. company'.workflow # Reminder
          BY <1>2, <2>3, <2>5, <3>1, AdvanceShape, Names
        <4> QED
          BY <1>1, <4>1, ShorterLine DEF Inv, RowInv, ScratchFits, LineOf
      <3>2. CASE q # <<>>
        <4>1. company'.scratch.bill = Head(q) /\ company'.scratch.queue = Tail(q)
          BY <1>2, <2>3, <2>5, <3>2, AdvanceShape
        <4>2. Distinct(<<Head(q)>> \o Tail(q))
          BY <1>1, <1>2, <3>2, ShorterLine DEF Turned, LineOf
        <4> QED
          BY <4>1, <4>2 DEF LineOf
      <3> QED
        BY <3>1, <3>2
    <2> QED
      BY <1>1, <2>1, <2>6, <2>7 DEF InTurn
  <1> QED
    BY <1>3, <1>4, <1>5, <1>6

\* An answered confirmation hands its line on.
LEMMA ConfirmInTurn ==
    ASSUME NEW c, Turning(c),
           \/ ConfirmExpired(c) \/ ConfirmYes(c) \/ ConfirmAmend(c)
           \/ ConfirmNo(c) \/ ConfirmAdvance(c)
    PROVE  InTurn
  <1>1. c \in Company /\ Turned(c) /\ LinedUp(operations) /\ Inv /\ Inv'
    BY DEF Turning, Ready, RowInv
  <1>2. /\ c.pointer # None /\ c.workflow = None /\ c = company
    BY <1>1, Names DEF ConfirmExpired, ConfirmYes, ConfirmAmend, ConfirmNo,
           ConfirmAdvance, OnConfirm, Turned
  <1>3. PICK row \in Operation : operations = {row} /\ row.id = company.pointer
    BY <1>2 DEF Turning, Ready, Inv, RowsInv, PointerNamesTheRow
  <1>4. Pointed(c) = {row} /\ row.queue \in Seq(Bills) /\ row.bill \in Bills \cup {None}
    BY <1>2, <1>3 DEF Pointed, Operation
  <1> DEFINE d == DropPointer(c)
             q == row.queue
  <1>5. d \in Company /\ d.workflow = None /\ d.scratch = c.scratch /\ RowInv(d) /\ d.pointer = None
    BY <1>1, <1>2, DropPointerShape, DropPointerKeeps DEF Turning, Ready
  <1>14. company.workflow # Reminder
    BY <1>2, Names
  <1>15. ~ ReminderReschedule(company)
    BY <1>14 DEF ReminderReschedule
  <1>13. /\ row.bill = None => Batch = <<>>
         /\ row.bill # None => Batch = <<row.bill>> \o q /\ Tail(Batch) = q
    <2>1. row.bill = None => Batch = <<>>
      BY <1>3, <1>14, BatchIs DEF Batch
    <2>2. row.bill # None => Batch = <<row.bill>> \o q
      BY <1>3, <1>14, BatchIs DEF Batch
    <2> QED
      BY <1>4, <2>1, <2>2
  <1>6. ASSUME company'.workflow # Reminder, operations' = {},
               row.queue = <<>> \/ row.expired
        PROVE  InTurn
    <2>1. Distinct(LineOf(company'))
      BY <1>1, <1>6, ShorterLine DEF Inv, RowInv, ScratchFits, LineOf
    <2>2. Batch' = <<>>
      BY <1>6, BatchIs DEF Batch
    <2>3. Turns
      <3>1. CASE row.bill = None
        BY <1>13, <3>1 DEF Turns
      <3>2. CASE row.bill # None /\ row.expired
        <4>1. LetGo
          BY <1>3, <3>2 DEF LetGo
        <4>2. ~Answered
          BY <1>3, <1>15, <3>2 DEF Answered
        <4> QED
          BY <2>2, <4>1, <4>2 DEF Turns
      <3>3. CASE row.bill # None /\ ~row.expired
        <4>1. Tail(Batch) = <<>>
          BY <1>6, <1>13, <3>3
        <4>2. Answered
          BY <1>3, <1>6, <3>3 DEF Answered
        <4> QED
          BY <2>2, <4>1, <4>2 DEF Turns
      <3> QED
        BY <3>1, <3>2, <3>3
    <2> QED
      BY <1>6, <2>1, <2>3 DEF InTurn, LinedUp
  <1>7. ASSUME NEW t, company' = Offer(AdvanceQueue(d, q), t), operations' = {}, ~row.expired
        PROVE  InTurn
    <2>1. AdvanceQueue(d, q) \in Company
      BY <1>4, <1>5, AdvanceQueueKeeps DEF RowInv
    <2>2. /\ company'.workflow = AdvanceQueue(d, q).workflow
          /\ company'.scratch = AdvanceQueue(d, q).scratch
      BY <1>7, <2>1, OfferShape
    <2>3. CASE q = <<>>
      BY <1>4, <1>5, <1>6, <1>7, <2>2, <2>3, AdvanceShape, Names
    <2>4. CASE q # <<>>
      <3>1. /\ company'.workflow = Reminder
            /\ company'.scratch.bill = Head(q) /\ company'.scratch.queue = Tail(q)
        BY <1>4, <1>5, <2>2, <2>4, AdvanceShape
      <3>2. Distinct(<<Head(q)>> \o Tail(q)) /\ <<Head(q)>> \o Tail(q) = q
        BY <1>1, <1>3, <1>4, <2>4, ShorterLine DEF LinedUp
      <3>3. Batch' = q
        BY <3>1, <3>2, BatchIs DEF Batch, LineOf
      <3>4. Turns
        BY <1>3, <1>7, <1>13, <3>3 DEF Turns, Answered
      <3> QED
        BY <1>7, <3>1, <3>2, <3>4 DEF InTurn, LinedUp, LineOf
    <2> QED
      BY <2>3, <2>4
  <1> HIDE DEF q
  <1>8. CASE ConfirmExpired(c)
    BY <1>3, <1>4, <1>5, <1>6, <1>8, Names DEF ConfirmExpired
  <1>9. CASE ConfirmYes(c)
    <2>1. company' = Offer(AdvanceQueue(d, q), row.trigger) /\ operations' = {} /\ ~row.expired
      BY <1>3, <1>4, <1>9 DEF ConfirmYes, q
    <2> QED
      BY <1>7, <2>1
  <1>10. CASE ConfirmAmend(c)
    <2>1. /\ company' = Begin(d, "record_payment", "awaiting_amount", row.trigger)
          /\ operations' = {} /\ row.queue = <<>>
      BY <1>3, <1>4, <1>10 DEF ConfirmAmend, Amends
    <2>2. "record_payment" \in Flows /\ "awaiting_amount" \in Steps
      BY Names, ChartAssumption
    <2>3. row.trigger \in Triggers \cup {None}
      BY DEF Operation
    <2>4. company'.workflow = "record_payment"
      BY <1>5, <2>1, <2>2, <2>3, BeginShape
    <2> QED
      BY <1>6, <2>1, <2>2, <2>4, Names
  <1>11. CASE ConfirmNo(c)
    <2>1. company' = Offer(AdvanceQueue(d, q), row.trigger) /\ operations' = {} /\ ~row.expired
      BY <1>3, <1>4, <1>11 DEF ConfirmNo, q
    <2> QED
      BY <1>7, <2>1
  <1>12. CASE ConfirmAdvance(c)
    <2> DEFINE new == [row EXCEPT !.stage = AdvanceStage(row.stage)]
    <2>1. operations' = {new} /\ company' = c
      BY <1>3, <1>4, <1>12 DEF ConfirmAdvance
    <2>2. new.bill = row.bill /\ new.queue = row.queue
      BY <1>3 DEF Operation
    <2> HIDE DEF new
    <2>3. LinedUp(operations')
      BY <1>1, <1>3, <2>1, <2>2 DEF LinedUp
    <2>4. Batch' = Batch
      BY <1>2, <1>3, <1>14, <2>1, <2>2, SameBatch DEF Batch
    <2>5. Turns
      BY <1>1, <2>1, <2>4, NotAnswered
    <2> QED
      BY <1>1, <1>2, <2>1, <2>3, <2>5 DEF InTurn, Turned
  <1> QED
    BY <1>8, <1>9, <1>10, <1>11, <1>12

\* No other rung knows of bills.
LEMMA OthersInTurn ==
    ASSUME NEW c, Turning(c),
           \/ AskAgain(c) \/ FinishOnboarding(c) \/ FollowUpChoice(c) \/ FollowUpClosed(c)
           \/ StartFlow(c) \/ StartVoid(c) \/ OptInAll(c) \/ ChangeLanguage(c)
    PROVE  InTurn
  <1>1. c \in Company /\ Turned(c) /\ LinedUp(operations) /\ Inv /\ Inv'
    BY DEF Turning, Ready, RowInv
  <1>2. CASE AskAgain(c) \/ FinishOnboarding(c) \/ FollowUpChoice(c) \/ FollowUpClosed(c)
                \/ ChangeLanguage(c)
    <2>1. company'.scratch = c.scratch /\ company'.workflow = c.workflow /\ operations' = operations
      BY <1>1, <1>2 DEF AskAgain, FinishOnboarding, FollowUpChoice, FollowUpClosed,
         ChangeLanguage, Company
    <2> QED
      BY <1>1, <2>1, SameLine
  <1>3. CASE StartFlow(c)
    <2>1. company'.workflow \in Flows /\ operations' = operations
      BY <1>1, <1>3, StartByShape DEF StartFlow
    <2>2. company.workflow # Reminder
      BY <1>1, <1>3, Names DEF StartFlow, Idle, Turned
    <2> QED
      BY <1>1, <2>1, <2>2, Names, NoLine
  <1>4. CASE StartVoid(c)
    <2>1. PICK flow \in Instant : /\ company' = Begin(c, flow, "awaiting_reason", c.trigger)
                                  /\ operations' = operations
      BY <1>4 DEF StartVoid
    <2>2. /\ flow \in Flows /\ "awaiting_reason" \in Steps
          /\ c.trigger \in Triggers \cup {None}
      BY <1>1, <2>1, Names, ChartAssumption DEF Company
    <2>3. company'.workflow = flow
      BY <1>1, <2>1, <2>2, BeginShape
    <2>4. company.workflow # Reminder
      BY <1>1, <1>4, Names DEF StartVoid, Idle, Turned
    <2> QED
      BY <1>1, <2>1, <2>2, <2>3, <2>4, Names, NoLine
  <1>5. CASE OptInAll(c)
    <2>1. AskConfirm(c, "bulk_opt_in_dealers", None, <<>>) /\ Distinct(<<None>> \o <<>>)
      BY <1>5, ShorterLine DEF OptInAll
    <2>2. company.workflow # Reminder /\ company.pointer = None
      BY <1>1, <1>5, Names DEF OptInAll, Idle, Turned
    <2>3. Batch = <<>>
      BY <1>1, <2>2, NoRowNoBatch
    <2>4. <<>> \in Seq(Bills)
      OBVIOUS
    <2> QED
      BY <1>1, <2>1, <2>3, AskedLine
  <1> QED
    BY <1>2, <1>3, <1>4, <1>5

\* The scheduler's batch is a line of different bills.
LEMMA SchedulerInTurn ==
    ASSUME Turning(company),
           InvoicePhoto \/ ReminderTick \/ FollowUpTick \/ Expire \/ UNCHANGED vars
    PROVE  InTurn
  <1>1. company \in Company /\ Turned(company) /\ LinedUp(operations) /\ Inv /\ Inv'
    BY DEF Turning, Ready, RowInv
  <1>2. CASE InvoicePhoto
    <2>1. "create_order" \in Flows /\ "awaiting_dealer" \in Steps
      BY Names, ChartAssumption
    <2>2. company'.workflow \in Flows /\ operations' = operations
      BY <1>1, <1>2, <2>1, BeginShape DEF InvoicePhoto
    <2>3. company.workflow # Reminder
      BY <1>2, Names DEF InvoicePhoto, Idle
    <2> QED
      BY <1>1, <2>2, <2>3, Names, NoLine
  <1>3. CASE ReminderTick
    <2>1. PICK n \in 1 .. MaxBatch : \E due \in [1 .. n -> Bills] :
              /\ \A i, j \in 1 .. n : i # j => due[i] # due[j]
              /\ company' = StartReminder(company, Head(due), Tail(due))
      BY <1>3 DEF ReminderTick
    <2>2. PICK due \in [1 .. n -> Bills] :
              /\ \A i, j \in 1 .. n : i # j => due[i] # due[j]
              /\ company' = StartReminder(company, Head(due), Tail(due))
      BY <2>1
    <2>3. n \in Nat /\ n # 0
      BY BatchAssumption
    <2>4. due \in Seq(Bills) /\ Len(due) = n
      BY <2>3, SeqDef
    <2>5. PICK h \in Bills : h = Head(due)
      BY <2>3, <2>4
    <2>6. PICK r \in Seq(Bills) : r = Tail(due)
      <3>1. due # <<>>
        BY <2>3, <2>4
      <3> QED
        BY <2>4, <3>1, Queues
    <2>7. company'.scratch.bill = h /\ company'.scratch.queue = r
      <3>1. company' = StartReminder(company, h, r)
        BY <2>2, <2>5, <2>6
      <3> QED
        BY <1>1, <3>1, StartReminderShape
    <2>8. <<h>> \o r = due
      BY <2>3, <2>4, <2>5, <2>6
    <2>9. Distinct(LineOf(company'))
      <3>1. LineOf(company') = due
        BY <2>7, <2>8 DEF LineOf
      <3>2. Distinct(due)
        BY <2>2, <2>4 DEF Distinct
      <3> QED
        BY <3>1, <3>2
    <2> QED
      <3>1. Batch = <<>>
        BY <1>1, <1>3, Names, NoRowNoBatch DEF ReminderTick
      <3> QED
        BY <1>1, <1>3, <2>9, <3>1 DEF InTurn, Turns, ReminderTick
  <1>4. CASE FollowUpTick
    <2>1. /\ company'.scratch = company.scratch /\ company'.workflow = company.workflow
          /\ operations' = operations
      BY <1>1, <1>4 DEF FollowUpTick, Company
    <2> QED
      BY <1>1, <2>1, SameLine
  <1>5. CASE Expire
    <2>1. PICK op \in operations :
              /\ operations' = (operations \ {op}) \cup {[op EXCEPT !.expired = TRUE]}
              /\ company' = company
      BY <1>5 DEF Expire
    <2> DEFINE new == [op EXCEPT !.expired = TRUE]
    <2>2. new.bill = op.bill /\ new.queue = op.queue
      BY DEF Turning, Ready, Inv, RowsInv, Operation
    <2>3. operations' = (operations \ {op}) \cup {new}
      BY <2>1
    <2> HIDE DEF new
    <2>4. LinedUp(operations')
      BY <1>1, <2>2, <2>3 DEF LinedUp
    <2>5. operations = {op}
      BY <1>1, <2>1 DEF Inv, PointerNamesTheRow
    <2>6. operations' = {new}
      BY <2>3, <2>5
    <2>7. Batch' = Batch
      BY <2>1, <2>2, <2>5, <2>6, SameBatch DEF Batch
    <2>8. Turns
      BY <1>1, <2>6, <2>7, NotAnswered
    <2> QED
      BY <1>1, <2>1, <2>4, <2>8 DEF InTurn, Turned
  <1>6. CASE UNCHANGED vars
    BY <1>1, <1>6, SameLine DEF vars
  <1> QED
    BY <1>2, <1>3, <1>4, <1>5, <1>6

\* What is inductive about the lines of bills.
LinesInv == Inv /\ Distinct(LineOf(company)) /\ LinedUp(operations)

\* Every step keeps the bills in turn.
LEMMA EveryStepInTurn ==
    ASSUME LinesInv, [Next]_vars
    PROVE  InTurn /\ Inv'
  <1>1. Inv'
    BY InvStep DEF LinesInv
  <1>2. \A c \in {company} \cup Quoted : Turning(c)
    BY <1>1, QuotedTurns DEF LinesInv, Turning
  <1>3. CASE Message
    <2>1. PICK c \in {company} \cup Quoted :
        \/ AskAgain(c)
        \/ FinishOnboarding(c)
        \/ ContinueDone(c) \/ ContinueStart(c) \/ ContinueAnswer(c)
        \/ InterruptYes(c) \/ InterruptNo(c)
        \/ AskInterrupt(c) \/ FlowMoves(c) \/ FlowEnds(c) \/ FlowConfirms(c)
        \/ ReminderCancel(c) \/ ReminderChoice(c) \/ ReminderAmount(c) \/ ReminderReschedule(c)
        \/ ConfirmExpired(c) \/ ConfirmYes(c) \/ ConfirmAmend(c) \/ ConfirmNo(c)
        \/ ConfirmAdvance(c)
        \/ FollowUpChoice(c) \/ FollowUpClosed(c)
        \/ StartFlow(c) \/ StartVoid(c) \/ OptInAll(c) \/ ChangeLanguage(c)
      BY <1>3 DEF Message
    <2>2. Turning(c)
      BY <1>2
    <2> QED
      BY <1>1, <2>1, <2>2, PromptsInTurn, FlowInTurn, ReminderInTurn, ConfirmInTurn, OthersInTurn
  <1>4. CASE ~Message
    <2>1. InvoicePhoto \/ ReminderTick \/ FollowUpTick \/ Expire \/ UNCHANGED vars
      BY <1>4 DEF Next
    <2>2. Turning(company)
      BY <1>2
    <2> QED
      BY <1>1, <2>1, <2>2, SchedulerInTurn
  <1> QED
    BY <1>1, <1>3, <1>4

\* The lines of bills stay lines, whatever the founder and the scheduler do.
THEOREM LinesInvariance == Spec => []LinesInv
  <1>1. Init => LinesInv
    <2> SUFFICES ASSUME Init
                 PROVE  LinesInv
      OBVIOUS
    <2>1. company.scratch.bill = None /\ company.scratch.queue = <<>> /\ operations = {}
      BY DEF Init, NoScratch
    <2> QED
      BY <2>1, InvInit, ShorterLine DEF LinesInv, LineOf, LinedUp
  <1>2. LinesInv /\ [Next]_vars => LinesInv'
    BY EveryStepInTurn DEF LinesInv, InTurn, LineOf, Distinct, LinedUp
  <1> QED
    BY <1>1, <1>2, PTL DEF Spec

\* The bills of a reminder are worked off from the front, none twice: a bill
\* is settled, put first or carried into its confirmation with the rest of
\* the line as it was; the rest goes only when the founder cancels, starts
\* another flow over the reminder or lets the confirmation expire.
THEOREM BillsCorrect == Spec => BillsGoInTurn
  <1>1. LinesInv => BillsAreDistinct
    <2> SUFFICES ASSUME LinesInv
                 PROVE  BillsAreDistinct
      OBVIOUS
    <2>1. ASSUME NEW op \in operations, NEW i \in 1 .. Len(op.queue)
          PROVE  op.queue[i] # op.bill
      <3> DEFINE line == <<op.bill>> \o op.queue
      <3>1. op.queue \in Seq(Bills) /\ Distinct(line)
        BY DEF LinesInv, Inv, RowsInv, Operation, LinedUp
      <3>2. /\ Len(line) = Len(op.queue) + 1 /\ line[1] = op.bill /\ line[i + 1] = op.queue[i]
            /\ 1 \in 1 .. Len(line) /\ i + 1 \in 1 .. Len(line) /\ i + 1 # 1
        BY <3>1
      <3> HIDE DEF line
      <3> QED
        BY <3>1, <3>2 DEF Distinct
    <2> QED
      BY <2>1 DEF BillsAreDistinct, LinesInv, LineOf, Distinct
  <1>2. LinesInv /\ [Next]_vars => Turns
    BY EveryStepInTurn DEF InTurn
  <1>3. Spec => []BillsAreDistinct
    BY <1>1, LinesInvariance, PTL
  <1>4. Spec => BillsLeaveInTurn
    BY <1>2, LinesInvariance, PTL DEF Spec, BillsLeaveInTurn, Turns
  <1> QED
    BY <1>3, <1>4 DEF BillsGoInTurn

----------------------------------------------------------------------------
\* Asking for a YES leaves the follow-up, and ends the flow.
LEMMA AskConfirmShape ==
    ASSUME NEW c \in Company, NEW type, NEW bill, NEW queue, AskConfirm(c, type, bill, queue)
    PROVE  company'.followUp = c.followUp /\ company'.workflow = None
  <1>1. PICK id \in OpIds : company' = [EndFlow(c) EXCEPT !.trigger = None, !.pointer = id]
    BY DEF AskConfirm
  <1> DEFINE e == EndFlow(c)
  <1>2. e \in Company /\ e.followUp = c.followUp /\ e.workflow = None
    BY EndFlowShape
  <1> HIDE DEF e
  <1> QED
    BY <1>1, <1>2 DEF Company, e

\* The prompts and the flows never touch the follow-up, and a flow is only
\* left for another by a YES.
LEMMA FlowsLeaveFollowUp ==
    ASSUME NEW c \in Company,
           \/ ContinueDone(c) \/ ContinueStart(c) \/ ContinueAnswer(c)
           \/ InterruptYes(c) \/ InterruptNo(c)
           \/ AskInterrupt(c) \/ FlowMoves(c) \/ FlowEnds(c) \/ FlowConfirms(c)
    PROVE  /\ company'.followUp = c.followUp
           /\ \/ company'.workflow \in {None, c.workflow}
              \/ OnContinue(c)
              \/ c.interrupt # None /\ company'.trigger = c.interrupt
  <1> DEFINE d == [c EXCEPT !.continuePrompt = None]
             e == [c EXCEPT !.interrupt = None]
  <1>1. /\ d \in Company /\ d.followUp = c.followUp /\ d.workflow = c.workflow
        /\ e \in Company /\ e.followUp = c.followUp /\ e.workflow = c.workflow
    BY DEF Company
  <1>2. /\ c.continuePrompt \in Triggers \cup {None}
        /\ c.interrupt \in Triggers \cup {None}
    BY DEF Company
  <1> HIDE DEF d, e
  <1>3. CASE ContinueDone(c)
    BY <1>1, <1>3 DEF ContinueDone, d
  <1>4. CASE ContinueStart(c)
    <2>1. PICK t \in Triggers : company' = StartBy(d, t)
      BY <1>4 DEF ContinueStart, d
    <2> QED
      BY <1>1, <1>4, <2>1, StartByShape DEF ContinueStart
  <1>5. CASE ContinueAnswer(c)
    <2> DEFINE s == StartBy(d, c.continuePrompt)
    <2>1. c.continuePrompt \in Triggers
      BY <1>2, <1>5 DEF ContinueAnswer, OnContinue
    <2>2. s \in Company /\ s.followUp = c.followUp
      BY <1>1, <2>1, StartByShape
    <2>3. (\E step \in Steps : company' = MoveTo(s, step)) \/ company' = EndFlow(s)
      BY <1>5 DEF ContinueAnswer, d
    <2> HIDE DEF s
    <2>4. ASSUME NEW step \in Steps, company' = MoveTo(s, step)
          PROVE  company'.followUp = c.followUp
      BY <2>2, <2>4, MoveToShape
    <2>5. CASE company' = EndFlow(s)
      BY <2>2, <2>5, EndFlowShape
    <2> QED
      BY <1>5, <2>3, <2>4, <2>5 DEF ContinueAnswer
  <1>6. CASE InterruptYes(c)
    <2>1. c.interrupt \in Triggers /\ c.interrupt # None /\ company' = StartBy(e, c.interrupt)
      BY <1>2, <1>6 DEF InterruptYes, OnInterrupt, e
    <2> QED
      BY <1>1, <2>1, StartByShape
  <1>7. CASE InterruptNo(c)
    BY <1>1, <1>7 DEF InterruptNo, e
  <1>8. CASE AskInterrupt(c)
    <2>1. PICK t \in Triggers : company' = [c EXCEPT !.interrupt = t]
      BY <1>8 DEF AskInterrupt
    <2> QED
      BY <2>1 DEF Company
  <1>9. CASE FlowMoves(c)
    <2>1. PICK step \in Steps : company' = MoveTo(c, step)
      BY <1>9 DEF FlowMoves
    <2> QED
      BY <2>1, MoveToShape
  <1>10. CASE FlowEnds(c)
    <2>1. company' = Offer(EndFlow(c), c.trigger)
      BY <1>10 DEF FlowEnds
    <2> QED
      BY <2>1, EndFlowShape, OfferShape
  <1>11. CASE FlowConfirms(c)
    BY <1>11, AskConfirmShape DEF FlowConfirms
  <1> QED
    BY <1>3, <1>4, <1>5, <1>6, <1>7, <1>8, <1>9, <1>10, <1>11

\* Nor do the reminder conversation and the confirmations.
LEMMA BillsLeaveFollowUp ==
    ASSUME NEW c, Turning(c),
           \/ ReminderCancel(c) \/ ReminderChoice(c) \/ ReminderAmount(c) \/ ReminderReschedule(c)
           \/ ConfirmExpired(c) \/ ConfirmYes(c) \/ ConfirmAmend(c)
           \/ ConfirmNo(c) \/ ConfirmAdvance(c)
    PROVE  company'.followUp = c.followUp
  <1>1. c \in Company /\ RowInv(c) /\ c.scratch \in Scratch /\ c.scratch.queue \in Seq(Bills)
    BY DEF Turning, Ready, RowInv, Company, Scratch
  <1>2. ASSUME NEW d \in Company, RowInv(d), d.pointer = None, d.followUp = c.followUp,
               NEW q \in Seq(Bills), NEW t, company' = Offer(AdvanceQueue(d, q), t)
        PROVE  company'.followUp = c.followUp
    <2>1. AdvanceQueue(d, q) \in Company
      BY <1>2, AdvanceQueueKeeps DEF RowInv
    <2>2. AdvanceQueue(d, q).followUp = d.followUp
      BY AdvanceShape
    <2> QED
      BY <1>2, <2>1, <2>2, OfferShape
  <1>3. CASE ReminderCancel(c)
    <2>1. company' = Offer(EndFlow(c), c.trigger)
      BY <1>3 DEF ReminderCancel
    <2> QED
      BY <1>1, <2>1, EndFlowShape, OfferShape
  <1>4. CASE ReminderChoice(c)
    <2>1. PICK s : company' = [c EXCEPT !.scratch.step = s]
      BY <1>4 DEF ReminderChoice
    <2> QED
      BY <1>1, <2>1 DEF Company
  <1>5. CASE ReminderAmount(c)
    BY <1>1, <1>5, AskConfirmShape DEF ReminderAmount
  <1>6. CASE ReminderReschedule(c)
    <2>1. company' = Offer(AdvanceQueue(EndFlow(c), c.scratch.queue), c.trigger)
      BY <1>6 DEF ReminderReschedule
    <2>2. c.interrupt = None /\ c.pointer = None
      BY <1>1, <1>6, Names DEF ReminderReschedule, OnWorkflow, RowInv, FlowOrPointer
    <2>3. /\ EndFlow(c) \in Company /\ RowInv(EndFlow(c)) /\ EndFlow(c).pointer = None
          /\ EndFlow(c).followUp = c.followUp
      BY <1>1, <2>2, EndFlowShape, EndFlowKeeps
    <2> QED
      BY <1>1, <1>2, <2>1, <2>3
  <1> DEFINE d == DropPointer(c)
  <1>7. d \in Company /\ RowInv(d) /\ d.pointer = None /\ d.followUp = c.followUp
    BY <1>1, DropPointerShape, DropPointerKeeps
  <1> HIDE DEF d
  <1>8. CASE ConfirmExpired(c)
    BY <1>7, <1>8 DEF ConfirmExpired, d
  <1>9. ASSUME NEW op \in operations
        PROVE  op.queue \in Seq(Bills) /\ op.trigger \in Triggers \cup {None}
    BY <1>9 DEF Turning, Ready, Inv, RowsInv, Operation
  <1>10. CASE ConfirmYes(c) \/ ConfirmNo(c)
    <2>1. PICK op \in operations : company' = Offer(AdvanceQueue(d, op.queue), op.trigger)
      BY <1>10 DEF ConfirmYes, ConfirmNo, Pointed, d
    <2> QED
      BY <1>2, <1>7, <1>9, <2>1
  <1>11. CASE ConfirmAmend(c)
    <2>1. PICK op \in operations :
              company' = Begin(d, "record_payment", "awaiting_amount", op.trigger)
      BY <1>11 DEF ConfirmAmend, Pointed, d
    <2>2. "record_payment" \in Flows /\ "awaiting_amount" \in Steps
      BY Names, ChartAssumption
    <2> QED
      BY <1>7, <1>9, <2>1, <2>2, BeginShape
  <1>12. CASE ConfirmAdvance(c)
    BY <1>12 DEF ConfirmAdvance
  <1> QED
    BY <1>3, <1>4, <1>5, <1>6, <1>8, <1>10, <1>11, <1>12

\* A follow-up's own answer, which no quoted reminder gives.
LEMMA FollowUpAnswered ==
    ASSUME NEW c, Turning(c), FollowUpChoice(c) \/ FollowUpClosed(c)
    PROVE  /\ [company' EXCEPT !.followUp = company.followUp] = company
           /\ operations' = operations
           /\ company'.workflow = company.workflow
  <1>1. c = company /\ company \in Company
    BY Names DEF FollowUpChoice, FollowUpClosed, OnFollowUp, Turning, Turned, Ready, RowInv
  <1>2. PICK s : company' = [company EXCEPT !.followUp = s] /\ operations' = operations
    BY <1>1 DEF FollowUpChoice, FollowUpClosed
  <1> QED
    BY <1>1, <1>2 DEF Company

\* The rungs that answer when nothing is pending, or before the setup is over.
LEMMA CommandsLeaveFollowUp ==
    ASSUME NEW c, Turning(c),
           \/ AskAgain(c) \/ FinishOnboarding(c) \/ StartFlow(c) \/ StartVoid(c)
           \/ OptInAll(c) \/ ChangeLanguage(c)
    PROVE  /\ company'.followUp = c.followUp
           /\ company'.workflow = c.workflow \/ c.workflow = None
  <1>1. c \in Company
    BY DEF Turning, Ready, RowInv
  <1>2. CASE AskAgain(c) \/ FinishOnboarding(c) \/ ChangeLanguage(c)
    BY <1>1, <1>2 DEF AskAgain, FinishOnboarding, ChangeLanguage, Company
  <1>3. CASE StartFlow(c)
    <2>1. PICK t \in Triggers : company' = StartBy(c, t)
      BY <1>3 DEF StartFlow
    <2> QED
      BY <1>1, <1>3, <2>1, StartByShape DEF StartFlow, Idle
  <1>4. CASE StartVoid(c)
    <2>1. PICK flow \in Instant : company' = Begin(c, flow, "awaiting_reason", c.trigger)
      BY <1>4 DEF StartVoid
    <2>2. /\ flow \in Flows /\ "awaiting_reason" \in Steps
          /\ c.trigger \in Triggers \cup {None}
      BY <1>1, <2>1, Names, ChartAssumption DEF Company
    <2> QED
      BY <1>1, <1>4, <2>1, <2>2, BeginShape DEF StartVoid, Idle
  <1>5. CASE OptInAll(c)
    BY <1>1, <1>5, AskConfirmShape DEF OptInAll, Idle
  <1> QED
    BY <1>2, <1>3, <1>4, <1>5

\* One step's part in a follow-up.
FollowUpAlone ==
    company'.followUp # company.followUp =>
        /\ [company' EXCEPT !.followUp = company.followUp] = company
        /\ operations' = operations

\* One step's part in a switch.
Consented ==
    (/\ company.workflow \notin {None, Reminder}
     /\ company'.workflow \notin {None, company.workflow})
        => company.interrupt # None /\ company'.trigger = company.interrupt

\* A message changes a follow-up only if it answers it, and leaves a flow for
\* another only on a YES to the switch.
LEMMA MessageAnswersOne ==
    ASSUME NEW c, Turning(c), c # company => company.workflow = Reminder,
        \/ AskAgain(c)
        \/ FinishOnboarding(c)
        \/ ContinueDone(c) \/ ContinueStart(c) \/ ContinueAnswer(c)
        \/ InterruptYes(c) \/ InterruptNo(c)
        \/ AskInterrupt(c) \/ FlowMoves(c) \/ FlowEnds(c) \/ FlowConfirms(c)
        \/ ReminderCancel(c) \/ ReminderChoice(c) \/ ReminderAmount(c) \/ ReminderReschedule(c)
        \/ ConfirmExpired(c) \/ ConfirmYes(c) \/ ConfirmAmend(c) \/ ConfirmNo(c)
        \/ ConfirmAdvance(c)
        \/ FollowUpChoice(c) \/ FollowUpClosed(c)
        \/ StartFlow(c) \/ StartVoid(c) \/ OptInAll(c) \/ ChangeLanguage(c)
    PROVE  FollowUpAlone /\ Consented
  <1>1. c \in Company /\ RowInv(c) /\ c.followUp = company.followUp
    BY DEF Turning, Ready, RowInv, Turned
  <1>2. CASE \/ ContinueDone(c) \/ ContinueStart(c) \/ ContinueAnswer(c)
             \/ InterruptYes(c) \/ InterruptNo(c)
             \/ AskInterrupt(c) \/ FlowMoves(c) \/ FlowEnds(c) \/ FlowConfirms(c)
    <2>1. /\ company'.followUp = c.followUp
          /\ \/ company'.workflow \in {None, c.workflow}
             \/ OnContinue(c)
             \/ c.interrupt # None /\ company'.trigger = c.interrupt
      BY <1>1, <1>2, FlowsLeaveFollowUp
    <2>2. OnContinue(c) => c.workflow \in {None, Reminder}
      BY <1>1 DEF OnContinue, RowInv, PromptsFit
    <2> QED
      BY <1>1, <2>1, <2>2 DEF FollowUpAlone, Consented
  <1>3. CASE \/ ReminderCancel(c) \/ ReminderChoice(c) \/ ReminderAmount(c)
             \/ ReminderReschedule(c)
             \/ ConfirmExpired(c) \/ ConfirmYes(c) \/ ConfirmAmend(c)
             \/ ConfirmNo(c) \/ ConfirmAdvance(c)
    <2>1. company'.followUp = c.followUp
      BY <1>3, BillsLeaveFollowUp
    <2>2. c.workflow \in {None, Reminder}
      BY <1>3 DEF ReminderCancel, ReminderChoice, ReminderAmount, ReminderReschedule,
         ConfirmExpired, ConfirmYes, ConfirmAmend, ConfirmNo, ConfirmAdvance, OnConfirm
    <2>3. company.workflow \in {None, Reminder}
      BY <2>2
    <2> QED
      BY <1>1, <2>1, <2>3 DEF FollowUpAlone, Consented
  <1>4. CASE FollowUpChoice(c) \/ FollowUpClosed(c)
    BY <1>4, FollowUpAnswered DEF FollowUpAlone, Consented
  <1>5. CASE \/ AskAgain(c) \/ FinishOnboarding(c) \/ StartFlow(c) \/ StartVoid(c)
             \/ OptInAll(c) \/ ChangeLanguage(c)
    BY <1>1, <1>5, CommandsLeaveFollowUp DEF FollowUpAlone, Consented
  <1> QED
    BY <1>2, <1>3, <1>4, <1>5

\* So does every step.
LEMMA EveryStepAnswersOne ==
    ASSUME LinesInv, [Next]_vars
    PROVE  FollowUpAlone /\ Consented
  <1>1. \A c \in {company} \cup Quoted : Turning(c)
    BY EveryStepInTurn, QuotedTurns DEF LinesInv, Turning
  <1>2. company \in Company
    BY DEF LinesInv, Inv, RowInv
  <1>3. CASE Message
    <2>1. PICK c \in {company} \cup Quoted :
        \/ AskAgain(c)
        \/ FinishOnboarding(c)
        \/ ContinueDone(c) \/ ContinueStart(c) \/ ContinueAnswer(c)
        \/ InterruptYes(c) \/ InterruptNo(c)
        \/ AskInterrupt(c) \/ FlowMoves(c) \/ FlowEnds(c) \/ FlowConfirms(c)
        \/ ReminderCancel(c) \/ ReminderChoice(c) \/ ReminderAmount(c) \/ ReminderReschedule(c)
        \/ ConfirmExpired(c) \/ ConfirmYes(c) \/ ConfirmAmend(c) \/ ConfirmNo(c)
        \/ ConfirmAdvance(c)
        \/ FollowUpChoice(c) \/ FollowUpClosed(c)
        \/ StartFlow(c) \/ StartVoid(c) \/ OptInAll(c) \/ ChangeLanguage(c)
      BY <1>3 DEF Message
    <2>2. Turning(c) /\ (c # company => company.workflow = Reminder)
      BY <1>1 DEF Quoted
    <2> QED
      BY <2>1, <2>2, MessageAnswersOne
  <1>4. CASE InvoicePhoto
    <2>1. "create_order" \in Flows /\ "awaiting_dealer" \in Steps
      BY Names, ChartAssumption
    <2>2. company'.followUp = company.followUp /\ company.workflow = None
      BY <1>2, <1>4, <2>1, BeginShape DEF InvoicePhoto, Idle
    <2> QED
      BY <2>2 DEF FollowUpAlone, Consented
  <1>5. CASE ReminderTick
    <2>1. company.workflow = None
      BY <1>5 DEF ReminderTick
    <2>2. company'.followUp = company.followUp
      BY <1>2, <1>5 DEF ReminderTick, StartReminder, Company
    <2> QED
      BY <2>1, <2>2 DEF FollowUpAlone, Consented
  <1>6. CASE FollowUpTick
    <2>1. PICK s : company' = [company EXCEPT !.followUp = s] /\ operations' = operations
      BY <1>6 DEF FollowUpTick
    <2> QED
      BY <1>2, <2>1 DEF FollowUpAlone, Consented, Company
  <1>7. CASE Expire \/ UNCHANGED vars
    BY <1>7 DEF Expire, vars, FollowUpAlone, Consented
  <1> QED
    BY <1>3, <1>4, <1>5, <1>6, <1>7 DEF Next

\* A pending follow-up is changed only by its own rung or the scheduler.
THEOREM FollowUpsCorrect == Spec => OneAnswerOneQuestion
  BY LinesInvariance, EveryStepAnswersOne, PTL
     DEF Spec, OneAnswerOneQuestion, FollowUpAlone

\* No live flow is replaced without the founder's YES.
THEOREM SwitchesCorrect == Spec => SwitchNeedsConsent
  BY LinesInvariance, EveryStepAnswersOne, PTL
     DEF Spec, SwitchNeedsConsent, Consented
=============================================================================
