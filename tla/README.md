# OpsGenie: a verification development

OpsGenie (`src/app`) is a WhatsApp-first back office for Indian distributors: a FastAPI application over PostgreSQL.
A founder talks to it in WhatsApp, guided workflows collect what is needed, a YES writes it to the books, and a scheduler
sends a morning briefing, an evening brief, supplier reminders and follow-ups. This directory holds TLA+ models of the parts
whose correctness is a matter of order, and of the read side where a dozen queries must agree: what may be asked when, what
a redelivered message or a re-uploaded file does, what two sessions may do to the same rows, what a crash leaves behind,
and whether two reports can contradict each other. TLC checks them on small instances, and TLAPS proves their
safety and action properties for all instances (section 5 says from which assumptions).

Contents: 1 the system, 2 modules, 3 runs, 4 fairness, 5 proofs, 6 disagreements with the docs, 7 what is not modelled,
8 plan.

## 1. The system

| Component | Code | State it keeps | Operations |
|---|---|---|---|
| Reply ladder | `api/webhooks/whatsapp.py::_handle_text_message`, `models/company.py` | `companies`: `active_workflow`, `workflow_scratch`, `active_workflow_start_trigger`, `pending_workflow_interrupt`, `pending_continue_prompt`, `pending_follow_up_state`, `active_pending_operation_id` | one inbound message: the first rung that applies answers it |
| Guided workflows | `services/workflows/*.py` | `workflow_scratch` | one handler per workflow: accept, reject, move, end, ask for confirmation |
| Pending confirmations | `services/writes/pending_operation.py` | `pending_operations` and the pointer to it | create, YES, NO, amend, advance, expire |
| Supplier reminders | `services/workflows/payment_reminder_confirm.py`, rule 1 of `services/notifications.py` | the bill asked about and the queue behind it | start, three questions, promotion by quoting, advance of the queue |
| Follow-ups | `services/followup.py` | one slot on the company's row | send, three replies |
| Books | `services/writes/*.py`, `services/importer/payment_row.py`, `services/importer/engine.py`, `api/admin/{invoices,payments,dealers,suppliers}.py` | `invoices`, `payments`, `products.stock_quantity` | order, import, opening balance, payment, spread, edit, remove, void, delete, stock take |
| Inbound delivery | `api/webhooks/whatsapp.py::receive_whatsapp_webhook`, `core` engine for locks | business events (`whatsapp_message_received`, `whatsapp_reply_sent`), advisory locks, row locks | post, lock, look up, claim, answer, record, unlock, commit |
| Scheduler | `core/scheduler.py`, `services/briefing.py`, `services/evening_brief.py`, `services/daily_snapshot.py` | `morning_briefings`, `daily_business_snapshots`, `founder_alert_sent` events, a try-lock | tick, preview, ask for the briefing, send the evening brief by hand |
| Notification rules | `services/notifications.py` | `notification_logs`, events of alerts and digests | five rules per pass, digest of stale companies |
| Imports | `services/importer/*.py` | parties, invoices, payments, products of a file | upload, row by row, commit |
| Onboarding | `services/onboarding_flow.py`, `services/onboarding.py`, `api/onboarding.py` | `onboarding_state`, `onboarding_scratch`, rows of the sections | form, import, activation, 34 questions, restart, language |
| Activation | `services/activation.py` | `subscription_active` | check, claim, welcome, switch off |
| Delivery status | `_update_notification_delivery_status` | `notification_logs.delivery_status` | callback |
| Broadcasts | `services/writes/broadcast.py` | `notification_logs` of a batch | send, resume |
| Assistant and LLM chain | `services/llm`, `services/agent`, `services/assistant.py` | `conversation_turns` | ask, call a tool, go on to the next provider |
| Read side | `snapshot`, `recommendations`, `trend_analytics`, `reports`, `company_export`, `instant_reports`, `daily_snapshot` | `daily_business_snapshots` | figures over the books |
| Outside | WhatsApp, the LLM providers, PostgreSQL | | |

How they interact. Every handler changes the company's row in memory and its *caller* commits, so a handler is one step of
the conversation however many functions it goes through. Conversation and scheduler meet on the company's row (a reminder
or a follow-up may be started only if nothing else is live). A confirmation is the only way from the conversation to most
writes of the books. Inbound delivery decides whether a handler runs once, twice or not at all. Briefings are written
by four callers, ticks among them, and are kept apart by conditional updates of a row and not by the tick's lock.

What is hard about it, and what would be correct:

* *Protocol sequences in the conversation.* Seven columns, seventeen workflows, a ladder of rungs; every exit of every
  handler must leave the columns fitting each other. Correct: at most one thing is asked at a time, its scratch is one its
  handler knows, prompts stand where the ladder expects them, a batch of bills is worked off in turn and none is in line twice, one flow
  does not replace another without the founder's consent.
* *Unlocked read-modify-write of the books.* Correct: the status of an invoice is the one its payments call for, no invoice
  is overpaid, the three ways in which the code computes "outstanding" agree, stock moves with its order and comes back once.
* *At-least-once delivery* with locks on one connection and work on another. Correct: what Meta has a 200 for was
  answered or given up for a named reason; a marker of a reply speaks the truth; somebody always gets through.
* *Crashes and refusals between a send and its commit.* Correct: one briefing and one evening brief a day (one more for a
  crash in that window), no claim left behind, an alert once and only after two failures, and both messages go out; one
  reminder per quiet window, one digest per interval, one broadcast message per dealer, one welcome per switch-on.
* *Files that come again.* Correct: a re-upload adds nothing, a row is in the books whole or not at all, uploads end.
* *Many readers of the same rows.* Correct: what is owed, received and sold is the same in every reply, sheet and briefing, or
  differs by named rows; the forecast misses no shortage and the call lists no late dealer.
* *A long setup with several hands on it.* Correct: the open question finds its scratch, what was imported is not asked
  again and what was not is, and setup does not fall back.

`PROJECT.json` lists the hazards line by line, each with the properties that would catch it or why none does yet.

## 2. Modules

| Module | Models | State and code |
|---|---|---|
| `Workflows` | the guided workflows as charts | step of `workflow_scratch` -> outcomes of its branch |
| `Conversation` | the ladder, confirmations, reminders, follow-ups, the two scheduler rules that open conversations | `company` is the conversation part of the `companies` row, `operations` the rows of `pending_operations`; one action per inbound message or scheduler rule, up to its commit |
| `Books` | the abstract account book | `accounts`: total, paid, status |
| `Ledger` | every writer of invoices, payments and stock | `invoices`, `payments`, `stock`; `seen` is what a transaction has read |
| `WebhookDelivery` | `receive_whatsapp_webhook` | `claims`, `markers`, `done` are committed rows; `lock`, `row` are PostgreSQL's locks; `calls` is each call's stage and its uncommitted work |
| `DailyDispatch` | one company's tick of one day, and the other writers of the same two rows | `briefing`, `evening`, `alerts` are committed rows, three locks, `sessions` is each session's stage and what it has read |
| `DailyRows` | the figures of a day and the month's totals | `cash` is the books' movement per day, `rows` the finalized `daily_business_snapshots` |
| `Reports` | every figure told to founder or dealer | `invoices`, `payments` with dates; each report is an operator named after its function |
| `Imports` | uploads of files, several at once | `uploads` is each request's row and stage, rows carry the upload that wrote them, so a rollback takes them away |
| `Onboarding` | a company from the form to the end of setup | `stage` is `onboarding_state`, `scratch` the keys of `onboarding_scratch` and the entries that matter |
| `Outreach` | a pass of the five notification rules | `since` is the age of a committed mark, `pass` what the running pass has loaded and not committed, `flow` the company's row |
| `StaleDigest` | the digest of stale companies | `listed` and `sinceMark` are the committed marks, by day and by hours |
| `Broadcast` | one confirmed broadcast | `logged` are the batch's rows, `runs` the requests executing it |
| `DeliveryStatus` | the status of one message | `row`, and per session what it has read |
| `Activation` | switching a company on | `active`, and per request whether it has checked or claimed |
| `LlmChain` | one question to the chain of providers | `left` of the chain, the tool `outputs`, the retained `turns`, the `figure` in the books |
| `Services` | `Outreach`, `Broadcast`, `DeliveryStatus`, `Activation`, `StaleDigest` and `LlmChain` side by side | their variables, and `part`, which of them moves |
| `Accounts` | `Ledger`, `Reports` and `DailyRows` side by side: the books, and what is reported of books | their variables (`filed`, `receipts` and `day` are those of the reports and the days), and `part` |
| `Founder` | `Conversation` and `Imports` side by side: what comes in from a founder | their variables, and `part` |
| `Queues` | what handlers do with a remembered list of rows | `KeepOnly` is `_parties_by_ids`: the rows of a queue that still exist, in its order |
| `*Proofs` (7) | theorems of the module they are named after; `LedgerProofs` also of `Books`, `Reports`, `DailyRows` and `Accounts`, `ImportsProofs` of `Founder` | |
| `RowTheorems` | facts about sums over rows, queues and sorted lists of rows, which the proofs rest on | |
| `MC*` | instances for TLC | |

Composition: `MCConversation` extends `Conversation` and `Workflows` and gives the charts of the second to the constants
of the first; `Ledger` instantiates `Books` with the refinement mapping `Accounts`. `Services`, `Founder` and `Accounts`
put modules side by side that share no variable: a behaviour is a behaviour of one of them (`part`), so the
state space is the sum and not the product, and a property of one is checked where that one moves. Each is a module of
its own, apart from its instance for TLC, because the theorems are stated about it. The other models meet
at an interface rather than in one state space: `Conversation` runs one handler at a time, which is what `WebhookDelivery` shows
a message to be (a run of a handler and its commit); what a confirmed handler does is a commit of `Ledger`.

Conversation in more detail. The order of the ladder is in the guards: `OnContinue`, `OnInterrupt`, `OnWorkflow`,
`OnConfirm`, `OnFollowUp` and `Idle` are the conditions under which a message reaches each rung, each one excluding those
above. Handlers are operators from a row to a row (`Begin`, `EndFlow`, `StartReminder`, `AdvanceQueue`, `Promote`, `Offer`),
because the code composes them the same way: a YES to a payment from a reminder ends the confirmation, and then starts
the next bill, in one commit.

Ledger in more detail. A session takes the books as they are (`Read`) and later commits one operation computed from what
it took; an operation the code refuses with an error rolls back (`Abort`). With one session the operations are serial, with
two they race, since no writer locks the rows it has read. Rows are inserted and
changed in the *current* books, as SQL does; a status is written only if it differs from the one read, and the new stock is
computed from the one read, as the ORM does.

WebhookDelivery in more detail. An advisory lock is taken and given back on a second connection, so it is not released by
the commit of the call's work. A claim is committed by itself and takes the work of the messages before it with it; a lost
claim rolls that work back. A write of the company's row makes the call hold its row lock until the next commit.

DailyDispatch in more detail. A session's writes are visible when it commits; a write of a row waits for the session that has
an uncommitted write of the same row (`briefingLock`, `eveningLock`). The tick's lock is a try-lock on its own connection and
may be dropped by the server while the tick goes on. `pushed`, `evenings`, `alerted` count what left the program; `refused`
what WhatsApp refused. They are history, read by the properties and by no action.

Imports in more detail. A session sees the rows of committed uploads and its own. An upload of invoices writes a party and
an invoice in one savepoint; the database lets an insert of a number wait for an uncommitted one of the same number
(`WaitsFor`), fails it when that is committed, and fails one statement of two uploads that wait for each other
(`Deadlock`). What is paid of an invoice is what its row says or implies (`PaidAmount`). Keys of receipts are loaded once
per upload, which is why two uploads of receipts at once are the history variable `raced`.

Onboarding in more detail. A question is the pair of a section and a step. Answers lead to an outcome of the handler's
branch; which rows exist and which of them miss a phone or credit terms decides the way (`AfterProducts`, `AfterDealers`, ...).
The website's import checks and writes in two steps, so setup may begin in between; an administrator adds, completes and
deletes rows at any time. `summarised`, `asked`, `touched` are history, read only by `AskedExactlyTheRest`.

Outreach in more detail. The pass loads the company once; each rule chooses subjects that are due and outside their quiet
window, sends, and is committed as it returns. A send is accepted, refused, or accepted while the answer is lost, which
the client takes for a refusal. `heard` and `excused` are history: what reached the founder, and which marks a fault took.

Reports in more detail. The books move as in `Ledger` and carry dates. No writer compares a date with today, so any row may
be dated back or ahead; a bill may be due before the books begin. An edit corrects the header of an unpaid invoice (total, date or
party) and never its items, which is what the code does; an edit of a payment moves its day or its amount. A supplier's bill is put
off (`MoveDueDate`), and deleting an invoice, or a party with all its invoices, takes the payments along. Every report is translated
from its own query: by stored status, by dated entries, by joins that drop rows without items or not, by windows; so that
`BalancesAgree`, `FlowsAgree` and `WarningsCover` compare what the code really computes.

Broadcast in more detail. The query of the recipients has no order and a limit, so a run takes *some* `MaxRecipients` of those
who consent (`Capped`) less those already logged, and goes through them in whatever order they came.

LlmChain in more detail. Each provider class has the kinds of question it supports and the failures it reports as
unavailable (a failed connection has no status code, so Gemini's is not among them). A narration goes on to the next
provider only after those; the assistant goes on after any failure, and starts the tool loop anew.

Abstractions that matter for the reading of results: amounts are small integers and tax is part of a total; one product
stands for the catalogue; what a question says, and which bills are due on which day, is a choice; founder and operator
numbers are configured; the flush and the commit that write the status of a
briefing asked for (`Mark`) are one step.

## 3. Runs

Passing runs.

| Run | Module | Instance | Shows |
|---|---|---|---|
| `conversation` | `MCFounder` | all workflows' charts, 15 start phrases, 3 bills, batches of up to 3, 2 row ids; 5 files, 3 uploads | the safety of the conversation, that a batch goes in turn and what may end it early, and that no bill stays queued; rows once and whole, re-uploads add nothing, uploads end |
| `ledger` | `MCAccounts` | 2 dealers, 1 supplier, 2 invoices, 3 payments, totals up to 2, 2 dates, stock -1..1, one session; reports: 2 dealers, 1 supplier, 2 invoices (one of them an order), 2 receipts, 2 days, due days 0 and 2; daily rows: 3 days | the ledger implements `Books`; receipts pay the oldest first; stock follows the orders; reports agree, but for rows dated ahead and corrected orders; the forecast misses no shortage and is exact while the till is not overdrawn; lists miss no late dealer; a month counts each day once |
| `delivery` | `MCWebhookDelivery` | a batch of 2 messages and a batch of a stranger's, 2 concurrent posts, 2 faults | honest markers, guarded messages, nothing accepted is unanswered, every batch is accepted or two calls wait for each other |
| `dispatch` | `MCDailyDispatch` | 2 sessions, a day of 2 hours, 1 fault | nothing twice, settled claims, both messages go out |
| `onboarding` | `MCOnboarding` | 1 product, 2 dealers, 1 supplier, 1 bill per direction, 1 row changed by an administrator | the scratch serves the question, imported sections are skipped and the rest asked, progress never falls |
| `services` | `MCServices` | 3 suppliers for a cap of 2, a dealer and a till, 1 fault; 2 companies for the digest, a day of 6 slots, an interval of 5; 2 dealers and 2 runs of a broadcast; 2 sessions of callbacks; 3 callers; 3 providers | one message per quiet window, interval, recipient and switch-on; a status that only advances; figures of this question; no supplier starves |

Runs that find a disagreement are in section 6.

Properties. Those of the conversation: `ConversationHangsTogether` is the conjunction of five invariants (the pointer names
the only confirmation row; a workflow or a confirmation, never both; scratch at a step of its workflow; prompts where the
ladder looks; no trigger in a reminder). `BillsGoInTurn` is about the whole line of bills,
the one asked about or waiting for a YES and those behind it, wherever the code keeps it: no bill is in line twice, a settled bill yields to the next with
the rest behind it in order, a quote puts one first, and the way from the scratch into a confirmation changes nothing. It does not
say that every bill is asked about: `LetGo` names the three cases in which the rest of a line is dropped (section 6). `BalancesAgree` excuses two
figures of a period, the balance as of today and a dealer's statement of the month, for rows of the party's dated after that period, and says of a receipt older
than its invoice by how much an opening differs (`Advances`). `FlowsAgree` compares the sales register, which sums items, up to the
corrections of headers (`Corrected`). `WarningsCover` bounds the forecast's day whatever the till holds, and says which day and
which bill only while the till is not overdrawn. `EveryRowOnceAndWhole` excuses two uploads of receipts that ran at once, which the code
does not keep apart (section 6). `NothingTwice` excuses a crash between a send and its commit, `OncePerQuietWindow` a fault
that took the mark, `OneDigestPerInterval` a crash that took it, `ResumedNotRepeated` a send that lost its row or two runs
at the same dealer, `AloneOnlyAdvances` callbacks that overlap, `MonthCountsEveryDay` a day whose books moved after its row:
each excuse is a state the code accepts, in its docs or by what it does, and is as narrow as we could make it.

Temporal properties: `NoBillStaysQueued`, `EveryUploadEnds`, `EveryBatchAccepted`, `DayIsServed`, `NobodyWaitsForEver`.
Refinement: `ImplementsBooks`. Every other `PROPERTY` is an action property, of what a step may never do.

Bounds, and why they are enough.

* *conversation.* Two bills show what a head and a tail do; the third lets a quoted bill come from the middle, with a bill
  on each side. Two row identifiers are one more than the code lets exist at once, so a row that is
  forgotten is seen. The charts are the program's own, complete. The files contain what rows can be: two files with the same
  invoices in opposite orders (the deadlock), the same number with other data, contradicting amounts, a partly paid invoice
  that takes two receipts, a repeated receipt, an unreadable row, a refused file; three uploads are two at once and one again.
* *ledger.* `MaxTotal = 2` is the least at which a part payment exists; two invoices of one dealer are what a receipt is
  spread over, oldest first, with a remainder; a second dealer and a supplier are what must not be touched. Three payments
  allow two of one invoice and one of the other. In the reports, terms, windows and thresholds are days instead of weeks and
  months, so that each of before, on and after a threshold is a day; on the first of two days a row may be dated ahead, on the second back;
  a till of one is overdrawn by a payment of two to the supplier; an order and a row without items are what the two ways of summing sales tell apart; the limits of dealers are all of them, in the property.
  Dealers and payments of the ledger, and dealers and receipts of the reports, are interchangeable (symmetry; no liveness in this run).
* *delivery.* Two messages are the least at which a call holds uncommitted work of one while it is at another; two posts
  are what Meta makes concurrent. Two faults are a crash and a refused send, or two crashes of successive retries.
* *dispatch.* The retry hour is the hour after the briefing's, and both occur; each hour may have any number of ticks, so
  two hours already give any number of attempts. One fault is enough for a crash between a send and its commit and for a
  dropped lock with two ticks at once; together they add nothing to either window.
* *onboarding.* A second dealer gives the queue of missing parties a second entry, so one may be deleted while the other is
  asked about; nothing else in setup counts beyond none and some.
* *services.* Three suppliers for a cap of two are the least that rotate, two of them always due. One fault excuses one
  repetition and no second. Windows of one and two days have before and after; the digest's interval of 5 in 6 slots is the
  code's 20 hours in 24, with two briefing hours. The chain has a provider that only talks, one
  that sees and hears, and one without a key.

Deadlock is checked in `dispatch` and `onboarding`. Elsewhere the system really may stop: once Meta has a 200 for everything,
the bounded uploads are used up, or the last day is over. Calls that wait for each other are caught by
`EveryBatchAccepted`, which says a batch is accepted unless two calls wait for each other (`CrossWait`), uploads by `EveryUploadEnds`.

## 4. Fairness

* `Conversation`: none of the scheduler, and of the founder only that he answers: questions of the reminder conversation and
  confirmations with strong fairness (quoting another reminder takes him away from a question and back to it), the two
  prompts with weak fairness. Nothing is assumed of cancelling, switching or the clock.
* `WebhookDelivery`: a call that can move moves (`WF`, the event loop); PostgreSQL grants a lock that becomes free again and
  again to a waiter in the end (`SF` of `Lock` and `Record`); Meta posts again what it has no 200 for (`WF` of a batch's
  posts, whichever call takes it). Crashes and faults are not fair.
* `DailyDispatch`: hours pass (`WF`), though the day may end at `LastHour`, which lasts; the poller gets the try-lock in the
  end (`SF`), which the code supports by a tick every few minutes; a session goes on (`SF` of `Work`, waits for row locks
  included); and outages end: generation, push and evening send succeed in the end if they are tried again and again (`SF`).
  Without the last there is no message to be had, and the founder alerts are the promise instead.
* `Imports`: an upload that can go on does (`WF`, the event loop and PostgreSQL's deadlock detector); crashes are not fair.
* `Outreach`: a pass goes on and days pass (`WF`, the cron), and a message to the founder about a supplier is not refused
  for ever (`SF`). Crashes, lost answers and what is due besides the bills that stay unpaid are not fair.
* `StaleDigest` (only for `services_digest`): time passes (`WF`); a company that may be listed again and again is sent, and
  its marks are committed, in the end (`SF`; the scheduler ticks many times in a slot).
* `LlmChain`: a question in hand moves (`WF`); every call of a provider ends in an answer or a failure, which its timeout
  sees to.

## 5. Proofs

For every value of the constants that satisfies the named assumptions of the modules, which TLC evaluates on the instances,
and those a theorem states itself. Each module of proofs has an inductive invariant, one lemma per action or handler that
keeps it, and the theorems at its end.

| Property of a run | Theorem | Module |
|---|---|---|
| `conversation`: `ConversationHangsTogether` | `StateCorrect` and its five parts | `ConversationProofs` |
| `BillsGoInTurn`, `OneAnswerOneQuestion`, `SwitchNeedsConsent` | `BillsCorrect`, `FollowUpsCorrect`, `SwitchesCorrect` | `ConversationProofs` |
| `ledger`: `ImplementsBooks`, `StockFollowsOrders`, `SpreadPaysOldestFirst` | `LedgerImplementsBooks`, `StockFollowsTheOrders`, `ReceiptsPayOldestFirst` | `LedgerProofs` |
| `AllTypesOK`, `BalancesAgree`, `FlowsAgree`, `WarningsCover`, `MonthCountsEveryDay` | `AccountsAgree`, from `LedgerTypesAreRight`, `SerialOutstandingFiguresAgree`, `FiguresAreOne` and `MonthsAreWhole` | `LedgerProofs` |
| `conversation`: `AllTypesOK`, `ReuploadAddsNothing`, `EveryRowOnceAndWhole` | `FounderTypes`, `ReuploadsAddNothing`, `RowsOnceAndWhole` | `ImportsProofs` |
| `delivery`: `TypeOK`, `MarkerIsHonest`, `LockGuards`, `AcceptedIsAnswered`, `AnsweredStaysAnswered`, `MarkerCarriesItsRun` | `TypeCorrect`, `MarkerCorrect`, `LocksCorrect`, `AcceptedMeansAnswered`, `AnsweredForGood`, `MarkersCarryRuns` | `WebhookDeliveryProofs` |
| `dispatch`: `TypeOK`, `NothingTwice`, `ClaimsAreSettled` | `DailyTypes`, `DailyOnce`, `DailyClaims` | `DailyDispatchProofs` |
| `onboarding`: all four | `SetupTypes`, `EveryQuestionIsServed`, `OnlyTheRestIsAsked`, `SetupGoesForward` | `OnboardingProofs` |
| `services`: `AllTypesOK`, `OncePerQuietWindow`, `ResumedNotRepeated`, `OneWelcomePerActivation`, `AloneOnlyAdvances`, `OneDigestPerInterval`, `FigureIsOfThisQuestion` | `ServicesTypes`, `RulesAreQuiet`, `ResumesAreSafe`, `WelcomesCorrect`, `StatusAdvances`, `DigestsAreApart`, `FiguresAreRecent` | `ServicesProofs` |

**ConversationProofs.** `Inv` = `RowInv(company)` /\ `RowsInv` /\ `PointerNamesTheRow`. `RowInv` is what every handler
keeps of the row: typed, a workflow or a pointer and never both, scratch at a step of its workflow, prompts only where the
ladder looks for them, no start trigger in a reminder. The properties are not inductive alone: a confirmation hands its
trigger and its queue back to the row when it is answered, so `RowsInv` says that rows that come from a reminder carry no
trigger, and a step that clears a pointer is fine only because the pointer names the only row. Lemmas follow the code: one per handler
operator (`...Keeps`), then one step per action of `Next`. The three action properties are about steps and need more.
`LinesInv` adds that the bill asked about and those queued behind it are all different, in the row and in the confirmation
that carries them, without which the next bill's line is not known to be one. `PromotedLine` shows that quoting a bill
permutes its line, by giving the permutation. `InTurn` is what each rung does to the lines, and `Turns` the step `BillsGoInTurn` allows; that a declined payment with a
queue never goes back to its amount, that the line a reminder's scratch hands to a confirmation is the one that comes back, and that an expired
row's queue goes with it, is where the cases differ. The theorem claims no more than the property: the three losses of `LetGo` are part of it. For the other
two, `FlowsLeaveFollowUp` and its companions follow the two columns through every operator; the reason that consent is asked
is that a prompt to go on is never up over a workflow other than a reminder (`PromptsFit`). Assumed: charts lead from known
steps to known steps, starters start at known steps, and `None` is no name (`ChartAssumption`, `StarterAssumption`,
`NoneAssumption`); TLC evaluates them for the program's own charts.

**LedgerProofs.** `Sound(b)` says of books that rows are typed, finitely many, and that every invoice has the status
its payments call for (`Fits`). Every operation of the code is shown to have one of a few effects on the books (a new
invoice, payments, a recount, a revision, a deletion, a stock take: `Effect`), every effect to keep `Sound`, and every effect
to be a step of `Books` or a stutter, which is the refinement. What is paid of an invoice is a sum over its payments, so these lemmas rest
on `RowTheorems`. `ReceiptsPayOldestFirst` compares a receipt's split with what was owed before and after the invoices it
reaches. The theorems assume `Serial`, one session at a time: with more they are false, since no writer locks what it has read, and `ledger_race` shows how.
They say what the operations do when their transactions follow one another. `SerialCancelledHasNoPayment` is the
property that run refutes, proved for that case; `SerialOutstandingFiguresAgree` is that the two ways in which the code
computes what a party owes agree.

Of the abstract book itself, `Sound` is inductive (`BooksAreSound`) and a cancelled account stays cancelled until it is
deleted (`CancelledIsFinal`); both carry over to the code's books by the refinement.

*The read side* is the second half of the module. `ReportInv` says that rows are rows, that a receipt is of an invoice on file, that no invoice is
paid more than its total and a cancelled one not at all (`PaidFits`); it is inductive because a receipt is of an open invoice and at
most what is owed, also after it is edited (`EditPaymentKeeps`), because only an unpaid invoice is voided or has its header edited (`RowKeeps`),
and because a deleted invoice takes its receipts along (`DeleteKeeps`). It says nothing of dates, and no theorem restricts them. Mutating that guard of `VoidOrder` breaks `FlowsAgree` in TLC. From then on
a statement about two reports is one about two ways to cut the same set of rows, and every figure is rewritten as a sum of one of three
functions (`Owed`, `Worth`, `PaidIn`): by party (`OwedByParty`), by bucket (`OwedByBucket`), by day, by what is before a period and what is in it (`EntriesAdd`), by
direction (`SumOfBoth`), each from `SumByKey` or `SumOfBoth`. `BalancesAreOne` and `FlowsAreOne` collect them. The forecast is
different: the code sorts the events and adds up until the balance is negative. `EarlierOrders` shows that the code's key with its tie-break is a strict order of
the expected invoices, so the events are a list of all of them (`SortedRows`, `EventsAre`); `RunningBalance` that the
recursive balance is, at each event, the sum of the events so far, by taking a first one for which it is not; `ForecastNames` that the day it names is never later than one whose bills the till cannot
cover, whatever the till holds. `DayIsWhole` and `FirstDeficit` need a till that is not overdrawn: then the first
event with a negative balance is a payment, with only payments after it on that day, so that it names exactly the first day the till cannot cover
what is due by its end, and a bill (`ForecastBlames`). Sorting collections before payments of one day is what this needs. `Events` is defined as the sequence of the expected invoices that
is in that order, and not with a sorting operator of the library, because the prover can reason about what a sorted
sequence is and not about how it is computed. `FiguresAreOne` is the theorem. Assumed (`FiguresAssumption`): finitely many dealers, suppliers, invoices and payments,
no party is both dealer and supplier, invoices are numbered, windows and thresholds are natural numbers, and every due day is before `NoDay`.
`MonthsAreWhole` is about `DailyRows`: a row that is not `late` holds its day's movement (`RowsAreCurrent`), so the rows and today's movement are a
partition of the month (assumed: `BoundsAssumption`).

*The whole.* Every behaviour of `Accounts` is one of `Ledger`, of `Reports` and of `DailyRows` (`EachPartIsRun`), since a step of one
leaves the variables of the others alone. So `AccountsAgree` collects the theorems of the three, and `AccountsKeepTheBooks` carries the
refinement and the two action properties over. Both assume `Serial`, for the ledger's part.

**RowTheorems.** The sum of the community modules is a fold by a recursive function that takes rows in an order of its own.
The facts (empty, integer, without a row, equal summands, two parts, some of it, by a key, term by term) are proved by taking a smallest subset for which they fail,
from the library's theorem that strict inclusion of finite sets is well-founded: an induction over data in first-order form, which
the provers can do. The same with numbers gives the queues (`KeptIsQueue`), the sorted lists (`SortedRows`) and the running balance along a list.

**ImportsProofs.** `IInv` follows one row of a file from the read of what is on file to the commit. The core is `CleanRowsOnFile`: what an upload without a failed row has
gone through is on file for whoever began after its commit; and `KeysTell`: of receipts, the keys an upload loaded once cover every receipt committed before it began.
Around them: a row was written by an upload that is alive or done (`Origins`), a number is on file once for every session that sees it (`UniqueNumbers`,
from the database's unique index), and what an upload decided to do between its read and its write still fits (`Decided`). `ReuploadAddsNothing` then is `TwinAddsNothing`, `EveryRowOnceAndWhole`
is `PaidOnce` and `FailedRowLeavesNothing`. The theorems are of `Founder`, whose steps are steps of the conversation or of the imports (`EachSideMoves`);
`FounderTypes` takes the conversation's types from `Inv`, and `ConversationGoesOn` says that the properties of `Conversation` hold whatever
files come in beside it. Assumed (`FilesAssumption`): files have finitely many rows, numbers and totals are natural
numbers, and a receipt's key is not the absent one.

**WebhookDeliveryProofs.** `IInv` says where values lie, that a call at or past its claim is at a claimed message, that
what a call has replied to was really sent and is part of its uncommitted work, and that only a writer holds the row. That is what makes
`MarkerIsHonest` inductive: a marker is committed together with the work, and a crash between leaves neither.
`LocksCorrect` needs a second invariant relating the holder of a lock to the stage of its call, with the fault counter as the
excuse for a dropped lock. `AcceptedMeansAnswered` needs that a call has dealt with every message of its batch before the one it is at
(`AllInOrder`), in its uncommitted work or on record; `AnsweredForGood` that a call past its look-up has no marker of its message
to see unless the lock was lost (`Answered`).

**DailyDispatchProofs.** `DayIsSound` relates three things: the stage of a session, the row it has an uncommitted write of
and the lock that says so (`HoldsLocks`); what it remembers of a row it read earlier, which may have changed since
(`Remembers`, `FitsRows`); and every message that went out to where it is accounted for: a committed claim, a session about to commit it, or
a crash (`PushesCovered`, `EveningsCovered`, `AlertsCovered`, `EveningAlertsCovered`). The last counts the ticks that run without the tick's lock,
one per dropped connection. Then `NothingTwice` and `ClaimsAreSettled` are read off. Assumed: hours lie in the day, bounds are
numbers (`HoursAssumption`), and `None` is no session, stage, reason or row (`NoneAssumption`).

**OnboardingProofs.** `SetupIsSound` has two parts. `ScratchFits` says what the scratch holds at each of the questions, also where
the handler does not read it but leaves it for a later one. `HistoryFits` says that a section that has been passed or opened was so by what the summary
counted: of the sections ahead the count is still true or others touched them, those behind were acted upon. A queue of parties to complete is kept to the rows that
still exist by `KeepOnly`, whose value is described in `KeptIsQueue`. Assumed: finitely many rows, bounds are numbers, and `Nobody` is no row.

**ServicesProofs.** A step of the composition is a step of each service or a stutter of it (`EachMovesAlone`), so each
service's invariant is shown over its own variables. `AloneOnlyAdvances`: what a lone session has read is still what the row
says (`ReadIsCurrent`), and only statuses that Meta has reached are ever read or handled. `OneWelcomePerActivation`: welcomes
sent and callers that have claimed are together bounded by the switch-ons, for finitely many callers. `OneDigestPerInterval`: without a
lost mark, the last committed mark is no older than the last digest, or that digest is still being committed (`MarksAreYoung`); the
interval is a natural number. `FigureIsOfThisQuestion`: tool outputs in hand are figures the books have had since the question, since every provider starts with none; the fixed
texts are no figures. `ResumedNotRepeated`: of a dealer who is not `doubtful`,
a message has gone out only if its row is on file or about to be committed, and at most one run still has him to do, without a row (`AtMostOnce`).
`OncePerQuietWindow`: the founder last heard of a subject no later than its committed mark says, unless a fault took the mark
(`HeardIsMarked`); what is left of a pass was outside the quiet window when the pass loaded it and is there once (`PassFits`), and the rotation of the bills by
due date has the suppliers it started with (`RankingFits`). What a rule picks is kept in its order by `KeepOnly`. Assumed: `OutreachConstants`, `ServicesConstants` (finite
sets of subjects and callers, an order of the bills without repetition, bounds that are numbers).

Only model-checked:

* All liveness (`NoBillStaysQueued`, `EveryUploadEnds`, `EveryBatchAccepted`, `DayIsServed`, `NobodyWaitsForEver`): the prover
  has no rules for `ENABLED`, which fairness is about.
* What the runs of section 6 refute is not proved of anything, but for `SerialCancelledHasNoPayment`, the case in which it holds.

## 6. Where code and docs disagree

Each has a run in which TLC finds the property violated; `PROJECT.json` quotes the lines.

| Run | Says | Does |
|---|---|---|
| `ledger_race` | a cancelled invoice has no payment | `void_order` reads that, another session records a payment, the void commits |
| `delivery_reply` | the lock keeps a redelivery from sending a second reply | the lock is given back before the marker is committed |
| `delivery_wait` | always a 200 | two posts wait for each other across a row lock and an advisory lock, which PostgreSQL cannot see as a cycle |
| `dispatch_silent` | a failed generation is alerted | the alert reads a row that the failed generation's rollback has expired |
| `services_race` | a reminder interrupts no flow | whether one is open is read when the pass starts, and the question is committed after the sends |
| `services_digest` | companies the ceiling suppressed are in the next digest, nothing is lost | a company whose hours of the day all lie within 20 hours of another's daily digest is never listed |

The runs use the specification without fairness where the property is a safety property; `delivery_wait` is temporal
and uses `FairSpec`, and so is `services_digest` with the fairness of `StaleDigest`.

Noticed while modelling, in no run of their own. In the conversation:

* `_offer_continue_or_end` names the flow of the last start trigger, which an instant command's flow ("undo payment") does
  not touch: the founder may be offered an earlier flow (`api/webhooks/whatsapp.py:1227`).
* A follow-up may be sent while the prompt to go on is unanswered, though its guard is commented "Never interrupt another
  live conversation" (`services/followup.py:177-187`).
* NO to the payment of a reminder about a single bill is taken for a correction of the amount, since its queue is empty
  (`services/writes/pending_operation.py:545`).
* "Every bill in a same-tick batch eventually gets asked, one at a time" (`services/workflows/payment_reminder_confirm.py:20-30`):
  unless the confirmation of one expires (`api/webhooks/whatsapp.py:1394-1398`), the founder cancels, or starts another flow over
  the reminder. Each drops the bills behind it without naming them; they come up again when the rule next picks them.
* "My briefing" marks the briefing as sent before the reply is; a refused reply leaves it sent and never pushed
  (`api/webhooks/whatsapp.py:761`).

In imports:

* Two uploads of receipts at once both load the keys on file before either commits, and a product list adds its rows
  again at every upload, though re-uploading is described as idempotent.
* An import log is promised "at the end of every import regardless of success or failure" (`log_writer.py`); a refused file,
  or a crash after the rows' commit, leaves none.

In messages and reports:

* A status callback that comes before the request has committed its log row is dropped; a status unknown to the ladder is not ordered.
* A broadcast row that failed counts as messaged, so the dealer is not tried again by a resumed batch.
* The website's activation checks that setup has not begun before it claims, and not in the claim.
* The month's total is described as "accurate in real time" (`services/daily_snapshot.py:241-244`); once today's row is finalized,
  a later payment of today is in no total.
* Balances as of a past date count receipts dated before their invoice, which the statement's opening also does, but
  "outstanding" by status does not (`Advances` in `Reports`).
* An edit of an order's total changes the header only (`services/writes/edit_invoice_payment.py:72-83`), so the sales register, which
  sums the items (`services/reports/registers.py:139-145`), and the day book differ by it from then on (`Corrected`).
* A date ahead is accepted from files and founder alike. Such an invoice or receipt counts at once in the balance, the aging and the cash, and
  is missing from figures as of today and from the month's statement until its day has come (`DatedAfter`).
* With a till that is overdrawn already, the forecast names the day of the first event, which may be a collection's, and may find no bill to
  blame for it; it reports no deficit at all when nothing is expected.
* A dealer within his credit limit and more than 15 days overdue is on neither list of the briefing.
* A connection error of Gemini carries no status code and ends the chain of a narration, though `llm/base.py` lists connection
  errors as a reason to go on; blank text from the assistant's provider is answered with the fallback without asking the next one.

## 7. What is not modelled

Parsing of files (Tally, Vyapar, PDF), layout of reports, exports, PDFs and messages: conversions without state; the five
message catalogues alone are a sixth of the source, and texts in full. Authentication, configuration, HTML pages, sessions, product
and FAQ maintenance. Tax columns and rounding: money is a small integer and tax is part of a total. Stock forecasts and the
order of priority actions. One company at a time, except in `StaleDigest`, since no other operation crosses companies;
the scheduler's loop over companies isolates each in a session of its own. `Conversation` does not interleave two sessions of one
company: `Outreach` has the tick against the founder's message, two messages of one founder at once are open.
A product deleted in the middle of an order and briefing hours at the end of the day are hazards without a property.

## 8. Plan

Written, in this order: `Conversation` with `Workflows` (the heart of the program), `Books` and `Ledger`,
`WebhookDelivery`, `DailyDispatch`, and the proofs of the first three; then `Onboarding`, `Imports`, `Outreach`, `Broadcast`,
`DeliveryStatus`, `Activation`, `StaleDigest`, `LlmChain`, `Reports`, `DailyRows`; then the proofs of `Ledger`, `DailyDispatch`,
`Onboarding` and `Services`, of the action properties of `Conversation` and `WebhookDelivery`, and of `Imports`, `Reports`, `DailyRows` and `Outreach`.

Next:

1. `SharedRow`: two sessions over `Conversation`'s handlers, each with a read and a later commit of the columns it changed.
2. The catalogue (products deleted while an order remembers them) in `Workflows`.
3. Abstract specifications: a mailbox that answers each message at least once, implemented by `WebhookDelivery`; an
   at-most-once notice with excused crashes, implemented by `DailyDispatch` for both messages and by `Broadcast`.

Theorems to come: the refinements of these abstract specifications once they are written, and the invariants of `SharedRow`.
