----------------------------- MODULE Onboarding -----------------------------
(***************************************************************************)
(* A company from the public form to the end of its guided setup.          *)
(*                                                                         *)
(* The website registers the company, may import files into it and         *)
(* activates it (api/onboarding.py, services/onboarding.py); the founder   *)
(* then answers the questions of                                           *)
(* services/onboarding_flow.py one message at a time.  A question is a     *)
(* pair <<section, step>>, the code's OnboardingState.<section>_<step>.    *)
(* Messages of one founder are handled one after another, so a message is  *)
(* one step; the website's requests check first and write later, so each   *)
(* is two steps.  An answer the code refuses changes nothing and is not    *)
(* written as a step.                                                      *)
(***************************************************************************)
EXTENDS Naturals, Sequences, FiniteSets, SequencesExt, Queues

CONSTANTS Rows,      \* [product, dealer, supplier: set of row names]
          MaxBills,  \* bound: opening bills per direction
          MaxEdits,  \* bound: rows changed by an administrator
          Nobody     \* no row

Kinds == {"product", "dealer", "supplier"}
PartyKinds == {"dealer", "supplier"}
Directions == {"receivable", "payable"}
Sections == Kinds \cup Directions
PartyOf == [receivable |-> "dealer", payable |-> "supplier"]
AllRows == UNION {Rows[k] : k \in Kinds}

ASSUME BoundsAreNumbers == /\ MaxBills \in Nat
                           /\ MaxEdits \in Nat
                           /\ DOMAIN Rows = Kinds
                           /\ \A k \in Kinds : IsFiniteSet(Rows[k])
                           /\ Nobody \notin AllRows

VARIABLES stage,     \* Company.onboarding_state, or Unregistered
          scratch,   \* Company.onboarding_scratch
          active,    \* Company.subscription_active
          varies,    \* Company.gst_varies_by_product
          rows,      \* the state of every product, dealer and supplier row
          bills,     \* invoices per direction
          upload,    \* the website's import request
          edits,     \* rows an administrator has changed
          summarised,\* history: sections that held rows when setup counted them
          asked,     \* history: sections opened with their first question
          touched    \* history: sections others changed after that count

company == <<stage, scratch, varies>>
books == <<rows, bills>>
web == <<active, upload>>
history == <<summarised, asked, touched>>
vars == <<stage, scratch, active, varies, rows, bills, upload, edits, summarised, asked, touched>>

-----------------------------------------------------------------------------
(* Questions.                                                              *)

Unregistered == <<"website", "unregistered">>
NotStarted   == <<"website", "not_started">>
Completed    == <<"done", "completed">>
RestartAsk   == <<"restart", "confirm">>
LanguageAsk  == <<"language", "ask">>
ScriptAsk    == <<"language", "script">>

ProductSteps == {"mode", "bulk", "name", "quantity", "unit", "price", "purchase_price", "gst_rate"}
LoopSteps    == {"mode", "bulk", "name", "phone", "credit"}
MissingSteps == {"missing_ask", "missing_mode", "missing_bulk", "missing_phone", "missing_credit"}
BillSteps    == {"ask", "party", "new_party", "amount", "date"}

InSetup ==
  {<<"business", s>> : s \in {"type", "gst_mode", "gst_rate_same", "gst_missing", "import_confirm"}}
    \cup {<<"product", s>> : s \in ProductSteps}
    \cup {<<k, s>> : k \in PartyKinds, s \in LoopSteps \cup MissingSteps}
    \cup {<<d, s>> : d \in Directions, s \in BillSteps}
    \cup {<<"opening", "balance">>, <<"briefing", "hour">>}

Stages == InSetup \cup {Unregistered, NotStarted, Completed, RestartAsk, LanguageAsk, ScriptAsk}

StepOfSection == [business |-> 1, product |-> 2, dealer |-> 3, supplier |-> 4, opening |-> 5,
                  receivable |-> 6, payable |-> 7, briefing |-> 8]

(* The scratch: which keys it holds, the queue of rows still to fill (the  *)
(* missing_ids and missing_queue lists), the row or party it is about, and *)
(* the question a restart came from.                                       *)
Keys == {"relanguage", "onb_language", "restart_prev_state", "missing_product_ids", "missing_ids",
         "missing_queue", "fill_id", "fill_phone", "name", "quantity", "unit", "price",
         "purchase_price", "phone", "party", "amount"}
Blank == [keys |-> {}, queue |-> <<>>, about |-> Nobody, back |-> Unregistered]
Holding(keys) == [Blank EXCEPT !.keys = keys]
Adding(key) == [scratch EXCEPT !.keys = @ \cup {key}]

-----------------------------------------------------------------------------
(* What setup counts.                                                      *)

Existing(k) == {r \in Rows[k] : rows[k][r] # "none"}
Missing(k) == {r \in Rows[k] : rows[k][r] = "bare"}
Holds(s) == IF s \in Kinds THEN Existing(s) # {} ELSE bills[s] > 0
Seeded == {s \in Sections : Holds(s)}

Init == /\ stage = Unregistered
        /\ scratch = Blank
        /\ active = FALSE
        /\ varies = FALSE
        /\ rows = [k \in Kinds |-> [r \in Rows[k] |-> "none"]]
        /\ bills = [d \in Directions |-> 0]
        /\ upload = "idle"
        /\ edits = 0
        /\ summarised = {}
        /\ asked = {}
        /\ touched = {}

-----------------------------------------------------------------------------
(* The website and the administrator.                                      *)

(* A number already registered gets no second company, so the race of two  *)
(* submits ends in this one step.  The public form leaves the company at   *)
(* not_started, the administrator's form at completed.                     *)
Register == /\ stage = Unregistered
            /\ stage' \in {NotStarted, Completed}
            /\ UNCHANGED <<scratch, varies, books, web, edits, history>>

(* The import route decides on the company as loaded ...                   *)
ImportChecked == /\ upload = "idle"
                 /\ stage = NotStarted
                 /\ ~active
                 /\ upload' = "checked"
                 /\ UNCHANGED <<company, books, active, edits, history>>

(* ... and writes what the file holds later: a catalogue with or without   *)
(* rates, or bills of one direction whose parties have only a name.        *)
Arrive(k, R, quality) == [rows EXCEPT ![k] = [r \in Rows[k] |-> IF r \in R /\ @[r] = "none" THEN quality ELSE @[r]]]

ImportLands ==
  /\ upload = "checked"
  /\ upload' = "idle"
  /\ \/ UNCHANGED <<books, touched>>
     \/ \E R \in SUBSET Rows["product"] \ {{}}, q \in {"bare", "full"} :
          /\ rows' = Arrive("product", R, q)
          /\ touched' = touched \cup {"product"}
          /\ UNCHANGED bills
     \/ \E d \in Directions : \E R \in SUBSET Rows[PartyOf[d]] \ {{}} :
          /\ bills[d] < MaxBills
          /\ rows' = Arrive(PartyOf[d], R, "bare")
          /\ bills' = [bills EXCEPT ![d] = @ + 1]
          /\ touched' = touched \cup {d, PartyOf[d]}
  /\ UNCHANGED <<company, active, edits, summarised, asked>>

(* A subscription is switched on (module Activation has the detail: the     *)
(* public route only does it at not_started) and off by the administrator. *)
SwitchOn == /\ stage # Unregistered
            /\ ~active
            /\ active' = TRUE
            /\ UNCHANGED <<company, books, upload, edits, history>>

Deactivate == /\ active
              /\ active' = FALSE
              /\ UNCHANGED <<company, books, upload, edits, history>>

(* An administrator adds, completes or deletes a row while setup runs.     *)
EditRow(k, r, to) == /\ stage # Unregistered
                     /\ edits < MaxEdits
                     /\ rows[k][r] # to
                     /\ rows' = [rows EXCEPT ![k][r] = to]
                     /\ edits' = edits + 1
                     /\ touched' = touched \cup {k}
                     /\ UNCHANGED <<company, bills, web, summarised, asked>>

-----------------------------------------------------------------------------
(* Moving between sections.  Every helper is given the scratch as the      *)
(* handler leaves it; only a missing-fields question replaces it.          *)

To(q, s) == stage' = q /\ scratch' = s
Opens(section, s) == /\ To(<<section, IF section \in Kinds THEN "mode" ELSE "ask">>, s)
                     /\ asked' = asked \cup {section}
Passes(q, s) == To(q, s) /\ UNCHANGED asked

AfterSuppliers(s) == Passes(<<"opening", "balance">>, s)

(* dealer_missing_ask and supplier_missing_ask. *)
StartMissingFlow(k) ==
  Passes(<<k, "missing_ask">>, [Holding({"missing_ids"}) EXCEPT !.queue = SetToSeq(Missing(k))])

AfterDealers(s) == CASE ~Holds("supplier")         -> Opens("supplier", s)
                     [] Holds("supplier") /\ Missing("supplier") # {} -> StartMissingFlow("supplier")
                     [] OTHER                      -> AfterSuppliers(s)

(* A mutant of AfterProducts: the suppliers are not looked at once the     *)
(* dealers are found complete.                                             *)
AfterProductsJumpsAhead(s) ==
  CASE ~Holds("dealer")       -> Opens("dealer", s)
    [] Holds("dealer") /\ Missing("dealer") # {} -> StartMissingFlow("dealer")
    [] OTHER                  -> AfterSuppliers(s)

AfterProducts(s) == CASE ~Holds("dealer")       -> Opens("dealer", s)
                      [] Holds("dealer") /\ Missing("dealer") # {} -> StartMissingFlow("dealer")
                      [] OTHER                  -> AfterDealers(s)

After(k, s) == IF k = "dealer" THEN AfterDealers(s) ELSE AfterSuppliers(s)

AfterReceivables(s) == IF Holds("payable") THEN Passes(<<"briefing", "hour">>, s) ELSE Opens("payable", s)
AfterOpeningBalance(s) == IF Holds("receivable") THEN AfterReceivables(s) ELSE Opens("receivable", s)
RoutePastImport(s) == IF Holds("product") THEN AfterProducts(s) ELSE Opens("product", s)

(* _after_gst takes the one look at all five sections. *)
AfterGst(s) == /\ summarised' = Seeded
               /\ touched' = {}
               /\ IF Seeded = {} THEN Opens("product", s) ELSE Passes(<<"business", "import_confirm">>, s)

-----------------------------------------------------------------------------
(* The founder's messages.  Each action is one question of                 *)
(* handle_onboarding_message with the answers that change something.       *)

Others == UNCHANGED <<books, web, edits>>
Unasked == UNCHANGED <<varies, history>>
Answers(q) == active /\ stage = q
Goes(q, s) == To(q, s) /\ Others /\ Unasked

(* start_language_change, the "change language" command of a set-up company. *)
StartLanguageChange == Answers(Completed) /\ Goes(LanguageAsk, Holding({"relanguage"}))

(* A mutant of AfterLanguage: the relanguage mark is forgotten. *)
AfterLanguageForgets == Goes(<<"business", "type">>, Blank)

AfterLanguage == IF "relanguage" \in scratch.keys THEN Goes(Completed, Blank)
                                                  ELSE Goes(<<"business", "type">>, Blank)

Language == \/ Answers(NotStarted) /\ Goes(LanguageAsk, scratch)
            \/ Answers(LanguageAsk) /\ AfterLanguage
            \/ Answers(LanguageAsk) /\ Goes(ScriptAsk, Adding("onb_language"))
            \/ Answers(ScriptAsk) /\ AfterLanguage

(* A mutant of AskRestart: the words are taken at every question. *)
AskRestartAnywhere == active /\ Goes(RestartAsk, [Adding("restart_prev_state") EXCEPT !.back = stage])

(* The words restart, start over ... at any question of the setup. *)
AskRestart == /\ active
              /\ stage \in InSetup
              /\ Goes(RestartAsk, [Adding("restart_prev_state") EXCEPT !.back = stage])

(* _wipe_business_setup: invoices first, then the rows they point at. *)
WipeBusinessSetup == /\ rows' = [k \in Kinds |-> [r \in Rows[k] |-> "none"]]
                     /\ bills' = [d \in Directions |-> 0]
                     /\ varies' = FALSE

RestartYes == /\ Answers(RestartAsk)
              /\ To(<<"business", "type">>, Blank)
              /\ WipeBusinessSetup
              /\ summarised' = {}
              /\ asked' = {}
              /\ touched' = {}
              /\ UNCHANGED <<web, edits>>

(* A mutant of RestartNo: the whole scratch is dropped with the mark. *)
RestartNoDropsScratch == Answers(RestartAsk) /\ Goes(scratch.back, Blank)

RestartNo == /\ Answers(RestartAsk)
             /\ Goes(scratch.back, [scratch EXCEPT !.keys = @ \ {"restart_prev_state"}, !.back = Unregistered])

(* awaiting_business_type and _start_gst_step: no product row, the general *)
(* question; some, the per-product mode and a question about the missing   *)
(* rates only.                                                             *)
BusinessType == /\ Answers(<<"business", "type">>)
                /\ Others
                /\ IF ~Holds("product")
                     THEN Passes(<<"business", "gst_mode">>, scratch) /\ UNCHANGED <<varies, summarised, touched>>
                     ELSE /\ varies' = TRUE
                          /\ IF Missing("product") = {}
                               THEN AfterGst(scratch)
                               ELSE /\ Passes(<<"business", "gst_missing">>,
                                              [Holding({"missing_product_ids"}) EXCEPT !.queue = SetToSeq(Missing("product"))])
                                    /\ UNCHANGED <<summarised, touched>>

Gst == \/ Answers(<<"business", "gst_mode">>) /\ Others /\ AfterGst(scratch) /\ varies' \in {varies, TRUE}
       \/ Answers(<<"business", "gst_mode">>) /\ Goes(<<"business", "gst_rate_same">>, scratch)
       \/ Answers(<<"business", "gst_rate_same">>) /\ Others /\ AfterGst(scratch) /\ varies' \in {varies, FALSE}

(* gst_missing_rate_ask: one rate for the listed products still there, or  *)
(* skip.                                                                   *)
GstMissing ==
  /\ Answers(<<"business", "gst_missing">>)
  /\ AfterGst(Blank)
  /\ \/ UNCHANGED rows
     \/ rows' = [rows EXCEPT !["product"] =
                   [r \in Rows["product"] |-> IF r \in ToSet(scratch.queue) /\ @[r] = "bare" THEN "full" ELSE @[r]]]
  /\ UNCHANGED <<bills, varies, web, edits>>

(* import_confirm: yes and no go the same way. *)
ImportConfirm == /\ Answers(<<"business", "import_confirm">>)
                 /\ RoutePastImport(scratch)
                 /\ Others
                 /\ UNCHANGED <<varies, summarised, touched>>

LeaveSection(k, s) == /\ IF k = "product" THEN AfterProducts(s) ELSE After(k, s)
                      /\ Others
                      /\ UNCHANGED <<varies, summarised, touched>>

NewRow(k, qualities) == \E r \in Rows[k], q \in qualities :
                          rows[k][r] = "none" /\ rows' = [rows EXCEPT ![k][r] = q]

(* A pasted list: each line that can be read is a row, with or without the *)
(* fields that may be left out; a list of which none can be read is asked  *)
(* for again.                                                              *)
ParseBulkLines(k) ==
  \E R \in SUBSET {r \in Rows[k] : rows[k][r] = "none"} \ {{}}, quality \in {"bare", "full"} :
     rows' = Arrive(k, R, quality)

(* The entry mode, the pasted list, and "done" in each of the three places *)
(* that take it.                                                           *)
EntryMode(k) ==
  \/ Answers(<<k, "mode">>) /\ (Goes(<<k, "bulk">>, scratch) \/ Goes(<<k, "name">>, scratch))
  \/ \E step \in {"mode", "bulk", "name"} : Answers(<<k, step>>) /\ LeaveSection(k, scratch)
  \/ /\ Answers(<<k, "bulk">>)
     /\ ParseBulkLines(k)
     /\ UNCHANGED <<company, bills, web, edits, history>>

(* One product at a time; the last question is left out when one rate is   *)
(* used for all (_finalize_one_by_one_product).                            *)
ProductAdded(q, qualities) == /\ Answers(<<"product", q>>)
                              /\ NewRow("product", qualities)
                              /\ To(<<"product", "name">>, Blank)
                              /\ UNCHANGED <<bills, varies, web, edits, history>>

ProductLoop ==
  \/ Answers(<<"product", "name">>) /\ Goes(<<"product", "quantity">>, Holding({"name"}))
  \/ Answers(<<"product", "quantity">>) /\ Goes(<<"product", "unit">>, Adding("quantity"))
  \/ Answers(<<"product", "unit">>) /\ Goes(<<"product", "price">>, Adding("unit"))
  \/ Answers(<<"product", "price">>) /\ Goes(<<"product", "purchase_price">>, Adding("price"))
  \/ varies /\ Answers(<<"product", "purchase_price">>) /\ Goes(<<"product", "gst_rate">>, Adding("purchase_price"))
  \/ ~varies /\ ProductAdded("purchase_price", {"bare"})
  \/ ProductAdded("gst_rate", {"bare", "full"})

(* One dealer or supplier at a time. *)
PartyLoop(k) ==
  \/ Answers(<<k, "name">>) /\ Goes(<<k, "phone">>, Holding({"name"}))
  \/ Answers(<<k, "phone">>) /\ (Goes(<<k, "credit">>, scratch) \/ Goes(<<k, "credit">>, Adding("phone")))
  \/ /\ Answers(<<k, "credit">>)
     /\ NewRow(k, IF "phone" \in scratch.keys THEN {"bare", "full"} ELSE {"bare"})
     /\ To(<<k, "name">>, Blank)
     /\ UNCHANGED <<bills, varies, web, edits, history>>

(* _advance_missing_one_by_one: the next listed row that still exists, or  *)
(* the next section.                                                       *)
PartiesByIds(k, queue) == KeepOnly(queue, Existing(k)')

Advance(k, queue) ==
  LET left == PartiesByIds(k, queue)
  IN IF left = <<>>
       THEN IF k = "dealer" THEN AfterDealers(Blank) ELSE AfterSuppliers(Blank)
       ELSE Passes(<<k, "missing_phone">>, [Holding({"missing_queue", "fill_id"}) EXCEPT !.queue = Tail(left), !.about = Head(left)])

(* _apply_missing_bulk_lines: of the listed rows, those that are named.    *)
ApplyMissingBulkLines(k) ==
  \E R \in SUBSET {r \in ToSet(scratch.queue) : rows[k][r] # "none"} :
     rows' = [rows EXCEPT ![k] = [r \in Rows[k] |-> IF r \in R THEN "full" ELSE @[r]]]

(* The backfill of imported parties: later, all in one pasted list, or one *)
(* by one.  Only listed rows are written, and only those still there.      *)
MissingFlow(k) ==
  \/ Answers(<<k, "missing_ask">>) /\ Goes(<<k, "missing_mode">>, scratch)
  \/ \E step \in {"missing_ask", "missing_mode"} : Answers(<<k, step>>) /\ LeaveSection(k, Blank)
  \/ Answers(<<k, "missing_mode">>) /\ Goes(<<k, "missing_bulk">>, scratch)
  \/ /\ Answers(<<k, "missing_mode">>)
     /\ UNCHANGED rows
     /\ Advance(k, scratch.queue)
     /\ UNCHANGED <<bills, web, edits, varies, summarised, touched>>
  \/ /\ Answers(<<k, "missing_bulk">>)
     /\ ApplyMissingBulkLines(k)
     /\ After(k, Blank)
     /\ UNCHANGED <<bills, web, edits, varies, summarised, touched>>
  \/ Answers(<<k, "missing_phone">>) /\ (Goes(<<k, "missing_credit">>, scratch) \/ Goes(<<k, "missing_credit">>, Adding("fill_phone")))
  \/ /\ Answers(<<k, "missing_credit">>)
     /\ \/ UNCHANGED rows
        \/ rows[k][scratch.about] = "bare" /\ rows' = [rows EXCEPT ![k][scratch.about] = "full"]
     /\ Advance(k, scratch.queue)
     /\ UNCHANGED <<bills, web, edits, varies, summarised, touched>>

OpeningBalance == /\ Answers(<<"opening", "balance">>)
                  /\ AfterOpeningBalance(scratch)
                  /\ Others
                  /\ UNCHANGED <<varies, summarised, touched>>

AddOpeningInvoice(d) == /\ bills[d] < MaxBills
                        /\ bills' = [bills EXCEPT ![d] = @ + 1]

(* Opening bills of a direction, one at a time.  A name no party has is    *)
(* confirmed first; the party is looked up again when the bill is written  *)
(* (find_or_create_party) and created if it is not there.                  *)
BillLoop(d) ==
  LET k == PartyOf[d] IN
  \/ /\ Answers(<<d, "ask">>)
     /\ IF d = "receivable" THEN AfterReceivables(scratch) ELSE Passes(<<"briefing", "hour">>, scratch)
     /\ Others
     /\ UNCHANGED <<varies, summarised, touched>>
  \/ Answers(<<d, "ask">>) /\ Goes(<<d, "party">>, scratch)
  \/ \E r \in Rows[k] :
       /\ Answers(<<d, "party">>)
       /\ Goes(IF rows[k][r] = "none" THEN <<d, "new_party">> ELSE <<d, "amount">>,
               [Holding({"party"}) EXCEPT !.about = r])
  \/ Answers(<<d, "new_party">>) /\ (Goes(<<d, "party">>, scratch) \/ Goes(<<d, "amount">>, scratch))
  \/ Answers(<<d, "amount">>) /\ Goes(<<d, "date">>, Adding("amount"))
  \/ /\ Answers(<<d, "date">>)
     /\ AddOpeningInvoice(d)
     /\ rows' = [rows EXCEPT ![k][scratch.about] = IF @ = "none" THEN "bare" ELSE @]
     /\ To(<<d, "ask">>, Blank)
     /\ UNCHANGED <<varies, web, edits, history>>

BriefingHour == Answers(<<"briefing", "hour">>) /\ Goes(Completed, scratch)

(* The sections in which rows are entered. *)
Products         == EntryMode("product") \/ ProductLoop
Dealers          == EntryMode("dealer") \/ PartyLoop("dealer")
DealersMissing   == MissingFlow("dealer")
Suppliers        == EntryMode("supplier") \/ PartyLoop("supplier")
SuppliersMissing == MissingFlow("supplier")
Receivables      == BillLoop("receivable")
Payables         == BillLoop("payable")

FounderSays == \/ StartLanguageChange \/ Language
               \/ AskRestart \/ RestartYes \/ RestartNo
               \/ BusinessType \/ Gst \/ GstMissing \/ ImportConfirm
               \/ Products \/ Dealers \/ DealersMissing \/ Suppliers \/ SuppliersMissing
               \/ OpeningBalance \/ Receivables \/ Payables \/ BriefingHour

Website == \/ Register \/ ImportChecked \/ ImportLands \/ SwitchOn \/ Deactivate
           \/ \E k \in Kinds : \E r \in Rows[k], to \in {"none", "bare", "full"} : EditRow(k, r, to)

Next == FounderSays \/ Website

Spec == Init /\ [][Next]_vars

-----------------------------------------------------------------------------
(* Properties.                                                             *)

(* Types of the variables. *)
TypeOK == /\ stage \in Stages
          /\ scratch.keys \subseteq Keys
          /\ scratch.queue \in Seq(AllRows)
          /\ scratch.about \in AllRows \cup {Nobody}
          /\ scratch.back \in InSetup \cup {Unregistered}
          /\ active \in BOOLEAN /\ varies \in BOOLEAN
          /\ DOMAIN rows = Kinds
          /\ \A k \in Kinds : rows[k] \in [Rows[k] -> {"none", "bare", "full"}]
          /\ bills \in [Directions -> 0..MaxBills]
          /\ upload \in {"idle", "checked"}
          /\ edits \in 0..MaxEdits
          /\ summarised \subseteq Sections /\ asked \subseteq Sections /\ touched \subseteq Sections

(* What the handler of a question takes out of the scratch: the amount is  *)
(* read without a default, the row to fill by its id.                      *)
Reads(q) == CASE q[2] = "date"           -> {"party", "amount"}
              [] q[2] = "amount"         -> {"party"}
              [] q[2] = "missing_credit" -> {"fill_id", "missing_queue"}
              [] q[2] = "missing_phone"  -> {"fill_id", "missing_queue"}
              [] q[2] \in {"missing_ask", "missing_mode", "missing_bulk"} -> {"missing_ids"}
              [] q[2] = "gst_missing"    -> {"missing_product_ids"}
              [] q[2] = "gst_rate"       -> {"name", "quantity", "unit", "price", "purchase_price"}
              [] q[2] = "purchase_price" -> {"name", "quantity", "unit", "price"}
              [] q[2] = "credit"         -> {"name"}
              [] q = ScriptAsk           -> {"onb_language"}
              [] q = RestartAsk          -> {"restart_prev_state"}
              [] OTHER                   -> {}

(* Whatever was answered, restarted or deleted before, the question that   *)
(* is open (or that "no" to a restart re-opens) finds every entry its      *)
(* handler reads, and a queue of missing parties holds none twice.         *)
ScratchServesTheQuestion ==
  LET q == IF stage = RestartAsk THEN scratch.back ELSE stage
  IN /\ Reads(stage) \cup Reads(q) \subseteq scratch.keys
     /\ "fill_id" \in scratch.keys => scratch.about # Nobody /\ scratch.about \notin ToSet(scratch.queue)
     /\ IsInjective(scratch.queue)
     /\ ("relanguage" \in scratch.keys) => stage[1] = "language"

(* The step of the 8 the founder is told about; 9 once set up.             *)
Progress == LET q == IF stage = RestartAsk THEN scratch.back ELSE stage
            IN CASE q \in InSetup -> StepOfSection[q[1]]
                 [] q = Completed \/ "relanguage" \in scratch.keys -> 9
                 [] OTHER -> 0

(* Setup never falls back to an earlier section, through import, backfill, *)
(* refused restart or language change, except by a confirmed restart that  *)
(* leaves no row behind.                                                   *)
ProgressNeverFalls ==
  [][Progress' < Progress => /\ stage = RestartAsk /\ stage' = <<"business", "type">>
                             /\ \A s \in Sections : ~Holds(s)']_vars

(* "Skips exactly the imported sections and still asks normally for        *)
(* whatever wasn't": past a section that nobody else changed since the     *)
(* summary, the section was asked from scratch if and only if the summary  *)
(* did not count it.                                                       *)
AskedExactlyTheRest ==
  \A s \in Sections \ touched :
    (Progress > StepOfSection[s] /\ Progress < 9) => (s \in asked <=> s \notin summarised)

=============================================================================
