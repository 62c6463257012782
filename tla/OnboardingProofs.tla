--------------------------- MODULE OnboardingProofs ---------------------------
(***************************************************************************)
(* What holds of a company's guided setup for any rows, however the        *)
(* founder's answers, the website and an administrator interleave.         *)
(*                                                                         *)
(* Two invariants carry the proofs.  ScratchFits says what the scratch     *)
(* holds at each question, also at those whose handler does not read it    *)
(* but leaves it for a later one.  HistoryFits says that a section is      *)
(* opened or passed by what the summary counted: of the sections ahead it  *)
(* is still true, of those behind it was acted upon.                       *)
(***************************************************************************)
EXTENDS Onboarding, RowTheorems, SequenceTheorems, TLAPS

-----------------------------------------------------------------------------
(* The invariant.                                                          *)

(* The question that is open, or that "no" to a restart opens again. *)
Open == IF stage = RestartAsk THEN scratch.back ELSE stage

ImportAsk == <<"business", "import_confirm">>

(* What the questions before q have put into the scratch, whether q's own  *)
(* handler reads it or only leaves it for the next.                        *)
Gathered(q) ==
  CASE q[2] = "quantity"  -> {"name"}
    [] q[2] = "unit"      -> {"name", "quantity"}
    [] q[2] = "price"     -> {"name", "quantity", "unit"}
    [] q[2] = "phone"     -> {"name"}
    [] q[2] = "new_party" -> {"party"}
    [] OTHER              -> Reads(q)

Scratch == [keys : SUBSET Keys, queue : Seq(AllRows), about : AllRows \cup {Nobody},
            back : InSetup \cup {Unregistered}]

(* A scratch s that serves the question q. *)
Serves(s, q) ==
  /\ s \in Scratch
  /\ Gathered(q) \subseteq s.keys
  /\ "fill_id" \in s.keys => s.about \in AllRows \ ToSet(s.queue)
  /\ IsInjective(s.queue)

ScratchFits ==
  /\ Serves(scratch, Open)
  /\ stage = RestartAsk => scratch.back \in InSetup /\ "restart_prev_state" \in scratch.keys
  /\ "relanguage" \in scratch.keys => stage \in {LanguageAsk, ScriptAsk}

(* The places of the state that are not the scratch. *)
RowsFit ==
  /\ DOMAIN rows = Kinds /\ \A k \in Kinds : rows[k] \in [Rows[k] -> {"none", "bare", "full"}]
  /\ bills \in [Directions -> 0 .. MaxBills]

PlacesFit ==
  /\ stage \in Stages
  /\ active \in BOOLEAN /\ varies \in BOOLEAN
  /\ upload \in {"idle", "checked"}
  /\ edits \in 0 .. MaxEdits
  /\ summarised \subseteq Sections /\ asked \subseteq Sections /\ touched \subseteq Sections

(* Ahead of the question the summary still tells what is there; at it and  *)
(* behind it, it was acted upon.                                           *)
Ahead(s) == s \notin asked /\ (Holds(s) <=> s \in summarised)
Acted(s) == s \in asked <=> s \notin summarised

Summarised == Progress \in 2 .. 8 \/ Open = ImportAsk

HistoryFits ==
  /\ Progress <= 1 => asked = {}
  /\ Summarised => \A s \in Sections \ touched :
                     /\ StepOfSection[s] <= Progress => Acted(s)
                     /\ StepOfSection[s] > Progress => Ahead(s)

SetupIsSound == ScratchFits /\ RowsFit /\ PlacesFit /\ HistoryFits

-----------------------------------------------------------------------------
(* Questions.                                                              *)

(* The questions of the setup, by section. *)
LEMMA SetupQuestions ==
  /\ \A s \in {"type", "gst_mode", "gst_rate_same", "gst_missing", "import_confirm"} :
        <<"business", s>> \in InSetup
  /\ \A s \in ProductSteps : <<"product", s>> \in InSetup
  /\ \A k \in PartyKinds, s \in LoopSteps \cup MissingSteps : <<k, s>> \in InSetup
  /\ \A d \in Directions, s \in BillSteps : <<d, s>> \in InSetup
  /\ <<"opening", "balance">> \in InSetup
  /\ <<"briefing", "hour">> \in InSetup
BY DEF InSetup

(* No other question is one, and every one has its section's step. *)
LEMMA NotInSetup ==
  /\ \A q \in {Unregistered, NotStarted, Completed, RestartAsk, LanguageAsk, ScriptAsk} :
        q \notin InSetup
  /\ \A q \in InSetup : /\ q[1] \in DOMAIN StepOfSection /\ q = <<q[1], q[2]>>
                        /\ StepOfSection[q[1]] \in 1 .. 8
<1>1. \A q \in InSetup : /\ q[1] \in {"business", "product", "dealer", "supplier", "opening",
                                      "receivable", "payable", "briefing"}
                         /\ q = <<q[1], q[2]>>
  BY DEF InSetup, PartyKinds, Directions
<1>2. \A t \in {"business", "product", "dealer", "supplier", "opening", "receivable", "payable",
                "briefing"} : t \in DOMAIN StepOfSection /\ StepOfSection[t] \in 1 .. 8
  BY DEF StepOfSection
<1>3. \A q \in {Unregistered, NotStarted, Completed, RestartAsk, LanguageAsk, ScriptAsk} :
        q[1] \in {"website", "done", "restart", "language"}
  BY DEF Unregistered, NotStarted, Completed, RestartAsk, LanguageAsk, ScriptAsk
<1> QED
  BY <1>1, <1>2, <1>3

(* The steps of the sections. *)
LEMMA Steps ==
  /\ StepOfSection["business"] = 1 /\ StepOfSection["product"] = 2
  /\ StepOfSection["dealer"] = 3 /\ StepOfSection["supplier"] = 4
  /\ StepOfSection["opening"] = 5 /\ StepOfSection["receivable"] = 6
  /\ StepOfSection["payable"] = 7 /\ StepOfSection["briefing"] = 8
  /\ Sections = {"product", "dealer", "supplier", "receivable", "payable"}
  /\ Kinds = {"product", "dealer", "supplier"} /\ Directions = {"receivable", "payable"}
BY DEF StepOfSection, Sections, Kinds, Directions

(* No two have the same. *)
LEMMA StepsDiffer ==
  /\ Sections \cup {"business", "opening", "briefing"} \subseteq DOMAIN StepOfSection
  /\ \A s, t \in DOMAIN StepOfSection : StepOfSection[s] = StepOfSection[t] => s = t
BY DEF StepOfSection, Sections, Kinds, Directions

(* The place of the founder, from the question that is open. *)
InPlace ==
  /\ stage \in InSetup => Open = stage
  /\ Open \in InSetup => Progress = StepOfSection[Open[1]]
  /\ Open \notin InSetup => Progress = IF Open = Completed \/ "relanguage" \in scratch.keys THEN 9 ELSE 0

(* It is so wherever the scratch fits, before a step and after it. *)
LEMMA Place == ScratchFits => InPlace
<1> SUFFICES ASSUME ScratchFits PROVE InPlace
  OBVIOUS
<1>1. \A q \in {Completed, RestartAsk, LanguageAsk, ScriptAsk} : q \notin InSetup
  BY NotInSetup
<1>2. stage \in {LanguageAsk, ScriptAsk} => Open = stage
  BY DEF Open, LanguageAsk, ScriptAsk, RestartAsk
<1>3. Open \in InSetup => Open # Completed /\ "relanguage" \notin scratch.keys
  BY <1>1, <1>2 DEF ScratchFits
<1>4. Progress = CASE Open \in InSetup -> StepOfSection[Open[1]]
                   [] Open = Completed \/ "relanguage" \in scratch.keys -> 9
                   [] OTHER -> 0
  BY DEF Open, Progress
<1>5. stage \in InSetup => Open = stage
  BY <1>1 DEF Open
<1>6. Open \in InSetup => Progress = StepOfSection[Open[1]]
  BY <1>3, <1>4
<1>7. Open \notin InSetup => Progress = IF Open = Completed \/ "relanguage" \in scratch.keys THEN 9 ELSE 0
  BY <1>4
<1> QED
  BY <1>5, <1>6, <1>7 DEF InPlace

(* The same of the next state. *)
LEMMA PlaceNext == (ScratchFits => InPlace)'
BY Place, PTL

-----------------------------------------------------------------------------
(* The scratch of the next question.                                       *)

(* What each question's handler and those after it need. *)
LEMMA GatheredAt ==
  ASSUME NEW t
  PROVE  /\ \A s \in {"type", "gst_mode", "gst_rate_same", "import_confirm", "mode", "bulk", "name",
                      "ask", "party", "balance", "hour"} : Gathered(<<t, s>>) = {}
         /\ \A s \in {"quantity", "phone", "credit"} : Gathered(<<t, s>>) = {"name"}
         /\ Gathered(<<t, "unit">>) = {"name", "quantity"}
         /\ Gathered(<<t, "price">>) = {"name", "quantity", "unit"}
         /\ Gathered(<<t, "purchase_price">>) = {"name", "quantity", "unit", "price"}
         /\ Gathered(<<t, "gst_rate">>) = {"name", "quantity", "unit", "price", "purchase_price"}
         /\ \A s \in {"missing_ask", "missing_mode", "missing_bulk"} :
               Gathered(<<t, s>>) = {"missing_ids"}
         /\ \A s \in {"missing_phone", "missing_credit"} :
               Gathered(<<t, s>>) = {"fill_id", "missing_queue"}
         /\ Gathered(<<t, "gst_missing">>) = {"missing_product_ids"}
         /\ \A s \in {"new_party", "amount"} : Gathered(<<t, s>>) = {"party"}
         /\ Gathered(<<t, "date">>) = {"party", "amount"}
BY DEF Gathered, Reads, ScriptAsk, RestartAsk

(* And of the questions outside the setup. *)
LEMMA GatheredOutside ==
  /\ Gathered(Unregistered) = {} /\ Gathered(NotStarted) = {} /\ Gathered(Completed) = {}
  /\ Gathered(LanguageAsk) = {} /\ Gathered(ScriptAsk) = {"onb_language"}
BY DEF Gathered, Reads, Unregistered, NotStarted, Completed, LanguageAsk, ScriptAsk, RestartAsk

(* A scratch that can be left as it is when a section ends. *)
Plain(s) ==
  /\ s \in Scratch /\ "relanguage" \notin s.keys
  /\ "fill_id" \in s.keys => s.about \in AllRows \ ToSet(s.queue)
  /\ IsInjective(s.queue)

(* The empty scratch, and one with some keys. *)
LEMMA HoldingIs ==
  ASSUME NEW K
  PROVE  Holding(K) = [keys |-> K, queue |-> <<>>, about |-> Nobody, back |-> Unregistered]
BY DEF Holding, Blank

(* Neither has anything of a restart or a language change. *)
LEMMA HoldingIsPlain ==
  ASSUME NEW K \in SUBSET Keys, "relanguage" \notin K, "fill_id" \notin K
  PROVE  Plain(Holding(K)) /\ Holding(K).keys = K
<1>1. Holding(K) = [keys |-> K, queue |-> <<>>, about |-> Nobody, back |-> Unregistered]
  BY HoldingIs
<1>2. <<>> \in Seq(AllRows) /\ IsInjective(<<>>)
  BY DEF IsInjective
<1> QED
  BY <1>1, <1>2 DEF Plain, Scratch

(* The empty one. *)
LEMMA BlankIsPlain == Plain(Blank) /\ Blank.keys = {}
BY DEF Blank, Plain, Scratch, IsInjective

(* At a question of the setup the scratch is one. *)
LEMMA ScratchIsPlain ==
  ASSUME ScratchFits, stage \in InSetup
  PROVE  Plain(scratch) /\ Gathered(stage) \subseteq scratch.keys
<1>1. Open = stage /\ stage \notin {LanguageAsk, ScriptAsk}
  BY NotInSetup DEF Open
<1> QED
  BY <1>1 DEF ScratchFits, Serves, Plain

(* With a key more. *)
LEMMA AddingIsPlain ==
  ASSUME ScratchFits, stage \in InSetup, NEW key \in Keys \ {"relanguage", "fill_id"}
  PROVE  Plain(Adding(key)) /\ Gathered(stage) \cup {key} \subseteq Adding(key).keys
<1>1. Plain(scratch) /\ Gathered(stage) \subseteq scratch.keys
  BY ScratchIsPlain
<1>2. scratch \in Scratch
  BY <1>1 DEF Plain
<1>3. /\ Adding(key) = [scratch EXCEPT !.keys = scratch.keys \cup {key}]
      /\ scratch.keys \cup {key} \in SUBSET Keys
  BY <1>2 DEF Adding, Scratch
<1>4. /\ Adding(key) \in Scratch /\ Adding(key).keys = scratch.keys \cup {key}
      /\ Adding(key).queue = scratch.queue /\ Adding(key).about = scratch.about
  BY <1>2, <1>3 DEF Scratch
<1> QED
  BY <1>1, <1>4 DEF Plain

(* A question of the setup with what it needs. *)
LEMMA ToFits ==
  ASSUME NEW q \in InSetup, NEW s, To(q, s), Plain(s), Gathered(q) \subseteq s.keys
  PROVE  /\ ScratchFits' /\ Open' = q /\ stage' \in InSetup /\ stage' \in Stages
         /\ Progress' = StepOfSection[q[1]]
<1>1. stage' = q /\ scratch' = s /\ q # RestartAsk
  BY NotInSetup DEF To
<1>2. Open' = q
  BY <1>1 DEF Open
<1>3. ScratchFits'
  BY <1>1, <1>2 DEF ScratchFits, Serves, Plain
<1>4. Progress' = StepOfSection[q[1]]
  BY <1>2, <1>3, PlaceNext DEF InPlace
<1> QED
  BY <1>1, <1>2, <1>3, <1>4 DEF Stages

(* The places of the setup are finite. *)
LEMMA RowsAreFinite ==
  ASSUME RowsFit, NEW k \in Kinds
  PROVE  IsFiniteSet(Missing(k)) /\ Missing(k) \subseteq Rows[k] /\ Rows[k] \subseteq AllRows
BY BoundsAreNumbers, FS_Subset DEF Missing, AllRows

(* A queue of missing rows, as the backfill starts. *)
LEMMA QueueOfMissing ==
  ASSUME RowsFit, NEW k \in Kinds, NEW key \in Keys \ {"relanguage", "fill_id"}
  PROVE  LET s == [Holding({key}) EXCEPT !.queue = SetToSeq(Missing(k))]
         IN  Plain(s) /\ s.keys = {key}
<1> DEFINE queue == SetToSeq(Missing(k))
<1>1. queue \in Seq(Missing(k)) /\ IsInjective(queue)
  BY RowsAreFinite, QueueOfRows
<1>2. queue \in Seq(AllRows)
  BY <1>1, RowsAreFinite, SeqMonotonic
<1>3. Plain(Holding({key})) /\ Holding({key}).keys = {key}
  BY HoldingIsPlain
<1> HIDE DEF queue
<1>4. Holding({key}) \in Scratch
  BY <1>3 DEF Plain
<1>5. /\ [Holding({key}) EXCEPT !.queue = queue] \in Scratch
      /\ [Holding({key}) EXCEPT !.queue = queue].queue = queue
      /\ [Holding({key}) EXCEPT !.queue = queue].keys = {key}
  BY <1>2, <1>3, <1>4 DEF Scratch
<1>6. Plain([Holding({key}) EXCEPT !.queue = queue])
  BY <1>1, <1>5 DEF Plain
<1> QED
  BY <1>5, <1>6 DEF queue

-----------------------------------------------------------------------------
(* The history.                                                            *)

(* The places are numbers. *)
LEMMA ProgressIsStep ==
  ASSUME SetupIsSound
  PROVE  /\ Progress \in 0 .. 9
         /\ stage \in InSetup => Progress = StepOfSection[stage[1]] /\ Progress \in 1 .. 8
<1>1. InPlace
  BY Place DEF SetupIsSound
<1> QED
  BY <1>1, NotInSetup DEF InPlace

(* A step that leaves the founder at the place he is at. *)
Stays ==
  /\ Progress' = Progress /\ (Open' = ImportAsk => Open = ImportAsk)
  /\ summarised' = summarised /\ asked' = asked /\ touched \subseteq touched'
  /\ \A s \in Sections \ touched' : StepOfSection[s] > Progress => (Holds(s)' <=> Holds(s))

(* It keeps the history. *)
LEMMA HistoryStays == ASSUME SetupIsSound, Stays PROVE HistoryFits'
<1>1. Summarised' => Summarised
  BY DEF Stays, Summarised
<1>2. \A s \in Sections \ touched' :
         /\ Acted(s) => Acted(s)'
         /\ StepOfSection[s] > Progress /\ Ahead(s) => Ahead(s)'
  BY DEF Stays, Acted, Ahead
<1> QED
  BY <1>1, <1>2 DEF Stays, SetupIsSound, HistoryFits

(* The section of step n is the next to open or to pass. *)
Ready(n) == \A s \in Sections \ touched : /\ StepOfSection[s] < n => Acted(s)
                                          /\ StepOfSection[s] >= n => Ahead(s)

(* Sections ahead of place n keep what they hold. *)
Kept(n) == \A s \in Sections : StepOfSection[s] > n => (Holds(s)' <=> Holds(s))

(* What the helpers that leave a section leave alone. *)
Leaves(n) == /\ SetupIsSound /\ Kept(n - 1) /\ UNCHANGED <<summarised, touched>>

(* Where they arrive. *)
Arrives(n) == /\ ScratchFits' /\ HistoryFits' /\ stage' \in InSetup /\ stage' \in Stages
              /\ asked' \subseteq Sections /\ Progress' >= n

(* A section the founder leaves is done. *)
LEMMA SectionIsDone ==
  ASSUME SetupIsSound, Summarised, Progress \in 1 .. 8
  PROVE  Ready(Progress + 1)
<1>1. \A s \in Sections : StepOfSection[s] \in Nat
  BY Steps
<1>2. ASSUME NEW s \in Sections \ touched
      PROVE  /\ StepOfSection[s] < Progress + 1 => Acted(s)
             /\ StepOfSection[s] >= Progress + 1 => Ahead(s)
  <2>1. /\ StepOfSection[s] <= Progress => Acted(s)
        /\ StepOfSection[s] > Progress => Ahead(s)
    BY DEF SetupIsSound, HistoryFits
  <2> QED
    BY <1>1, <2>1
<1> QED
  BY <1>2 DEF Ready

(* A section that holds something, or that is none, is passed. *)
LEMMA SectionIsPassed ==
  ASSUME NEW n \in 1 .. 8, Ready(n), \A s \in Sections : StepOfSection[s] = n => Holds(s)
  PROVE  Ready(n + 1)
<1>1. \A s \in Sections : StepOfSection[s] \in Nat
  BY Steps
<1>2. ASSUME NEW s \in Sections \ touched
      PROVE  /\ StepOfSection[s] < n + 1 => Acted(s)
             /\ StepOfSection[s] >= n + 1 => Ahead(s)
  <2>1. /\ StepOfSection[s] < n => Acted(s)
        /\ StepOfSection[s] >= n => Ahead(s)
    BY DEF Ready
  <2>2. StepOfSection[s] = n => Acted(s)
    BY <1>1, <2>1 DEF Ahead, Acted
  <2> QED
    BY <1>1, <2>1, <2>2
<1> QED
  BY <1>2 DEF Ready

(* The founder comes to the section t of step n, and either it is opened, and *)
(* holds nothing, or it holds something or is none.                          *)
LEMMA Landing ==
  ASSUME NEW n \in 2 .. 8, Leaves(n), Ready(n), NEW t \in DOMAIN StepOfSection,
         StepOfSection[t] = n, NEW opened \in BOOLEAN,
         ScratchFits', Open' \in InSetup, Open'[1] = t, Progress' = n,
         stage' \in InSetup, stage' \in Stages,
         asked' = IF opened THEN asked \cup {t} ELSE asked,
         opened => t \in Sections /\ ~ Holds(t),
         ~ opened => (t \in Sections => Holds(t))
  PROVE  Arrives(n)
<1>1. \A s \in Sections : StepOfSection[s] \in Nat /\ (StepOfSection[s] = n => s = t)
  BY Steps, StepsDiffer
<1>2. asked' \subseteq Sections
  BY DEF Leaves, SetupIsSound, PlacesFit
<1>3. ASSUME NEW s \in Sections \ touched'
      PROVE  /\ StepOfSection[s] <= n => Acted(s)'
             /\ StepOfSection[s] > n => Ahead(s)'
  <2>1. summarised' = summarised /\ touched' = touched
    BY DEF Leaves
  <2>2. /\ StepOfSection[s] < n => Acted(s)
        /\ StepOfSection[s] >= n => Ahead(s)
    BY <2>1, <1>3 DEF Ready
  <2>3. CASE StepOfSection[s] < n
    <3>1. s # t
      BY <2>3
    <3>2. Acted(s)' = Acted(s)
      BY <2>1, <3>1 DEF Acted
    <3> QED
      BY <1>1, <2>2, <2>3, <3>2
  <2>4. CASE s = t
    <3>1. Ahead(s)
      BY <2>2, <2>4
    <3>2. Acted(s)'
      BY <2>1, <2>4, <3>1 DEF Acted, Ahead
    <3> QED
      BY <2>4, <3>2
  <2>5. CASE StepOfSection[s] > n
    <3>1. s # t /\ StepOfSection[s] > n - 1
      BY <1>1, <2>5
    <3>2. Holds(s)' <=> Holds(s)
      BY <3>1 DEF Leaves, Kept
    <3>3. Ahead(s)
      BY <1>1, <2>2, <2>5
    <3>4. Ahead(s)'
      BY <2>1, <3>1, <3>2, <3>3 DEF Ahead
    <3> QED
      BY <1>1, <2>5, <3>4
  <2> QED
    BY <1>1, <2>3, <2>4, <2>5
<1>4. HistoryFits'
  BY <1>3 DEF HistoryFits
<1> QED
  BY <1>2, <1>4 DEF Arrives

(* Opening a section. *)
LEMMA OpensLands ==
  ASSUME NEW n \in 2 .. 8, Leaves(n), Ready(n), NEW t \in Sections, StepOfSection[t] = n,
         ~ Holds(t), NEW s, Plain(s), Opens(t, s)
  PROVE  Arrives(n)
<1> DEFINE q == <<t, IF t \in Kinds THEN "mode" ELSE "ask">>
<1>1. q \in InSetup
  BY SetupQuestions DEF Sections, Kinds, PartyKinds, ProductSteps, LoopSteps, BillSteps
<1>2. Gathered(q) = {}
  BY GatheredAt
<1>3. To(q, s) /\ asked' = asked \cup {t}
  BY DEF Opens
<1>4. q[1] = t
  OBVIOUS
<1> HIDE DEF q
<1>5. /\ ScratchFits' /\ Open' = q /\ stage' \in InSetup /\ stage' \in Stages
      /\ Progress' = StepOfSection[q[1]]
  BY <1>1, <1>2, <1>3, ToFits
<1>6. TRUE \in BOOLEAN /\ t \in DOMAIN StepOfSection
  BY StepsDiffer
<1> QED
  BY <1>1, <1>3, <1>4, <1>5, <1>6, Landing

(* Coming to a section that is not opened with its first question. *)
LEMMA PassesLands ==
  ASSUME NEW n \in 2 .. 8, Leaves(n), Ready(n), NEW q \in InSetup, StepOfSection[q[1]] = n,
         q[1] \in Sections => Holds(q[1]), NEW s, Plain(s), Gathered(q) \subseteq s.keys,
         Passes(q, s)
  PROVE  Arrives(n)
<1>1. To(q, s) /\ asked' = asked
  BY DEF Passes
<1>2. /\ ScratchFits' /\ Open' = q /\ stage' \in InSetup /\ stage' \in Stages
      /\ Progress' = StepOfSection[q[1]]
  BY <1>1, ToFits
<1>3. FALSE \in BOOLEAN /\ q[1] \in DOMAIN StepOfSection
  BY NotInSetup
<1> QED
  BY <1>1, <1>2, <1>3, Landing

-----------------------------------------------------------------------------
(* The helpers that leave a section.                                       *)

(* A section passed on the way leaves the next one ready. *)
LEMMA LeavesLater == ASSUME NEW n \in Nat, Leaves(n) PROVE Leaves(n + 1)
<1>1. \A s \in Sections : StepOfSection[s] \in Nat
  BY Steps
<1> QED
  BY <1>1 DEF Leaves, Kept

(* Who is past the next place is past this one. *)
LEMMA ArrivesEarlier ==
  ASSUME NEW n \in Nat, Arrives(n + 1)
  PROVE  Arrives(n)
<1>1. Progress' \in Int
  BY PlaceNext, NotInSetup DEF InPlace, Arrives
<1> QED
  BY <1>1 DEF Arrives

(* AfterSuppliers goes to the opening balance. *)
LEMMA AfterSuppliersArrives ==
  ASSUME Leaves(5), Ready(5), NEW s, Plain(s), AfterSuppliers(s) PROVE Arrives(5)
<1>1. <<"opening", "balance">> \in InSetup /\ Gathered(<<"opening", "balance">>) = {}
  BY SetupQuestions, GatheredAt
<1>2. "opening" \notin Sections /\ StepOfSection["opening"] = 5
  BY Steps
<1> QED
  BY <1>1, <1>2, PassesLands DEF AfterSuppliers

(* The backfill of a kind of party of which there are some, not all whole. *)
LEMMA MissingFlowArrives ==
  ASSUME NEW k \in PartyKinds, Leaves(StepOfSection[k]), Ready(StepOfSection[k]), Holds(k),
         StartMissingFlow(k)
  PROVE  Arrives(StepOfSection[k])
<1> DEFINE s == [Holding({"missing_ids"}) EXCEPT !.queue = SetToSeq(Missing(k))]
           q == <<k, "missing_ask">>
<1>1. k \in Kinds /\ StepOfSection[k] \in 2 .. 8
  BY Steps DEF PartyKinds
<1>2. Plain(s) /\ s.keys = {"missing_ids"}
  BY <1>1, QueueOfMissing DEF Leaves, SetupIsSound, Keys
<1>3. q \in InSetup /\ Gathered(q) = {"missing_ids"} /\ q[1] = k
  BY SetupQuestions, GatheredAt DEF MissingSteps
<1>4. Passes(q, s)
  BY DEF StartMissingFlow
<1> HIDE DEF s, q
<1> QED
  BY <1>1, <1>2, <1>3, <1>4, PassesLands

(* AfterDealers: the suppliers, or what comes after them. *)
LEMMA AfterDealersArrives ==
  ASSUME Leaves(4), Ready(4), NEW s, Plain(s), AfterDealers(s) PROVE Arrives(4)
<1>1. StepOfSection["supplier"] = 4 /\ "supplier" \in Sections /\ "supplier" \in PartyKinds
  BY Steps DEF PartyKinds
<1>2. \A t \in Sections : StepOfSection[t] = 4 => t = "supplier"
  BY <1>1, StepsDiffer
<1>3. CASE ~ Holds("supplier")
  BY <1>1, <1>3, OpensLands DEF AfterDealers
<1>4. CASE Holds("supplier") /\ Missing("supplier") # {}
  BY <1>1, <1>4, MissingFlowArrives DEF AfterDealers
<1>5. CASE Holds("supplier") /\ Missing("supplier") = {}
  <2>1. AfterSuppliers(s)
    BY <1>5 DEF AfterDealers
  <2>2. 4 \in 1 .. 8 /\ 4 \in Nat /\ 4 + 1 = 5
    OBVIOUS
  <2>3. Leaves(5)
    BY <2>2, LeavesLater
  <2>4. Ready(5)
    BY <1>2, <1>5, <2>2, SectionIsPassed
  <2> QED
    BY <2>1, <2>2, <2>3, <2>4, AfterSuppliersArrives, ArrivesEarlier
<1> QED
  BY <1>3, <1>4, <1>5

(* AfterProducts: the dealers, or what comes after them. *)
LEMMA AfterProductsArrives ==
  ASSUME Leaves(3), Ready(3), NEW s, Plain(s), AfterProducts(s) PROVE Arrives(3)
<1>1. StepOfSection["dealer"] = 3 /\ "dealer" \in Sections /\ "dealer" \in PartyKinds
  BY Steps DEF PartyKinds
<1>2. \A t \in Sections : StepOfSection[t] = 3 => t = "dealer"
  BY <1>1, StepsDiffer
<1>3. CASE ~ Holds("dealer")
  BY <1>1, <1>3, OpensLands DEF AfterProducts
<1>4. CASE Holds("dealer") /\ Missing("dealer") # {}
  BY <1>1, <1>4, MissingFlowArrives DEF AfterProducts
<1>5. CASE Holds("dealer") /\ Missing("dealer") = {}
  <2>1. AfterDealers(s)
    BY <1>5 DEF AfterProducts
  <2>2. 3 \in 1 .. 8 /\ 3 \in Nat /\ 3 + 1 = 4
    OBVIOUS
  <2>3. Leaves(4)
    BY <2>2, LeavesLater
  <2>4. Ready(4)
    BY <1>2, <1>5, <2>2, SectionIsPassed
  <2> QED
    BY <2>1, <2>2, <2>3, <2>4, AfterDealersArrives, ArrivesEarlier
<1> QED
  BY <1>3, <1>4, <1>5

(* Past the summary: the products, or what comes after them. *)
LEMMA RoutePastImportArrives ==
  ASSUME Leaves(2), Ready(2), NEW s, Plain(s), RoutePastImport(s) PROVE Arrives(2)
<1>1. StepOfSection["product"] = 2 /\ "product" \in Sections
  BY Steps
<1>2. \A t \in Sections : StepOfSection[t] = 2 => t = "product"
  BY <1>1, StepsDiffer
<1>3. CASE ~ Holds("product")
  BY <1>1, <1>3, OpensLands DEF RoutePastImport
<1>4. CASE Holds("product")
  <2>1. AfterProducts(s)
    BY <1>4 DEF RoutePastImport
  <2>2. 2 \in 1 .. 8 /\ 2 \in Nat /\ 2 + 1 = 3
    OBVIOUS
  <2>3. Leaves(3)
    BY <2>2, LeavesLater
  <2>4. Ready(3)
    BY <1>2, <1>4, <2>2, SectionIsPassed
  <2> QED
    BY <2>1, <2>2, <2>3, <2>4, AfterProductsArrives, ArrivesEarlier
<1> QED
  BY <1>3, <1>4

(* After the receivables: the payables, or the hour of the briefing. *)
LEMMA BriefingArrives ==
  ASSUME Leaves(8), Ready(8), NEW s, Plain(s), Passes(<<"briefing", "hour">>, s) PROVE Arrives(8)
<1>1. <<"briefing", "hour">> \in InSetup /\ Gathered(<<"briefing", "hour">>) = {}
  BY SetupQuestions, GatheredAt
<1>2. "briefing" \notin Sections /\ StepOfSection["briefing"] = 8
  BY Steps
<1> QED
  BY <1>1, <1>2, PassesLands

(* From the receivables, to the payables or past them. *)
LEMMA AfterReceivablesArrives ==
  ASSUME Leaves(7), Ready(7), NEW s, Plain(s), AfterReceivables(s) PROVE Arrives(7)
<1>1. StepOfSection["payable"] = 7 /\ "payable" \in Sections
  BY Steps
<1>2. \A t \in Sections : StepOfSection[t] = 7 => t = "payable"
  BY <1>1, StepsDiffer
<1>3. CASE ~ Holds("payable")
  BY <1>1, <1>3, OpensLands DEF AfterReceivables
<1>4. CASE Holds("payable")
  <2>1. Passes(<<"briefing", "hour">>, s)
    BY <1>4 DEF AfterReceivables
  <2>2. 7 \in 1 .. 8 /\ 7 \in Nat /\ 7 + 1 = 8
    OBVIOUS
  <2>3. Leaves(8)
    BY <2>2, LeavesLater
  <2>4. Ready(8)
    BY <1>2, <1>4, <2>2, SectionIsPassed
  <2> QED
    BY <2>1, <2>2, <2>3, <2>4, BriefingArrives, ArrivesEarlier
<1> QED
  BY <1>3, <1>4

(* After the opening balance: the receivables, or what comes after them. *)
LEMMA AfterOpeningBalanceArrives ==
  ASSUME Leaves(6), Ready(6), NEW s, Plain(s), AfterOpeningBalance(s) PROVE Arrives(6)
<1>1. StepOfSection["receivable"] = 6 /\ "receivable" \in Sections
  BY Steps
<1>2. \A t \in Sections : StepOfSection[t] = 6 => t = "receivable"
  BY <1>1, StepsDiffer
<1>3. CASE ~ Holds("receivable")
  BY <1>1, <1>3, OpensLands DEF AfterOpeningBalance
<1>4. CASE Holds("receivable")
  <2>1. AfterReceivables(s)
    BY <1>4 DEF AfterOpeningBalance
  <2>2. 6 \in 1 .. 8 /\ 6 \in Nat /\ 6 + 1 = 7
    OBVIOUS
  <2>3. Leaves(7)
    BY <2>2, LeavesLater
  <2>4. Ready(7)
    BY <1>2, <1>4, <2>2, SectionIsPassed
  <2> QED
    BY <2>1, <2>2, <2>3, <2>4, AfterReceivablesArrives, ArrivesEarlier
<1> QED
  BY <1>3, <1>4

-----------------------------------------------------------------------------
(* The founder's messages.                                                 *)

(* The one way back. *)
Restarted == /\ stage = RestartAsk /\ stage' = <<"business", "type">>
             /\ \A s \in Sections : ~ Holds(s)'

(* What every step achieves, as far as the founder's place is concerned. *)
StepFits == /\ ScratchFits' /\ HistoryFits' /\ stage' \in Stages
            /\ summarised' \subseteq Sections /\ asked' \subseteq Sections
            /\ touched' \subseteq Sections
            /\ (Progress' < Progress => Restarted)

(* Another question of the same section. *)
LEMMA NextQuestionFits ==
  ASSUME SetupIsSound, stage \in InSetup, NEW q \in InSetup, q[1] = stage[1], q # ImportAsk,
         NEW s, To(q, s), Plain(s), Gathered(q) \subseteq s.keys, UNCHANGED history, Kept(Progress)
  PROVE  StepFits
<1>1. /\ ScratchFits' /\ Open' = q /\ stage' \in Stages /\ Progress' = StepOfSection[q[1]]
  BY ToFits
<1>2. Progress' = Progress /\ Progress \in Nat
  BY <1>1, ProgressIsStep
<1>3. Stays
  BY <1>1, <1>2 DEF Stays, Kept, history
<1>4. HistoryFits'
  BY <1>3, HistoryStays
<1> QED
  BY <1>1, <1>2, <1>4 DEF StepFits, history, SetupIsSound, PlacesFit

(* The same question again, with rows added or filled. *)
LEMMA SameQuestionFits ==
  ASSUME SetupIsSound, UNCHANGED <<stage, scratch, summarised, asked>>,
         touched \subseteq touched', touched' \subseteq Sections,
         \A t \in Sections \ touched' : StepOfSection[t] > Progress => (Holds(t)' <=> Holds(t))
  PROVE  StepFits
<1>1. Open' = Open /\ Progress' = Progress
  BY DEF Open, Progress
<1>2. Progress \in Int
  BY ProgressIsStep
<1>3. HistoryFits'
  BY <1>1, HistoryStays DEF Stays
<1>4. ScratchFits'
  BY <1>1 DEF SetupIsSound, ScratchFits, Serves
<1> QED
  BY <1>1, <1>2, <1>3, <1>4 DEF StepFits, SetupIsSound, PlacesFit

(* Leaving a section for a later one. *)
LEMMA LeavingFits ==
  ASSUME SetupIsSound, stage \in InSetup, UNCHANGED <<summarised, touched>>,
         NEW n \in Nat, n = Progress + 1, Arrives(n)
  PROVE  StepFits
<1>1. Progress \in Nat /\ Progress' \in Nat
  <2>1. InPlace'
    BY PlaceNext DEF Arrives
  <2> QED
    BY <2>1, ProgressIsStep, NotInSetup DEF InPlace, Arrives
<1>2. ~ (Progress' < Progress)
  BY <1>1 DEF Arrives
<1> QED
  BY <1>2 DEF StepFits, Arrives, SetupIsSound, PlacesFit

(* What the section that is left has come to. *)
LEMMA ReadyToLeave ==
  ASSUME SetupIsSound, stage \in InSetup, UNCHANGED <<summarised, touched>>, Kept(Progress),
         stage[1] # "business" \/ stage = ImportAsk
  PROVE  Leaves(Progress + 1) /\ Ready(Progress + 1)
<1>1. Progress = StepOfSection[stage[1]] /\ Progress \in 1 .. 8 /\ Open = stage
  BY ProgressIsStep, Place DEF InPlace, SetupIsSound
<1>2. Progress = 1 => stage[1] = "business"
  <2>1. stage[1] \in DOMAIN StepOfSection /\ "business" \in DOMAIN StepOfSection
    BY NotInSetup, StepsDiffer
  <2>2. StepOfSection["business"] = 1
    BY Steps
  <2> QED
    BY <1>1, <2>1, <2>2, StepsDiffer
<1>3. Summarised
  BY <1>1, <1>2 DEF Summarised
<1>4. Progress + 1 - 1 = Progress
  BY <1>1
<1> QED
  BY <1>1, <1>3, <1>4, SectionIsDone DEF Leaves

(* _after_gst: before the summary nothing was asked, and after it everything *)
(* ahead is as it counted.                                                   *)
LEMMA AfterGstFits ==
  ASSUME SetupIsSound, stage \in InSetup, stage[1] = "business",
         NEW s, Plain(s), AfterGst(s), \A t \in Sections : Holds(t)' <=> Holds(t)
  PROVE  StepFits
<1>1. Progress = 1
  BY ProgressIsStep, Steps
<1>2. asked = {} /\ summarised' = Seeded /\ touched' = {} /\ Seeded \subseteq Sections
  BY <1>1 DEF SetupIsSound, HistoryFits, AfterGst, Seeded
<1>3. \A t \in Sections : Holds(t)' <=> t \in summarised'
  BY <1>2 DEF Seeded
<1>4. \A t \in Sections : StepOfSection[t] \in 2 .. 8 /\ (StepOfSection[t] <= 2 => t = "product")
  BY Steps
<1>5. CASE Seeded = {}
  <2>1. Opens("product", s)
    BY <1>5 DEF AfterGst
  <2>2. To(<<"product", "mode">>, s) /\ asked' = {"product"}
    BY <1>2, <2>1 DEF Opens, Kinds
  <2>3. <<"product", "mode">> \in InSetup /\ Gathered(<<"product", "mode">>) = {}
    BY SetupQuestions, GatheredAt DEF ProductSteps
  <2>4. ScratchFits' /\ stage' \in Stages /\ Progress' = 2
    BY <2>2, <2>3, ToFits, Steps
  <2>5. \A t \in Sections : /\ StepOfSection[t] <= 2 => Acted(t)'
                            /\ StepOfSection[t] > 2 => Ahead(t)'
    BY <1>2, <1>3, <1>4, <1>5, <2>2, Steps DEF Acted, Ahead
  <2>6. HistoryFits'
    BY <2>4, <2>5 DEF HistoryFits
  <2> QED
    BY <1>1, <1>2, <2>2, <2>4, <2>6, Steps DEF StepFits
<1>6. CASE Seeded # {}
  <2>1. To(ImportAsk, s) /\ asked' = {}
    BY <1>2, <1>6 DEF AfterGst, Passes, ImportAsk
  <2>2. ImportAsk \in InSetup /\ Gathered(ImportAsk) = {}
    BY SetupQuestions, GatheredAt DEF ImportAsk
  <2>3. ScratchFits' /\ stage' \in Stages /\ Progress' = 1
    BY <2>1, <2>2, ToFits, Steps DEF ImportAsk
  <2>4. \A t \in Sections : StepOfSection[t] > 1 /\ ~ (StepOfSection[t] <= 1) /\ Ahead(t)'
    BY <1>3, <1>4, <2>1 DEF Ahead
  <2>5. HistoryFits'
    BY <2>1, <2>3, <2>4 DEF HistoryFits
  <2> QED
    BY <1>1, <1>2, <2>1, <2>3, <2>5 DEF StepFits
<1> QED
  BY <1>5, <1>6

(* Steps outside the setup: nothing is summarised or asked there. *)
LEMMA OutsideFits ==
  ASSUME SetupIsSound, UNCHANGED history, ScratchFits', stage' \in Stages, Open' # ImportAsk,
         Progress' \in {0, 1, 9}, Progress' >= Progress, Progress' = 9 \/ Progress <= 1
  PROVE  StepFits
<1>1. Progress \in Nat
  BY ProgressIsStep
<1>2. ~ Summarised'
  BY DEF Summarised
<1>3. Progress' <= 1 => asked' = {}
  BY <1>1 DEF SetupIsSound, HistoryFits, history
<1>4. HistoryFits'
  BY <1>2, <1>3 DEF HistoryFits
<1> QED
  BY <1>1, <1>4 DEF StepFits, SetupIsSound, PlacesFit, history

(* A section holds what rows and bills say. *)
LEMMA HoldsByRows ==
  /\ UNCHANGED books => \A s \in Sections : Holds(s)' <=> Holds(s)
  /\ \A k \in Kinds : rows'[k] = rows[k] => (Holds(k)' <=> Holds(k))
  /\ \A d \in Directions : bills'[d] = bills[d] => (Holds(d)' <=> Holds(d))
<1>1. \A d \in Directions : d \notin Kinds
  BY Steps
<1>2. \A k \in Kinds : rows'[k] = rows[k] => Existing(k)' = Existing(k)
  BY DEF Existing
<1>3. UNCHANGED books => \A k : Existing(k)' = Existing(k)
  BY DEF Existing, books
<1>4. \A k \in Kinds : rows'[k] = rows[k] => (Holds(k)' <=> Holds(k))
  BY <1>2 DEF Holds
<1>5. \A d \in Directions : bills'[d] = bills[d] => (Holds(d)' <=> Holds(d))
  BY <1>1 DEF Holds
<1>6. UNCHANGED books => \A s \in Sections : Holds(s)' <=> Holds(s)
  BY <1>4, <1>5 DEF Sections, books
<1> QED
  BY <1>4, <1>5, <1>6

(* An answer that leads to another question of the section. *)
LEMMA GoesFits ==
  ASSUME SetupIsSound, NEW t, NEW a, NEW b, <<t, a>> \in InSetup, <<t, b>> \in InSetup,
         b # "import_confirm", Answers(<<t, a>>), NEW s, Goes(<<t, b>>, s),
         Plain(s), Gathered(<<t, b>>) \subseteq s.keys
  PROVE  StepFits
<1> DEFINE q == <<t, b>>
<1>1. stage = <<t, a>> /\ stage[1] = t
  BY DEF Answers
<1>2. To(q, s) /\ UNCHANGED history /\ UNCHANGED books
  BY DEF Goes, Others, Unasked
<1>3. Kept(Progress)
  BY <1>2, HoldsByRows DEF Kept
<1>4. q[1] = t /\ q # ImportAsk
  BY DEF ImportAsk
<1>5. stage \in InSetup
  BY <1>1
<1>6. q \in InSetup /\ Gathered(q) \subseteq s.keys
  OBVIOUS
<1> HIDE DEF q
<1> QED
  BY <1>1, <1>2, <1>3, <1>4, <1>5, <1>6, NextQuestionFits

(* One that leaves the scratch as it is, and one that adds to it. *)
LEMMA GoesOnFits ==
  ASSUME SetupIsSound, NEW t, NEW a, NEW b, <<t, a>> \in InSetup, <<t, b>> \in InSetup,
         b # "import_confirm", Answers(<<t, a>>)
  PROVE  /\ Goes(<<t, b>>, scratch) /\ Gathered(<<t, b>>) \subseteq Gathered(<<t, a>>) => StepFits
         /\ \A key \in Keys \ {"relanguage", "fill_id"} :
               Goes(<<t, b>>, Adding(key)) /\ Gathered(<<t, b>>) \subseteq Gathered(<<t, a>>) \cup {key}
                 => StepFits
         /\ Goes(<<t, b>>, Blank) /\ Gathered(<<t, b>>) = {} => StepFits
<1>1. stage = <<t, a>> /\ stage \in InSetup /\ ScratchFits
  BY DEF Answers, SetupIsSound
<1>2. Plain(scratch) /\ Gathered(<<t, a>>) \subseteq scratch.keys
  BY <1>1, ScratchIsPlain
<1>3. ASSUME NEW key \in Keys \ {"relanguage", "fill_id"}
      PROVE  Plain(Adding(key)) /\ Gathered(<<t, a>>) \cup {key} \subseteq Adding(key).keys
  BY <1>1, AddingIsPlain
<1>4. Goes(<<t, b>>, scratch) /\ Gathered(<<t, b>>) \subseteq Gathered(<<t, a>>) => StepFits
  BY <1>2, GoesFits
<1>5. ASSUME NEW key \in Keys \ {"relanguage", "fill_id"}, Goes(<<t, b>>, Adding(key)),
             Gathered(<<t, b>>) \subseteq Gathered(<<t, a>>) \cup {key}
      PROVE  StepFits
  <2>1. Plain(Adding(key)) /\ Gathered(<<t, b>>) \subseteq Adding(key).keys
    BY <1>3, <1>5
  <2> QED
    BY <1>5, <2>1, GoesFits
<1>6. Goes(<<t, b>>, Blank) /\ Gathered(<<t, b>>) = {} => StepFits
  BY BlankIsPlain, GoesFits
<1> QED
  BY <1>4, <1>5, <1>6

(* A question answered with a row of its section, and asked from the start. *)
LEMMA RowAddedFits ==
  ASSUME SetupIsSound, NEW t \in Sections, NEW a, NEW b, <<t, a>> \in InSetup, <<t, b>> \in InSetup,
         Answers(<<t, a>>), To(<<t, b>>, Blank), Gathered(<<t, b>>) = {}, UNCHANGED history,
         \A s \in Sections : StepOfSection[s] > StepOfSection[t] => (Holds(s)' <=> Holds(s))
  PROVE  StepFits
<1> DEFINE q == <<t, b>>
<1>1. stage = <<t, a>> /\ stage[1] = t /\ stage \in InSetup
  BY DEF Answers
<1>2. Progress = StepOfSection[t]
  BY <1>1, ProgressIsStep
<1>3. Kept(Progress)
  BY <1>2 DEF Kept
<1>4. q[1] = t /\ q # ImportAsk /\ q \in InSetup
  BY Steps DEF ImportAsk
<1>5. To(q, Blank) /\ Plain(Blank) /\ Gathered(q) \subseteq Blank.keys
  BY BlankIsPlain
<1> HIDE DEF q
<1> QED
  BY <1>1, <1>3, <1>4, <1>5, NextQuestionFits

(* Rows of a kind change what sections of other kinds hold in no way. *)
LEMMA RowsOfKind ==
  ASSUME RowsFit, NEW k \in Kinds, NEW f, rows' = [rows EXCEPT ![k] = f]
  PROVE  /\ \A j \in Kinds : j # k => rows'[j] = rows[j]
         /\ rows'[k] = f
         /\ DOMAIN rows' = Kinds
BY DEF RowsFit

(* One product at a time. *)
LEMMA ProductLoopFits == ASSUME SetupIsSound, ProductLoop PROVE StepFits
<1> DEFINE P(s) == <<"product", s>>
<1>1. \A s \in ProductSteps : P(s) \in InSetup
  BY SetupQuestions
<1>2. {"name", "quantity", "unit", "price", "purchase_price", "gst_rate"} \subseteq ProductSteps
  BY DEF ProductSteps
<1>3. /\ Gathered(P("name")) = {} /\ Gathered(P("quantity")) = {"name"}
      /\ Gathered(P("unit")) = {"name", "quantity"}
      /\ Gathered(P("price")) = {"name", "quantity", "unit"}
      /\ Gathered(P("purchase_price")) = {"name", "quantity", "unit", "price"}
      /\ Gathered(P("gst_rate")) = {"name", "quantity", "unit", "price", "purchase_price"}
  BY GatheredAt
<1>4. {"name", "quantity", "unit", "price", "purchase_price"} \subseteq Keys \ {"relanguage", "fill_id"}
  BY DEF Keys
<1>5. CASE Answers(P("name")) /\ Goes(P("quantity"), Holding({"name"}))
  <2>1. Plain(Holding({"name"})) /\ Holding({"name"}).keys = {"name"}
    BY <1>4, HoldingIsPlain
  <2>2. P("name") \in InSetup /\ P("quantity") \in InSetup
    BY <1>1, <1>2
  <2> QED
    BY <1>3, <1>5, <2>1, <2>2, GoesFits
<1>6. CASE Answers(P("quantity")) /\ Goes(P("unit"), Adding("quantity"))
  BY <1>1, <1>2, <1>3, <1>4, <1>6, GoesOnFits
<1>7. CASE Answers(P("unit")) /\ Goes(P("price"), Adding("unit"))
  BY <1>1, <1>2, <1>3, <1>4, <1>7, GoesOnFits
<1>8. CASE Answers(P("price")) /\ Goes(P("purchase_price"), Adding("price"))
  BY <1>1, <1>2, <1>3, <1>4, <1>8, GoesOnFits
<1>9. CASE Answers(P("purchase_price")) /\ Goes(P("gst_rate"), Adding("purchase_price"))
  BY <1>1, <1>2, <1>3, <1>4, <1>9, GoesOnFits
<1>10. ASSUME NEW q \in {"purchase_price", "gst_rate"}, NEW Q, ProductAdded(q, Q)
       PROVE  StepFits
  <2>1. PICK r, v : rows' = [rows EXCEPT !["product"][r] = v]
    BY <1>10 DEF ProductAdded, NewRow
  <2>2. rows' = [rows EXCEPT !["product"] = [rows["product"] EXCEPT ![r] = v]]
    BY <2>1
  <2>3. "product" \in Kinds /\ RowsFit
    BY DEF Kinds, SetupIsSound
  <2>4. \A j \in Kinds : j # "product" => rows'[j] = rows[j]
    BY <2>2, <2>3, RowsOfKind
  <2>5. bills' = bills /\ UNCHANGED history /\ Answers(P(q)) /\ To(P("name"), Blank)
    BY <1>10 DEF ProductAdded
  <2>6. \A s \in Sections : s # "product" => (Holds(s)' <=> Holds(s))
    BY <2>4, <2>5, HoldsByRows DEF Sections
  <2>7. P(q) \in InSetup /\ P("name") \in InSetup /\ "product" \in Sections
    BY <1>1, <1>2, Steps
  <2>8. \A s \in Sections : StepOfSection[s] > StepOfSection["product"] => s # "product"
    BY Steps
  <2> QED
    BY <1>3, <2>5, <2>6, <2>7, <2>8, RowAddedFits
<1> QED
  BY <1>5, <1>6, <1>7, <1>8, <1>9, <1>10 DEF ProductLoop

(* Leaving a section of rows, with rows of its own kind changed or not. *)
LEMMA SectionLeft ==
  ASSUME SetupIsSound, NEW k \in Kinds, NEW a, <<k, a>> \in InSetup, Answers(<<k, a>>),
         NEW s, Plain(s), IF k = "product" THEN AfterProducts(s) ELSE After(k, s),
         UNCHANGED <<bills, summarised, touched>>, \A j \in Kinds : j # k => rows'[j] = rows[j]
  PROVE  StepFits
<1>1. stage = <<k, a>> /\ stage[1] = k /\ stage \in InSetup
  BY DEF Answers
<1>2. Progress = StepOfSection[k] /\ k \in Sections
  BY <1>1, ProgressIsStep DEF Sections
<1>3. Kept(Progress)
  <2>1. \A t \in Sections : t # k => (Holds(t)' <=> Holds(t))
    BY HoldsByRows DEF Sections
  <2>2. \A t \in Sections : StepOfSection[t] > StepOfSection[k] => t # k
    BY Steps
  <2> QED
    BY <1>2, <2>1, <2>2 DEF Kept
<1>4. Leaves(Progress + 1) /\ Ready(Progress + 1)
  BY <1>1, <1>3, ReadyToLeave, Steps
<1>5. CASE k = "product"
  <2>1. Progress + 1 = 3
    BY <1>2, <1>5, Steps
  <2>2. Arrives(3)
    BY <1>4, <1>5, <2>1, AfterProductsArrives
  <2> QED
    BY <1>1, <2>1, <2>2, LeavingFits
<1>6. CASE k = "dealer"
  <2>1. Progress + 1 = 4
    BY <1>2, <1>6, Steps
  <2>2. Arrives(4)
    BY <1>4, <1>6, <2>1, AfterDealersArrives DEF After
  <2> QED
    BY <1>1, <2>1, <2>2, LeavingFits
<1>7. CASE k = "supplier"
  <2>1. Progress + 1 = 5
    BY <1>2, <1>7, Steps
  <2>2. Arrives(5)
    BY <1>4, <1>7, <2>1, AfterSuppliersArrives DEF After
  <2> QED
    BY <1>1, <2>1, <2>2, LeavingFits
<1> QED
  BY <1>5, <1>6, <1>7, Steps

(* "done", and the answers that put a section off. *)
LEMMA LeaveSectionFits ==
  ASSUME SetupIsSound, NEW k \in Kinds, NEW a, <<k, a>> \in InSetup, Answers(<<k, a>>),
         NEW s, Plain(s), LeaveSection(k, s)
  PROVE  StepFits
<1>1. /\ IF k = "product" THEN AfterProducts(s) ELSE After(k, s)
      /\ UNCHANGED <<bills, summarised, touched>> /\ rows' = rows
  BY DEF LeaveSection, Others, books
<1> QED
  BY <1>1, SectionLeft

(* Rows that arrive change their own kind only. *)
LEMMA ArriveIsOfKind ==
  ASSUME RowsFit, NEW k \in Kinds, NEW R, NEW quality, rows' = Arrive(k, R, quality)
  PROVE  \A j \in Kinds : j # k => rows'[j] = rows[j]
BY DEF Arrive, RowsFit

(* The entry mode, the pasted list and "done". *)
LEMMA EntryModeFits == ASSUME SetupIsSound, NEW k \in Kinds, EntryMode(k) PROVE StepFits
<1>1. \A s \in {"mode", "bulk", "name"} : <<k, s>> \in InSetup /\ Gathered(<<k, s>>) = {}
  BY SetupQuestions, GatheredAt DEF Kinds, PartyKinds, ProductSteps, LoopSteps
<1>2. CASE Answers(<<k, "mode">>) /\ Goes(<<k, "bulk">>, scratch)
  BY <1>1, <1>2, GoesOnFits
<1>3. CASE Answers(<<k, "mode">>) /\ Goes(<<k, "name">>, scratch)
  BY <1>1, <1>3, GoesOnFits
<1>4. ASSUME NEW a \in {"mode", "bulk", "name"}, Answers(<<k, a>>), LeaveSection(k, scratch)
      PROVE  StepFits
  <2>1. stage \in InSetup /\ ScratchFits
    BY <1>1, <1>4 DEF Answers, SetupIsSound
  <2>2. Plain(scratch)
    BY <2>1, ScratchIsPlain
  <2> QED
    BY <1>1, <1>4, <2>2, LeaveSectionFits
<1>5. CASE /\ Answers(<<k, "bulk">>) /\ ParseBulkLines(k)
           /\ UNCHANGED <<company, bills, web, edits, history>>
  <2>1. stage = <<k, "bulk">> /\ stage[1] = k /\ stage \in InSetup
    BY <1>1, <1>5 DEF Answers
  <2>2. Progress = StepOfSection[k] /\ RowsFit
    BY <2>1, ProgressIsStep DEF SetupIsSound
  <2>3. \A j \in Kinds : j # k => rows'[j] = rows[j]
    BY <1>5, <2>2, ArriveIsOfKind DEF ParseBulkLines
  <2>4. \A t \in Sections : t # k => (Holds(t)' <=> Holds(t))
    BY <1>5, <2>3, HoldsByRows DEF Sections
  <2>5. \A t \in Sections : StepOfSection[t] > StepOfSection[k] => t # k
    BY Steps
  <2>6. UNCHANGED <<stage, scratch, summarised, asked, touched>> /\ touched \subseteq Sections
    BY <1>5 DEF company, history, SetupIsSound, PlacesFit
  <2> QED
    BY <2>2, <2>4, <2>5, <2>6, SameQuestionFits
<1> QED
  BY <1>2, <1>3, <1>4, <1>5 DEF EntryMode

(* One dealer or supplier at a time. *)
LEMMA PartyLoopFits == ASSUME SetupIsSound, NEW k \in PartyKinds, PartyLoop(k) PROVE StepFits
<1>1. \A s \in {"name", "phone", "credit"} : <<k, s>> \in InSetup
  BY SetupQuestions DEF LoopSteps
<1>2. /\ Gathered(<<k, "name">>) = {} /\ Gathered(<<k, "phone">>) = {"name"}
      /\ Gathered(<<k, "credit">>) = {"name"}
  BY GatheredAt
<1>3. {"name", "phone"} \subseteq Keys \ {"relanguage", "fill_id"} /\ k \in Kinds
  BY DEF Keys, PartyKinds, Kinds
<1>4. CASE Answers(<<k, "name">>) /\ Goes(<<k, "phone">>, Holding({"name"}))
  <2>1. Plain(Holding({"name"})) /\ Holding({"name"}).keys = {"name"}
    BY <1>3, HoldingIsPlain
  <2> QED
    BY <1>1, <1>2, <1>4, <2>1, GoesFits
<1>5. CASE Answers(<<k, "phone">>) /\ Goes(<<k, "credit">>, scratch)
  BY <1>1, <1>2, <1>5, GoesOnFits
<1>6. CASE Answers(<<k, "phone">>) /\ Goes(<<k, "credit">>, Adding("phone"))
  BY <1>1, <1>2, <1>3, <1>6, GoesOnFits
<1>7. ASSUME NEW Q, Answers(<<k, "credit">>), NewRow(k, Q), To(<<k, "name">>, Blank),
             UNCHANGED <<bills, varies, web, edits, history>>
      PROVE  StepFits
  <2>1. PICK r, v : rows' = [rows EXCEPT ![k][r] = v]
    BY <1>7 DEF NewRow
  <2>2. rows' = [rows EXCEPT ![k] = [rows[k] EXCEPT ![r] = v]] /\ RowsFit
    BY <2>1 DEF SetupIsSound
  <2>3. \A j \in Kinds : j # k => rows'[j] = rows[j]
    BY <1>3, <2>2, RowsOfKind
  <2>4. \A s \in Sections : s # k => (Holds(s)' <=> Holds(s))
    BY <1>7, <2>3, HoldsByRows DEF Sections
  <2>5. \A s \in Sections : StepOfSection[s] > StepOfSection[k] => s # k
    BY Steps
  <2>6. k \in Sections
    BY <1>3 DEF Sections
  <2> QED
    BY <1>1, <1>2, <1>7, <2>4, <2>5, <2>6, RowAddedFits
<1> QED
  BY <1>4, <1>5, <1>6, <1>7 DEF PartyLoop

(* The scratch with the row that is filled next. *)
LEMMA FillingIs ==
  ASSUME NEW K, NEW queue, NEW row
  PROVE  [Holding(K) EXCEPT !.queue = queue, !.about = row]
           = [keys |-> K, queue |-> queue, about |-> row, back |-> Unregistered]
<1> DEFINE h == Holding(K)
           g == [h EXCEPT !.queue = queue]
<1>1. h = [keys |-> K, queue |-> <<>>, about |-> Nobody, back |-> Unregistered]
  BY HoldingIs
<1>2. [h EXCEPT !.queue = queue, !.about = row] = [g EXCEPT !.about = row]
  OBVIOUS
<1> HIDE DEF h
<1>3. g = [keys |-> K, queue |-> queue, about |-> Nobody, back |-> Unregistered]
  BY <1>1
<1> HIDE DEF g
<1>4. [g EXCEPT !.about = row]
        = [keys |-> K, queue |-> queue, about |-> row, back |-> Unregistered]
  BY <1>3
<1> QED
  BY <1>2, <1>4 DEF h

(* _advance_missing_one_by_one: the row that is filled next is no longer in  *)
(* the queue.                                                                *)
LEMMA AdvanceFits ==
  ASSUME SetupIsSound, NEW k \in PartyKinds, NEW a, <<k, a>> \in InSetup, Answers(<<k, a>>),
         Advance(k, scratch.queue), UNCHANGED <<bills, summarised, touched>>,
         \A j \in Kinds : j # k => rows'[j] = rows[j]
  PROVE  StepFits
<1> DEFINE left == PartiesByIds(k, scratch.queue)
           next == [Holding({"missing_queue", "fill_id"}) EXCEPT !.queue = Tail(left),
                                                                 !.about = Head(left)]
           q == <<k, "missing_phone">>
<1>1. stage = <<k, a>> /\ stage[1] = k /\ stage \in InSetup /\ k \in Kinds
  BY DEF Answers, PartyKinds, Kinds
<1>2. scratch \in Scratch /\ IsInjective(scratch.queue)
  BY <1>1, ScratchIsPlain DEF SetupIsSound, Plain
<1>3. scratch.queue \in Seq(AllRows)
  BY <1>2 DEF Scratch
<1>4. left \in Seq(AllRows) /\ IsInjective(left)
  BY <1>2, <1>3, KeptIsQueue DEF PartiesByIds
<1>5. CASE left = <<>>
  <2>1. After(k, Blank) /\ k # "product"
    BY <1>5 DEF Advance, After, PartyKinds
  <2> QED
    BY <1>1, <2>1, BlankIsPlain, SectionLeft
<1>6. CASE left # <<>>
  <2>1. /\ Tail(left) \in Seq(AllRows) /\ Head(left) \in AllRows
        /\ IsInjective(Tail(left)) /\ Head(left) \notin ToSet(Tail(left))
    <3>1. /\ Len(left) \in Nat /\ Len(left) >= 1 /\ DOMAIN left = 1 .. Len(left)
          /\ Tail(left) \in Seq(AllRows) /\ Head(left) = left[1] /\ Head(left) \in AllRows
          /\ DOMAIN Tail(left) = 1 .. Len(left) - 1
          /\ \A i \in 1 .. Len(left) - 1 : Tail(left)[i] = left[i + 1]
      BY <1>4, <1>6
    <3>2. \A i \in 1 .. Len(left) - 1 : i + 1 \in 1 .. Len(left) /\ i + 1 # 1 /\ 1 \in 1 .. Len(left)
      BY <3>1
    <3>3. IsInjective(Tail(left))
      BY <1>4, <3>1, <3>2 DEF IsInjective
    <3>4. Head(left) \notin ToSet(Tail(left))
      BY <1>4, <3>1, <3>2 DEF IsInjective, ToSet
    <3> QED
      BY <3>1, <3>3, <3>4
  <2> HIDE DEF left
  <2> DEFINE K == {"missing_queue", "fill_id"}
  <2>2. K \in SUBSET Keys /\ "relanguage" \notin K
    BY DEF Keys
  <2> HIDE DEF K
  <2>3. [Holding(K) EXCEPT !.queue = Tail(left), !.about = Head(left)]
          = [keys |-> K, queue |-> Tail(left), about |-> Head(left), back |-> Unregistered]
    BY FillingIs
  <2>4. Plain(next) /\ next.keys = {"missing_queue", "fill_id"}
    <3>1. next = [keys |-> K, queue |-> Tail(left), about |-> Head(left), back |-> Unregistered]
      BY <2>3 DEF K
    <3>2. next \in Scratch
      BY <2>1, <2>2, <3>1 DEF Scratch
    <3> HIDE DEF next
    <3> QED
      BY <2>1, <2>2, <3>1, <3>2 DEF Plain, K
  <2>5. q \in InSetup /\ Gathered(q) = {"missing_queue", "fill_id"} /\ q[1] = k /\ q # ImportAsk
    BY SetupQuestions, GatheredAt DEF MissingSteps, ImportAsk
  <2>6. To(q, next) /\ UNCHANGED history
    BY <1>6 DEF left, Advance, Passes, history
  <2>7. Kept(Progress)
    <3>1. \A t \in Sections : t # k => (Holds(t)' <=> Holds(t))
      BY HoldsByRows DEF Sections
    <3>2. \A t \in Sections : StepOfSection[t] > StepOfSection[k] => t # k
      BY Steps
    <3>3. Progress = StepOfSection[k]
      BY <1>1, ProgressIsStep
    <3> QED
      BY <3>1, <3>2, <3>3 DEF Kept
  <2> HIDE DEF next, q
  <2> QED
    BY <1>1, <2>4, <2>5, <2>6, <2>7, NextQuestionFits
<1> QED
  BY <1>5, <1>6

(* The backfill of imported parties. *)
LEMMA MissingFlowFits == ASSUME SetupIsSound, NEW k \in PartyKinds, MissingFlow(k) PROVE StepFits
<1>1. /\ \A s \in MissingSteps : <<k, s>> \in InSetup
      /\ k \in Kinds /\ k # "product"
  BY SetupQuestions DEF PartyKinds, Kinds
<1>2. /\ \A s \in {"missing_ask", "missing_mode", "missing_bulk"} : Gathered(<<k, s>>) = {"missing_ids"}
      /\ \A s \in {"missing_phone", "missing_credit"} : Gathered(<<k, s>>) = {"fill_id", "missing_queue"}
  BY GatheredAt
<1>3. MissingSteps = {"missing_ask", "missing_mode", "missing_bulk", "missing_phone", "missing_credit"}
  BY DEF MissingSteps
<1>4. "fill_phone" \in Keys \ {"relanguage", "fill_id"}
  BY DEF Keys
<1>5. CASE Answers(<<k, "missing_ask">>) /\ Goes(<<k, "missing_mode">>, scratch)
  BY <1>1, <1>2, <1>3, <1>5, GoesOnFits
<1>6. ASSUME NEW a \in {"missing_ask", "missing_mode"}, Answers(<<k, a>>), LeaveSection(k, Blank)
      PROVE  StepFits
  <2>1. <<k, a>> \in InSetup
    BY <1>1, <1>3
  <2> QED
    BY <1>1, <1>6, <2>1, BlankIsPlain, LeaveSectionFits
<1>7. CASE Answers(<<k, "missing_mode">>) /\ Goes(<<k, "missing_bulk">>, scratch)
  BY <1>1, <1>2, <1>3, <1>7, GoesOnFits
<1>8. CASE /\ Answers(<<k, "missing_mode">>) /\ UNCHANGED rows /\ Advance(k, scratch.queue)
           /\ UNCHANGED <<bills, web, edits, varies, summarised, touched>>
  BY <1>1, <1>3, <1>8, AdvanceFits
<1>9. CASE /\ Answers(<<k, "missing_bulk">>) /\ ApplyMissingBulkLines(k) /\ After(k, Blank)
           /\ UNCHANGED <<bills, web, edits, varies, summarised, touched>>
  <2>1. PICK f : rows' = [rows EXCEPT ![k] = f]
    BY <1>9 DEF ApplyMissingBulkLines
  <2>2. \A j \in Kinds : j # k => rows'[j] = rows[j]
    BY <1>1, <2>1, RowsOfKind DEF SetupIsSound
  <2>3. <<k, "missing_bulk">> \in InSetup
    BY <1>1, <1>3
  <2> QED
    BY <1>1, <1>9, <2>2, <2>3, BlankIsPlain, SectionLeft
<1>10. CASE Answers(<<k, "missing_phone">>) /\ Goes(<<k, "missing_credit">>, scratch)
  BY <1>1, <1>2, <1>3, <1>10, GoesOnFits
<1>11. CASE Answers(<<k, "missing_phone">>) /\ Goes(<<k, "missing_credit">>, Adding("fill_phone"))
  BY <1>1, <1>2, <1>3, <1>4, <1>11, GoesOnFits
<1>12. CASE /\ Answers(<<k, "missing_credit">>)
            /\ \/ UNCHANGED rows
               \/ rows[k][scratch.about] = "bare" /\ rows' = [rows EXCEPT ![k][scratch.about] = "full"]
            /\ Advance(k, scratch.queue)
            /\ UNCHANGED <<bills, web, edits, varies, summarised, touched>>
  <2>1. \A j \in Kinds : j # k => rows'[j] = rows[j]
    <3>1. CASE UNCHANGED rows
      BY <3>1
    <3>2. CASE rows' = [rows EXCEPT ![k][scratch.about] = "full"]
      <4>1. rows' = [rows EXCEPT ![k] = [rows[k] EXCEPT ![scratch.about] = "full"]]
        BY <3>2
      <4> QED
        BY <1>1, <4>1, RowsOfKind DEF SetupIsSound
    <3> QED
      BY <1>12, <3>1, <3>2
  <2>2. <<k, "missing_credit">> \in InSetup
    BY <1>1, <1>3
  <2> QED
    BY <1>12, <2>1, <2>2, AdvanceFits
<1> QED
  BY <1>5, <1>6, <1>7, <1>8, <1>9, <1>10, <1>11, <1>12 DEF MissingFlow

(* The opening balance is passed, whatever was answered. *)
LEMMA OpeningBalanceFits == ASSUME SetupIsSound, OpeningBalance PROVE StepFits
<1>1. stage = <<"opening", "balance">> /\ stage[1] = "opening"
  BY DEF OpeningBalance, Answers
<1>2. stage \in InSetup /\ ScratchFits
  BY <1>1, SetupQuestions DEF SetupIsSound
<1>3. UNCHANGED books /\ UNCHANGED <<summarised, touched>> /\ AfterOpeningBalance(scratch)
  BY DEF OpeningBalance, Others
<1>4. Kept(Progress)
  BY <1>3, HoldsByRows DEF Kept
<1>5. Leaves(Progress + 1) /\ Ready(Progress + 1)
  BY <1>1, <1>2, <1>3, <1>4, ReadyToLeave
<1>6. Progress + 1 = 6
  BY <1>1, <1>2, ProgressIsStep, Steps
<1>7. Plain(scratch)
  BY <1>2, ScratchIsPlain
<1>8. Arrives(6)
  BY <1>3, <1>5, <1>6, <1>7, AfterOpeningBalanceArrives
<1> QED
  BY <1>2, <1>3, <1>6, <1>8, LeavingFits

(* Opening bills, one at a time. *)
LEMMA BillLoopFits == ASSUME SetupIsSound, NEW d \in Directions, BillLoop(d) PROVE StepFits
<1> DEFINE k == PartyOf[d]
<1>1. /\ \A s \in {"ask", "party", "new_party", "amount", "date"} : <<d, s>> \in InSetup
      /\ d \in Sections
  BY SetupQuestions DEF BillSteps, Sections
<1>2. /\ Gathered(<<d, "ask">>) = {} /\ Gathered(<<d, "party">>) = {}
      /\ Gathered(<<d, "new_party">>) = {"party"} /\ Gathered(<<d, "amount">>) = {"party"}
      /\ Gathered(<<d, "date">>) = {"party", "amount"}
  BY GatheredAt
<1>3. {"party", "amount"} \subseteq Keys \ {"relanguage", "fill_id"} /\ k \in Kinds
  BY DEF Keys, PartyOf, Directions, Kinds
<1>4. CASE /\ Answers(<<d, "ask">>)
           /\ IF d = "receivable" THEN AfterReceivables(scratch)
                                  ELSE Passes(<<"briefing", "hour">>, scratch)
           /\ Others /\ UNCHANGED <<varies, summarised, touched>>
  <2>1. stage = <<d, "ask">> /\ stage[1] = d /\ stage \in InSetup /\ ScratchFits
    BY <1>1, <1>4 DEF Answers, SetupIsSound
  <2>2. UNCHANGED books /\ UNCHANGED <<summarised, touched>> /\ Plain(scratch)
    BY <1>4, <2>1, ScratchIsPlain DEF Others
  <2>3. Kept(Progress) /\ d # "business"
    BY <2>2, HoldsByRows DEF Kept, Directions
  <2>4. Leaves(Progress + 1) /\ Ready(Progress + 1)
    BY <2>1, <2>2, <2>3, ReadyToLeave
  <2>5. Progress = StepOfSection[d]
    BY <2>1, ProgressIsStep
  <2>6. CASE d = "receivable"
    <3>1. Progress + 1 = 7
      BY <2>5, <2>6, Steps
    <3>2. Arrives(7)
      BY <1>4, <2>2, <2>4, <2>6, <3>1, AfterReceivablesArrives
    <3> QED
      BY <2>1, <2>2, <3>1, <3>2, LeavingFits
  <2>7. CASE d = "payable"
    <3>1. Progress + 1 = 8
      BY <2>5, <2>7, Steps
    <3>2. Arrives(8)
      BY <1>4, <2>2, <2>4, <2>7, <3>1, BriefingArrives
    <3> QED
      BY <2>1, <2>2, <3>1, <3>2, LeavingFits
  <2> QED
    BY <2>6, <2>7, Steps
<1>5. CASE Answers(<<d, "ask">>) /\ Goes(<<d, "party">>, scratch)
  BY <1>1, <1>2, <1>5, GoesOnFits
<1>6. ASSUME NEW r \in Rows[k], Answers(<<d, "party">>),
             Goes(IF rows[k][r] = "none" THEN <<d, "new_party">> ELSE <<d, "amount">>,
                  [Holding({"party"}) EXCEPT !.about = r])
      PROVE  StepFits
  <2> DEFINE K == {"party"}
             next == [Holding(K) EXCEPT !.about = r]
  <2>1. K \in SUBSET Keys /\ "relanguage" \notin K /\ "fill_id" \notin K
    BY <1>3
  <2>2. r \in AllRows
    BY <1>3, <1>6 DEF AllRows
  <2>3. PICK b \in {"new_party", "amount"} : Goes(<<d, b>>, next)
    BY <1>6
  <2>4. <<d, b>> \in InSetup /\ <<d, "party">> \in InSetup /\ b # "import_confirm"
        /\ Gathered(<<d, b>>) = K
    BY <1>1, <1>2
  <2> HIDE DEF K
  <2>5. next = [keys |-> K, queue |-> <<>>, about |-> r, back |-> Unregistered]
    BY HoldingIs
  <2>6. <<>> \in Seq(AllRows) /\ IsInjective(<<>>)
    BY DEF IsInjective
  <2>7. Plain(next) /\ next.keys = K
    BY <2>1, <2>2, <2>5, <2>6 DEF Plain, Scratch
  <2> HIDE DEF next
  <2> QED
    BY <1>6, <2>3, <2>4, <2>7, GoesFits
<1>7. CASE Answers(<<d, "new_party">>) /\ Goes(<<d, "party">>, scratch)
  BY <1>1, <1>2, <1>7, GoesOnFits
<1>8. CASE Answers(<<d, "new_party">>) /\ Goes(<<d, "amount">>, scratch)
  BY <1>1, <1>2, <1>8, GoesOnFits
<1>9. CASE Answers(<<d, "amount">>) /\ Goes(<<d, "date">>, Adding("amount"))
  BY <1>1, <1>2, <1>3, <1>9, GoesOnFits
<1>10. CASE /\ Answers(<<d, "date">>) /\ AddOpeningInvoice(d)
            /\ rows' = [rows EXCEPT ![k][scratch.about] = IF @ = "none" THEN "bare" ELSE @]
            /\ To(<<d, "ask">>, Blank)
            /\ UNCHANGED <<varies, web, edits, history>>
  <2>1. bills' = [bills EXCEPT ![d] = bills[d] + 1] /\ RowsFit
    BY <1>10 DEF AddOpeningInvoice, SetupIsSound
  <2>2. \A c \in Directions : c # d => bills'[c] = bills[c]
    BY <2>1 DEF RowsFit
  <2>3. \A s \in Sections : StepOfSection[s] > StepOfSection[d] => s \in Directions /\ s # d
    BY Steps
  <2>4. \A s \in Sections : StepOfSection[s] > StepOfSection[d] => (Holds(s)' <=> Holds(s))
    BY <2>2, <2>3, HoldsByRows
  <2> QED
    BY <1>1, <1>2, <1>10, <2>4, RowAddedFits
<1> QED
  BY <1>4, <1>5, <1>6, <1>7, <1>8, <1>9, <1>10 DEF BillLoop


(* Questions outside the setup. *)
Outside == {NotStarted, Completed, LanguageAsk, ScriptAsk}

(* None is the restart question or one of the setup. *)
LEMMA OutsideIsOutside ==
  /\ \A q \in Outside : q # RestartAsk /\ q \notin InSetup /\ q \in Stages /\ q # ImportAsk
  /\ Completed \notin {NotStarted, LanguageAsk, ScriptAsk}
<1>1. \A q \in Outside : q \notin InSetup
  BY NotInSetup DEF Outside
<1>2. /\ \A q \in Outside : q # RestartAsk /\ q \in Stages /\ q # ImportAsk
      /\ Completed \notin {NotStarted, LanguageAsk, ScriptAsk}
  BY DEF Outside, NotStarted, Completed, LanguageAsk, ScriptAsk, RestartAsk, ImportAsk, Stages
<1> QED
  BY <1>1, <1>2

(* The founder's place there. *)
LEMMA PlaceOutside ==
  ASSUME ScratchFits, stage \in Outside
  PROVE  /\ Open = stage
         /\ Progress = IF stage = Completed \/ "relanguage" \in scratch.keys THEN 9 ELSE 0
         /\ "relanguage" \in scratch.keys => stage # Completed
<1>1. Open = stage
  BY OutsideIsOutside DEF Open
<1>2. InPlace
  BY Place
<1>3. "relanguage" \in scratch.keys => stage # Completed
  BY OutsideIsOutside DEF ScratchFits
<1> QED
  BY <1>1, <1>2, <1>3, OutsideIsOutside DEF InPlace

(* A question outside the setup with what it needs. *)
LEMMA ToOutside ==
  ASSUME NEW q \in Outside, NEW s, To(q, s), Serves(s, q),
         "relanguage" \in s.keys => q \in {LanguageAsk, ScriptAsk}
  PROVE  /\ ScratchFits' /\ Open' = q /\ stage' \in Stages /\ Open' # ImportAsk
         /\ Progress' = IF q = Completed \/ "relanguage" \in s.keys THEN 9 ELSE 0
<1>1. stage' = q /\ scratch' = s /\ q # RestartAsk
  BY OutsideIsOutside DEF To
<1>2. Open' = q
  BY <1>1 DEF Open
<1>3. ScratchFits'
  BY <1>1, <1>2 DEF ScratchFits, Serves
<1>4. Progress' = IF q = Completed \/ "relanguage" \in s.keys THEN 9 ELSE 0
  BY <1>1, <1>2, <1>3, PlaceNext, OutsideIsOutside DEF InPlace
<1> QED
  BY <1>1, <1>2, <1>3, <1>4, OutsideIsOutside

(* start_language_change. *)
LEMMA LanguageChangeFits == ASSUME SetupIsSound, StartLanguageChange PROVE StepFits
<1> DEFINE K == {"relanguage"}
           s == Holding(K)
<1>1. stage = Completed /\ To(LanguageAsk, s) /\ UNCHANGED history
  BY DEF StartLanguageChange, Answers, Goes, Unasked
<1>2. K \in SUBSET Keys /\ "fill_id" \notin K /\ "relanguage" \in K
  BY DEF Keys
<1> HIDE DEF K
<1>3. s = [keys |-> K, queue |-> <<>>, about |-> Nobody, back |-> Unregistered]
  BY HoldingIs
<1>4. Serves(s, LanguageAsk) /\ s.keys = K
  <2>1. s \in Scratch
    BY <1>2, <1>3 DEF Scratch
  <2>2. IsInjective(<<>>)
    BY DEF IsInjective
  <2>3. Gathered(LanguageAsk) = {}
    BY GatheredOutside
  <2> QED
    BY <1>2, <1>3, <2>1, <2>2, <2>3 DEF Serves
<1> HIDE DEF s
<1>5. ScratchFits' /\ stage' \in Stages /\ Open' # ImportAsk /\ Progress' = 9
  BY <1>1, <1>2, <1>4, ToOutside DEF Outside
<1>6. Progress \in 0 .. 9
  BY ProgressIsStep
<1> QED
  BY <1>1, <1>5, <1>6, OutsideFits

(* What follows the language: the dashboard again, or the setup. *)
LEMMA AfterLanguageFits ==
  ASSUME SetupIsSound, stage \in {LanguageAsk, ScriptAsk}, AfterLanguage
  PROVE  StepFits
<1>1. ScratchFits /\ stage \in Outside
  BY DEF SetupIsSound, Outside
<1>2. Progress = IF "relanguage" \in scratch.keys THEN 9 ELSE 0
  BY <1>1, PlaceOutside, OutsideIsOutside
<1>3. Plain(Blank) /\ Blank.keys = {}
  BY BlankIsPlain
<1>4. CASE "relanguage" \in scratch.keys
  <2>1. To(Completed, Blank) /\ UNCHANGED history
    BY <1>4 DEF AfterLanguage, Goes, Unasked
  <2>2. Serves(Blank, Completed)
    BY <1>3, GatheredOutside DEF Serves, Plain
  <2>3. ScratchFits' /\ stage' \in Stages /\ Open' # ImportAsk /\ Progress' = 9
    BY <1>3, <2>1, <2>2, ToOutside DEF Outside
  <2> QED
    BY <1>2, <1>4, <2>1, <2>3, OutsideFits
<1>5. CASE "relanguage" \notin scratch.keys
  <2> DEFINE q == <<"business", "type">>
  <2>1. To(q, Blank) /\ UNCHANGED history
    BY <1>5 DEF AfterLanguage, Goes, Unasked
  <2>2. q \in InSetup /\ Gathered(q) = {} /\ q # ImportAsk /\ q[1] = "business"
    BY SetupQuestions, GatheredAt DEF ImportAsk
  <2> HIDE DEF q
  <2>3. ScratchFits' /\ stage' \in Stages /\ Open' # ImportAsk /\ Progress' = 1
    BY <1>3, <2>1, <2>2, ToFits, Steps
  <2> QED
    BY <1>2, <1>5, <2>1, <2>3, OutsideFits
<1> QED
  BY <1>4, <1>5

(* The language questions. *)
LEMMA LanguageFits == ASSUME SetupIsSound, Language PROVE StepFits
<1>1. CASE Answers(NotStarted) /\ Goes(LanguageAsk, scratch)
  <2>1. stage = NotStarted /\ stage \in Outside /\ To(LanguageAsk, scratch) /\ UNCHANGED history
    BY <1>1 DEF Answers, Goes, Unasked, Outside
  <2>2. ScratchFits /\ stage # Completed
    BY <2>1, OutsideIsOutside DEF SetupIsSound
  <2>3. Open = stage /\ "relanguage" \notin scratch.keys /\ Progress = 0
    <3>1. NotStarted \notin {LanguageAsk, ScriptAsk}
      BY DEF NotStarted, LanguageAsk, ScriptAsk
    <3> QED
      BY <2>1, <2>2, <3>1, PlaceOutside DEF ScratchFits
  <2>4. Serves(scratch, LanguageAsk)
    BY <2>2, GatheredOutside DEF ScratchFits, Serves
  <2>5. ScratchFits' /\ stage' \in Stages /\ Open' # ImportAsk /\ Progress' = 0
    <3>1. LanguageAsk \in Outside /\ LanguageAsk # Completed
      BY OutsideIsOutside DEF Outside
    <3> QED
      BY <2>1, <2>3, <2>4, <3>1, ToOutside
  <2> QED
    BY <2>1, <2>3, <2>5, OutsideFits
<1>2. CASE Answers(LanguageAsk) /\ AfterLanguage
  BY <1>2, AfterLanguageFits DEF Answers
<1>3. CASE Answers(LanguageAsk) /\ Goes(ScriptAsk, Adding("onb_language"))
  <2> DEFINE s == Adding("onb_language")
  <2>1. stage = LanguageAsk /\ stage \in Outside /\ To(ScriptAsk, s) /\ UNCHANGED history
    BY <1>3 DEF Answers, Goes, Unasked, Outside
  <2>2. ScratchFits /\ LanguageAsk # Completed /\ ScriptAsk # Completed
    BY OutsideIsOutside DEF SetupIsSound
  <2>3. Open = stage /\ Progress = IF "relanguage" \in scratch.keys THEN 9 ELSE 0
    BY <2>1, <2>2, PlaceOutside
  <2>4. scratch \in Scratch /\ "onb_language" \in Keys
    BY <2>2 DEF ScratchFits, Serves, Keys
  <2>5. /\ s \in Scratch /\ s.keys = scratch.keys \cup {"onb_language"}
        /\ s.queue = scratch.queue /\ s.about = scratch.about
    BY <2>4 DEF Adding, Scratch
  <2> HIDE DEF s
  <2>6. Serves(s, ScriptAsk)
    BY <2>2, <2>5, GatheredOutside DEF ScratchFits, Serves
  <2>7. "relanguage" \in s.keys <=> "relanguage" \in scratch.keys
    BY <2>5
  <2>8. ScratchFits' /\ stage' \in Stages /\ Open' # ImportAsk /\ Progress' = Progress
    BY <2>1, <2>2, <2>3, <2>6, <2>7, ToOutside DEF Outside
  <2> QED
    BY <2>1, <2>3, <2>8, OutsideFits
<1>4. CASE Answers(ScriptAsk) /\ AfterLanguage
  BY <1>4, AfterLanguageFits DEF Answers
<1> QED
  BY <1>1, <1>2, <1>3, <1>4 DEF Language

(* The last question. *)
LEMMA BriefingHourFits == ASSUME SetupIsSound, BriefingHour PROVE StepFits
<1>1. /\ stage = <<"briefing", "hour">> /\ To(Completed, scratch) /\ UNCHANGED history
  BY DEF BriefingHour, Answers, Goes, Unasked
<1>2. stage \in InSetup /\ ScratchFits
  BY <1>1, SetupQuestions DEF SetupIsSound
<1>3. Plain(scratch)
  BY <1>2, ScratchIsPlain
<1>4. Serves(scratch, Completed) /\ "relanguage" \notin scratch.keys
  BY <1>3, GatheredOutside DEF Serves, Plain
<1>5. ScratchFits' /\ stage' \in Stages /\ Open' # ImportAsk /\ Progress' = 9
  BY <1>1, <1>4, ToOutside DEF Outside
<1>6. Progress \in 0 .. 9
  BY ProgressIsStep
<1> QED
  BY <1>1, <1>5, <1>6, OutsideFits

(* A public form, or the administrator's. *)
LEMMA RegisterFits == ASSUME SetupIsSound, Register PROVE StepFits
<1>1. PICK q \in {NotStarted, Completed} : To(q, scratch) /\ UNCHANGED history
  BY DEF Register, To
<1>2. stage = Unregistered /\ ScratchFits
  BY DEF Register, SetupIsSound
<1>3. Open = stage /\ "relanguage" \notin scratch.keys /\ Progress = 0
  <2>1. Unregistered \notin {LanguageAsk, ScriptAsk, RestartAsk, Completed}
    BY DEF Unregistered, LanguageAsk, ScriptAsk, RestartAsk, Completed
  <2>2. Open = stage
    BY <1>2, <2>1 DEF Open
  <2>3. "relanguage" \notin scratch.keys
    BY <1>2, <2>1 DEF ScratchFits
  <2>4. Open \notin InSetup /\ Open # Completed
    BY <1>2, <2>1, <2>2, NotInSetup
  <2> QED
    BY <1>2, <2>2, <2>3, <2>4, Place DEF InPlace
<1>4. Gathered(q) = {} /\ q \in Outside
  BY GatheredOutside DEF Outside
<1>5. Serves(scratch, q)
  BY <1>2, <1>4 DEF ScratchFits, Serves
<1>6. ScratchFits' /\ stage' \in Stages /\ Open' # ImportAsk /\ Progress' \in {0, 9}
  BY <1>1, <1>3, <1>4, <1>5, ToOutside
<1> QED
  BY <1>1, <1>3, <1>6, OutsideFits

(* No question of the setup needs the mark of a restart. *)
LEMMA MarkIsNotGathered == \A q \in InSetup : "restart_prev_state" \notin Gathered(q)
<1>1. \A q \in InSetup : q # RestartAsk
  BY NotInSetup
<1> QED
  BY <1>1 DEF Gathered, Reads

(* The restart question keeps the founder's place. *)
LEMMA RestartKeepsPlace ==
  ASSUME SetupIsSound, ScratchFits', Open' = Open, Open \in InSetup, stage' \in Stages,
         UNCHANGED history, UNCHANGED books
  PROVE  StepFits
<1>1. Progress = StepOfSection[Open[1]] /\ Progress' = StepOfSection[Open[1]]
  BY Place, PlaceNext DEF InPlace, SetupIsSound
<1>2. Progress \in Nat
  BY ProgressIsStep
<1>3. Stays
  BY <1>1, HoldsByRows DEF Stays, history
<1>4. HistoryFits'
  BY <1>3, HistoryStays
<1> QED
  BY <1>1, <1>2, <1>4 DEF StepFits, history, SetupIsSound, PlacesFit

(* "Restart" at a question of the setup. *)
LEMMA AskRestartFits == ASSUME SetupIsSound, AskRestart PROVE StepFits
<1> DEFINE a == Adding("restart_prev_state")
           s == [a EXCEPT !.back = stage]
<1>1. /\ stage \in InSetup /\ stage' = RestartAsk /\ scratch' = s
      /\ UNCHANGED history /\ UNCHANGED books
  BY DEF AskRestart, Goes, To, Others, Unasked
<1>2. ScratchFits /\ "restart_prev_state" \in Keys \ {"relanguage", "fill_id"}
  BY DEF SetupIsSound, Keys
<1>3. Plain(a) /\ Gathered(stage) \cup {"restart_prev_state"} \subseteq a.keys
  BY <1>1, <1>2, AddingIsPlain
<1> HIDE DEF a
<1>4. a \in Scratch
  BY <1>3 DEF Plain
<1>5. /\ s \in Scratch /\ s.keys = a.keys /\ s.queue = a.queue /\ s.about = a.about
      /\ s.back = stage
  BY <1>1, <1>4 DEF Scratch
<1> HIDE DEF s
<1>6. Open = stage /\ Open' = stage
  BY <1>1, <1>5, NotInSetup DEF Open
<1>7. ScratchFits'
  <2>1. Serves(s, stage) /\ "relanguage" \notin s.keys
    BY <1>3, <1>5 DEF Serves, Plain
  <2>2. Serves(scratch', Open')
    BY <1>1, <1>6, <2>1
  <2>3. Serves(scratch, Open)'
    BY <2>2 DEF Serves
  <2> QED
    BY <1>1, <1>3, <1>5, <2>1, <2>3 DEF ScratchFits
<1>8. stage' \in Stages
  BY <1>1 DEF Stages
<1> QED
  BY <1>1, <1>6, <1>7, <1>8, RestartKeepsPlace

(* "No": the question is opened again. *)
LEMMA RestartNoFits == ASSUME SetupIsSound, RestartNo PROVE StepFits
<1> DEFINE K == scratch.keys \ {"restart_prev_state"}
           s == [scratch EXCEPT !.keys = K, !.back = Unregistered]
<1>1. /\ stage = RestartAsk /\ To(scratch.back, s) /\ UNCHANGED history /\ UNCHANGED books
  BY DEF RestartNo, Answers, Goes, Others, Unasked
<1>2. Open = scratch.back /\ Open \in InSetup /\ Serves(scratch, Open)
  BY <1>1 DEF SetupIsSound, ScratchFits, Open
<1>3. "relanguage" \notin scratch.keys
  BY <1>1 DEF SetupIsSound, ScratchFits, RestartAsk, LanguageAsk, ScriptAsk
<1>4. Gathered(Open) \subseteq K
  BY <1>2, MarkIsNotGathered DEF Serves
<1>5. scratch \in Scratch /\ K \in SUBSET Keys
  BY <1>2 DEF Serves, Scratch
<1>6. K \subseteq scratch.keys
  OBVIOUS
<1> HIDE DEF K
<1>7. s \in Scratch /\ s.keys = K /\ s.queue = scratch.queue /\ s.about = scratch.about
  BY <1>5 DEF Scratch
<1> HIDE DEF s
<1>8. Plain(s)
  BY <1>2, <1>3, <1>6, <1>7 DEF Plain, Serves
<1>9. ScratchFits' /\ Open' = Open /\ stage' \in Stages
  BY <1>1, <1>2, <1>4, <1>7, <1>8, ToFits
<1> QED
  BY <1>1, <1>2, <1>9, RestartKeepsPlace

(* "Yes": nothing is left. *)
LEMMA RestartYesFits == ASSUME SetupIsSound, RestartYes PROVE StepFits
<1> DEFINE q == <<"business", "type">>
<1>1. /\ stage = RestartAsk /\ To(q, Blank) /\ stage' = q
      /\ summarised' = {} /\ asked' = {} /\ touched' = {}
      /\ rows' = [k \in Kinds |-> [r \in Rows[k] |-> "none"]]
      /\ bills' = [d \in Directions |-> 0]
  BY DEF RestartYes, Answers, To, WipeBusinessSetup
<1>2. \A k \in Kinds : Existing(k)' = {}
  BY <1>1 DEF Existing
<1>3. \A t \in Sections : ~ Holds(t)'
  BY <1>1, <1>2 DEF Sections, Holds
<1>4. q \in InSetup /\ Gathered(q) = {} /\ q # ImportAsk /\ q[1] = "business"
  BY SetupQuestions, GatheredAt DEF ImportAsk
<1>5. Restarted
  BY <1>1, <1>3 DEF Restarted
<1> HIDE DEF q
<1>6. ScratchFits' /\ Open' = q /\ stage' \in Stages /\ Progress' = 1
  BY <1>1, <1>4, BlankIsPlain, ToFits, Steps
<1>7. HistoryFits'
  BY <1>1, <1>4, <1>6 DEF HistoryFits, Summarised
<1> QED
  BY <1>1, <1>5, <1>6, <1>7 DEF StepFits

(* The first question of the setup, which looks at the products. *)
LEMMA BusinessTypeFits == ASSUME SetupIsSound, BusinessType PROVE StepFits
<1> DEFINE B(t) == <<"business", t>>
<1>1. \A t \in {"type", "gst_mode", "gst_missing"} : B(t) \in InSetup
  BY SetupQuestions
<1>2. /\ stage = B("type") /\ stage \in InSetup /\ stage[1] = "business" /\ ScratchFits
      /\ UNCHANGED books
  BY <1>1 DEF BusinessType, Answers, SetupIsSound, Others
<1>3. \A t \in Sections : Holds(t)' <=> Holds(t)
  BY <1>2, HoldsByRows
<1>4. Plain(scratch) /\ Kept(Progress)
  BY <1>2, <1>3, ScratchIsPlain DEF Kept
<1>5. CASE Passes(B("gst_mode"), scratch) /\ UNCHANGED <<varies, summarised, touched>>
  <2>1. Goes(B("gst_mode"), scratch) /\ Answers(B("type"))
    BY <1>5 DEF BusinessType, Goes, Passes, Unasked, history
  <2>2. Gathered(B("gst_mode")) = {}
    BY GatheredAt
  <2> QED
    BY <1>1, <2>1, <2>2, GoesOnFits
<1>6. CASE AfterGst(scratch)
  BY <1>2, <1>3, <1>4, <1>6, AfterGstFits
<1>7. ASSUME Passes(B("gst_missing"),
                    [Holding({"missing_product_ids"}) EXCEPT !.queue = SetToSeq(Missing("product"))]),
             UNCHANGED <<summarised, touched>>
      PROVE  StepFits
  <2> DEFINE s == [Holding({"missing_product_ids"}) EXCEPT !.queue = SetToSeq(Missing("product"))]
             q == B("gst_missing")
  <2>1. "missing_product_ids" \in Keys \ {"relanguage", "fill_id"} /\ "product" \in Kinds /\ RowsFit
    BY DEF Keys, Kinds, SetupIsSound
  <2>2. Plain(s) /\ s.keys = {"missing_product_ids"}
    BY <2>1, QueueOfMissing
  <2>3. To(q, s) /\ UNCHANGED history
    BY <1>7 DEF Passes, history
  <2>4. q \in InSetup /\ Gathered(q) = {"missing_product_ids"} /\ q[1] = "business" /\ q # ImportAsk
    BY <1>1, GatheredAt DEF ImportAsk
  <2> HIDE DEF s, q
  <2> QED
    BY <1>2, <1>4, <2>2, <2>3, <2>4, NextQuestionFits
<1> QED
  BY <1>5, <1>6, <1>7 DEF BusinessType

(* The tax of all products together. *)
LEMMA GstFits == ASSUME SetupIsSound, Gst PROVE StepFits
<1>1. \A t \in {"gst_mode", "gst_rate_same"} : <<"business", t>> \in InSetup
  BY SetupQuestions
<1>2. ASSUME NEW t \in {"gst_mode", "gst_rate_same"}, Answers(<<"business", t>>), Others,
             AfterGst(scratch)
      PROVE  StepFits
  <2>1. stage \in InSetup /\ stage[1] = "business" /\ ScratchFits
    BY <1>1, <1>2 DEF Answers, SetupIsSound
  <2>2. \A u \in Sections : Holds(u)' <=> Holds(u)
    BY <1>2, HoldsByRows DEF Others
  <2> QED
    BY <1>2, <2>1, <2>2, ScratchIsPlain, AfterGstFits
<1>3. CASE Answers(<<"business", "gst_mode">>) /\ Goes(<<"business", "gst_rate_same">>, scratch)
  <2>1. Gathered(<<"business", "gst_rate_same">>) = {}
    BY GatheredAt
  <2> QED
    BY <1>1, <1>3, <2>1, GoesOnFits
<1> QED
  BY <1>2, <1>3 DEF Gst

(* One rate for the products without one: none of them comes or goes. *)
LEMMA GstMissingFits == ASSUME SetupIsSound, GstMissing PROVE StepFits
<1>1. /\ stage = <<"business", "gst_missing">> /\ stage[1] = "business"
      /\ AfterGst(Blank) /\ bills' = bills /\ RowsFit
  BY DEF GstMissing, Answers, SetupIsSound
<1>2. stage \in InSetup /\ "product" \in Kinds
  BY <1>1, SetupQuestions DEF Kinds
<1>3. \A t \in Sections : Holds(t)' <=> Holds(t)
  <2>1. CASE UNCHANGED rows
    BY <1>1, <2>1, HoldsByRows DEF books
  <2>2. ASSUME rows' = [rows EXCEPT !["product"] =
                   [r \in Rows["product"] |-> IF r \in ToSet(scratch.queue) /\ @[r] = "bare" THEN "full" ELSE @[r]]]
        PROVE  \A t \in Sections : Holds(t)' <=> Holds(t)
    <3>1. \A j \in Kinds : j # "product" => rows'[j] = rows[j]
      BY <1>1, <2>2 DEF RowsFit
    <3>2. \A r \in Rows["product"] : rows'["product"][r] = "none" <=> rows["product"][r] = "none"
      BY <1>1, <1>2, <2>2 DEF RowsFit
    <3>3. Existing("product")' = Existing("product")
      BY <3>2 DEF Existing
    <3>4. Holds("product")' <=> Holds("product")
      BY <1>2, <3>3 DEF Holds
    <3> QED
      BY <1>1, <3>1, <3>4, HoldsByRows DEF Sections
  <2> QED
    BY <2>1, <2>2 DEF GstMissing
<1> QED
  BY <1>1, <1>2, <1>3, BlankIsPlain, AfterGstFits

(* The summary of an import, confirmed. *)
LEMMA ImportConfirmFits == ASSUME SetupIsSound, ImportConfirm PROVE StepFits
<1>1. /\ stage = ImportAsk /\ RoutePastImport(scratch) /\ UNCHANGED books
      /\ UNCHANGED <<summarised, touched>>
  BY DEF ImportConfirm, Answers, ImportAsk, Others
<1>2. stage \in InSetup /\ stage[1] = "business" /\ ScratchFits
  BY <1>1, SetupQuestions DEF SetupIsSound, ImportAsk
<1>3. Kept(Progress)
  BY <1>1, HoldsByRows DEF Kept
<1>4. Leaves(Progress + 1) /\ Ready(Progress + 1)
  BY <1>1, <1>2, <1>3, ReadyToLeave
<1>5. Progress + 1 = 2
  BY <1>2, ProgressIsStep, Steps
<1>6. Arrives(2)
  BY <1>1, <1>2, <1>4, <1>5, ScratchIsPlain, RoutePastImportArrives
<1> QED
  BY <1>1, <1>2, <1>5, <1>6, LeavingFits

(* An import of the website, which says what it touches. *)
LEMMA ImportLandsFits == ASSUME SetupIsSound, ImportLands PROVE StepFits
<1>1. /\ UNCHANGED <<stage, scratch, summarised, asked>> /\ touched \subseteq Sections /\ RowsFit
  BY DEF ImportLands, company, SetupIsSound, PlacesFit
<1>2. CASE UNCHANGED <<books, touched>>
  BY <1>1, <1>2, HoldsByRows, SameQuestionFits
<1>3. ASSUME NEW R, NEW v, rows' = Arrive("product", R, v), touched' = touched \cup {"product"},
             UNCHANGED bills
      PROVE  StepFits
  <2>1. \A j \in Kinds : j # "product" => rows'[j] = rows[j]
    BY <1>1, <1>3, ArriveIsOfKind DEF Kinds
  <2>2. \A t \in Sections : t # "product" => (Holds(t)' <=> Holds(t))
    BY <1>3, <2>1, HoldsByRows DEF Sections
  <2>3. touched \subseteq touched' /\ touched' \subseteq Sections /\ "product" \in touched'
    BY <1>1, <1>3, Steps
  <2> QED
    BY <1>1, <2>2, <2>3, SameQuestionFits
<1>4. ASSUME NEW d \in Directions, NEW R, rows' = Arrive(PartyOf[d], R, "bare"),
             bills' = [bills EXCEPT ![d] = @ + 1], touched' = touched \cup {d, PartyOf[d]}
      PROVE  StepFits
  <2>1. PartyOf[d] \in Kinds
    BY DEF PartyOf, Directions, Kinds
  <2>2. \A j \in Kinds : j # PartyOf[d] => rows'[j] = rows[j]
    BY <1>1, <1>4, <2>1, ArriveIsOfKind
  <2>3. \A c \in Directions : c # d => bills'[c] = bills[c]
    BY <1>1, <1>4 DEF RowsFit
  <2>4. \A t \in Sections : t \notin {d, PartyOf[d]} => (Holds(t)' <=> Holds(t))
    BY <2>2, <2>3, HoldsByRows DEF Sections
  <2>5. touched \subseteq touched' /\ touched' \subseteq Sections /\ {d, PartyOf[d]} \subseteq touched'
    BY <1>1, <1>4, <2>1 DEF Sections
  <2> QED
    BY <1>1, <2>4, <2>5, SameQuestionFits
<1> QED
  BY <1>2, <1>3, <1>4 DEF ImportLands

(* An administrator's change of a row. *)
LEMMA EditRowFits ==
  ASSUME SetupIsSound, NEW k \in Kinds, NEW r, NEW v, EditRow(k, r, v) PROVE StepFits
<1>1. /\ UNCHANGED <<stage, scratch, summarised, asked>> /\ touched \subseteq Sections /\ RowsFit
      /\ UNCHANGED bills /\ touched' = touched \cup {k}
      /\ rows' = [rows EXCEPT ![k] = [rows[k] EXCEPT ![r] = v]]
  BY DEF EditRow, company, SetupIsSound, PlacesFit
<1>2. \A j \in Kinds : j # k => rows'[j] = rows[j]
  BY <1>1, RowsOfKind
<1>3. \A t \in Sections : t # k => (Holds(t)' <=> Holds(t))
  BY <1>1, <1>2, HoldsByRows DEF Sections
<1>4. touched \subseteq touched' /\ touched' \subseteq Sections /\ k \in touched'
  BY <1>1 DEF Sections
<1> QED
  BY <1>1, <1>3, <1>4, SameQuestionFits

(* The website and the administrator. *)
LEMMA WebsiteFits == ASSUME SetupIsSound, Website PROVE StepFits
<1>1. CASE ImportChecked \/ SwitchOn \/ Deactivate
  <2>1. UNCHANGED <<company, books, history>>
    BY <1>1 DEF ImportChecked, SwitchOn, Deactivate
  <2>2. UNCHANGED <<stage, scratch, summarised, asked, touched>> /\ UNCHANGED books
        /\ touched \subseteq Sections
    BY <2>1 DEF company, history, SetupIsSound, PlacesFit
  <2> QED
    BY <2>2, HoldsByRows, SameQuestionFits
<1> QED
  BY <1>1, RegisterFits, ImportLandsFits, EditRowFits DEF Website

(* Every message of the founder. *)
LEMMA FounderFits == ASSUME SetupIsSound, FounderSays PROVE StepFits
<1>1. {"dealer", "supplier"} = PartyKinds /\ PartyKinds \cup {"product"} = Kinds
      /\ {"receivable", "payable"} = Directions
  BY DEF PartyKinds, Kinds, Directions
<1>2. CASE StartLanguageChange \/ Language
  BY <1>2, LanguageChangeFits, LanguageFits
<1>3. CASE AskRestart \/ RestartYes \/ RestartNo
  BY <1>3, AskRestartFits, RestartYesFits, RestartNoFits
<1>4. CASE BusinessType \/ Gst \/ GstMissing \/ ImportConfirm
  BY <1>4, BusinessTypeFits, GstFits, GstMissingFits, ImportConfirmFits
<1>5. CASE Products \/ Dealers \/ Suppliers
  BY <1>1, <1>5, EntryModeFits, ProductLoopFits, PartyLoopFits DEF Products, Dealers, Suppliers
<1>6. CASE DealersMissing \/ SuppliersMissing
  BY <1>1, <1>6, MissingFlowFits DEF DealersMissing, SuppliersMissing
<1>7. CASE OpeningBalance \/ Receivables \/ Payables \/ BriefingHour
  BY <1>1, <1>7, OpeningBalanceFits, BillLoopFits, BriefingHourFits DEF Receivables, Payables
<1> QED
  BY <1>2, <1>3, <1>4, <1>5, <1>6, <1>7 DEF FounderSays

-----------------------------------------------------------------------------
(* The rest of the state.                                                  *)

(* Rows of one kind written. *)
LEMMA RowsWritten ==
  ASSUME RowsFit, NEW k \in Kinds, NEW f \in [Rows[k] -> {"none", "bare", "full"}],
         rows' = [rows EXCEPT ![k] = f], bills' \in [Directions -> 0 .. MaxBills]
  PROVE  RowsFit'
<1>1. DOMAIN rows' = Kinds /\ rows'[k] = f /\ \A j \in Kinds : j # k => rows'[j] = rows[j]
  BY RowsOfKind
<1> QED
  BY <1>1 DEF RowsFit

(* Nothing written. *)
LEMMA RowsKept == ASSUME RowsFit, UNCHANGED books PROVE RowsFit'
BY DEF RowsFit, books

(* One row written, or none if there is no such row. *)
LEMMA OneRowWritten ==
  ASSUME RowsFit, NEW k \in Kinds, NEW r, NEW v,
         r \in Rows[k] => v \in {"none", "bare", "full"},
         rows' = [rows EXCEPT ![k][r] = v], bills' \in [Directions -> 0 .. MaxBills]
  PROVE  RowsFit'
<1>1. [rows[k] EXCEPT ![r] = v] \in [Rows[k] -> {"none", "bare", "full"}]
  BY DEF RowsFit
<1>2. rows' = [rows EXCEPT ![k] = [rows[k] EXCEPT ![r] = v]]
  OBVIOUS
<1> QED
  BY <1>1, <1>2, RowsWritten

(* A new row. *)
LEMMA NewRowFits ==
  ASSUME RowsFit, NEW k \in Kinds, NEW Q \in SUBSET {"bare", "full"}, NewRow(k, Q), UNCHANGED bills
  PROVE  RowsFit'
<1>1. PICK r \in Rows[k], v \in Q : rows' = [rows EXCEPT ![k][r] = v]
  BY DEF NewRow
<1>2. bills' \in [Directions -> 0 .. MaxBills] /\ v \in {"none", "bare", "full"}
  BY DEF RowsFit
<1> QED
  BY <1>1, <1>2, OneRowWritten

(* Rows that arrive. *)
LEMMA ArriveFits ==
  ASSUME RowsFit, NEW k \in Kinds, NEW R, NEW v \in {"bare", "full"}, rows' = Arrive(k, R, v),
         bills' \in [Directions -> 0 .. MaxBills]
  PROVE  RowsFit'
<1> DEFINE f == [r \in Rows[k] |-> IF r \in R /\ rows[k][r] = "none" THEN v ELSE rows[k][r]]
<1>1. rows' = [rows EXCEPT ![k] = f]
  BY DEF Arrive
<1>2. f \in [Rows[k] -> {"none", "bare", "full"}]
  BY DEF RowsFit
<1> HIDE DEF f
<1> QED
  BY <1>1, <1>2, RowsWritten

(* What the entry of rows writes. *)
LEMMA EntryRowsFit ==
  ASSUME RowsFit, NEW k \in Kinds, EntryMode(k)
  PROVE  RowsFit' /\ UNCHANGED <<web, edits, varies>>
<1>1. CASE UNCHANGED <<books, web, edits, varies>>
  BY <1>1, RowsKept
<1>2. ASSUME ParseBulkLines(k), UNCHANGED <<company, bills, web, edits, history>>
      PROVE  RowsFit' /\ UNCHANGED <<web, edits, varies>>
  <2>1. bills' \in [Directions -> 0 .. MaxBills]
    BY <1>2 DEF RowsFit
  <2> QED
    BY <1>2, <2>1, ArriveFits DEF ParseBulkLines, company
<1>3. \A q, s : Goes(q, s) => UNCHANGED <<books, web, edits, varies>>
  BY DEF Goes, Others, Unasked
<1>4. \A s : LeaveSection(k, s) => UNCHANGED <<books, web, edits, varies>>
  BY DEF LeaveSection, Others
<1> QED
  BY <1>1, <1>2, <1>3, <1>4 DEF EntryMode

(* One product at a time. *)
LEMMA ProductRowsFit ==
  ASSUME RowsFit, ProductLoop
  PROVE  RowsFit' /\ UNCHANGED <<web, edits, varies>>
<1>1. \A q, s : Goes(q, s) => UNCHANGED <<books, web, edits, varies>>
  BY DEF Goes, Others, Unasked
<1>2. CASE UNCHANGED <<books, web, edits, varies>>
  BY <1>2, RowsKept
<1>3. ASSUME NEW q, NEW Q \in SUBSET {"bare", "full"}, ProductAdded(q, Q)
      PROVE  RowsFit' /\ UNCHANGED <<web, edits, varies>>
  <2>1. "product" \in Kinds
    BY DEF Kinds
  <2> QED
    BY <1>3, <2>1, NewRowFits DEF ProductAdded
<1> QED
  BY <1>1, <1>2, <1>3 DEF ProductLoop

(* One dealer or supplier at a time. *)
LEMMA PartyRowsFit ==
  ASSUME RowsFit, NEW k \in Kinds, PartyLoop(k)
  PROVE  RowsFit' /\ UNCHANGED <<web, edits, varies>>
<1>1. \A q, s : Goes(q, s) => UNCHANGED <<books, web, edits, varies>>
  BY DEF Goes, Others, Unasked
<1>2. CASE UNCHANGED <<books, web, edits, varies>>
  BY <1>2, RowsKept
<1>3. ASSUME NEW Q \in SUBSET {"bare", "full"}, NewRow(k, Q),
             UNCHANGED <<bills, varies, web, edits, history>>
      PROVE  RowsFit' /\ UNCHANGED <<web, edits, varies>>
  BY <1>3, NewRowFits
<1> QED
  BY <1>1, <1>2, <1>3 DEF PartyLoop

(* The backfill. *)
LEMMA MissingRowsFit ==
  ASSUME RowsFit, NEW k \in Kinds, MissingFlow(k)
  PROVE  RowsFit' /\ UNCHANGED <<web, edits, varies>>
<1>1. \A q, s : Goes(q, s) \/ LeaveSection(k, s) => UNCHANGED <<books, web, edits, varies>>
  BY DEF Goes, Others, Unasked, LeaveSection
<1>2. CASE UNCHANGED <<books, web, edits, varies>>
  BY <1>2, RowsKept
<1>3. CASE UNCHANGED rows /\ UNCHANGED <<bills, web, edits, varies, summarised, touched>>
  BY <1>3, RowsKept DEF books
<1>4. ASSUME ApplyMissingBulkLines(k), UNCHANGED <<bills, web, edits, varies, summarised, touched>>
      PROVE  RowsFit' /\ UNCHANGED <<web, edits, varies>>
  <2>1. PICK R : rows' = [rows EXCEPT ![k] = [r \in Rows[k] |-> IF r \in R THEN "full" ELSE rows[k][r]]]
    BY <1>4 DEF ApplyMissingBulkLines
  <2> DEFINE f == [r \in Rows[k] |-> IF r \in R THEN "full" ELSE rows[k][r]]
  <2>2. f \in [Rows[k] -> {"none", "bare", "full"}] /\ bills' \in [Directions -> 0 .. MaxBills]
    BY <1>4 DEF RowsFit
  <2>3. rows' = [rows EXCEPT ![k] = f]
    BY <2>1
  <2> HIDE DEF f
  <2> QED
    BY <1>4, <2>2, <2>3, RowsWritten
<1>5. ASSUME rows' = [rows EXCEPT ![k][scratch.about] = "full"],
             UNCHANGED <<bills, web, edits, varies, summarised, touched>>
      PROVE  RowsFit' /\ UNCHANGED <<web, edits, varies>>
  <2>1. bills' \in [Directions -> 0 .. MaxBills]
    BY <1>5 DEF RowsFit
  <2> QED
    BY <1>5, <2>1, OneRowWritten
<1> QED
  BY <1>1, <1>2, <1>3, <1>4, <1>5 DEF MissingFlow

(* Opening bills. *)
LEMMA BillRowsFit ==
  ASSUME RowsFit, NEW d \in Directions, BillLoop(d)
  PROVE  RowsFit' /\ UNCHANGED <<web, edits, varies>>
<1> DEFINE k == PartyOf[d]
           v == IF rows[k][scratch.about] = "none" THEN "bare" ELSE rows[k][scratch.about]
<1>1. \A q, s : Goes(q, s) => UNCHANGED <<books, web, edits, varies>>
  BY DEF Goes, Others, Unasked
<1>2. CASE UNCHANGED <<books, web, edits, varies>>
  BY <1>2, RowsKept
<1>3. ASSUME AddOpeningInvoice(d), rows' = [rows EXCEPT ![k][scratch.about] = v],
             UNCHANGED <<varies, web, edits, history>>
      PROVE  RowsFit' /\ UNCHANGED <<web, edits, varies>>
  <2>1. k \in Kinds
    BY DEF PartyOf, Directions, Kinds
  <2>2. scratch.about \in Rows[k] => v \in {"none", "bare", "full"}
    BY <2>1 DEF RowsFit
  <2>3. bills[d] + 1 \in 0 .. MaxBills
    BY <1>3, BoundsAreNumbers DEF AddOpeningInvoice, RowsFit
  <2>4. bills' \in [Directions -> 0 .. MaxBills]
    BY <1>3, <2>3 DEF AddOpeningInvoice, RowsFit
  <2> HIDE DEF k, v
  <2> QED
    BY <1>3, <2>1, <2>2, <2>4, OneRowWritten
<1> QED
  BY <1>1, <1>2, <1>3 DEF BillLoop, Others

(* The tax questions. *)
LEMMA GstRowsFit ==
  ASSUME RowsFit, varies \in BOOLEAN, BusinessType \/ Gst \/ GstMissing
  PROVE  RowsFit' /\ UNCHANGED <<web, edits>> /\ varies' \in BOOLEAN
<1>1. CASE BusinessType
  BY <1>1, RowsKept DEF BusinessType, Others
<1>2. CASE Gst
  BY <1>2, RowsKept DEF Gst, Others, Goes, Unasked
<1>3. CASE GstMissing
  <2>1. UNCHANGED <<bills, varies, web, edits>>
    BY <1>3 DEF GstMissing
  <2>2. CASE UNCHANGED rows
    BY <2>1, <2>2, RowsKept DEF books
  <2>3. ASSUME rows' = [rows EXCEPT !["product"] =
                 [r \in Rows["product"] |-> IF r \in ToSet(scratch.queue) /\ @[r] = "bare" THEN "full" ELSE @[r]]]
        PROVE  RowsFit'
    <3> DEFINE f == [r \in Rows["product"] |->
                       IF r \in ToSet(scratch.queue) /\ rows["product"][r] = "bare"
                         THEN "full" ELSE rows["product"][r]]
    <3>1. "product" \in Kinds
      BY DEF Kinds
    <3>2. f \in [Rows["product"] -> {"none", "bare", "full"}] /\ bills' \in [Directions -> 0 .. MaxBills]
      BY <2>1, <3>1 DEF RowsFit
    <3>3. rows' = [rows EXCEPT !["product"] = f]
      BY <2>3
    <3> HIDE DEF f
    <3> QED
      BY <3>1, <3>2, <3>3, RowsWritten
  <2> QED
    BY <1>3, <2>1, <2>2, <2>3 DEF GstMissing
<1> QED
  BY <1>1, <1>2, <1>3

(* Every message of the founder. *)
LEMMA FounderRowsFit ==
  ASSUME RowsFit, varies \in BOOLEAN, FounderSays
  PROVE  RowsFit' /\ UNCHANGED <<web, edits>> /\ varies' \in BOOLEAN
<1>1. {"dealer", "supplier", "product"} = Kinds /\ {"receivable", "payable"} = Directions
  BY DEF Kinds, Directions
<1>2. CASE \/ StartLanguageChange \/ Language \/ AskRestart \/ RestartNo
           \/ ImportConfirm \/ OpeningBalance \/ BriefingHour
  <2>1. UNCHANGED <<books, web, edits, varies>>
    BY <1>2 DEF StartLanguageChange, Language, AfterLanguage, AskRestart, RestartNo, ImportConfirm,
                OpeningBalance, BriefingHour, Goes, Others, Unasked
  <2> QED
    BY <2>1, RowsKept
<1>3. CASE RestartYes
  <2>1. /\ rows' = [k \in Kinds |-> [r \in Rows[k] |-> "none"]] /\ bills' = [d \in Directions |-> 0]
        /\ varies' = FALSE /\ UNCHANGED <<web, edits>>
    BY <1>3 DEF RestartYes, WipeBusinessSetup
  <2>2. 0 \in 0 .. MaxBills
    BY BoundsAreNumbers
  <2>3. \A k \in Kinds : rows'[k] = [r \in Rows[k] |-> "none"]
    BY <2>1
  <2>4. bills' \in [Directions -> 0 .. MaxBills]
    BY <2>1, <2>2
  <2>5. DOMAIN rows' = Kinds
    BY <2>1
  <2>6. RowsFit'
    BY <2>3, <2>4, <2>5 DEF RowsFit
  <2> QED
    BY <2>1, <2>6
<1>4. CASE BusinessType \/ Gst \/ GstMissing
  BY <1>4, GstRowsFit
<1>5. CASE Products \/ Dealers \/ Suppliers
  BY <1>1, <1>5, EntryRowsFit, ProductRowsFit, PartyRowsFit DEF Products, Dealers, Suppliers
<1>6. CASE DealersMissing \/ SuppliersMissing
  BY <1>1, <1>6, MissingRowsFit DEF DealersMissing, SuppliersMissing
<1>7. CASE Receivables \/ Payables
  BY <1>1, <1>7, BillRowsFit DEF Receivables, Payables
<1> QED
  BY <1>2, <1>3, <1>4, <1>5, <1>6, <1>7 DEF FounderSays

(* And the website and the administrator. *)
LEMMA WebsiteRowsFit ==
  ASSUME RowsFit, PlacesFit, Website
  PROVE  RowsFit' /\ UNCHANGED varies /\ active' \in BOOLEAN /\ upload' \in {"idle", "checked"}
         /\ edits' \in 0 .. MaxEdits
<1>1. CASE Register \/ ImportChecked \/ SwitchOn \/ Deactivate
  <2>1. UNCHANGED books /\ UNCHANGED varies /\ active' \in BOOLEAN /\ upload' \in {"idle", "checked"}
        /\ edits' \in 0 .. MaxEdits
    BY <1>1 DEF Register, ImportChecked, SwitchOn, Deactivate, web, company, PlacesFit
  <2> QED
    BY <2>1, RowsKept
<1>2. CASE ImportLands
  <2>1. UNCHANGED varies /\ active' \in BOOLEAN /\ upload' \in {"idle", "checked"}
        /\ edits' \in 0 .. MaxEdits
    BY <1>2 DEF ImportLands, company, PlacesFit
  <2>2. CASE UNCHANGED books
    BY <2>1, <2>2, RowsKept
  <2>3. ASSUME NEW R, NEW v \in {"bare", "full"}, rows' = Arrive("product", R, v), UNCHANGED bills
        PROVE  RowsFit'
    <3>1. "product" \in Kinds /\ bills' \in [Directions -> 0 .. MaxBills]
      BY <2>3 DEF Kinds, RowsFit
    <3> QED
      BY <2>3, <3>1, ArriveFits
  <2>4. ASSUME NEW d \in Directions, NEW R, bills[d] < MaxBills, rows' = Arrive(PartyOf[d], R, "bare"),
               bills' = [bills EXCEPT ![d] = @ + 1]
        PROVE  RowsFit'
    <3>1. PartyOf[d] \in Kinds
      BY DEF PartyOf, Directions, Kinds
    <3>2. bills[d] + 1 \in 0 .. MaxBills
      BY <2>4, BoundsAreNumbers DEF RowsFit
    <3>3. bills' \in [Directions -> 0 .. MaxBills]
      BY <2>4, <3>2 DEF RowsFit
    <3> QED
      BY <2>4, <3>1, <3>3, ArriveFits
  <2> QED
    BY <1>2, <2>1, <2>2, <2>3, <2>4 DEF ImportLands
<1>3. ASSUME NEW k \in Kinds, NEW r, NEW v \in {"none", "bare", "full"}, EditRow(k, r, v)
      PROVE  RowsFit' /\ UNCHANGED <<varies, active, upload>> /\ edits' \in 0 .. MaxEdits
  <2>1. /\ rows' = [rows EXCEPT ![k][r] = v] /\ UNCHANGED <<varies, active, upload>>
        /\ bills' \in [Directions -> 0 .. MaxBills]
    BY <1>3 DEF EditRow, company, web, RowsFit
  <2>2. edits' \in 0 .. MaxEdits
    BY <1>3, BoundsAreNumbers DEF EditRow, PlacesFit
  <2> QED
    BY <2>1, <2>2, OneRowWritten
<1>4. CASE \E k \in Kinds : \E r \in Rows[k], v \in {"none", "bare", "full"} : EditRow(k, r, v)
  BY <1>3, <1>4 DEF PlacesFit
<1> QED
  BY <1>1, <1>2, <1>4 DEF Website

-----------------------------------------------------------------------------
(* The theorems.                                                           *)

(* The invariant holds of a company not yet registered. *)
LEMMA InitIsSound == Init => SetupIsSound
<1> SUFFICES ASSUME Init PROVE SetupIsSound
  OBVIOUS
<1>1. stage = Unregistered /\ scratch = Blank /\ summarised = {} /\ asked = {} /\ touched = {}
  BY DEF Init
<1>2. Unregistered \notin {RestartAsk, Completed, LanguageAsk, ScriptAsk, ImportAsk}
  BY DEF Unregistered, RestartAsk, Completed, LanguageAsk, ScriptAsk, ImportAsk
<1>3. Open = Unregistered /\ Open \notin InSetup
  BY <1>1, <1>2, NotInSetup DEF Open
<1>4. Plain(Blank) /\ Blank.keys = {} /\ Gathered(Unregistered) = {}
  BY BlankIsPlain, GatheredOutside
<1>5. ScratchFits
  BY <1>1, <1>2, <1>3, <1>4 DEF ScratchFits, Serves, Plain
<1>6. Progress = 0
  BY <1>1, <1>2, <1>3, <1>4, <1>5, Place DEF InPlace
<1>7. HistoryFits
  BY <1>1, <1>2, <1>3, <1>6 DEF HistoryFits, Summarised
<1>8. RowsFit
  BY BoundsAreNumbers DEF Init, RowsFit
<1>9. PlacesFit
  <2>1. 0 \in 0 .. MaxEdits
    BY BoundsAreNumbers
  <2>2. Unregistered \in Stages
    BY DEF Stages
  <2> QED
    BY <1>1, <2>1, <2>2 DEF Init, PlacesFit
<1> QED
  BY <1>5, <1>7, <1>8, <1>9 DEF SetupIsSound

(* Every step of the program fits. *)
LEMMA NextFits == ASSUME SetupIsSound, Next PROVE StepFits
BY FounderFits, WebsiteFits DEF Next

(* So every step keeps the invariant. *)
LEMMA NextIsSound == ASSUME SetupIsSound, Next PROVE SetupIsSound'
<1>1. StepFits
  BY NextFits
<1>2. RowsFit /\ PlacesFit /\ varies \in BOOLEAN
  BY DEF SetupIsSound, PlacesFit
<1>3. CASE FounderSays
  <2>1. RowsFit' /\ UNCHANGED <<web, edits>> /\ varies' \in BOOLEAN
    BY <1>2, <1>3, FounderRowsFit
  <2>2. PlacesFit'
    BY <1>1, <1>2, <2>1 DEF PlacesFit, StepFits, web
  <2> QED
    BY <1>1, <2>1, <2>2 DEF SetupIsSound, StepFits
<1>4. CASE Website
  <2>1. RowsFit' /\ UNCHANGED varies /\ active' \in BOOLEAN /\ upload' \in {"idle", "checked"}
        /\ edits' \in 0 .. MaxEdits
    BY <1>2, <1>4, WebsiteRowsFit
  <2>2. PlacesFit'
    BY <1>1, <1>2, <2>1 DEF PlacesFit, StepFits
  <2> QED
    BY <1>1, <2>1, <2>2 DEF SetupIsSound, StepFits
<1> QED
  BY <1>3, <1>4 DEF Next

(* And a step that changes nothing. *)
LEMMA StutterIsSound == ASSUME SetupIsSound, UNCHANGED vars PROVE SetupIsSound' /\ Progress' = Progress
<1>1. /\ UNCHANGED <<stage, scratch, active, varies, rows, bills, upload, edits>>
      /\ UNCHANGED <<summarised, asked, touched>>
  BY DEF vars
<1>2. Open' = Open /\ Progress' = Progress
  BY <1>1 DEF Open, Progress
<1>3. \A s \in Sections : Holds(s)' <=> Holds(s)
  BY <1>1, HoldsByRows DEF books
<1>4. HistoryFits'
  BY <1>1, <1>2, <1>3, HistoryStays DEF Stays
<1>5. ScratchFits' /\ RowsFit' /\ PlacesFit'
  BY <1>1, <1>2 DEF SetupIsSound, ScratchFits, Serves, RowsFit, PlacesFit
<1> QED
  BY <1>2, <1>4, <1>5 DEF SetupIsSound

(* The scratch serves the questions and the history agrees with the place, *)
(* in every state of every behaviour of services/onboarding_flow.py and    *)
(* the website.                                                            *)
THEOREM SetupStaysSound == Spec => []SetupIsSound
<1>1. SetupIsSound /\ [Next]_vars => SetupIsSound'
  BY NextIsSound, StutterIsSound
<1> QED
  BY InitIsSound, <1>1, PTL DEF Spec

(* The variables have their types: no answer, restart or edit leaves a row, *)
(* a question or a scratch entry the code does not know.                    *)
THEOREM SetupTypes == Spec => []TypeOK
<1>1. SetupIsSound => TypeOK
  <2> SUFFICES ASSUME SetupIsSound PROVE TypeOK
    OBVIOUS
  <2>1. scratch \in Scratch
    BY DEF SetupIsSound, ScratchFits, Serves
  <2>2. /\ scratch.keys \subseteq Keys /\ scratch.queue \in Seq(AllRows)
        /\ scratch.about \in AllRows \cup {Nobody} /\ scratch.back \in InSetup \cup {Unregistered}
    BY <2>1 DEF Scratch
  <2> QED
    BY <2>2 DEF SetupIsSound, RowsFit, PlacesFit, TypeOK
<1> QED
  BY <1>1, SetupStaysSound, PTL

(* The question that is open, or that a refused restart opens again, finds *)
(* every entry of onboarding_scratch its handler reads.                    *)
THEOREM EveryQuestionIsServed == Spec => []ScratchServesTheQuestion
<1>1. SetupIsSound => ScratchServesTheQuestion
  <2> SUFFICES ASSUME SetupIsSound PROVE ScratchServesTheQuestion
    OBVIOUS
  <2>1. ScratchFits
    BY DEF SetupIsSound
  <2>2. /\ Gathered(Open) \subseteq scratch.keys /\ IsInjective(scratch.queue)
        /\ "fill_id" \in scratch.keys => scratch.about \in AllRows \ ToSet(scratch.queue)
    BY <2>1 DEF ScratchFits, Serves
  <2>3. \A q : Reads(q) \subseteq Gathered(q)
    <3>1. \A q : q[2] \in {"quantity", "unit", "price", "phone", "new_party"} => Reads(q) = {}
      BY DEF Reads, ScriptAsk, RestartAsk
    <3> QED
      BY <3>1 DEF Gathered
  <2>4. stage # RestartAsk => Open = stage
    BY DEF Open
  <2>5. Reads(RestartAsk) = {"restart_prev_state"}
    BY DEF Reads, RestartAsk, ScriptAsk
  <2>6. Reads(stage) \cup Reads(Open) \subseteq scratch.keys
    BY <2>1, <2>2, <2>3, <2>4, <2>5 DEF ScratchFits
  <2>7. "relanguage" \in scratch.keys => stage[1] = "language"
    BY <2>1 DEF ScratchFits, LanguageAsk, ScriptAsk
  <2>8. "fill_id" \in scratch.keys => scratch.about # Nobody /\ scratch.about \notin ToSet(scratch.queue)
    BY <2>2, BoundsAreNumbers
  <2> QED
    BY <2>2, <2>6, <2>7, <2>8 DEF ScratchServesTheQuestion, Open
<1> QED
  BY <1>1, SetupStaysSound, PTL

(* Setup asks, of the sections nobody else changed, exactly those the      *)
(* summary of the import found empty.                                      *)
THEOREM OnlyTheRestIsAsked == Spec => []AskedExactlyTheRest
<1>1. SetupIsSound => AskedExactlyTheRest
  <2> SUFFICES ASSUME SetupIsSound, NEW s \in Sections \ touched, Progress > StepOfSection[s],
                      Progress < 9
               PROVE  s \in asked <=> s \notin summarised
    BY DEF AskedExactlyTheRest
  <2>1. Progress \in Nat /\ StepOfSection[s] \in Nat /\ StepOfSection[s] >= 2
    BY ProgressIsStep, Steps
  <2>2. Progress \in 2 .. 8 /\ StepOfSection[s] <= Progress
    BY <2>1
  <2> QED
    BY <2>2 DEF SetupIsSound, HistoryFits, Summarised, Acted
<1> QED
  BY <1>1, SetupStaysSound, PTL

(* Setup falls back to an earlier section by a confirmed restart only, and *)
(* that leaves no row behind.                                              *)
THEOREM SetupGoesForward == Spec => ProgressNeverFalls
<1> DEFINE Falls == Progress' < Progress => /\ stage = RestartAsk /\ stage' = <<"business", "type">>
                                            /\ \A s \in Sections : ~ Holds(s)'
<1>1. SetupIsSound /\ [Next]_vars => [Falls]_vars
  <2>1. SetupIsSound /\ Next => Falls
    BY NextFits DEF StepFits, Restarted
  <2> QED
    BY <2>1
<1> QED
  BY <1>1, SetupStaysSound, PTL DEF Spec, ProgressNeverFalls
=============================================================================
