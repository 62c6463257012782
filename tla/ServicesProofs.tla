---------------------------- MODULE ServicesProofs ----------------------------
(***************************************************************************)
(* What each service promises is proved of the composition: a step of one  *)
(* leaves the others alone, so an invariant of a service over its own      *)
(* variables is one of the whole.                                          *)
(***************************************************************************)
EXTENDS Services, RowTheorems, TLAPS

(* A step of the whole is a step of each service, or a stutter of it. *)
LEMMA EachMovesAlone ==
  ASSUME [ServicesNext]_allVars
  PROVE  /\ [Next]_vars
         /\ [Campaign!Next]_broadcastVars
         /\ [Status!Next]_statusVars
         /\ [Switch!Next]_activationVars
         /\ [Digest!Next]_digestVars
         /\ [Assistant!Next]_chainVars
  <1>1. CASE UNCHANGED allVars
    BY <1>1 DEF allVars, rulesVars, vars
  <1>2. CASE ServicesNext
    BY <1>2 DEF ServicesNext, OnlyPart, rulesVars, vars
  <1> QED
    BY <1>1, <1>2

-----------------------------------------------------------------------------
(* The notification rules.                                                 *)

AllSubjects == UNION {Subjects[r] : r \in RuleNames}

Pass == [at : 0 .. 5, stage : {"idle", "choose", "send"}, loaded : {"none", "other", "reminder"},
         todo : Seq(AllSubjects), marks : SUBSET Pairs, asks : BOOLEAN]

RulesTypes == /\ since \in [Pairs -> Nat] /\ heard \in [Pairs -> Nat]
              /\ \A p \in Pairs : since[p] <= Quiet[p[1]] /\ heard[p] <= Quiet[p[1]]
              /\ excused \subseteq Pairs
              /\ flow \in {"none", "other", "reminder"}
              /\ pass \in Pass
              /\ faults \in 0 .. MaxFaults

(* Every supplier has one place in the rotation. *)
RankingFits == /\ ranking \in Seq(Subjects["supplier"]) /\ IsInjective(ranking)
               /\ ToSet(ranking) = ToSet(DueOrder)

(* Between passes nothing is left over.  In a rule, whoever is still to be *)
(* messaged has no mark, committed inside the window or not; the marks not *)
(* committed are the rule's own.                                           *)
PassFits ==
  /\ pass.at = 0 <=> pass.stage = "idle"
  /\ pass.stage # "send" => pass.todo = <<>> /\ pass.marks = {}
  /\ pass.at # 0 =>
       /\ \A p \in pass.marks : p[1] = Rule
       /\ IsInjective(pass.todo)
       /\ \A e \in ToSet(pass.todo) : /\ e \in Lapsed(Rule)
                                      /\ <<Rule, e>> \notin pass.marks

(* A message inside the window has left a mark no older, or is about to,   *)
(* or a fault took it.                                                     *)
HeardIsMarked ==
  \A p \in Pairs : heard[p] < Quiet[p[1]] => p \in excused \/ p \in pass.marks \/ since[p] <= heard[p]

RulesInv == RulesTypes /\ RankingFits /\ PassFits /\ HeardIsMarked

(* The pairs a rule messages about. *)
LEMMA PairIs ==
  ASSUME NEW r \in RuleNames, NEW e \in Subjects[r]
  PROVE  <<r, e>> \in Pairs
<1>1. {<<s, f>> : s \in {r}, f \in Subjects[r]} = {<<r, f>> : f \in Subjects[r]}
  OBVIOUS
<1>2. {<<r, f>> : f \in Subjects[r]} \in {{<<s, f>> : f \in Subjects[s]} : s \in RuleNames}
  BY Zenon
<1>3. <<r, e>> \in {<<r, f>> : f \in Subjects[r]}
  OBVIOUS
<1> QED
  BY <1>2, <1>3, Zenon DEF Pairs

(* A pair has a rule, and the window of the rule. *)
LEMMA PairHasWindow ==
  ASSUME NEW p \in Pairs
  PROVE  p[1] \in RuleNames /\ Quiet[p[1]] \in Nat /\ Quiet[p[1]] > 0
<1>1. PICK r \in RuleNames : p \in {<<r, e>> : e \in Subjects[r]}
  BY Zenon DEF Pairs
<1>2. PICK e \in Subjects[r] : p = <<r, e>>
  BY <1>1
<1> QED
  BY <1>2, OutreachConstants

(* The rule of a pass. *)
LEMMA RuleIsOne ==
  ASSUME NEW at \in 1 .. 5
  PROVE  Order[at] \in RuleNames
  BY DEF Order, RuleNames

(* What a rule chooses are subjects that are due, each once. *)
LEMMA ChosenAreLapsed ==
  ASSUME RulesInv, pass.at # 0, NEW due \in SUBSET Subjects[Rule]
  PROVE  /\ Choice(Rule, due) \in Seq(Subjects[Rule]) /\ IsInjective(Choice(Rule, due))
         /\ ToSet(Choice(Rule, due)) \subseteq Lapsed(Rule)
<1>1. Rule \in RuleNames /\ pass.at \in 1 .. 5
  BY RuleIsOne DEF RulesInv, RulesTypes, Pass, Rule
<1>2. \A S, T : SetToSeq(S \cap T) \in Seq(S \cap T) => ToSet(SetToSeq(S \cap T)) \subseteq S \cap T
  BY DEF ToSet
<1>3. ASSUME NEW r \in RuleNames, NEW some \in SUBSET Subjects[r]
      PROVE  /\ SetToSeq(some \cap Lapsed(r)) \in Seq(Subjects[r]) /\ IsInjective(SetToSeq(some \cap Lapsed(r)))
             /\ ToSet(SetToSeq(some \cap Lapsed(r))) \subseteq Lapsed(r)
  <2>1. IsFiniteSet(some \cap Lapsed(r))
    BY OutreachConstants, FS_Subset
  <2>2. SetToSeq(some \cap Lapsed(r)) \in Seq(some \cap Lapsed(r)) /\ IsInjective(SetToSeq(some \cap Lapsed(r)))
    BY <2>1, QueueOfRows
  <2> DEFINE s == SetToSeq(some \cap Lapsed(r))
  <2> HIDE DEF s
  <2>3. s \in Seq(some \cap Lapsed(r)) /\ some \cap Lapsed(r) \subseteq Subjects[r]
    BY <2>2 DEF s
  <2>4. s \in Seq(Subjects[r])
    BY <2>3
  <2>5. ToSet(s) \subseteq Lapsed(r)
    BY <1>2, <2>3 DEF s
  <2> QED
    BY <2>2, <2>4, <2>5 DEF s
<1>4. CASE Rule = "supplier"
  <2> DEFINE eligible == due \cap Lapsed("supplier")
             byTurn == KeepOnly(ranking, eligible)
  <2>1. byTurn \in Seq(Subjects["supplier"]) /\ ToSet(byTurn) = ToSet(ranking) \cap eligible
    BY KeptIsQueue DEF RulesInv, RankingFits
  <2>2. Kept(eligible) \subseteq eligible
    <3> HIDE DEF byTurn
    <3>1. Len(byTurn) \in Nat
      BY <2>1
    <3>2. PICK n \in Nat : n <= Len(byTurn) /\ n = IF Len(byTurn) < Cap THEN Len(byTurn) ELSE Cap
      BY <3>1, OutreachConstants
    <3>3. SubSeq(byTurn, 1, n) = [i \in 1 .. n |-> byTurn[i]]
      BY <2>1, <3>2
    <3>4. ToSet(SubSeq(byTurn, 1, n)) \subseteq ToSet(byTurn)
      BY <2>1, <3>2, <3>3 DEF ToSet
    <3>5. Kept(eligible) = ToSet(SubSeq(byTurn, 1, n))
      BY <3>2 DEF Kept, byTurn
    <3> QED
      BY <2>1, <3>4, <3>5
  <2> HIDE DEF eligible
  <2>3. /\ KeepOnly(DueOrder, Kept(eligible)) \in Seq(Subjects["supplier"])
        /\ IsInjective(KeepOnly(DueOrder, Kept(eligible)))
        /\ ToSet(KeepOnly(DueOrder, Kept(eligible))) \subseteq eligible
    BY <2>2, KeptIsQueue, OutreachConstants
  <2>4. Choice(Rule, due) = KeepOnly(DueOrder, Kept(eligible))
    BY <1>4 DEF Choice, SupplierChoice, eligible
  <2> QED
    BY <1>4, <2>3, <2>4 DEF eligible
<1>5. CASE Rule \in RuleNames \ {"supplier"}
  <2>1. Choice(Rule, due) = SetToSeq(due \cap Lapsed(Rule))
    BY <1>5 DEF Choice, RuleNames, DealerChoice, CashChoice, StockChoice, PredueChoice
  <2> QED
    BY <1>1, <1>3, <2>1
<1> QED
  BY <1>1, <1>4, <1>5

(* What is left to message once the first has been. *)
LEMMA RestOfQueue ==
  ASSUME NEW S, NEW queue \in Seq(S), queue # <<>>, IsInjective(queue)
  PROVE  /\ Tail(queue) \in Seq(S) /\ IsInjective(Tail(queue)) /\ Head(queue) \in ToSet(queue)
         /\ ToSet(Tail(queue)) = ToSet(queue) \ {Head(queue)}
<1>1. /\ Len(queue) \in Nat /\ Len(queue) > 0 /\ DOMAIN queue = 1 .. Len(queue) /\ Head(queue) = queue[1]
      /\ Tail(queue) \in Seq(S) /\ DOMAIN Tail(queue) = 1 .. Len(queue) - 1
      /\ \A i \in 1 .. Len(queue) - 1 : Tail(queue)[i] = queue[i + 1]
  OBVIOUS
<1>2. IsInjective(Tail(queue))
  <2> SUFFICES ASSUME NEW i \in 1 .. Len(queue) - 1, NEW j \in 1 .. Len(queue) - 1, Tail(queue)[i] = Tail(queue)[j]
               PROVE  i = j
    BY <1>1 DEF IsInjective
  <2>1. i + 1 \in DOMAIN queue /\ j + 1 \in DOMAIN queue /\ queue[i + 1] = queue[j + 1]
    BY <1>1
  <2>2. i + 1 = j + 1
    BY <2>1 DEF IsInjective
  <2> QED
    BY <2>2
<1>3. ToSet(Tail(queue)) \subseteq ToSet(queue) \ {queue[1]}
  <2> SUFFICES ASSUME NEW i \in 1 .. Len(queue) - 1
               PROVE  Tail(queue)[i] \in ToSet(queue) \ {queue[1]}
    BY <1>1 DEF ToSet
  <2>1. i + 1 \in DOMAIN queue /\ 1 \in DOMAIN queue /\ i + 1 # 1 /\ Tail(queue)[i] = queue[i + 1]
    BY <1>1
  <2>2. queue[i + 1] # queue[1]
    BY <2>1 DEF IsInjective
  <2> QED
    BY <2>1, <2>2 DEF ToSet
<1>4. ToSet(queue) \ {queue[1]} \subseteq ToSet(Tail(queue))
  <2> SUFFICES ASSUME NEW i \in 1 .. Len(queue), i # 1 PROVE queue[i] \in ToSet(Tail(queue))
    BY <1>1 DEF ToSet
  <2>1. i - 1 \in 1 .. Len(queue) - 1 /\ (i - 1) + 1 = i
    BY <1>1
  <2>2. Tail(queue)[i - 1] = queue[i]
    BY <1>1, <2>1
  <2> QED
    BY <1>1, <2>1, <2>2 DEF ToSet
<1> QED
  BY <1>1, <1>2, <1>3, <1>4 DEF ToSet

(* A rotation puts the ones reminded last, and loses no supplier. *)
LEMMA RotationKeeps ==
  ASSUME RankingFits, NEW told \in SUBSET Subjects["supplier"]
  PROVE  LET turned == KeepOnly(ranking, Subjects["supplier"] \ told) \o KeepOnly(DueOrder, told)
         IN  turned \in Seq(Subjects["supplier"]) /\ IsInjective(turned) /\ ToSet(turned) = ToSet(DueOrder)
<1> DEFINE S == Subjects["supplier"]
<1>1. PICK a, b : a = KeepOnly(ranking, S \ told) /\ b = KeepOnly(DueOrder, told)
  OBVIOUS
<1>2. /\ a \in Seq(S) /\ IsInjective(a) /\ ToSet(a) = ToSet(DueOrder) \cap (S \ told)
      /\ b \in Seq(S) /\ IsInjective(b) /\ ToSet(b) = ToSet(DueOrder) \cap told
  BY <1>1, KeptIsQueue, OutreachConstants DEF RankingFits
<1>3. ToSet(DueOrder) \subseteq S
  BY OutreachConstants DEF ToSet
<1>4. /\ a \o b \in Seq(S) /\ Len(a) \in Nat /\ Len(b) \in Nat
      /\ DOMAIN a = 1 .. Len(a) /\ DOMAIN b = 1 .. Len(b) /\ DOMAIN (a \o b) = 1 .. Len(a) + Len(b)
      /\ \A i \in 1 .. Len(a) : (a \o b)[i] = a[i]
      /\ \A i \in 1 .. Len(b) : (a \o b)[Len(a) + i] = b[i]
  BY <1>2
<1>5. \A i \in 1 .. Len(a) + Len(b) : i \in 1 .. Len(a) \/ (i - Len(a) \in 1 .. Len(b) /\ Len(a) + (i - Len(a)) = i)
  BY <1>4
<1>6. \A i \in 1 .. Len(a), j \in 1 .. Len(b) : a[i] # b[j]
  BY <1>2, <1>4 DEF ToSet
<1>7. IsInjective(a \o b)
  <2> SUFFICES ASSUME NEW i \in 1 .. Len(a) + Len(b), NEW j \in 1 .. Len(a) + Len(b), (a \o b)[i] = (a \o b)[j]
               PROVE  i = j
    BY <1>4 DEF IsInjective
  <2>1. CASE i \in 1 .. Len(a) /\ j \in 1 .. Len(a)
    BY <1>2, <1>4, <2>1 DEF IsInjective
  <2>2. CASE i - Len(a) \in 1 .. Len(b) /\ j - Len(a) \in 1 .. Len(b)
    <3>1. b[i - Len(a)] = b[j - Len(a)]
      BY <1>4, <1>5, <2>2
    <3>2. i - Len(a) = j - Len(a)
      BY <1>2, <1>4, <2>2, <3>1 DEF IsInjective
    <3> QED
      BY <1>4, <3>2
  <2>3. CASE i \in 1 .. Len(a) /\ j - Len(a) \in 1 .. Len(b)
    BY <1>4, <1>6, <2>3
  <2>4. CASE i - Len(a) \in 1 .. Len(b) /\ j \in 1 .. Len(a)
    BY <1>4, <1>6, <2>4
  <2> QED
    BY <1>5, <2>1, <2>2, <2>3, <2>4
<1>8. ToSet(a \o b) = ToSet(a) \cup ToSet(b)
  <2>1. ToSet(a \o b) \subseteq ToSet(a) \cup ToSet(b)
    BY <1>4, <1>5 DEF ToSet
  <2>2. \A i \in 1 .. Len(a) : i \in DOMAIN (a \o b)
    BY <1>4
  <2>3. \A i \in 1 .. Len(b) : Len(a) + i \in DOMAIN (a \o b)
    BY <1>4
  <2>4. \A i \in 1 .. Len(a) : a[i] \in ToSet(a \o b)
    BY <1>4, <2>2 DEF ToSet
  <2>5. \A i \in 1 .. Len(b) : b[i] \in ToSet(a \o b)
    BY <1>4, <2>3 DEF ToSet
  <2>6. ToSet(a) = {a[i] : i \in 1 .. Len(a)} /\ ToSet(b) = {b[i] : i \in 1 .. Len(b)}
    BY <1>4 DEF ToSet
  <2> QED
    BY <2>1, <2>4, <2>5, <2>6
<1> QED
  BY <1>1, <1>2, <1>3, <1>4, <1>7, <1>8

(* The invariant holds before the first pass. *)
LEMMA RulesInit == Init => RulesInv
<1> SUFFICES ASSUME Init PROVE RulesInv
  OBVIOUS
<1>1. pass = NoPass /\ pass.at = 0 /\ pass.stage = "idle" /\ pass.marks = {} /\ pass.todo = <<>>
  BY DEF Init, NoPass
<1>2. pass \in Pass
  BY <1>1 DEF NoPass, Pass
<1>3. RulesTypes
  BY <1>2, PairHasWindow, OutreachConstants DEF Init, RulesTypes
<1>4. RankingFits
  BY OutreachConstants DEF Init, RankingFits
<1>5. PassFits
  BY <1>1 DEF PassFits
<1>6. HeardIsMarked
  BY PairHasWindow DEF Init, HeardIsMarked
<1> QED
  BY <1>3, <1>4, <1>5, <1>6 DEF RulesInv

(* A pass starts with nothing chosen. *)
LEMMA StartPassKeeps == ASSUME RulesInv, StartPass PROVE RulesInv'
<1>1. /\ pass'.at = 1 /\ pass'.stage = "choose" /\ pass'.todo = <<>> /\ pass'.marks = {} /\ pass' \in Pass
      /\ pass.marks = {}
  <2>1. pass' = [NoPass EXCEPT !.at = 1, !.stage = "choose", !.loaded = flow] /\ pass.marks = {}
    BY DEF StartPass, RulesInv, PassFits
  <2>2. /\ pass'.at = 1 /\ pass'.stage = "choose" /\ pass'.loaded = flow /\ pass'.todo = <<>>
        /\ pass'.marks = {} /\ pass'.asks = FALSE
        /\ DOMAIN pass' = {"at", "stage", "loaded", "todo", "marks", "asks"}
    BY <2>1 DEF NoPass
  <2>3. pass' = [at |-> 1, stage |-> "choose", loaded |-> flow, todo |-> <<>>, marks |-> {}, asks |-> FALSE]
    BY <2>1 DEF NoPass
  <2>4. flow \in {"none", "other", "reminder"}
    BY DEF RulesInv, RulesTypes
  <2>5. [at |-> 1, stage |-> "choose", loaded |-> flow, todo |-> <<>>, marks |-> {}, asks |-> FALSE] \in Pass
    BY <2>4 DEF Pass
  <2>6. pass' \in Pass
    BY <2>3, <2>5
  <2> QED
    BY <2>1, <2>2, <2>6
<1>2. RulesTypes' /\ RankingFits'
  BY <1>1 DEF StartPass, RulesInv, RulesTypes, RankingFits
<1>3. PassFits'
  BY <1>1 DEF PassFits, ToSet, IsInjective
<1>4. HeardIsMarked'
  BY <1>1 DEF StartPass, RulesInv, HeardIsMarked
<1> QED
  BY <1>2, <1>3, <1>4 DEF RulesInv

(* A rule chooses subjects that are due. *)
LEMMA ChooseKeeps ==
  ASSUME RulesInv, NEW due \in SUBSET Subjects[Rule], ChooseFor(due)
  PROVE  RulesInv'
<1>1. pass.stage = "choose" /\ pass.at # 0 /\ pass.marks = {} /\ pass \in Pass
  BY DEF ChooseFor, RulesInv, RulesTypes, PassFits
<1>2. PICK c : c = Choice(Rule, due)
  OBVIOUS
<1>3. c \in Seq(Subjects[Rule]) /\ IsInjective(c) /\ ToSet(c) \subseteq Lapsed(Rule)
  BY <1>1, <1>2, ChosenAreLapsed
<1>4. Rule \in RuleNames
  BY <1>1, RuleIsOne DEF Pass, Rule
<1>5. c \in Seq(AllSubjects)
  <2>1. Subjects[Rule] \subseteq AllSubjects
    BY <1>4 DEF AllSubjects
  <2> QED
    BY <1>3, <2>1
<1>6. PICK asks \in BOOLEAN : pass' = [pass EXCEPT !.stage = "send", !.todo = c, !.asks = asks]
  BY <1>2 DEF ChooseFor
<1>7. /\ pass'.at = pass.at /\ pass'.stage = "send" /\ pass'.todo = c /\ pass'.marks = {} /\ pass' \in Pass
      /\ Rule' = Rule /\ Lapsed(Rule)' = Lapsed(Rule)
  <2>1. /\ pass'.at = pass.at /\ pass'.stage = "send" /\ pass'.todo = c /\ pass'.marks = {}
        /\ pass' \in Pass
    BY <1>1, <1>5, <1>6 DEF Pass
  <2>2. Rule' = Rule /\ since' = since
    BY <2>1 DEF Rule, ChooseFor
  <2> QED
    BY <2>1, <2>2 DEF Lapsed
<1>8. RulesTypes' /\ RankingFits'
  BY <1>7 DEF ChooseFor, RulesInv, RulesTypes, RankingFits
<1>9. PassFits'
  BY <1>1, <1>3, <1>7 DEF PassFits
<1>10. HeardIsMarked'
  BY <1>1, <1>7 DEF ChooseFor, RulesInv, HeardIsMarked
<1> QED
  BY <1>8, <1>9, <1>10 DEF RulesInv

(* A message is sent about the first that is left. *)
LEMMA FirstIsLapsed ==
  ASSUME RulesInv, pass.at # 0, pass.todo # <<>>
  PROVE  /\ <<Rule, Head(pass.todo)>> \in Pairs /\ <<Rule, Head(pass.todo)>> \notin pass.marks
         /\ since[<<Rule, Head(pass.todo)>>] = Quiet[Rule]
         /\ Tail(pass.todo) \in Seq(AllSubjects) /\ IsInjective(Tail(pass.todo))
         /\ ToSet(Tail(pass.todo)) = ToSet(pass.todo) \ {Head(pass.todo)}
<1>1. Rule \in RuleNames
  BY RuleIsOne DEF RulesInv, RulesTypes, Pass, Rule
<1>2. pass.todo \in Seq(AllSubjects) /\ IsInjective(pass.todo)
  BY DEF RulesInv, RulesTypes, Pass, PassFits
<1>3. /\ Tail(pass.todo) \in Seq(AllSubjects) /\ IsInjective(Tail(pass.todo))
      /\ Head(pass.todo) \in ToSet(pass.todo)
      /\ ToSet(Tail(pass.todo)) = ToSet(pass.todo) \ {Head(pass.todo)}
  BY <1>2, RestOfQueue
<1>4. Head(pass.todo) \in Lapsed(Rule) /\ <<Rule, Head(pass.todo)>> \notin pass.marks
  BY <1>3 DEF RulesInv, PassFits
<1> QED
  BY <1>1, <1>3, <1>4, PairIs DEF Lapsed

(* What was sent is marked if it is known to have been, excused if not. *)
LEMMA SendNextKeeps ==
  ASSUME RulesInv, NEW outcome \in Outcomes, SendNext(outcome)
  PROVE  RulesInv'
<1>1. pass.stage = "send" /\ pass.at # 0 /\ pass.todo # <<>> /\ pass \in Pass
  BY DEF SendNext, RulesInv, RulesTypes, PassFits
<1>2. PICK p, rest : p = <<Rule, Head(pass.todo)>> /\ rest = Tail(pass.todo)
  OBVIOUS
<1>3. /\ p \in Pairs /\ p \notin pass.marks /\ since[p] = Quiet[p[1]] /\ p[1] = Rule
      /\ rest \in Seq(AllSubjects) /\ IsInjective(rest) /\ ToSet(rest) = ToSet(pass.todo) \ {Head(pass.todo)}
  BY <1>1, <1>2, FirstIsLapsed
<1>4. /\ pass' = [pass EXCEPT !.todo = rest, !.marks = pass.marks \cup Marks(outcome, p)]
      /\ heard' = IF Arrives(outcome) THEN [heard EXCEPT ![p] = 0] ELSE heard
      /\ IF outcome = "unanswered"
           THEN faults < MaxFaults /\ faults' = faults + 1 /\ excused' = excused \cup {p}
           ELSE UNCHANGED <<faults, excused>>
      /\ UNCHANGED <<since, ranking, flow>>
  BY <1>2 DEF SendNext
<1>5. Marks(outcome, p) \subseteq {p}
  BY DEF Marks
<1>6. /\ pass'.at = pass.at /\ pass'.stage = "send" /\ pass'.todo = rest
      /\ pass'.marks = pass.marks \cup Marks(outcome, p) /\ pass' \in Pass
      /\ Rule' = Rule /\ Lapsed(Rule)' = Lapsed(Rule)
  BY <1>1, <1>3, <1>4, <1>5 DEF Pass, Rule, Lapsed
<1>7. RulesTypes'
  <2>1. heard \in [Pairs -> Nat] /\ \A q \in Pairs : heard[q] <= Quiet[q[1]]
    BY DEF RulesInv, RulesTypes
  <2>2. heard' \in [Pairs -> Nat] /\ \A q \in Pairs : heard'[q] <= Quiet[q[1]]
    BY <1>3, <1>4, <2>1, PairHasWindow
  <2>3. faults' \in 0 .. MaxFaults /\ excused' \subseteq Pairs
    BY <1>3, <1>4, OutreachConstants DEF RulesInv, RulesTypes
  <2> QED
    BY <1>4, <1>6, <2>2, <2>3 DEF RulesInv, RulesTypes
<1>8. RankingFits'
  BY <1>4 DEF RulesInv, RankingFits
<1>9. PassFits'
  <2>1. \A q \in pass'.marks : q[1] = Rule
    BY <1>1, <1>3, <1>5, <1>6 DEF RulesInv, PassFits
  <2>2. ASSUME NEW e \in ToSet(rest) PROVE e \in Lapsed(Rule) /\ <<Rule, e>> \notin pass'.marks
    <3>1. e \in ToSet(pass.todo) /\ e # Head(pass.todo)
      BY <1>3
    <3>2. <<Rule, e>> # p
      BY <1>2, <3>1
    <3> QED
      BY <1>1, <1>5, <1>6, <3>1, <3>2 DEF RulesInv, PassFits
  <2> QED
    BY <1>1, <1>3, <1>6, <2>1, <2>2 DEF PassFits
<1>10. HeardIsMarked'
  <2> SUFFICES ASSUME NEW q \in Pairs, heard'[q] < Quiet[q[1]]
               PROVE  q \in excused' \/ q \in pass'.marks \/ since[q] <= heard'[q]
    BY <1>4 DEF HeardIsMarked
  <2>1. excused \subseteq excused' /\ pass.marks \subseteq pass'.marks
    BY <1>4, <1>6
  <2>2. CASE heard'[q] = heard[q]
    BY <2>1, <2>2 DEF RulesInv, HeardIsMarked
  <2>3. CASE heard'[q] # heard[q]
    <3>1. q = p /\ Arrives(outcome)
      BY <1>3, <1>4, <2>3 DEF RulesInv, RulesTypes
    <3>2. CASE outcome = "accepted"
      BY <1>6, <3>1, <3>2 DEF Marks
    <3>3. CASE outcome = "unanswered"
      BY <1>4, <3>1, <3>3
    <3> QED
      BY <3>1, <3>2, <3>3 DEF Outcomes, Arrives
  <2> QED
    BY <2>2, <2>3
<1> QED
  BY <1>7, <1>8, <1>9, <1>10 DEF RulesInv

(* A rule's marks are committed with the rotation. *)
LEMMA CommitRuleKeeps == ASSUME RulesInv, CommitRule PROVE RulesInv'
<1> DEFINE told == {s \in Subjects["supplier"] : <<"supplier", s>> \in pass.marks}
           next == IF pass.at < 5
                     THEN [pass EXCEPT !.at = pass.at + 1, !.stage = "choose", !.marks = {}, !.asks = FALSE]
                     ELSE NoPass
<1>1. /\ pass.stage = "send" /\ pass.at # 0 /\ pass.todo = <<>> /\ pass \in Pass
      /\ since' = [p \in Pairs |-> IF p \in pass.marks THEN 0 ELSE since[p]]
      /\ ranking' = KeepOnly(ranking, Subjects["supplier"] \ told) \o KeepOnly(DueOrder, told)
      /\ excused' = excused \ pass.marks
      /\ flow' \in {"none", "other", "reminder"}
      /\ pass' = next
      /\ heard' = heard /\ faults' = faults
  BY DEF CommitRule, RulesInv, RulesTypes, PassFits, Order
<1>2. pass.at \in 1 .. 5
  BY <1>1 DEF Pass
<1>3. next \in Pass /\ next.marks = {} /\ next.todo = <<>> /\ next.stage # "send"
      /\ (next.at = 0 <=> next.stage = "idle")
  <2>1. CASE pass.at < 5
    <3>1. next = [pass EXCEPT !.at = pass.at + 1, !.stage = "choose", !.marks = {}, !.asks = FALSE]
      BY <2>1
    <3>2. pass.at + 1 \in 0 .. 5 /\ pass.at + 1 # 0
      BY <1>2, <2>1
    <3> HIDE DEF next
    <3>3. next \in Pass
      BY <1>1, <3>1, <3>2 DEF Pass
    <3>4. next.marks = {} /\ next.todo = <<>> /\ next.stage = "choose" /\ next.at = pass.at + 1
      BY <1>1, <3>1 DEF Pass
    <3> QED
      BY <3>2, <3>3, <3>4
  <2>2. CASE ~ (pass.at < 5)
    BY <2>2 DEF NoPass, Pass
  <2> QED
    BY <2>1, <2>2
<1> HIDE DEF next
<1>4. RulesTypes'
  <2>1. since' \in [Pairs -> Nat] /\ \A p \in Pairs : since'[p] <= Quiet[p[1]]
    BY <1>1, PairHasWindow DEF RulesInv, RulesTypes
  <2> QED
    BY <1>1, <1>3, <2>1 DEF RulesInv, RulesTypes
<1>5. RankingFits'
  <2>1. told \in SUBSET Subjects["supplier"] /\ RankingFits
    BY DEF RulesInv
  <2> HIDE DEF told
  <2> QED
    BY <1>1, <2>1, RotationKeeps DEF RankingFits
<1>6. PassFits'
  BY <1>1, <1>3 DEF PassFits, ToSet, IsInjective
<1>7. HeardIsMarked'
  <2> SUFFICES ASSUME NEW p \in Pairs, heard[p] < Quiet[p[1]] PROVE p \in excused' \/ since'[p] <= heard[p]
    BY <1>1 DEF HeardIsMarked
  <2>1. p \in excused \/ p \in pass.marks \/ since[p] <= heard[p]
    BY DEF RulesInv, HeardIsMarked
  <2>2. heard[p] \in Nat
    BY DEF RulesInv, RulesTypes
  <2> QED
    BY <1>1, <2>1, <2>2
<1> QED
  BY <1>4, <1>5, <1>6, <1>7 DEF RulesInv

(* A crash excuses what was sent and not committed. *)
LEMMA CrashKeeps == ASSUME RulesInv, Crash PROVE RulesInv'
<1>1. pass' = NoPass /\ pass'.at = 0 /\ pass'.stage = "idle" /\ pass'.marks = {} /\ pass'.todo = <<>>
  BY DEF Crash, NoPass
<1>2. excused' = excused \cup pass.marks
  BY DEF Crash, RulesInv, PassFits
<1>3. RulesTypes'
  <2>1. faults' \in 0 .. MaxFaults
    BY OutreachConstants DEF Crash, RulesInv, RulesTypes
  <2>2. pass' \in Pass
    BY <1>1 DEF NoPass, Pass
  <2>3. excused' \subseteq Pairs
    BY <1>2 DEF RulesInv, RulesTypes, Pass
  <2> QED
    BY <2>1, <2>2, <2>3 DEF Crash, RulesInv, RulesTypes
<1>4. RankingFits' /\ PassFits'
  BY <1>1 DEF Crash, RulesInv, RankingFits, PassFits
<1>5. HeardIsMarked'
  BY <1>2 DEF Crash, RulesInv, HeardIsMarked
<1> QED
  BY <1>3, <1>4, <1>5 DEF RulesInv

(* A day makes the message and its mark older together. *)
LEMMA NewDayKeeps == ASSUME RulesInv, NewDay PROVE RulesInv'
<1>1. pass.at = 0 /\ pass' = pass /\ pass.marks = {} /\ excused' = excused
  BY DEF NewDay, RulesInv, PassFits
<1>2. \A p \in Pairs : /\ since[p] \in Nat /\ heard[p] \in Nat /\ Quiet[p[1]] \in Nat
                       /\ since[p] <= Quiet[p[1]] /\ heard[p] <= Quiet[p[1]]
  BY PairHasWindow DEF RulesInv, RulesTypes
<1>3. /\ since' = [p \in Pairs |-> IF since[p] < Quiet[p[1]] THEN since[p] + 1 ELSE since[p]]
      /\ heard' = [p \in Pairs |-> IF heard[p] < Quiet[p[1]] THEN heard[p] + 1 ELSE heard[p]]
  BY DEF NewDay, Older
<1>4. RulesTypes'
  <2>1. since' \in [Pairs -> Nat] /\ heard' \in [Pairs -> Nat]
    BY <1>2, <1>3
  <2>2. \A p \in Pairs : since'[p] <= Quiet[p[1]] /\ heard'[p] <= Quiet[p[1]]
    BY <1>2, <1>3
  <2> QED
    BY <2>1, <2>2 DEF NewDay, RulesInv, RulesTypes
<1>5. RankingFits' /\ PassFits'
  BY <1>1 DEF NewDay, RulesInv, RankingFits, PassFits
<1>6. HeardIsMarked'
  <2> SUFFICES ASSUME NEW p \in Pairs, heard'[p] < Quiet[p[1]] PROVE p \in excused \/ since'[p] <= heard'[p]
    BY <1>1 DEF HeardIsMarked
  <2>1. heard[p] < Quiet[p[1]] /\ heard'[p] = heard[p] + 1
    BY <1>2, <1>3
  <2>2. p \in excused \/ since[p] <= heard[p]
    BY <1>1, <2>1 DEF RulesInv, HeardIsMarked
  <2>3. since[p] <= heard[p] => since'[p] = since[p] + 1
    BY <1>2, <1>3, <2>1
  <2> QED
    BY <1>2, <2>1, <2>2, <2>3
<1> QED
  BY <1>4, <1>5, <1>6 DEF RulesInv

(* The invariant is inductive. *)
LEMMA RulesStep == RulesInv /\ [Next]_vars => RulesInv'
<1> SUFFICES ASSUME RulesInv, [Next]_vars PROVE RulesInv'
  OBVIOUS
<1>1. CASE \E due \in SUBSET Subjects[Rule] : ChooseFor(due)
  BY <1>1, ChooseKeeps
<1>2. CASE \E outcome \in Outcomes : SendNext(outcome)
  BY <1>2, SendNextKeeps
<1>3. CASE FounderActs
  BY <1>3 DEF FounderActs, RulesInv, RulesTypes, RankingFits, PassFits, HeardIsMarked, Lapsed, Rule
<1>4. CASE UNCHANGED vars
  BY <1>4 DEF vars, RulesInv, RulesTypes, RankingFits, PassFits, HeardIsMarked, Lapsed, Rule
<1> QED
  BY <1>1, <1>2, <1>3, <1>4, StartPassKeeps, CommitRuleKeeps, CrashKeeps, NewDayKeeps DEF Next

(* Nobody is messaged about who has heard inside the window, unless a fault *)
(* took the mark: whoever is chosen is past the committed mark, and has no  *)
(* other.                                                                   *)
LEMMA QuietIsKept ==
  ASSUME RulesInv
  PROVE  \A p \in Pairs : /\ pass.todo # <<>>
                          /\ p = <<Rule, Head(pass.todo)>>
                          /\ heard[p] < Quiet[p[1]]
                          => p \in excused
<1> SUFFICES ASSUME NEW p \in Pairs, pass.todo # <<>>, p = <<Rule, Head(pass.todo)>>, heard[p] < Quiet[p[1]]
             PROVE  p \in excused
  OBVIOUS
<1>1. pass.at # 0
  BY DEF RulesInv, PassFits
<1>2. since[p] = Quiet[p[1]] /\ p \notin pass.marks
  BY <1>1, FirstIsLapsed
<1>3. since[p] \in Nat /\ heard[p] \in Nat
  BY DEF RulesInv, RulesTypes
<1> QED
  BY <1>2, <1>3 DEF RulesInv, HeardIsMarked

(* The invariant of the rules holds of the composition. *)
LEMMA RulesAlways == ServicesSpec => []RulesInv
<1>1. ServicesInit => RulesInv
  BY RulesInit DEF ServicesInit
<1>2. RulesInv /\ [ServicesNext]_allVars => RulesInv'
  BY RulesStep, EachMovesAlone
<1> QED
  BY <1>1, <1>2, PTL DEF ServicesSpec

(* The founder hears of a subject once per quiet window, unless a fault     *)
(* took the mark of the message before (services/notifications).            *)
THEOREM RulesAreQuiet == ServicesSpec => OncePerQuietWindow
<1>1. RulesInv /\ [ServicesNext]_allVars
        => [\A p \in Pairs : /\ pass.todo # <<>>
                             /\ p = <<Rule, Head(pass.todo)>>
                             /\ pass'.todo = Tail(pass.todo)
                             /\ heard'[p] = 0
                             /\ heard[p] < Quiet[p[1]]
                             => p \in excused]_vars
  BY QuietIsKept
<1> QED
  BY <1>1, RulesAlways, PTL DEF ServicesSpec, OncePerQuietWindow

-----------------------------------------------------------------------------
(* The status of a message.                                                *)

Callback == [status : Status!Statuses, read : Status!Statuses]

(* What a session that is handling a callback has read is still recorded,  *)
(* unless two were ever at it at once.                                     *)
ReadIsCurrent ==
  ~overlapped => \A s \in Sessions : session[s] # Status!Free =>
                    /\ session[s].read = row
                    /\ \A q \in Sessions \ {s} : session[q] = Status!Free

(* A status that Meta has not reached is nowhere. *)
OnlyReported == /\ row # "none" => row \in reported
                /\ \A s \in Sessions : session[s] # Status!Free => session[s].status \in reported

StatusInv ==
       /\ row \in Status!Statuses \cup {"none"} /\ reported \subseteq Status!Statuses /\ "sent" \in reported
       /\ session \in [Sessions -> Callback \cup {Status!Free}]
       /\ overlapped \in BOOLEAN
       /\ \A s \in Sessions : session[s] # Status!Free => row # "none"
       /\ OnlyReported
       /\ ReadIsCurrent

(* A callback is never mistaken for a free session. *)
LEMMA FreeIsNoCallback == Status!Free \notin Callback
  BY DEF Status!Free, Callback, Status!Statuses

(* The invariant is inductive. *)
LEMMA StatusInit == Status!Init => StatusInv
  BY DEF Status!Init, StatusInv, OnlyReported, ReadIsCurrent, Status!Statuses

(* A callback is read with the status on record. *)
LEMMA LoadKeeps ==
  ASSUME StatusInv, NEW s \in Sessions, NEW status \in Status!Statuses, Status!Load(s, status)
  PROVE  StatusInv'
  <1>1. [status |-> status, read |-> row] \in Callback
    BY DEF Status!Load, StatusInv, Callback
  <1>2. session' = [session EXCEPT ![s] = [status |-> status, read |-> row]]
    BY DEF Status!Load
  <1>3. session' \in [Sessions -> Callback \cup {Status!Free}] /\ overlapped' \in BOOLEAN
    BY <1>1, <1>2 DEF Status!Load, StatusInv
  <1>4. OnlyReported'
    BY <1>1, <1>2 DEF Status!Load, StatusInv, OnlyReported, Callback
  <1>5. ReadIsCurrent'
    <2> SUFFICES ASSUME ~overlapped', NEW p \in Sessions, session'[p] # Status!Free
                 PROVE  /\ session'[p].read = row'
                        /\ \A q \in Sessions \ {p} : session'[q] = Status!Free
      BY DEF ReadIsCurrent
    <2>1. \A q \in Sessions \ {s} : session[q] = Status!Free
      BY DEF Status!Load
    <2>2. p = s
      BY <1>2, <2>1 DEF StatusInv
    <2> QED
      BY <1>2, <2>1, <2>2 DEF Status!Load, StatusInv
  <1> QED
    BY <1>2, <1>3, <1>4, <1>5 DEF Status!Load, StatusInv

(* It writes only what advances the status it read. *)
LEMMA StoreKeeps ==
  ASSUME StatusInv, NEW s \in Sessions, Status!Store(s)
  PROVE  StatusInv'
  <1>1. session[s] \in Callback /\ session[s].status \in Status!Statuses
    BY DEF Status!Store, StatusInv, Callback
  <1>2. session' = [session EXCEPT ![s] = Status!Free]
        /\ UNCHANGED <<reported, overlapped>>
        /\ row' \in {row, session[s].status}
    BY DEF Status!Store
  <1>3. row' \in reported /\ row' # "none" /\ row' \in Status!Statuses
    BY <1>1, <1>2 DEF Status!Store, StatusInv, OnlyReported, Status!Statuses
  <1>4. session' \in [Sessions -> Callback \cup {Status!Free}]
    BY <1>2 DEF StatusInv
  <1>5. OnlyReported'
    BY <1>2, <1>3 DEF StatusInv, OnlyReported
  <1>6. ReadIsCurrent'
    <2> SUFFICES ASSUME ~overlapped, NEW p \in Sessions, session'[p] # Status!Free
                 PROVE  FALSE
      BY <1>2 DEF ReadIsCurrent
    <2>1. p # s /\ session[p] # Status!Free
      BY <1>2 DEF StatusInv
    <2> QED
      BY <2>1 DEF Status!Store, StatusInv, ReadIsCurrent
  <1> QED
    BY <1>2, <1>3, <1>4, <1>5, <1>6 DEF StatusInv

(* So every step of the callbacks keeps the invariant. *)
LEMMA StatusStep == StatusInv /\ [Status!Next]_statusVars => StatusInv'
  <1> SUFFICES ASSUME StatusInv, [Status!Next]_statusVars
               PROVE  StatusInv'
    OBVIOUS
  <1>1. CASE Status!LogRow
    BY <1>1 DEF Status!LogRow, StatusInv, OnlyReported, ReadIsCurrent, Status!Statuses
  <1>2. CASE Status!Progresses
    BY <1>2 DEF Status!Progresses, StatusInv, OnlyReported, ReadIsCurrent, Status!Statuses
  <1>3. CASE UNCHANGED statusVars
    BY <1>3 DEF statusVars, StatusInv, OnlyReported, ReadIsCurrent
  <1> QED
    BY <1>1, <1>2, <1>3, LoadKeeps, StoreKeeps DEF Status!Next

(* One step of the ladder. *)
LEMMA Advances ==
  ASSUME StatusInv, [Status!Next]_statusVars, ~overlapped', "other" \notin reported
  PROVE  Status!Rank(row') >= Status!Rank(row)
  <1>1. \A r \in Status!Statuses \cup {"none"} : Status!Rank(r) \in Nat
    BY DEF Status!Rank, Status!Statuses
  <1>2. \A r \in Status!Statuses \ {"other"} : Status!Rank(r) > 0
    BY DEF Status!Rank, Status!Statuses
  <1>3. ASSUME NEW s \in Sessions, Status!Store(s)
        PROVE  Status!Rank(row') >= Status!Rank(row)
    <2>1. /\ session[s] # Status!Free /\ session[s].read = row /\ session[s] \in Callback
          /\ session[s].status \in Status!Statuses \ {"other"} /\ row \in Status!Statuses \ {"other"}
      BY <1>3 DEF Status!Store, StatusInv, ReadIsCurrent, OnlyReported, Callback
    <2>2. row' = IF Status!Rank(session[s].status) <= Status!Rank(row) THEN row ELSE session[s].status
      BY <1>2, <1>3, <2>1 DEF Status!Store
    <2> QED
      BY <1>1, <2>1, <2>2
  <1>4. CASE row' = row
    BY <1>1, <1>4 DEF StatusInv
  <1>5. CASE Status!LogRow
    BY <1>5 DEF Status!LogRow, Status!Rank
  <1> QED
    BY <1>3, <1>4, <1>5 DEF Status!Next, Status!Progresses, Status!Load, statusVars

(* Late, repeated and reordered callbacks never take the status back, as   *)
(* long as they do not overlap: _DELIVERY_STATUS_RANK is enough for that.  *)
THEOREM StatusAdvances == ServicesSpec => AloneOnlyAdvances
  <1>1. ServicesInit => StatusInv
    BY StatusInit DEF ServicesInit
  <1>2. StatusInv /\ [ServicesNext]_allVars => StatusInv'
    BY StatusStep, EachMovesAlone
  <1>3. StatusInv /\ [ServicesNext]_allVars
          => [~overlapped' /\ "other" \notin reported => Status!Rank(row') >= Status!Rank(row)]_statusVars
    BY Advances, EachMovesAlone
  <1> QED
    BY <1>1, <1>2, <1>3, PTL
       DEF ServicesSpec, AloneOnlyAdvances, Status!AloneOnlyAdvances, Status!vars, statusVars

-----------------------------------------------------------------------------
(* Switching a company on.                                                 *)

(* The requests that have won the flag and not sent their welcome yet. *)
Claimed == {c \in Callers : calls[c] = "claimed"}

(* The welcomes sent and those still to be sent. *)
WelcomesAreCovered == welcomes + Cardinality(Claimed) <= flips

(* The instance of Activation brings a Cardinality of its own. *)
LEMMA SameCardinality == \A S : Switch!Cardinality(S) = Cardinality(S)
  BY Zenon DEF Switch!Cardinality, Cardinality

(* The invariant is inductive together with the types. *)
SwitchInv == Switch!TypeOK /\ WelcomesAreCovered

(* Of finitely many requests, finitely many hold a claim. *)
LEMMA ClaimedIsFinite ==
  ASSUME IsFiniteSet(Callers), NEW S \in SUBSET Callers
  PROVE  IsFiniteSet(S) /\ Cardinality(S) \in Nat
  BY FS_Subset, FS_CardinalityType

(* One more claim, one more switch-on. *)
LEMMA ClaimCounts ==
  ASSUME IsFiniteSet(Callers), SwitchInv, NEW c \in Callers, Switch!Claim(c)
  PROVE  SwitchInv'
  <1>1. CASE active
    <2>1. Claimed' \subseteq Claimed
      BY <1>1 DEF Switch!Claim, Claimed, SwitchInv, Switch!TypeOK
    <2>2. /\ Cardinality(Claimed') <= Cardinality(Claimed)
          /\ Cardinality(Claimed') \in Nat /\ Cardinality(Claimed) \in Nat
      BY <2>1, ClaimedIsFinite, FS_Subset DEF Claimed
    <2>3. Switch!TypeOK' /\ welcomes' = welcomes /\ flips' = flips
      BY <1>1 DEF Switch!Claim, SwitchInv, Switch!TypeOK
    <2> QED
      BY <2>2, <2>3 DEF SwitchInv, WelcomesAreCovered, Claimed, Switch!TypeOK
  <1>2. CASE ~active
    <2>1. Claimed' = Claimed \cup {c} /\ c \notin Claimed
      BY <1>2 DEF Switch!Claim, Claimed, SwitchInv, Switch!TypeOK
    <2>2. IsFiniteSet(Claimed) /\ Cardinality(Claimed) \in Nat
      BY ClaimedIsFinite DEF Claimed
    <2>3. Cardinality(Claimed') = Cardinality(Claimed) + 1
      BY <2>1, <2>2, FS_AddElement
    <2>4. Switch!TypeOK' /\ welcomes' = welcomes /\ flips' = flips + 1
      BY <1>2 DEF Switch!Claim, SwitchInv, Switch!TypeOK
    <2> QED
      BY <2>2, <2>3, <2>4 DEF SwitchInv, WelcomesAreCovered, Claimed, Switch!TypeOK
  <1> QED
    BY <1>1, <1>2

(* A welcome uses up the claim it was won with. *)
LEMMA WelcomeCounts ==
  ASSUME IsFiniteSet(Callers), SwitchInv, NEW c \in Callers, Switch!Welcome(c)
  PROVE  SwitchInv'
  <1>1. Claimed' = Claimed \ {c} /\ c \in Claimed
    BY DEF Switch!Welcome, Claimed, SwitchInv, Switch!TypeOK
  <1>2. IsFiniteSet(Claimed) /\ Cardinality(Claimed) \in Nat
    BY ClaimedIsFinite DEF Claimed
  <1>3. Cardinality(Claimed') = Cardinality(Claimed) - 1
    BY <1>1, <1>2, FS_RemoveElement
  <1>4. Switch!TypeOK' /\ welcomes' \in {welcomes, welcomes + 1} /\ flips' = flips
    BY DEF Switch!Welcome, SwitchInv, Switch!TypeOK
  <1> QED
    BY <1>2, <1>3, <1>4 DEF SwitchInv, WelcomesAreCovered, Claimed, Switch!TypeOK

(* A step that wins nothing and sends nothing leaves no more claims. *)
LEMMA OthersCount ==
  ASSUME IsFiniteSet(Callers), SwitchInv,
         Switch!TypeOK', Claimed' \subseteq Claimed, welcomes' = welcomes, flips' = flips
  PROVE  SwitchInv'
  <1>1. /\ Cardinality(Claimed') <= Cardinality(Claimed)
        /\ Cardinality(Claimed') \in Nat /\ Cardinality(Claimed) \in Nat
    BY ClaimedIsFinite, FS_Subset DEF Claimed
  <1> QED
    BY <1>1 DEF SwitchInv, WelcomesAreCovered, Claimed, Switch!TypeOK

(* No claim before the first request. *)
LEMMA SwitchInit == Switch!Init => SwitchInv
  <1> SUFFICES ASSUME Switch!Init PROVE SwitchInv
    OBVIOUS
  <1>1. Claimed = {}
    BY DEF Switch!Init, Claimed
  <1>2. Cardinality(Claimed) = 0
    BY <1>1, FS_EmptySet
  <1>3. Switch!TypeOK
    BY DEF Switch!Init, Switch!TypeOK
  <1> QED
    BY <1>2, <1>3 DEF Switch!Init, SwitchInv, WelcomesAreCovered, Claimed

(* The invariant is inductive: one step per way to leave or take a claim.  *)
LEMMA SwitchStep ==
  ASSUME IsFiniteSet(Callers)
  PROVE  SwitchInv /\ [Switch!Next]_activationVars => SwitchInv'
  <1> SUFFICES ASSUME SwitchInv, [Switch!Next]_activationVars PROVE SwitchInv'
    OBVIOUS
  <1>1. CASE Switch!Deactivate \/ Switch!SetupBegins
    <2>1. Switch!TypeOK' /\ Claimed' \subseteq Claimed /\ welcomes' = welcomes /\ flips' = flips
      BY <1>1 DEF Switch!Deactivate, Switch!SetupBegins, SwitchInv, Switch!TypeOK, Claimed
    <2> QED
      BY <2>1, OthersCount
  <1>2. ASSUME NEW c \in Callers, Switch!Check(c) \/ Switch!Lost(c) PROVE SwitchInv'
    <2>1. Switch!TypeOK' /\ Claimed' \subseteq Claimed /\ welcomes' = welcomes /\ flips' = flips
      BY <1>2 DEF Switch!Check, Switch!Lost, SwitchInv, Switch!TypeOK, Claimed
    <2> QED
      BY <2>1, OthersCount
  <1>3. CASE UNCHANGED activationVars
    <2>1. Switch!TypeOK' /\ Claimed' \subseteq Claimed /\ welcomes' = welcomes /\ flips' = flips
      BY <1>3 DEF activationVars, SwitchInv, Switch!TypeOK, Claimed
    <2> QED
      BY <2>1, OthersCount
  <1> QED
    BY <1>1, <1>2, <1>3, ClaimCounts, WelcomeCounts DEF Switch!Next

(* No behaviour of the requests sends more welcomes than there were        *)
(* switch-ons: the conditional UPDATE of activate_company is enough.       *)
THEOREM WelcomesCorrect ==
  ServicesSpec => []OneWelcomePerActivation
  <1>1. ServicesInit => SwitchInv
    BY SwitchInit DEF ServicesInit
  <1>2. SwitchInv /\ [ServicesNext]_allVars => SwitchInv'
    BY SwitchStep, EachMovesAlone, ServicesConstants
  <1>3. SwitchInv => OneWelcomePerActivation
    BY SameCardinality
       DEF SwitchInv, WelcomesAreCovered, Claimed, OneWelcomePerActivation, Switch!OneWelcomePerActivation
  <1> QED
    BY <1>1, <1>2, <1>3, PTL DEF ServicesSpec

-----------------------------------------------------------------------------
(* The digest of stale companies.                                          *)

(* The marks are no older than the founder's last digest, so asking the    *)
(* marks is as good as asking the founder.                                 *)
MarksAreYoung == /\ ~lostMark /\ sending = {} => sinceMark <= sinceDigest
                 /\ sinceDigest \in Nat /\ sinceMark \in Nat /\ sinceMark <= Interval

(* It is inductive: a digest resets both, a crash is remembered, and time  *)
(* is the same for both.                                                   *)
LEMMA DigestInit == ASSUME Interval \in Nat PROVE Digest!Init => MarksAreYoung
  BY DEF Digest!Init, MarksAreYoung

(* Every step of the digest keeps it. *)
LEMMA DigestStep == ASSUME Interval \in Nat PROVE MarksAreYoung /\ [Digest!Next]_digestVars => MarksAreYoung'
  <1> SUFFICES ASSUME MarksAreYoung, [Digest!Next]_digestVars
               PROVE  MarksAreYoung'
    OBVIOUS
  <1>1. ASSUME NEW arrives \in BOOLEAN, Digest!Send(arrives) PROVE MarksAreYoung'
    <2>1. sending' # {}
      BY <1>1 DEF Digest!Send
    <2> QED
      BY <1>1, <2>1 DEF Digest!Send, MarksAreYoung
  <1>2. CASE Digest!Commit
    BY <1>2 DEF Digest!Commit, MarksAreYoung
  <1>3. CASE Digest!Crash
    BY <1>3 DEF Digest!Crash, MarksAreYoung
  <1>4. CASE Digest!NextSlot
    BY <1>4 DEF Digest!NextSlot, Digest!Older, MarksAreYoung
  <1>5. ASSUME NEW c \in Companies, Digest!DataArrives(c) \/ Digest!GoesStale(c) PROVE MarksAreYoung'
    BY <1>5 DEF Digest!DataArrives, Digest!GoesStale, MarksAreYoung
  <1>6. CASE UNCHANGED digestVars
    BY <1>6 DEF digestVars, MarksAreYoung
  <1> QED
    BY <1>1, <1>2, <1>3, <1>4, <1>5, <1>6 DEF Digest!Next

(* A digest inside the interval follows the loss of the last one's marks.  *)
LEMMA TooSoonIsRefused ==
  ASSUME Interval \in Nat, MarksAreYoung, [Digest!Next]_digestVars, sending = {}, sending' # {}, sinceDigest < Interval
  PROVE  lostMark
  <1> SUFFICES ASSUME ~lostMark PROVE FALSE
    OBVIOUS
  <1>1. PICK arrives \in BOOLEAN : Digest!Send(arrives)
    BY DEF Digest!Next, Digest!Commit, Digest!Crash, Digest!NextSlot, Digest!DataArrives,
           Digest!GoesStale, digestVars
  <1> QED
    BY <1>1 DEF Digest!Send, Digest!TooSoon, MarksAreYoung

(* At most one digest per interval: the interval is counted from committed *)
(* marks, and only a crash before that commit can make it shorter.         *)
THEOREM DigestsAreApart ==
  ServicesSpec => OneDigestPerInterval
  <1>1. ServicesInit => MarksAreYoung
    BY DigestInit, ServicesConstants DEF ServicesInit
  <1>2. MarksAreYoung /\ [ServicesNext]_allVars => MarksAreYoung'
    BY DigestStep, EachMovesAlone, ServicesConstants
  <1>3. MarksAreYoung /\ [ServicesNext]_allVars
          => [sending = {} /\ sending' # {} /\ sinceDigest' = 0 /\ sinceDigest < Interval
                => lostMark]_digestVars
    BY TooSoonIsRefused, EachMovesAlone, ServicesConstants
  <1> QED
    BY <1>1, <1>2, <1>3, PTL DEF ServicesSpec, OneDigestPerInterval, Digest!OneDigestPerInterval,
       Digest!vars, digestVars

-----------------------------------------------------------------------------
(* The assistant's answers.                                                *)

(* What the tools have returned to this question was true when they did.   *)
OutputsAreRecent == /\ kind = "agent" => outputs \subseteq recent
                    /\ figure \in recent

(* A question starts with no outputs, a tool adds the figure of the moment *)
(* and no provider takes anything back.                                    *)
LEMMA AssistantInit == Assistant!Init => OutputsAreRecent
  BY DEF Assistant!Init, OutputsAreRecent

(* Every step of the assistant keeps it. *)
LEMMA AssistantStep == OutputsAreRecent /\ [Assistant!Next]_chainVars => OutputsAreRecent'
  <1> SUFFICES ASSUME OutputsAreRecent, [Assistant!Next]_chainVars
               PROVE  OutputsAreRecent'
    OBVIOUS
  <1>1. ASSUME NEW k \in Assistant!Kinds, Assistant!Ask(k) PROVE OutputsAreRecent'
    BY <1>1 DEF Assistant!Ask, OutputsAreRecent
  <1>2. CASE Assistant!Skip
    BY <1>2 DEF Assistant!Skip, OutputsAreRecent
  <1>3. CASE Assistant!Exhausted
    BY <1>3 DEF Assistant!Exhausted, Assistant!Conclude, OutputsAreRecent
  <1>4. CASE Assistant!UseTool
    BY <1>4 DEF Assistant!UseTool, OutputsAreRecent
  <1>5. ASSUME NEW e \in Assistant!Errors, Assistant!Fails(e) PROVE OutputsAreRecent'
    BY <1>5 DEF Assistant!Fails, OutputsAreRecent
  <1>6. ASSUME NEW text \in Assistant!Texts, Assistant!Reply(text) PROVE OutputsAreRecent'
    <2>1. UNCHANGED <<outputs, figure, recent>>
      BY <1>6 DEF Assistant!Reply
    <2>2. kind' = kind \/ kind' = "nothing"
      BY <1>6 DEF Assistant!Reply, Assistant!Conclude
    <2> QED
      BY <2>1, <2>2 DEF OutputsAreRecent
  <1>7. ASSUME NEW f \in Figures, Assistant!BooksChange(f) PROVE OutputsAreRecent'
    BY <1>7 DEF Assistant!BooksChange, OutputsAreRecent
  <1>8. CASE UNCHANGED chainVars
    BY <1>8 DEF chainVars, OutputsAreRecent
  <1> QED
    BY <1>1, <1>2, <1>3, <1>4, <1>5, <1>6, <1>7, <1>8 DEF Assistant!Next, Assistant!Moves

(* The gate lets a figure through only if a tool returned it.              *)
LEMMA OnlyToolsGiveFigures ==
  ASSUME "words" \notin Figures, "fallback" \notin Figures, "blank" \notin Figures,
         OutputsAreRecent, [Assistant!Next]_chainVars, kind = "agent", kind' = "nothing",
         answer' \in Figures
  PROVE  answer' \in recent
  <1>1. Assistant!Exhausted \/ \E text \in Assistant!Texts : Assistant!Reply(text)
    BY
       DEF Assistant!Next, Assistant!Moves, Assistant!Ask, Assistant!Skip, Assistant!Fails,
           Assistant!UseTool, Assistant!BooksChange, Assistant!Kinds, chainVars
  <1>2. CASE Assistant!Exhausted
    BY <1>2 DEF Assistant!Exhausted, Assistant!Conclude
  <1>3. ASSUME NEW text \in Assistant!Texts, Assistant!Reply(text) PROVE answer' \in recent
    <2>1. answer' = Assistant!Gated(text)
      BY <1>3 DEF Assistant!Reply, Assistant!Conclude, Assistant!Taken
    <2>2. Assistant!Gated(text) \in Figures => Assistant!Gated(text) \in outputs
      BY DEF Assistant!Gated
    <2> QED
      BY <2>1, <2>2 DEF OutputsAreRecent
  <1> QED
    BY <1>1, <1>2, <1>3

(* No figure of an earlier question, or of none, passes the gate, however  *)
(* many providers fail before one answers; the constants that stand for    *)
(* wordings are not figures.                                               *)
THEOREM FiguresAreRecent ==
  ASSUME "words" \notin Figures, "fallback" \notin Figures, "blank" \notin Figures
  PROVE  ServicesSpec => FigureIsOfThisQuestion
  <1>1. ServicesInit => OutputsAreRecent
    BY AssistantInit DEF ServicesInit
  <1>2. OutputsAreRecent /\ [ServicesNext]_allVars => OutputsAreRecent'
    BY AssistantStep, EachMovesAlone
  <1>3. OutputsAreRecent /\ [ServicesNext]_allVars
          => [kind = "agent" /\ kind' = "nothing" /\ answer' \in Figures => answer' \in recent]_chainVars
    BY OnlyToolsGiveFigures, EachMovesAlone
  <1> QED
    BY <1>1, <1>2, <1>3, PTL DEF ServicesSpec, FigureIsOfThisQuestion,
       Assistant!FigureIsOfThisQuestion, Assistant!vars, chainVars

-----------------------------------------------------------------------------
(* The recipients of a broadcast.                                          *)

(* A run whose send to the dealer is not committed yet. *)
InFlight(d) == \E r \in Runs : runs[r].row # "none" /\ runs[r].to = d

(* A dealer no fault has made doubtful is with one run at most, has then   *)
(* no row, and has got one message only if there is a row or a run is      *)
(* about to commit it.                                                     *)
AtMostOnce(d) == /\ got[d] <= 1
                 /\ logged[d] = "none" /\ ~InFlight(d) => got[d] = 0
                 /\ \A r \in Runs : d \in runs[r].todo => logged[d] = "none"
                 /\ \A q, r \in Runs : d \in runs[q].todo /\ d \in runs[r].todo => q = r

(* A run that has sent is still to cross the dealer off; an idle one has   *)
(* nothing to do.                                                          *)
RunIsSound(run) == /\ run.row # "none" => run.to \in run.todo
                   /\ run.at = "idle" => run.row = "none" /\ run.todo = {}

Run == [todo : SUBSET Dealers, to : Dealers \cup {"nobody"},
        row : {"none", "sent", "failed_to_send"}, at : {"idle", "sending"}]

CampaignTypes == /\ consent \subseteq Dealers
                 /\ logged \in [Dealers -> {"none", "sent", "failed_to_send"}]
                 /\ got \in [Dealers -> Nat]
                 /\ runs \in [Runs -> Run]

CampaignInv == /\ CampaignTypes
               /\ \A r \in Runs : RunIsSound(runs[r])
               /\ \A d \in Dealers \ doubtful : AtMostOnce(d)

(* Nothing is sent before the first yes. *)
LEMMA CampaignInit == Campaign!Init => CampaignInv
  <1> SUFFICES ASSUME Campaign!Init PROVE CampaignInv
    OBVIOUS
  <1>1. CampaignTypes
    BY DEF Campaign!Init, CampaignTypes, Run, Campaign!Idle
  <1>2. \A r \in Runs : runs[r].todo = {} /\ runs[r].row = "none"
    BY DEF Campaign!Init, Campaign!Idle
  <1> QED
    BY <1>1, <1>2 DEF Campaign!Init, CampaignInv, RunIsSound, AtMostOnce, InFlight

(* A run starts with dealers that have no row; those another run is still  *)
(* at are doubtful from now on.                                            *)
LEMMA StartKeeps ==
  ASSUME CampaignInv, NEW r \in Runs, Campaign!Start(r)
  PROVE  CampaignInv'
  <1>1. PICK todo \in Campaign!Recipients :
           runs' = [runs EXCEPT ![r] = [Campaign!Idle EXCEPT !.at = "sending", !.todo = todo]]
    BY DEF Campaign!Start
  <1>2. todo \subseteq Dealers /\ \A d \in todo : logged[d] = "none"
    BY <1>1
       DEF Campaign!Recipients, Campaign!Capped, Campaign!Logged, CampaignInv, CampaignTypes, Run
  <1>3. runs'[r] = [todo |-> todo, to |-> "nobody", row |-> "none", at |-> "sending"]
    BY <1>1 DEF Campaign!Idle, CampaignInv, CampaignTypes, Run
  <1>4. \A q \in Runs \ {r} : runs'[q] = runs[q]
    BY <1>1 DEF CampaignInv, CampaignTypes, Run
  <1>5. CampaignTypes'
    <2>1. runs'[r] \in Run
      BY <1>2, <1>3 DEF Run
    <2>2. runs' \in [Runs -> Run]
      BY <1>1, <1>3, <2>1 DEF CampaignInv, CampaignTypes
    <2> QED
      BY <2>2 DEF Campaign!Start, CampaignInv, CampaignTypes
  <1>6. ASSUME NEW q \in Runs PROVE RunIsSound(runs'[q])
    BY <1>3, <1>4 DEF RunIsSound, CampaignInv
  <1>7. ASSUME NEW d \in Dealers \ doubtful' PROVE AtMostOnce(d)'
    <2>1. d \notin doubtful /\ \A q \in Runs : d \notin runs[q].todo
      BY DEF Campaign!Start
    <2>2. AtMostOnce(d) /\ logged' = logged /\ got' = got
      BY <2>1 DEF Campaign!Start, CampaignInv
    <2>3. ~InFlight(d)
      BY <2>1 DEF InFlight, CampaignInv, RunIsSound
    <2> QED
      BY <1>2, <1>3, <1>4, <2>1, <2>2, <2>3 DEF AtMostOnce
  <1> QED
    BY <1>5, <1>6, <1>7 DEF CampaignInv

(* A dealer to be messaged has no row, and no other run is at him.         *)
LEMMA SendKeeps ==
  ASSUME CampaignInv, NEW r \in Runs, NEW d \in Dealers,
         NEW status \in {"sent", "failed_to_send"}, NEW arrives \in BOOLEAN,
         Campaign!Send(r, d, status, arrives)
  PROVE  CampaignInv'
  <1>1. runs'[r] = [runs[r] EXCEPT !.row = status, !.to = d] /\ \A q \in Runs \ {r} : runs'[q] = runs[q]
    BY DEF Campaign!Send, CampaignInv, CampaignTypes, Run
  <1>2. /\ runs'[r].row = status /\ runs'[r].to = d
        /\ runs'[r].todo = runs[r].todo /\ runs'[r].at = runs[r].at
    BY <1>1 DEF CampaignInv, CampaignTypes, Run
  <1>3. CampaignTypes'
    <2>1. runs'[r] \in Run
      BY <1>1 DEF Run, CampaignInv, CampaignTypes
    <2>2. runs' \in [Runs -> Run] /\ got' \in [Dealers -> Nat]
      BY <1>1, <2>1 DEF Campaign!Send, CampaignInv, CampaignTypes
    <2> QED
      BY <2>2 DEF Campaign!Send, CampaignInv, CampaignTypes
  <1>4. ASSUME NEW q \in Runs PROVE RunIsSound(runs'[q])
    BY <1>1, <1>2 DEF RunIsSound, CampaignInv, Campaign!Send
  <1>5. UNCHANGED <<logged, doubtful>> /\ \A q \in Runs : runs'[q].todo = runs[q].todo
    BY <1>1, <1>2 DEF Campaign!Send
  <1>6. ASSUME NEW e \in Dealers \ doubtful PROVE AtMostOnce(e)'
    <2>1. AtMostOnce(e)
      BY DEF CampaignInv
    <2>2. CASE e = d
      <3>1. logged[d] = "none" /\ ~InFlight(d)
        BY <2>1, <2>2 DEF AtMostOnce, InFlight, CampaignInv, RunIsSound, Campaign!Send
      <3>2. got[d] = 0 /\ got'[d] \in {0, 1}
        BY <2>1, <2>2, <3>1 DEF AtMostOnce, Campaign!Send, CampaignInv, CampaignTypes, Run
      <3>3. InFlight(d)'
        BY <1>2 DEF InFlight
      <3> QED
        BY <1>5, <2>1, <2>2, <3>2, <3>3 DEF AtMostOnce
    <2>3. CASE e # d
      <3>1. got'[e] = got[e]
        BY <2>3 DEF Campaign!Send, CampaignInv, CampaignTypes, Run
      <3>2. InFlight(e)' = InFlight(e)
        <4>1. runs[r].row = "none"
          BY DEF Campaign!Send
        <4>2. ~(runs'[r].row # "none" /\ runs'[r].to = e)
          BY <1>2, <2>3
        <4>3. \A q \in Runs : runs'[q].row # "none" /\ runs'[q].to = e
                                <=> runs[q].row # "none" /\ runs[q].to = e
          BY <1>1, <4>1, <4>2
        <4> QED
          BY <4>3 DEF InFlight
      <3> QED
        BY <1>5, <2>1, <3>1, <3>2 DEF AtMostOnce
    <2> QED
      BY <2>2, <2>3
  <1> QED
    BY <1>3, <1>4, <1>5, <1>6 DEF CampaignInv

(* The row is there before the dealer is crossed off: the same commit.     *)
LEMMA CommitRowKeeps ==
  ASSUME CampaignInv, NEW r \in Runs, Campaign!CommitRow(r)
  PROVE  CampaignInv'
  <1> DEFINE d == runs[r].to
  <1>1. d \in runs[r].todo /\ d \in Dealers
    BY DEF Campaign!CommitRow, CampaignInv, RunIsSound, CampaignTypes, Run
  <1>2. /\ runs'[r].row = "none" /\ runs'[r].todo = runs[r].todo \ {d} /\ runs'[r].at = runs[r].at
        /\ \A q \in Runs \ {r} : runs'[q] = runs[q]
    BY DEF Campaign!CommitRow, CampaignInv, CampaignTypes, Run
  <1>3. /\ logged'[d] # "none" /\ \A e \in Dealers \ {d} : logged'[e] = logged[e]
        /\ UNCHANGED <<got, doubtful>>
    BY <1>1 DEF Campaign!CommitRow, CampaignInv, CampaignTypes, Run
  <1>4. CampaignTypes'
    BY <1>1 DEF Campaign!CommitRow, CampaignInv, CampaignTypes, Run
  <1>5. ASSUME NEW q \in Runs PROVE RunIsSound(runs'[q])
    <2>1. runs[r].at # "idle"
      BY <1>1 DEF RunIsSound, CampaignInv
    <2> QED
      BY <1>2, <2>1 DEF RunIsSound, CampaignInv
  <1>6. ASSUME NEW e \in Dealers \ doubtful PROVE AtMostOnce(e)'
    <2>1. AtMostOnce(e)
      BY DEF CampaignInv
    <2>2. CASE e = d
      <3>1. \A q \in Runs : d \notin runs'[q].todo
        BY <1>1, <1>2, <2>1, <2>2 DEF AtMostOnce
      <3> QED
        BY <1>3, <2>1, <2>2, <3>1 DEF AtMostOnce
    <2>3. CASE e # d
      <3>1. InFlight(e)' = InFlight(e)
        BY <1>2, <2>3 DEF InFlight
      <3>2. \A q \in Runs : e \in runs'[q].todo <=> e \in runs[q].todo
        BY <1>2, <2>3
      <3> QED
        BY <1>3, <2>1, <2>3, <3>1, <3>2 DEF AtMostOnce
    <2> QED
      BY <2>2, <2>3
  <1> QED
    BY <1>3, <1>4, <1>5, <1>6 DEF CampaignInv

(* A run that ends leaves nothing in flight but what it makes doubtful.    *)
LEMMA RunEnds ==
  ASSUME CampaignInv, NEW r \in Runs, Campaign!Finish(r) \/ Campaign!Crash(r)
  PROVE  CampaignInv'
  <1>1. /\ runs'[r] = Campaign!Idle /\ \A q \in Runs \ {r} : runs'[q] = runs[q]
        /\ UNCHANGED <<logged, got>> /\ doubtful \subseteq doubtful'
    BY DEF Campaign!Finish, Campaign!Crash, CampaignInv, CampaignTypes, Run
  <1>2. CampaignTypes'
    <2>1. Campaign!Idle \in Run
      BY DEF Run, Campaign!Idle
    <2>2. runs' \in [Runs -> Run]
      BY <2>1 DEF Campaign!Finish, Campaign!Crash, CampaignInv, CampaignTypes
    <2> QED
      BY <2>2 DEF Campaign!Finish, Campaign!Crash, CampaignInv, CampaignTypes
  <1>3. runs'[r].row = "none" /\ runs'[r].todo = {}
    BY <1>1 DEF Campaign!Idle
  <1>4. ASSUME NEW q \in Runs PROVE RunIsSound(runs'[q])
    BY <1>1, <1>3 DEF RunIsSound, CampaignInv
  <1>5. runs[r].row # "none" => runs[r].to \in doubtful'
    BY DEF Campaign!Finish, Campaign!Crash, CampaignInv, RunIsSound
  <1>6. ASSUME NEW d \in Dealers \ doubtful' PROVE AtMostOnce(d)'
    <2>1. AtMostOnce(d)
      BY <1>1 DEF CampaignInv
    <2>2. InFlight(d)' = InFlight(d)
      BY <1>1, <1>3, <1>5 DEF InFlight
    <2>3. \A q \in Runs : d \in runs'[q].todo => q # r /\ d \in runs[q].todo
      BY <1>1, <1>3
    <2> QED
      BY <1>1, <2>1, <2>2, <2>3 DEF AtMostOnce
  <1> QED
    BY <1>2, <1>4, <1>6 DEF CampaignInv

(* Consent and idling touch nothing the invariant is about. *)
LEMMA OthersKeep ==
  ASSUME CampaignInv,
         UNCHANGED broadcastVars \/ \E d \in Dealers : Campaign!ConsentChanges(d)
  PROVE  CampaignInv'
  <1>1. UNCHANGED <<logged, got, runs, starts, doubtful, pending>> /\ consent' \subseteq Dealers
    BY DEF broadcastVars, Campaign!ConsentChanges, CampaignInv, CampaignTypes, Run
  <1> QED
    BY <1>1 DEF CampaignInv, CampaignTypes, Run, RunIsSound, AtMostOnce, InFlight

(* The invariant is inductive: one lemma for each way a run moves.         *)
LEMMA CampaignStep ==
  CampaignInv /\ [Campaign!Next]_broadcastVars => CampaignInv'
  BY StartKeeps, SendKeeps, CommitRowKeeps, RunEnds, OthersKeep DEF Campaign!Next

(* However often the yes comes again, and wherever a run dies: a dealer is *)
(* messaged a second time only if his send lost its row, or two runs were  *)
(* at him.                                                                 *)
THEOREM ResumesAreSafe ==
  ServicesSpec => []ResumedNotRepeated
  <1>1. ServicesInit => CampaignInv
    BY CampaignInit DEF ServicesInit
  <1>2. CampaignInv /\ [ServicesNext]_allVars => CampaignInv'
    BY CampaignStep, EachMovesAlone
  <1>3. CampaignInv => ResumedNotRepeated
    BY DEF CampaignInv, AtMostOnce, ResumedNotRepeated, Campaign!ResumedNotRepeated
  <1> QED
    BY <1>1, <1>2, <1>3, PTL DEF ServicesSpec

-----------------------------------------------------------------------------
(* The types of all services.                                              *)

(* The rules' types: what is left to message is of the rule, and the       *)
(* rotation is as long as the queue by due dates.                          *)
LEMMA RulesAreTyped == RulesInv => TypeOK
<1> SUFFICES ASSUME RulesInv PROVE TypeOK
  OBVIOUS
<1>1. Len(ranking) = Len(DueOrder)
  BY SameRowsSameLength, OutreachConstants DEF RulesInv, RankingFits
<1>2. pass.at # 0 => ToSet(pass.todo) \subseteq Subjects[Rule]
  BY DEF RulesInv, PassFits, Lapsed
<1>3. Len(Order) = 5
  BY DEF Order
<1>4. /\ pass.at \in 0 .. Len(Order) /\ pass.stage \in {"idle", "choose", "send"}
      /\ pass.loaded \in {"none", "other", "reminder"} /\ pass.asks \in BOOLEAN /\ pass.marks \subseteq Pairs
  BY <1>3 DEF RulesInv, RulesTypes, Pass
<1> QED
  BY <1>1, <1>2, <1>4 DEF TypeOK, RulesInv, RulesTypes, RankingFits

(* A broadcast's, with the counter of its starts. *)
CampaignIsTyped == CampaignInv /\ pending \in BOOLEAN /\ starts \in 0 .. MaxStarts

(* They are kept: only a start counts, and only the end takes the operation away. *)
LEMMA CampaignStaysTyped ==
  /\ Campaign!Init => CampaignIsTyped
  /\ CampaignIsTyped /\ [Campaign!Next]_broadcastVars => CampaignIsTyped'
  /\ CampaignIsTyped => Campaign!TypeOK
<1>1. Campaign!Init => CampaignIsTyped
  BY CampaignInit, ServicesConstants DEF Campaign!Init, CampaignIsTyped
<1>2. CampaignIsTyped /\ [Campaign!Next]_broadcastVars => CampaignIsTyped'
  <2> SUFFICES ASSUME CampaignIsTyped, [Campaign!Next]_broadcastVars
               PROVE  pending' \in BOOLEAN /\ starts' \in 0 .. MaxStarts
    BY CampaignStep DEF CampaignIsTyped
  <2>1. ASSUME NEW r \in Runs, Campaign!Start(r) PROVE pending' = pending /\ starts' \in 0 .. MaxStarts
    BY <2>1, ServicesConstants DEF Campaign!Start, CampaignIsTyped
  <2>2. ASSUME NEW r \in Runs, Campaign!Finish(r) PROVE pending' = FALSE /\ starts' = starts
    BY <2>2 DEF Campaign!Finish
  <2>3. ASSUME NEW r \in Runs, Campaign!CommitRow(r) \/ Campaign!Crash(r)
        PROVE  pending' = pending /\ starts' = starts
    BY <2>3 DEF Campaign!CommitRow, Campaign!Crash
  <2>4. ASSUME NEW r \in Runs, NEW d \in Dealers, NEW status, NEW arrives, Campaign!Send(r, d, status, arrives)
        PROVE  pending' = pending /\ starts' = starts
    BY <2>4 DEF Campaign!Send
  <2>5. ASSUME UNCHANGED broadcastVars \/ \E d \in Dealers : Campaign!ConsentChanges(d)
        PROVE  pending' = pending /\ starts' = starts
    BY <2>5 DEF broadcastVars, Campaign!ConsentChanges
  <2> QED
    BY <2>1, <2>2, <2>3, <2>4, <2>5 DEF Campaign!Next, CampaignIsTyped
<1>3. CampaignIsTyped => Campaign!TypeOK
  BY DEF CampaignIsTyped, CampaignInv, CampaignTypes, Run, Campaign!TypeOK
<1> QED
  BY <1>1, <1>2, <1>3

(* A message's status. *)
LEMMA StatusIsTyped == StatusInv => Status!TypeOK
<1> SUFFICES ASSUME StatusInv, NEW s \in Sessions PROVE session[s].status \in Status!Statuses \cup {"none"}
  BY DEF StatusInv, Status!TypeOK
<1>1. session[s] \in Callback \/ session[s] = Status!Free
  BY DEF StatusInv
<1> QED
  BY <1>1 DEF Callback, Status!Free

(* The digest's: the slots of a day come round, and no age passes the interval. *)
LEMMA DigestStaysTyped ==
  /\ Digest!Init => Digest!TypeOK
  /\ Digest!TypeOK /\ [Digest!Next]_digestVars => Digest!TypeOK'
<1>1. Digest!Init => Digest!TypeOK
  <2>1. Slots \in Nat /\ Slots > 0 /\ Interval \in Nat
    BY ServicesConstants
  <2> SUFFICES ASSUME Digest!Init PROVE Digest!TypeOK
    OBVIOUS
  <2>2. slot = 0 /\ stale = {} /\ listed = {} /\ sending = {} /\ sinceMark = Interval /\ sinceDigest = Interval
    BY DEF Digest!Init
  <2>3. lostMark \in BOOLEAN
    BY Zenon DEF Digest!Init
  <2>4. slot \in 0 .. Slots - 1 /\ sinceMark \in 0 .. Interval /\ sinceDigest \in 0 .. Interval
    BY <2>1, <2>2
  <2> QED
    BY <2>2, <2>3, <2>4 DEF Digest!TypeOK
<1>2. Digest!TypeOK /\ [Digest!Next]_digestVars => Digest!TypeOK'
  <2> SUFFICES ASSUME Digest!TypeOK, [Digest!Next]_digestVars PROVE Digest!TypeOK'
    OBVIOUS
  <2>1. ASSUME NEW arrives \in BOOLEAN, Digest!Send(arrives) PROVE Digest!TypeOK'
    <3>1. Digest!Detected \subseteq Companies
      BY DEF Digest!Detected, Digest!TypeOK
    <3>2. lostMark' \in BOOLEAN
      BY <2>1, Zenon DEF Digest!Send
    <3> QED
      BY <2>1, <3>1, <3>2, ServicesConstants DEF Digest!Send, Digest!TypeOK
  <2>2. CASE Digest!Commit
    BY <2>2, ServicesConstants DEF Digest!Commit, Digest!TypeOK
  <2>3. CASE Digest!Crash
    BY <2>3 DEF Digest!Crash, Digest!TypeOK
  <2>4. CASE Digest!NextSlot
    <3>1. slot' = (slot + 1) % Slots /\ slot + 1 \in Nat
      BY <2>4, ServicesConstants DEF Digest!NextSlot, Digest!TypeOK
    <3>2. slot' \in 0 .. Slots - 1
      BY <3>1, ServicesConstants
    <3>3. \A age \in 0 .. Interval : Digest!Older(age) \in 0 .. Interval
      BY ServicesConstants DEF Digest!Older
    <3> QED
      BY <2>4, <3>2, <3>3 DEF Digest!NextSlot, Digest!TypeOK
  <2>5. ASSUME NEW c \in Companies, Digest!DataArrives(c) \/ Digest!GoesStale(c) PROVE Digest!TypeOK'
    BY <2>5 DEF Digest!DataArrives, Digest!GoesStale, Digest!TypeOK
  <2>6. CASE UNCHANGED digestVars
    BY <2>6 DEF digestVars, Digest!TypeOK
  <2> QED
    BY <2>1, <2>2, <2>3, <2>4, <2>5, <2>6 DEF Digest!Next
<1> QED
  BY <1>1, <1>2

(* The assistant's: the providers that are left are an end of the chain.   *)
AssistantIsTyped == Assistant!TypeOK /\ left \in Seq(DOMAIN Assistant!Provider)

(* An answer is a figure, words or the fallback, whatever the provider says. *)
LEMMA TakenIsAnAnswer ==
  ASSUME AssistantIsTyped, NEW text \in Assistant!Texts, Assistant!Reply(text), ~ (text = "blank" /\ kind # "agent")
  PROVE  Assistant!Taken(text) \in Figures \cup {"words", "fallback"}
<1>1. kind \in {"narration", "photo", "voice", "agent"}
  BY DEF AssistantIsTyped, Assistant!TypeOK, Assistant!Kinds, Assistant!Reply, Assistant!Calling,
         Assistant!Trying
<1> QED
  BY <1>1 DEF Assistant!Taken, Assistant!Gated, Assistant!Transcript, Assistant!Extraction, Assistant!Texts,
         Assistant!Reply

(* The end of a question leaves nobody to ask, and no more turns than are kept. *)
LEMMA ConcludeIsTyped ==
  ASSUME AssistantIsTyped, NEW text \in Figures \cup {"words", "fallback"}, Assistant!Conclude(text),
         UNCHANGED <<outputs, figure, recent>>
  PROVE  AssistantIsTyped'
<1>1. turns' \in 0 .. Retained
  BY ServicesConstants DEF Assistant!Conclude, Assistant!Remember, AssistantIsTyped, Assistant!TypeOK
<1>2. left' = <<>> /\ Len(<<>>) <= Len(Chain) /\ <<>> \in Seq(DOMAIN Assistant!Provider)
  BY ServicesConstants DEF Assistant!Conclude
<1> QED
  BY <1>1, <1>2, ServicesConstants DEF Assistant!Conclude, AssistantIsTyped, Assistant!TypeOK

(* Giving up on a provider, or on all, leaves fewer. *)
LEMMA FewerAreLeft ==
  ASSUME AssistantIsTyped, left # <<>>, Assistant!TryNext \/ (left' = <<>> /\ steps' = 0),
         UNCHANGED <<kind, outputs, answer, turns, figure, recent>>
  PROVE  AssistantIsTyped'
<1>1. left' \in Seq(DOMAIN Assistant!Provider) /\ Len(left') <= Len(Chain)
  <2>1. left \in Seq(DOMAIN Assistant!Provider) /\ Len(left) <= Len(Chain) /\ Len(Chain) \in Nat
    BY ServicesConstants DEF AssistantIsTyped, Assistant!TypeOK
  <2>2. left' = Tail(left) \/ left' = <<>>
    BY DEF Assistant!TryNext
  <2>3. Tail(left) \in Seq(DOMAIN Assistant!Provider) /\ Len(Tail(left)) = Len(left) - 1
    BY <2>1
  <2>4. <<>> \in Seq(DOMAIN Assistant!Provider) /\ Len(<<>>) = 0
    OBVIOUS
  <2>5. Len(left) \in Nat
    BY <2>1
  <2>6. CASE left' = Tail(left)
    BY <2>1, <2>3, <2>5, <2>6
  <2>7. CASE left' = <<>>
    BY <2>1, <2>4, <2>7
  <2> QED
    BY <2>2, <2>6, <2>7
<1>2. steps' \in 0 .. MaxSteps
  BY ServicesConstants DEF Assistant!TryNext
<1> QED
  BY <1>1, <1>2 DEF AssistantIsTyped, Assistant!TypeOK

(* The types of the assistant are inductive. *)
LEMMA AssistantStaysTyped ==
  /\ Assistant!Init => AssistantIsTyped
  /\ AssistantIsTyped /\ [Assistant!Next]_chainVars => AssistantIsTyped'
<1>1. Assistant!Init => AssistantIsTyped
  BY ServicesConstants DEF Assistant!Init, AssistantIsTyped, Assistant!TypeOK
<1>2. AssistantIsTyped /\ [Assistant!Next]_chainVars => AssistantIsTyped'
  <2> SUFFICES ASSUME AssistantIsTyped, [Assistant!Next]_chainVars PROVE AssistantIsTyped'
    OBVIOUS
  <2>1. ASSUME NEW k \in Assistant!Kinds, Assistant!Ask(k) PROVE AssistantIsTyped'
    BY <2>1, ServicesConstants DEF Assistant!Ask, AssistantIsTyped, Assistant!TypeOK
  <2>2. CASE Assistant!Skip
    BY <2>2, FewerAreLeft DEF Assistant!Skip, Assistant!Trying
  <2>3. CASE Assistant!Exhausted
    BY <2>3, ConcludeIsTyped DEF Assistant!Exhausted
  <2>4. CASE Assistant!UseTool
    BY <2>4, ServicesConstants DEF Assistant!UseTool, AssistantIsTyped, Assistant!TypeOK
  <2>5. ASSUME NEW e \in Assistant!Errors, Assistant!Fails(e) PROVE AssistantIsTyped'
    BY <2>5, FewerAreLeft DEF Assistant!Fails, Assistant!Calling, Assistant!Trying
  <2>6. ASSUME NEW text \in Assistant!Texts, Assistant!Reply(text) PROVE AssistantIsTyped'
    <3>1. CASE text = "blank" /\ kind # "agent"
      BY <2>6, <3>1, FewerAreLeft DEF Assistant!Reply, Assistant!Calling, Assistant!Trying
    <3>2. CASE ~ (text = "blank" /\ kind # "agent")
      <4>1. Assistant!Conclude(Assistant!Taken(text)) /\ UNCHANGED <<outputs, figure, recent>>
        BY <2>6, <3>2 DEF Assistant!Reply
      <4> QED
        BY <2>6, <3>2, <4>1, TakenIsAnAnswer, ConcludeIsTyped
    <3> QED
      BY <3>1, <3>2
  <2>7. ASSUME NEW f \in Figures, Assistant!BooksChange(f) PROVE AssistantIsTyped'
    BY <2>7 DEF Assistant!BooksChange, AssistantIsTyped, Assistant!TypeOK
  <2>8. CASE UNCHANGED chainVars
    BY <2>8 DEF chainVars, AssistantIsTyped, Assistant!TypeOK
  <2> QED
    BY <2>1, <2>2, <2>3, <2>4, <2>5, <2>6, <2>7, <2>8 DEF Assistant!Next, Assistant!Moves
<1> QED
  BY <1>1, <1>2

(* The types of all services, whichever of them moves. *)
THEOREM ServicesTypes == ServicesSpec => []AllTypesOK
<1> DEFINE Typed == /\ RulesInv /\ CampaignIsTyped /\ StatusInv /\ SwitchInv
                    /\ Digest!TypeOK /\ AssistantIsTyped /\ part \in Parts
<1>1. ServicesInit => Typed
  BY RulesInit, CampaignStaysTyped, StatusInit, SwitchInit, DigestStaysTyped, AssistantStaysTyped DEF ServicesInit
<1>2. Typed /\ [ServicesNext]_allVars => Typed'
  <2> SUFFICES ASSUME Typed, [ServicesNext]_allVars PROVE Typed'
    OBVIOUS
  <2>1. part' = part
    BY DEF ServicesNext, OnlyPart, allVars
  <2>2. RulesInv' /\ CampaignIsTyped' /\ StatusInv' /\ SwitchInv' /\ Digest!TypeOK' /\ AssistantIsTyped'
    BY EachMovesAlone, RulesStep, CampaignStaysTyped, StatusStep, SwitchStep, DigestStaysTyped,
       AssistantStaysTyped, ServicesConstants
  <2> QED
    BY <2>1, <2>2
<1>3. Typed => AllTypesOK
  BY RulesAreTyped, CampaignStaysTyped, StatusIsTyped DEF AllTypesOK, SwitchInv, AssistantIsTyped
<1> QED
  BY <1>1, <1>2, <1>3, PTL DEF ServicesSpec

=============================================================================
