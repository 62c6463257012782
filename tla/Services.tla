------------------------------- MODULE Services -------------------------------
(***************************************************************************)
(* The services around the books and the conversation, which share no      *)
(* state with one another: the notification rules (this module extends     *)
(* theirs), a broadcast, the status of a message, the activation of a      *)
(* company, the founder's digest of stale companies, and the assistant's   *)
(* chain of providers.  A behaviour is a behaviour of one of them.         *)
(***************************************************************************)
EXTENDS Outreach

CONSTANTS Dealers, Runs, MaxRecipients, MaxStarts,          \* of Broadcast
          Sessions,                                         \* of DeliveryStatus
          Callers, Public, MaxFlips,                        \* of Activation
          Companies, BriefingSlot, Slots, Interval,         \* of StaleDigest
          Chain, Keys, Figures, MaxSteps, Retained          \* of LlmChain

VARIABLES pending, consent, logged, got, runs, starts, doubtful,
          row, reported, session, overlapped,
          active, fresh, calls, flips, welcomes,
          slot, stale, listed, sinceMark, sending, sinceDigest, lostMark,
          kind, left, steps, outputs, answer, turns, figure, recent,
          part  \* the service that moves

Campaign  == INSTANCE Broadcast
Status    == INSTANCE DeliveryStatus
Switch    == INSTANCE Activation
Digest    == INSTANCE StaleDigest
Assistant == INSTANCE LlmChain

ASSUME ServicesConstants == /\ IsFiniteSet(Callers)
                            /\ MaxStarts \in Nat /\ MaxSteps \in Nat /\ Retained \in Nat
                            /\ Slots \in Nat \ {0} /\ Interval \in Nat
                            /\ Chain \in Seq(DOMAIN Assistant!Provider)
                            /\ Figures # {}

Parts == {"rules", "broadcast", "status", "activation", "digest", "chain"}

rulesVars == <<since, heard, excused, ranking, flow, pass, faults>>
broadcastVars == <<pending, consent, logged, got, runs, starts, doubtful>>
statusVars == <<row, reported, session, overlapped>>
activationVars == <<active, fresh, calls, flips, welcomes>>
digestVars == <<slot, stale, listed, sinceMark, sending, sinceDigest, lostMark>>
chainVars == <<kind, left, steps, outputs, answer, turns, figure, recent>>
allVars == <<rulesVars, broadcastVars, statusVars, activationVars, digestVars, chainVars, part>>

ServicesInit == /\ Init
                /\ Campaign!Init /\ Status!Init /\ Switch!Init /\ Digest!Init /\ Assistant!Init
                /\ part \in Parts

OnlyPart(p) == /\ part = p
               /\ UNCHANGED part
               /\ p # "rules" => UNCHANGED rulesVars
               /\ p # "broadcast" => UNCHANGED broadcastVars
               /\ p # "status" => UNCHANGED statusVars
               /\ p # "activation" => UNCHANGED activationVars
               /\ p # "digest" => UNCHANGED digestVars
               /\ p # "chain" => UNCHANGED chainVars

ServicesNext == \/ OnlyPart("rules") /\ Next
                \/ OnlyPart("broadcast") /\ Campaign!Next
                \/ OnlyPart("status") /\ Status!Next
                \/ OnlyPart("activation") /\ Switch!Next
                \/ OnlyPart("digest") /\ Digest!Next
                \/ OnlyPart("chain") /\ Assistant!Next

ServicesSpec == ServicesInit /\ [][ServicesNext]_allVars

(* With the fairness each service's own specification states.              *)
FairServices == /\ ServicesSpec
                /\ WF_allVars(OnlyPart("rules") /\ PassMoves)
                /\ WF_allVars(OnlyPart("rules") /\ NewDay)
                /\ \A s \in Subjects["supplier"] : SF_allVars(OnlyPart("rules") /\ AcceptFor(s))
                /\ WF_allVars(OnlyPart("chain") /\ Assistant!Moves)

(* The digest alone, with the fairness of its own specification.           *)
DigestSpec == /\ ServicesInit /\ part = "digest" /\ [][ServicesNext]_allVars
              /\ WF_digestVars(Digest!NextSlot)
              /\ \A c \in Companies : /\ SF_digestVars(Digest!SendFor(c))
                                      /\ SF_digestVars(Digest!CommitFor(c))

-----------------------------------------------------------------------------
(* Types of the variables of all services. *)
AllTypesOK == /\ TypeOK
              /\ Campaign!TypeOK /\ Status!TypeOK /\ Switch!TypeOK
              /\ Digest!TypeOK /\ Assistant!TypeOK
              /\ part \in Parts

(* A resumed broadcast does not message a dealer again (writes/broadcast). *)
ResumedNotRepeated == Campaign!ResumedNotRepeated

(* Late, repeated or reordered status callbacks never take the recorded    *)
(* status back, as long as they do not overlap (webhooks/whatsapp).        *)
AloneOnlyAdvances == Status!AloneOnlyAdvances

(* No more welcome templates than switch-ons (services/activation).        *)
OneWelcomePerActivation == Switch!OneWelcomePerActivation

(* One digest of stale companies per interval (services/notifications).    *)
OneDigestPerInterval == Digest!OneDigestPerInterval

(* A company the ceiling suppressed is in a later digest                   *)
(* (services/notifications).                                               *)
NothingIsLost == Digest!NothingIsLost

(* A figure the assistant states was in the books since it was asked       *)
(* (services/agent).                                                       *)
FigureIsOfThisQuestion == Assistant!FigureIsOfThisQuestion

(* The rules' cap rotates: a supplier always due is reminded again and     *)
(* again; and every question put to the chain of providers ends.           *)
NobodyWaitsForEver == /\ part = "rules" => EverySupplierGetsItsTurn
                      /\ Assistant!EveryQuestionEnds

=============================================================================
