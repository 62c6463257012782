----------------------------- MODULE Activation -----------------------------
(***************************************************************************)
(* Switching a company's subscription on (services/activation.py): the     *)
(* website's last step and the administrator's button run the same code,   *)
(* neither behind a lock.  A request checks, claims the flag with one      *)
(* conditional UPDATE, commits, and then sends the welcome template.  A    *)
(* request may be lost at any point and repeated.                          *)
(***************************************************************************)
EXTENDS Naturals, FiniteSets

CONSTANTS Callers,  \* requests that activate
          Public,   \* those that come from the website
          MaxFlips  \* bound: activations of one company

VARIABLES active,   \* Company.subscription_active
          fresh,    \* onboarding_state is not_started
          calls,    \* [caller -> idle, checked, claimed]
          flips,    \* history: times the flag went up
          welcomes  \* history: welcome templates handed to Meta

vars == <<active, fresh, calls, flips, welcomes>>

Init == /\ active = FALSE
        /\ fresh = TRUE
        /\ calls = [c \in Callers |-> "idle"]
        /\ flips = 0
        /\ welcomes = 0

(* The website's route lets an active company through (a repeated tap) and *)
(* otherwise demands not_started; the administrator's demands nothing.     *)
Check(c) == /\ calls[c] = "idle"
            /\ c \in Public => active \/ fresh
            /\ calls' = [calls EXCEPT ![c] = "checked"]
            /\ UNCHANGED <<active, fresh, flips, welcomes>>

(* A mutant of Claim: the flag is written whatever it was. *)
ClaimAlways(c) == /\ calls[c] = "checked"
                  /\ flips < MaxFlips
                  /\ active' = TRUE
                  /\ flips' = IF active THEN flips ELSE flips + 1
                  /\ calls' = [calls EXCEPT ![c] = "claimed"]
                  /\ UNCHANGED <<fresh, welcomes>>

(* UPDATE ... WHERE subscription_active IS FALSE: one of two racing        *)
(* requests finds a row, the other is told already_active.                 *)
Claim(c) == /\ calls[c] = "checked"
            /\ IF active
                 THEN calls' = [calls EXCEPT ![c] = "idle"] /\ UNCHANGED <<active, flips>>
                 ELSE /\ flips < MaxFlips
                      /\ active' = TRUE
                      /\ flips' = flips + 1
                      /\ calls' = [calls EXCEPT ![c] = "claimed"]
            /\ UNCHANGED <<fresh, welcomes>>

(* send_welcome_template, unset, refused or sent; it is not repeated.      *)
Welcome(c) == /\ calls[c] = "claimed"
              /\ calls' = [calls EXCEPT ![c] = "idle"]
              /\ welcomes' \in {welcomes, welcomes + 1}
              /\ UNCHANGED <<active, fresh, flips>>

Lost(c) == /\ calls[c] # "idle"
           /\ calls' = [calls EXCEPT ![c] = "idle"]
           /\ UNCHANGED <<active, fresh, flips, welcomes>>

Deactivate == /\ active
              /\ active' = FALSE
              /\ UNCHANGED <<fresh, calls, flips, welcomes>>

(* The founder's first message: setup has begun. *)
SetupBegins == /\ active /\ fresh
               /\ fresh' = FALSE
               /\ UNCHANGED <<active, calls, flips, welcomes>>

Next == \/ Deactivate \/ SetupBegins
        \/ \E c \in Callers : Check(c) \/ Claim(c) \/ Welcome(c) \/ Lost(c)

Spec == Init /\ [][Next]_vars

-----------------------------------------------------------------------------
(* Types of the variables. *)
TypeOK == /\ active \in BOOLEAN /\ fresh \in BOOLEAN
          /\ calls \in [Callers -> {"idle", "checked", "claimed"}]
          /\ flips \in Nat /\ welcomes \in Nat

(* However requests race, retry or are lost, and however often the company *)
(* is switched off again: no more welcomes, sent or about to be sent, than *)
(* switch-ons.                                                             *)
OneWelcomePerActivation == welcomes + Cardinality({c \in Callers : calls[c] = "claimed"}) <= flips

=============================================================================
