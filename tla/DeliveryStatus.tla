--------------------------- MODULE DeliveryStatus ---------------------------
(***************************************************************************)
(* The status of one message we sent, as Meta's callbacks report it        *)
(* (api/webhooks/whatsapp.py): the send, the log row committed with the    *)
(* rest of the request, and callbacks in sessions of their own, which may  *)
(* come in any order, twice, and before the row is there.                  *)
(***************************************************************************)
EXTENDS Naturals, FiniteSets

CONSTANTS Sessions  \* sessions that handle a callback

Statuses == {"sent", "delivered", "read", "failed", "other"}

VARIABLES row,       \* committed delivery_status, or "none" before the commit
          reported,  \* statuses Meta has reached for the message
          session,   \* [session -> what it is handling and the status it read]
          overlapped \* history: two callbacks of the message were in flight at once

vars == <<row, reported, session, overlapped>>

Free == [status |-> "none", read |-> "none"]

(* _DELIVERY_STATUS_RANK: a one-way ladder; a status Meta adds has no rank. *)
Rank(s) == CASE s = "sent" -> 1 [] s = "delivered" -> 2 [] s = "read" -> 3 [] s = "failed" -> 4 [] OTHER -> 0

Init == /\ row = "none"
        /\ reported = {"sent"}
        /\ session = [s \in Sessions |-> Free]
        /\ overlapped = FALSE

(* The request that sent the message commits its log row. *)
LogRow == /\ row = "none"
          /\ row' = "sent"
          /\ UNCHANGED <<reported, session, overlapped>>

(* The message moves on at Meta. *)
Progresses == /\ \/ reported' = reported \cup {"delivered"}
                 \/ "delivered" \in reported /\ reported' = reported \cup {"read"}
                 \/ "delivered" \notin reported /\ reported' = reported \cup {"failed"}
                 \/ reported' = reported \cup {"other"}
              /\ reported' # reported
              /\ "failed" \notin reported
              /\ UNCHANGED <<row, session, overlapped>>

(* A callback loads the row; before there is one it is lost.               *)
Load(s, status) ==
  /\ session[s] = Free
  /\ status \in reported
  /\ row # "none"
  /\ session' = [session EXCEPT ![s] = [status |-> status, read |-> row]]
  /\ overlapped' = (overlapped \/ \E q \in Sessions \ {s} : session[q] # Free)
  /\ UNCHANGED <<row, reported>>

(* A mutant of Store: the last callback wins. *)
StoreAlways(s) ==
  /\ session[s] # Free
  /\ row' = session[s].status
  /\ session' = [session EXCEPT ![s] = Free]
  /\ UNCHANGED <<reported, overlapped>>

(* Two known statuses are ordered by the status that was read; one that is *)
(* not on the ladder is recorded.                                          *)
Store(s) ==
  LET new == session[s].status
      old == session[s].read
  IN /\ session[s] # Free
     /\ row' = IF Rank(new) > 0 /\ Rank(old) > 0 /\ Rank(new) <= Rank(old) THEN row ELSE new
     /\ session' = [session EXCEPT ![s] = Free]
     /\ UNCHANGED <<reported, overlapped>>

Next == \/ LogRow \/ Progresses
        \/ \E s \in Sessions : Store(s) \/ \E status \in Statuses : Load(s, status)

Spec == Init /\ [][Next]_vars

-----------------------------------------------------------------------------
(* Types of the variables. *)
TypeOK == /\ row \in Statuses \cup {"none"}
          /\ reported \subseteq Statuses
          /\ \A s \in Sessions : session[s].status \in Statuses \cup {"none"}
          /\ overlapped \in BOOLEAN

(* However late, repeated or reordered: as long as no two callbacks of the *)
(* message are in flight at once and none is off the ladder, the report    *)
(* never falls back.                                                       *)
AloneOnlyAdvances ==
  [][~overlapped' /\ "other" \notin reported => Rank(row') >= Rank(row)]_vars

=============================================================================
