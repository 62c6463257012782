------------------------------ MODULE MCServices ------------------------------
(***************************************************************************)
(* Small instances of the services.  The rules: three suppliers for a cap  *)
(* of two, two of them with bills that stay unpaid; a dealer at risk and a *)
(* till that may run short.  The digest: two companies with briefing hours *)
(* of 8 and 12, in slots of four hours and an interval of twenty.  The     *)
(* broadcast: two dealers, two requests.  The status of one message, in    *)
(* two sessions.  Activation: the website twice and the administrator.     *)
(* The chain: three providers, the last without a key; one sees and hears. *)
(***************************************************************************)
EXTENDS Services

CONSTANTS s1, s2, s3, d1, till, c1, c2

MCSubjects == [supplier |-> {s1, s2, s3}, dealer |-> {d1}, cash |-> {till}, stock |-> {}, predue |-> {}]
MCDueOrder == <<s1, s2, s3>>
MCQuiet == [supplier |-> 1, dealer |-> 2, cash |-> 1, stock |-> 2, predue |-> 1]
MCBriefingSlot == [c \in {c1, c2} |-> IF c = c1 THEN 2 ELSE 3]
MCChain == <<"groq", "gemini", "anthropic">>

=============================================================================
