---------------------------- MODULE MCOnboarding ----------------------------
(* Two dealers, so that a queue of missing parties has a second entry; one  *)
(* product and one supplier.                                                *)
EXTENDS Onboarding

CONSTANTS p1, d1, d2, s1

MCRows == [product |-> {p1}, dealer |-> {d1, d2}, supplier |-> {s1}]

=============================================================================
