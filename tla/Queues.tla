-------------------------------- MODULE Queues --------------------------------
(* What the handlers do with lists they remember or rank.                   *)
EXTENDS Integers, Sequences

(* The entries of a queue that are in R, in its order. *)
KeepOnly(queue, R) ==
  LET kept[n \in 0 .. Len(queue)] ==
        IF n = 0 THEN <<>>
        ELSE IF queue[n] \in R THEN Append(kept[n - 1], queue[n]) ELSE kept[n - 1]
  IN kept[Len(queue)]

===============================================================================
