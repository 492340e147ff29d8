----------------------------- MODULE RoundBarrier -----------------------------
(***************************************************************************)
(* What an all-reduce and a barrier promise: nobody leaves a round before  *)
(* everybody has arrived in it, and nobody arrives in the next before it   *)
(* has left.                                                               *)
(***************************************************************************)
EXTENDS Naturals

CONSTANTS
  Members,  \* who takes part
  Rounds    \* bound: rounds

VARIABLES
  arrived,  \* rounds each member has arrived in
  left      \* rounds each member has left

Init ==
  /\ arrived = [m \in Members |-> 0]
  /\ left = [m \in Members |-> 0]

Arrive(m) ==
  /\ arrived[m] = left[m] /\ arrived[m] < Rounds
  /\ arrived' = [arrived EXCEPT ![m] = @ + 1]
  /\ UNCHANGED left

Leave(m) ==
  /\ left[m] < arrived[m]
  /\ \A n \in Members : arrived[n] > left[m]
  /\ left' = [left EXCEPT ![m] = @ + 1]
  /\ UNCHANGED arrived

Next == \E m \in Members : Arrive(m) \/ Leave(m)

Spec == Init /\ [][Next]_<<arrived, left>>
===============================================================================
