------------------------------ MODULE MCPrograms ------------------------------
(* Small instances of the programs: SSDs with one pair of queues, whose      *)
(* commands fit the admin queue, and with two, whose commands wrap it; two   *)
(* tables, the actions of one of which both have a field of the same name;   *)
(* datasets that fill their lines, that do not, and the one the training is  *)
(* made for.                                                                 *)
EXTENDS Programs

OneOrTwo == {1, 2}

\* Two tables with different ids for "read", of which one has "write".
MCActionId(t, a) ==
  CASE a = "read" /\ t = "one" -> 7 [] a = "read" -> 8 [] a = "write" /\ t = "one" -> 9 [] OTHER -> 0
MCKeyFieldId(t, k) == IF t = "one" THEN 3 ELSE 0
MCFieldId(t, i, d) ==
  CASE t = "one" /\ i = 7 -> 1 [] t = "one" /\ i = 9 -> 2 [] t # "one" /\ i = 8 -> 3 [] OTHER -> 0
MCTableSize == [t \in {"one", "other"} |-> IF t = "one" THEN 2 ELSE 1]
\* The ids and the rows of a table do not meet: each is followed without the other.
NoIds == actions = <<>> /\ data = <<>> /\ DOMAIN keys \subseteq {""}
NoRows == pointers = <<>> /\ \A t \in Tables : inSwitch[t] = <<>>
Apart == NoIds \/ NoRows

MCPortSets == {{1}, {1, 2}}

MCValues == {-1, 0, 1, 2}
MCPairs == UNION {[1..n -> (1..2) \X {-1, 1, 2}] : n \in 0..2}
MCSorted == {p \in MCPairs : Len(p) < 2 \/ p[1][1] < p[2][1]}
MCLines == {[label |-> l, pairs |-> p] : l \in {0, 1}, p \in MCSorted}
MCDataFiles ==
  {[lines |-> ls, newline |-> b] :
     ls \in UNION {[1..n -> MCLines] : n \in 1..2}, b \in BOOLEAN}

MCDatasets ==
  {<<8, 64, 2>>, <<20, 100, 4>>, <<32, 1100, 4>>, <<17, 1024, 4>>, <<20242, 47236, 4>>}
===============================================================================
