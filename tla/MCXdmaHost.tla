------------------------------ MODULE MCXdmaHost ------------------------------
(* Cards with 32-bit and 64-bit BARs, with and without the optional ones.    *)
EXTENDS XdmaHost, TLC

Card(bars) == [b \in Bars |-> IF b < Len(bars) THEN bars[b + 1] ELSE "none"]
Cards == {
  Card(<<"user", "config", "bypass">>),
  Card(<<"user", "none", "config", "none", "bypass", "none">>),
  Card(<<"user", "config">>), Card(<<"config", "none", "bypass">>),
  Card(<<"config">>), Card(<<"user">>) }

AllocSizes == {1, 3}
Where == {10, 11}
Symmetry == Permutations(Threads)

\* The allocator works on a region and nothing else, so its interleavings are
\* explored over one history of driver and process.
AllocatorApart ==
  (calls > 0 \/ \E t \in Threads : mpc[t] # "out") =>
    /\ layout = Card(<<"user", "config", "bypass">>) /\ msiKind = "none" /\ ~inUse
    /\ probes = 1 /\ bound = "yes" /\ base = 10 /\ starts = 1 /\ pc = "up"
    /\ pinned = SmallPages /\ got
===============================================================================
