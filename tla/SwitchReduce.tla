----------------------------- MODULE SwitchReduce -----------------------------
(***************************************************************************)
(* The in-network reduction of P4_FPGA/P4/p4src: one index of the switch's *)
(* registers and the workers that reduce through it.                       *)
(*                                                                         *)
(* An index has two slots.  A worker sends its value of round r to slot    *)
(* r % 2 until it has the round's result, then goes to the next round.     *)
(* Per slot the switch keeps a bitmap of the workers it has heard, a       *)
(* counter and a sum; a packet whose bit is set is a resend.  Packets and  *)
(* results may be lost, a link does not reorder.                           *)
(***************************************************************************)
EXTENDS Integers, Sequences, FiniteSets

CONSTANTS
  NodeSize,   \* NODE_SIZE
  CntWidth,   \* CNT_WIDTH, bits of the counter (32)
  Rounds,     \* bound: rounds
  LinkDepth   \* bound: packets in flight on a link in one direction

\* The switch tests the counter with the mask NODE_SIZE - 1.
ASSUME SwitchAssumption ==
  /\ NodeSize \in Nat \ {0} /\ CntWidth \in Nat
  /\ \E k \in 0..CntWidth : NodeSize = 2^k
  /\ Rounds \in Nat /\ LinkDepth \in Nat \ {0}

Workers == 0..(NodeSize - 1)
Slots   == {0, 1}

\* Different values for every worker and round, no two sums alike.
Value(w, r) == 2^(NodeSize * r + w)

\* Facts of powers of two, which the provers do not know: with the numbers of
\* SwitchAssumption the counter's range is a multiple of NODE_SIZE.
ASSUME PowerAssumption ==
  /\ 2^CntWidth \in Nat \ {0} /\ 2^CntWidth % NodeSize = 0
  /\ \A w \in Workers, r \in 0..(Rounds - 1) : Value(w, r) \in Nat

VARIABLES
  bitmap,   \* bitmap_reg_0 and bitmap_reg_1: workers whose bit is set
  counter,  \* counter_reg, a counter for each slot
  reg,      \* reduce_reg, a sum for each slot
  up,       \* packets on their way from each worker: their rounds
  down,     \* results on their way to each worker
  round,    \* rounds each worker has finished
  taken     \* history: how often the switch added (worker, round)

swVars == <<bitmap, counter, reg, taken>>
vars == <<bitmap, counter, reg, up, down, round, taken>>

Init ==
  /\ bitmap = [s \in Slots |-> {}]
  /\ counter = [s \in Slots |-> 0]
  /\ reg = [s \in Slots |-> 0]
  /\ up = [w \in Workers |-> <<>>]
  /\ down = [w \in Workers |-> <<>>]
  /\ round = [w \in Workers |-> 0]
  /\ taken = [w \in Workers |-> [r \in 0..(Rounds - 1) |-> 0]]

SlotOf(r) == r % 2
Other(s)  == 1 - s

-------------------------------------------------------------------------------
(* A packet of worker w with slot s passes the pipeline.                   *)

\* CheckBitmap: the worker's bit is set in its slot, cleared in the other.
BitmapNoClear(w, s) == [bitmap EXCEPT ![s] = @ \cup {w}]
BitmapSwapped(w, s) == [bitmap EXCEPT ![s] = @ \ {w}, ![Other(s)] = @ \cup {w}]
BitmapAfter(w, s) == [bitmap EXCEPT ![s] = @ \cup {w}, ![Other(s)] = @ \ {w}]

\* status, the bit before the packet: a packet is new when it was clear.
IsNew(w, s) == w \notin bitmap[s]

\* RegisterCounter: new packets are counted, resends read the counter.
CounterWide(w, s) ==
  IF IsNew(w, s) THEN [counter EXCEPT ![s] = @ + 1] ELSE counter
CounterAlways(w, s) == [counter EXCEPT ![s] = (@ + 1) % 2^CntWidth]
CounterAfter(w, s) ==
  IF IsNew(w, s) THEN [counter EXCEPT ![s] = (@ + 1) % 2^CntWidth] ELSE counter

\* counter_value & (NODE_SIZE - 1) = 0
Complete(n) == n % NodeSize = 0

\* reduce_table: the registers and the packet's value after it.  The entry
\* for a new packet that completes slot 1 names slot 0's action, and the
\* body of get_shadow_copy is commented out.
Reduced(s, v) == [reg |-> [reg EXCEPT ![s] = @ + v], value |-> reg[s] + v]
ReducedAndReset(s, v) ==
  [reg |-> [reg EXCEPT ![s] = @ + v, ![Other(s)] = 0], value |-> reg[s] + v]
Untouched(v) == [reg |-> reg, value |-> v]

ReduceTable(new, complete, s, v) ==
  CASE complete /\ new  -> ReducedAndReset(0, v)
    [] complete /\ ~new -> Untouched(v)
    [] ~complete /\ new -> Reduced(s, v)
    [] OTHER            -> Untouched(v)

\* forward: a completing packet goes to everybody, a resend of a complete
\* slot back to its worker, any other nowhere.
ReceiversNoReflect(new, complete, w) ==
  IF complete /\ new THEN Workers ELSE {}
Receivers(new, complete, w) ==
  CASE complete /\ new  -> Workers
    [] complete /\ ~new -> {w}
    [] OTHER            -> {}

HeadSlot(w) == SlotOf(Head(up[w]))
HeadNew(w) == IsNew(w, HeadSlot(w))
HeadComplete(w) == Complete(CounterAfter(w, HeadSlot(w))[HeadSlot(w)])
Recipients(w) == Receivers(HeadNew(w), HeadComplete(w), w)

\* The pipeline; results may be lost, and are when the link is full.
Switch(w) ==
  /\ up[w] # <<>>
  /\ bitmap' = BitmapAfter(w, HeadSlot(w))
  /\ counter' = CounterAfter(w, HeadSlot(w))
  /\ taken' = IF HeadNew(w) THEN [taken EXCEPT ![w][Head(up[w])] = @ + 1]
              ELSE taken
  /\ LET r       == Head(up[w])
         reduced == ReduceTable(HeadNew(w), HeadComplete(w), SlotOf(r),
                                Value(w, r))
         result  == [round |-> r, value |-> reduced.value,
                     resend |-> ~HeadNew(w)]
     IN  /\ reg' = reduced.reg
         /\ \E reached \in SUBSET
                 {u \in Recipients(w) : Len(down[u]) < LinkDepth} :
              down' = [u \in Workers |->
                IF u \in reached THEN Append(down[u], result) ELSE down[u]]
  /\ up' = [up EXCEPT ![w] = Tail(@)]
  /\ UNCHANGED round

-------------------------------------------------------------------------------
(* The workers and the links (external).                                   *)

\* The first packet of a round, and each one after a timeout.
Send(w) ==
  /\ round[w] < Rounds /\ Len(up[w]) < LinkDepth
  /\ up' = [up EXCEPT ![w] = Append(@, round[w])]
  /\ UNCHANGED <<swVars, down, round>>

\* A result of another round is an answer to a resend that was too late.
Receive(w) ==
  /\ down[w] # <<>>
  /\ round' = IF Head(down[w]).round = round[w]
              THEN [round EXCEPT ![w] = @ + 1] ELSE round
  /\ down' = [down EXCEPT ![w] = Tail(@)]
  /\ UNCHANGED <<swVars, up>>

Lose(w) ==
  /\ up[w] # <<>>
  /\ up' = [up EXCEPT ![w] = Tail(@)]
  /\ UNCHANGED <<swVars, down, round>>

Finished ==
  /\ \A w \in Workers : round[w] = Rounds /\ up[w] = <<>> /\ down[w] = <<>>
  /\ UNCHANGED vars

Next ==
  \/ \E w \in Workers : Switch(w) \/ Send(w) \/ Receive(w) \/ Lose(w)
  \/ Finished

Spec == Init /\ [][Next]_vars

\* A worker resends until it has the result, and a link that is used again
\* and again does not lose everything.
Answered(w) == Switch(w) /\ (w \in Recipients(w) => down'[w] # down[w])

FairSpec ==
  /\ Spec
  /\ \A w \in Workers :
       WF_vars(Send(w)) /\ WF_vars(Receive(w)) /\ SF_vars(Answered(w))

-------------------------------------------------------------------------------
(* Properties.                                                             *)

Result == [round : 0..(Rounds - 1), value : Nat, resend : BOOLEAN]

TypeOK ==
  /\ bitmap \in [Slots -> SUBSET Workers]
  /\ counter \in [Slots -> 0..(2^CntWidth - 1)]
  /\ reg \in [Slots -> Nat]
  /\ up \in [Workers -> Seq(0..(Rounds - 1))]
  /\ down \in [Workers -> Seq(Result)]
  /\ round \in [Workers -> 0..Rounds]
  /\ taken \in [Workers -> [0..(Rounds - 1) -> Nat]]

\* However often a packet is lost and sent again, the switch adds a worker's
\* value of a round at most once, though the slot, and with it the bit that
\* tells a resend, is used again two rounds later.
TakenOnce == \A w \in Workers : \A r \in 0..(Rounds - 1) : taken[w][r] <= 1

\* A result is sent only when every worker's value of its round was taken,
\* also when the counter, which is never reset, wraps.
CompleteMeansAll ==
  \A w \in Workers : \A k \in 1..Len(down[w]) : \A v \in Workers :
    taken[v][down[w][k].round] = 1

\* Rounds whose value of w the switch has taken.
Taken(w) == Cardinality({r \in 0..(Rounds - 1) : taken[w][r] > 0})

\* The switch and its workers are a barrier: a worker leaves a round only
\* when all have arrived, whatever is lost or resent.
Barrier == INSTANCE RoundBarrier WITH
  Members <- Workers, arrived <- [w \in Workers |-> Taken(w)], left <- round
ImplementsBarrier == Barrier!Spec

\* A lost packet or result is made good by resending: no worker is left
\* waiting in a round the others have left.
AllRoundsFinish == <>(\A w \in Workers : round[w] = Rounds)

SumOf(r) ==
  LET S[w \in 0..NodeSize] == IF w = 0 THEN 0 ELSE S[w - 1] + Value(w - 1, r)
  IN  S[NodeSize]

\* reduce.p4:146, "new pkt - reset & multicast": the packet that completes a
\* slot carries the sum of the round to everybody.
MulticastIsSum ==
  \A w \in Workers : \A k \in 1..Len(down[w]) :
    ~down[w][k].resend => down[w][k].value = SumOf(down[w][k].round)

\* reduce.p4:149, "resend - shadow_copy & unicast": a worker that resends to
\* a complete slot is answered with the sum of the round.
ResendIsSum ==
  \A w \in Workers : \A k \in 1..Len(down[w]) :
    down[w][k].resend => down[w][k].value = SumOf(down[w][k].round)
===============================================================================
