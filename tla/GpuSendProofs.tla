---------------------------- MODULE GpuSendProofs ----------------------------
(***************************************************************************)
(* Proofs about GpuSend for every number of blocks, every ring, block and  *)
(* package size and every transfer length that meet the module's           *)
(* assumptions: the plan, the turn and the window first, and from them     *)
(* that the FPGA reads what the caller wrote.                              *)
(***************************************************************************)
EXTENDS GpuSend, TLAPS

-------------------------------------------------------------------------------
(* Arithmetic.                                                             *)

LEMMA DivFacts ==
  ASSUME NEW a \in Nat, NEW m \in Nat \ {0}
  PROVE  /\ a \div m \in Nat
         /\ m * (a \div m) <= a
         /\ a < m * (a \div m) + m
  OBVIOUS

LEMMA ModFacts ==
  ASSUME NEW a \in Nat, NEW m \in Nat \ {0}, a % m = 0
  PROVE  a = (a \div m) * m /\ a \div m \in Nat
  OBVIOUS

LEMMA MulMono ==
  ASSUME NEW a \in Nat, NEW b \in Nat, NEW m \in Nat, a <= b
  PROVE  /\ a * m \in Nat /\ b * m \in Nat /\ a * m <= b * m
  OBVIOUS

LEMMA MulLess ==
  ASSUME NEW a \in Nat, NEW b \in Nat, NEW m \in Nat, a * m < b * m
  PROVE  a < b /\ a * m + m <= b * m
  OBVIOUS

LEMMA MulSucc ==
  ASSUME NEW a \in Nat, NEW m \in Nat
  PROVE  a * m \in Nat /\ (a + 1) * m = a * m + m
  OBVIOUS

-------------------------------------------------------------------------------
(* The loops of the blocks run over multiples of the number of blocks.     *)

LEMMA ModMul ==
  ASSUME NEW k \in Nat, NEW m \in Nat \ {0}
  PROVE  k * m \in Nat /\ (k * m) % m = 0
  OBVIOUS

Mult == {m \in Nat : m % NumBlocks = 0}

LEMMA MultFacts ==
  /\ Mult \subseteq Nat /\ 0 \in Mult
  /\ \A m \in Mult : m + NumBlocks \in Mult
  /\ \A m, n \in Mult : m < n => m + NumBlocks <= n
<1>. NumBlocks \in Nat \ {0}
  BY SendAssumption
<1>0. \A m \in Mult : m \div NumBlocks \in Nat /\ m = (m \div NumBlocks) * NumBlocks
  BY ModFacts DEF Mult
<1>1. Mult \subseteq Nat /\ 0 \in Mult
  BY DEF Mult
<1>2. \A m \in Mult : m + NumBlocks \in Mult
  <2>1. TAKE m \in Mult
  <2>2. PICK k \in Nat : m = k * NumBlocks
    BY <1>0
  <2>3. m + NumBlocks = (k + 1) * NumBlocks
    BY <2>2, MulSucc
  <2>4. k + 1 \in Nat
    OBVIOUS
  <2>. QED BY <2>3, <2>4, ModMul DEF Mult
<1>3. \A m, n \in Mult : m < n => m + NumBlocks <= n
  <2>1. TAKE m, n \in Mult
  <2>2. PICK k \in Nat : m = k * NumBlocks
    BY <1>0
  <2>3. PICK j \in Nat : n = j * NumBlocks
    BY <1>0
  <2>. QED BY <2>2, <2>3, MulLess
<1>. QED BY <1>1, <1>2, <1>3

-------------------------------------------------------------------------------
(* The inductive invariant.                                                *)

\* Units of the call that lie before package k.
Off(k) == Smaller(k * MaxBlock, length)

InTurn(b) == pc[b] \in {"post", "pass"}

\* The plan cuts the call into full packages and a last one of what is left.
PlanInv ==
  /\ phase # "idle" => length \in Lengths
  /\ i = preCnt * MaxBlock
  /\ \A k \in 0..(preCnt - 1) :
       /\ k * MaxBlock < length
       /\ pre[k].off = k * MaxBlock
       /\ pre[k].len = Smaller(MaxBlock, length - k * MaxBlock)
  /\ phase = "send" => i >= length

\* The packages the blocks hold are the next NumBlocks to be posted.
TurnInv ==
  /\ phase # "send" => \A b \in Blocks : pc[b] = "done"
  /\ \A b \in Blocks : loopVar[b] \in Mult
  /\ \A b \in Blocks : InTurn(b) => mutexSender = Pkg(b)
  /\ phase = "send" =>
       \A b \in Blocks :
         /\ mutexSender <= Pkg(b) /\ Pkg(b) < mutexSender + NumBlocks
         /\ loopVar[b] <= preCnt
         /\ pc[b] \notin {"loop", "done"} => loopVar[b] < preCnt
         /\ pc[b] = "done" => loopVar[b] = preCnt

\* Reports reach the GPU in the order they were made.
InfosAscend ==
  /\ \A k \in 1..Len(infos) : readCount <= infos[k] /\ infos[k] <= Len(taken)
  /\ \A j, k \in 1..Len(infos) : j <= k => infos[j] <= infos[k]
  /\ readCount <= Len(taken)

Bound == readCount + Window + NumBlocks * MaxBlock

\* What is announced, and what every package in a block's hands will bring
\* it to.
CountInv ==
  /\ phase = "pre" => mutexSender = 0 /\ writeCount = base
  /\ phase = "send" =>
       /\ writeCount = base + IF \E b \in Blocks : InTurn(b)
                              THEN Off(mutexSender + 1) ELSE Off(mutexSender)
       /\ \A b \in Blocks : pc[b] \in {"copy", "turn"} =>
                              base + Off(Pkg(b) + 1) <= Bound
  /\ phase = "idle" /\ rounds > 0 => writeCount = base + length
  /\ writeCount <= Bound

IInv == TypeOK /\ PlanInv /\ TurnInv /\ InfosAscend /\ CountInv

-------------------------------------------------------------------------------
(* Consequences of the invariant.                                          *)

LEMMA ConstFacts ==
  /\ NumBlocks \in Nat \ {0} /\ MaxBlock \in Nat \ {0}
  /\ PkgLimit \in Nat /\ SingleBuffer \in Nat /\ MaxPackage \in Nat
  /\ WrapAt \in Nat /\ Window \in Nat
  /\ WrapAt + MaxBlock <= SingleBuffer
  /\ NumBlocks * MaxBlock \in Nat
  /\ Lengths \subseteq Nat \ {0}
  BY SendAssumption DEF WrapAt, Window

LEMMA OffFacts ==
  ASSUME length \in Nat, NEW k \in Nat
  PROVE  /\ Off(k) \in Nat /\ Off(k) <= length
         /\ Off(0) = 0
         /\ Off(k) <= Off(k + 1)
         /\ \A j \in Nat : j <= k + NumBlocks =>
                             Off(j) <= Off(k) + NumBlocks * MaxBlock
<1>. USE ConstFacts
<1>1. k * MaxBlock \in Nat /\ (k + 1) * MaxBlock = k * MaxBlock + MaxBlock
  BY MulSucc
<1>2. 0 * MaxBlock = 0
  OBVIOUS
<1>3. ASSUME NEW j \in Nat, j <= k + NumBlocks
      PROVE  Off(j) <= Off(k) + NumBlocks * MaxBlock
  <2>1. j * MaxBlock \in Nat /\ j * MaxBlock <= (k + NumBlocks) * MaxBlock
    BY <1>3, MulMono
  <2>2. (k + NumBlocks) * MaxBlock = k * MaxBlock + NumBlocks * MaxBlock
    OBVIOUS
  <2>. QED BY <1>1, <2>1, <2>2 DEF Off, Smaller
<1>. QED BY <1>1, <1>2, <1>3 DEF Off, Smaller

\* When the blocks run, the plan is complete and a whole number of rounds.
LEMMA PlanDone ==
  ASSUME TypeOK, PlanInv, i >= length, phase # "idle"
  PROVE  /\ preCnt \in Mult
         /\ Off(preCnt) = length
<1>. DEFINE q == NumPackages(length)
<1>. USE ConstFacts
<1>1. length \in Nat \ {0} /\ length \in Lengths /\ preCnt \in Nat
  BY DEF PlanInv, TypeOK
<1>2. preCnt * MaxBlock >= length
  BY DEF PlanInv
<1>3. preCnt > 0
  BY <1>1, <1>2
<1>4. (preCnt - 1) * MaxBlock < length /\ preCnt - 1 \in Nat
  BY <1>1, <1>3 DEF PlanInv
<1>5. preCnt * MaxBlock = (preCnt - 1) * MaxBlock + MaxBlock
  <2>1. ((preCnt - 1) + 1) * MaxBlock = (preCnt - 1) * MaxBlock + MaxBlock
    BY <1>4, MulSucc
  <2>. QED BY <2>1, <1>1
<1>6. /\ q \in Nat
      /\ MaxBlock * q <= length + MaxBlock - 1
      /\ length + MaxBlock - 1 < MaxBlock * q + MaxBlock
  BY <1>1, DivFacts DEF NumPackages
<1>7. MaxBlock * q = q * MaxBlock /\ q * MaxBlock \in Nat
  BY <1>6
<1>8. (q + 1) * MaxBlock = q * MaxBlock + MaxBlock
  BY <1>6, MulSucc
<1>9. preCnt <= q
  <2>1. preCnt * MaxBlock < (q + 1) * MaxBlock
    BY <1>1, <1>4, <1>5, <1>6, <1>7, <1>8
  <2>. QED BY <2>1, <1>1, <1>6, MulLess
<1>10. q <= preCnt
  <2>1. q * MaxBlock < (preCnt + 1) * MaxBlock
    <3>1. (preCnt + 1) * MaxBlock = preCnt * MaxBlock + MaxBlock
      BY <1>1, MulSucc
    <3>2. preCnt * MaxBlock \in Nat
      BY <1>1, MulSucc
    <3>. QED BY <3>1, <3>2, <1>1, <1>2, <1>6, <1>7
  <2>. QED BY <2>1, <1>1, <1>6, MulLess
<1>11. preCnt = q
  BY <1>1, <1>6, <1>9, <1>10
<1>12. preCnt % NumBlocks = 0
  BY <1>1, <1>11, WholeRounds
<1>13. Off(preCnt) = length
  <2>1. preCnt * MaxBlock \in Nat
    BY <1>1, MulSucc
  <2>. QED BY <2>1, <1>1, <1>2 DEF Off, Smaller
<1>. QED BY <1>1, <1>12, <1>13 DEF Mult

Working(b) == pc[b] \notin {"loop", "done"}

\* A block at work holds a package of this call.
LEMMA WorkingInPlan ==
  ASSUME TypeOK, PlanInv, TurnInv, NEW b \in Blocks, Working(b)
  PROVE  /\ phase = "send"
         /\ Pkg(b) \in 0..(preCnt - 1) /\ Pkg(b) \in 0..(PkgLimit - 1)
         /\ Off(Pkg(b) + 1) = Off(Pkg(b)) + pre[Pkg(b)].len
         /\ pre[Pkg(b)] \in Package
<1>. USE ConstFacts
<1>1. phase = "send"
  BY DEF TurnInv, Working
<1>2. preCnt \in Mult
  BY <1>1, PlanDone DEF PlanInv
<1>3. loopVar[b] \in Mult /\ loopVar[b] < preCnt
  BY <1>1 DEF TurnInv, Working
<1>4. loopVar[b] + NumBlocks <= preCnt
  BY <1>2, <1>3, MultFacts
<1>5. loopVar[b] \in Nat /\ b \in 0..(NumBlocks - 1) /\ preCnt \in 0..PkgLimit
  BY DEF TypeOK, Blocks
<1>6. Pkg(b) \in 0..(preCnt - 1) /\ Pkg(b) \in 0..(PkgLimit - 1)
  BY <1>4, <1>5 DEF Pkg
<1>7. /\ Pkg(b) * MaxBlock < length
      /\ pre[Pkg(b)].len = Smaller(MaxBlock, length - Pkg(b) * MaxBlock)
  BY <1>6 DEF PlanInv
<1>8. Pkg(b) * MaxBlock \in Nat
      /\ (Pkg(b) + 1) * MaxBlock = Pkg(b) * MaxBlock + MaxBlock
  BY <1>6, MulSucc
<1>9. length \in Nat
  BY DEF TypeOK
<1>10. Off(Pkg(b) + 1) = Off(Pkg(b)) + pre[Pkg(b)].len
  BY <1>7, <1>8, <1>9 DEF Off, Smaller
<1>11. pre[Pkg(b)] \in Package
  BY <1>6 DEF TypeOK
<1>. QED BY <1>1, <1>6, <1>10, <1>11

\* No two blocks hold the same package.
LEMMA PkgUnique ==
  ASSUME TypeOK, TurnInv, NEW b \in Blocks, NEW c \in Blocks, Pkg(b) = Pkg(c)
  PROVE  b = c
<1>1. loopVar[b] \in Mult /\ loopVar[c] \in Mult
  BY DEF TurnInv
<1>2. /\ loopVar[b] < loopVar[c] => loopVar[b] + NumBlocks <= loopVar[c]
      /\ loopVar[c] < loopVar[b] => loopVar[c] + NumBlocks <= loopVar[b]
  BY <1>1, MultFacts
<1>3. loopVar[b] \in Nat /\ loopVar[c] \in Nat
  BY DEF TypeOK
<1>. QED BY <1>2, <1>3, ConstFacts DEF Pkg, Blocks

-------------------------------------------------------------------------------
(* Every step keeps the invariant: first the steps of socket_send_pre.     *)

LEMMA InitStep == Init => IInv
<1>. SUFFICES ASSUME Init PROVE IInv
  OBVIOUS
<1>. USE ConstFacts DEF Init
<1>1. TypeOK
  <2>1. NoPackage \in Package
    BY DEF NoPackage, Package, InRing
  <2>2. 0 \in 0..MaxRounds
    BY SendAssumption
  <2>. QED BY <2>1, <2>2 DEF TypeOK
<1>2. PlanInv
  BY DEF PlanInv
<1>3. TurnInv
  BY MultFacts DEF TurnInv, InTurn
<1>4. InfosAscend
  BY DEF InfosAscend
<1>5. CountInv
  BY DEF CountInv, Bound
<1>. QED BY <1>1, <1>2, <1>3, <1>4, <1>5 DEF IInv

LEMMA PreStartStep ==
  ASSUME IInv, NEW len \in Lengths, PreStart(len)
  PROVE  IInv'
<1>. USE ConstFacts DEF IInv, PreStart, blockVars, fpgaVars
<1>1. TypeOK'
  BY SendAssumption DEF TypeOK
<1>2. PlanInv'
  BY DEF PlanInv
<1>3. TurnInv'
  BY DEF TurnInv, InTurn, Pkg
<1>4. InfosAscend'
  BY DEF InfosAscend
<1>5. CountInv'
  BY DEF CountInv, Bound
<1>. QED BY <1>1, <1>2, <1>3, <1>4, <1>5

LEMMA PrePlanStep ==
  ASSUME IInv, PrePlan
  PROVE  IInv'
<1>. DEFINE n == Smaller(MaxBlock, length - i)
<1>. USE ConstFacts DEF IInv, PrePlan, kernelVars, blockVars, fpgaVars
<1>1. length \in Lengths /\ length \in Nat \ {0} /\ preCnt \in Nat /\ i \in Nat
  BY DEF TypeOK, PlanInv
<1>2. n \in Nat /\ n <= MaxBlock
  BY <1>1 DEF Smaller
<1>3. i = preCnt * MaxBlock /\ (preCnt + 1) * MaxBlock = i + MaxBlock
  BY <1>1, MulSucc DEF PlanInv
<1>4. preCnt + 1 <= PkgLimit
  <2>. DEFINE q == NumPackages(length)
  <2>1. /\ q \in Nat
        /\ length + MaxBlock - 1 < MaxBlock * q + MaxBlock
    BY <1>1, DivFacts DEF NumPackages
  <2>2. MaxBlock * q = q * MaxBlock /\ q * MaxBlock \in Nat
    BY <2>1
  <2>3. preCnt * MaxBlock < q * MaxBlock
    BY <2>1, <2>2, <1>1, <1>3
  <2>4. preCnt < q
    BY <2>3, <2>1, <1>1, MulLess
  <2>5. q <= PkgLimit
    BY <1>1, WholeRounds
  <2>. QED BY <2>1, <2>4, <2>5, <1>1
<1>5. TypeOK'
  <2>1. [off |-> i, addr |-> bufOffset, len |-> n] \in Package
    <3>1. bufOffset \in 0..WrapAt
      BY DEF TypeOK
    <3>. QED BY <3>1, <1>1, <1>2 DEF Package, InRing
  <2>2. preCnt \in 0..(PkgLimit - 1)
    BY <1>1, <1>4
  <2>3. pre' \in [0..(PkgLimit - 1) -> Package]
    BY <2>1, <2>2 DEF TypeOK
  <2>4. bufOffset' \in 0..WrapAt
    <3>1. bufOffset \in 0..WrapAt
      BY DEF TypeOK
    <3>. QED BY <3>1, <1>2 DEF NextAddr
  <2>5. preCnt' \in 0..PkgLimit /\ i' \in Nat
    BY <1>1, <1>4
  <2>. QED BY <2>3, <2>4, <2>5 DEF TypeOK
<1>6. PlanInv'
  <2>1. ASSUME NEW k \in 0..preCnt
        PROVE  /\ k * MaxBlock < length
               /\ pre'[k].off = k * MaxBlock
               /\ pre'[k].len = Smaller(MaxBlock, length - k * MaxBlock)
    <3>1. CASE k = preCnt
      <4>1. preCnt \in 0..(PkgLimit - 1)
        BY <1>1, <1>4
      <4>2. pre'[k] = [off |-> i, addr |-> bufOffset, len |-> n]
        BY <3>1, <4>1 DEF TypeOK
      <4>. QED BY <4>2, <3>1, <1>3
    <3>2. CASE k # preCnt
      <4>1. k \in 0..(preCnt - 1)
        BY <3>2, <1>1
      <4>2. pre'[k] = pre[k]
        BY <3>2, <4>1 DEF TypeOK
      <4>. QED BY <4>1, <4>2 DEF PlanInv
    <3>. QED BY <3>1, <3>2
  <2>. QED BY <2>1, <1>1, <1>3 DEF PlanInv
<1>7. TurnInv'
  BY DEF TurnInv, InTurn, Pkg
<1>8. InfosAscend'
  BY DEF InfosAscend
<1>9. CountInv'
  BY DEF CountInv, Bound
<1>. QED BY <1>5, <1>6, <1>7, <1>8, <1>9

LEMMA SendStartStep ==
  ASSUME IInv, SendStart
  PROVE  IInv'
<1>. USE ConstFacts DEF IInv, SendStart, planVars, fpgaVars
<1>1. TypeOK'
  BY DEF TypeOK
<1>2. PlanInv'
  BY DEF PlanInv
<1>3. TurnInv'
  <2>1. mutexSender = 0
    BY DEF CountInv
  <2>. QED BY <2>1, MultFacts DEF TurnInv, InTurn, Pkg, Blocks, TypeOK
<1>4. InfosAscend'
  BY DEF InfosAscend
<1>5. CountInv'
  <2>1. mutexSender = 0 /\ writeCount = base /\ Off(0) = 0 /\ base \in Nat
    BY OffFacts DEF CountInv, TypeOK
  <2>2. ~ \E b \in Blocks : InTurn(b)'
    BY DEF InTurn
  <2>3. Off(mutexSender)' = 0
    BY <2>1 DEF Off
  <2>. QED BY <2>1, <2>2, <2>3 DEF CountInv, Bound
<1>. QED BY <1>1, <1>2, <1>3, <1>4, <1>5

-------------------------------------------------------------------------------
(* The steps of a block.                                                   *)

Labels == {"loop", "flow", "copy", "turn", "post", "pass", "done", "hung"}

\* Any number of blocks test their loops.
LoopTests ==
  /\ pc' \in [Blocks -> Labels]
  /\ \A b \in Blocks :
       \/ pc'[b] = pc[b]
       \/ pc[b] = "loop" /\ pc'[b] = IF loopVar[b] < preCnt THEN "flow" ELSE "done"
  /\ UNCHANGED <<kernelVars, planVars, mutexSender, writeCount, readCount,
                 loopVar, ring, fpgaVars>>

LEMMA LoopTestsStep ==
  ASSUME IInv, LoopTests
  PROVE  IInv'
<1>. USE ConstFacts DEF IInv, LoopTests, kernelVars, planVars, fpgaVars
<1>1. TypeOK'
  BY DEF TypeOK, Labels
<1>2. PlanInv'
  BY DEF PlanInv
<1>3. TurnInv'
  <2>1. \A b \in Blocks : pc[b] = "loop" => phase = "send"
    BY DEF TurnInv
  <2>2. \A b \in Blocks : loopVar[b] \in Nat /\ preCnt \in Nat
    BY DEF TypeOK
  <2>. QED BY <2>1, <2>2 DEF TurnInv, InTurn, Pkg
<1>4. InfosAscend'
  BY DEF InfosAscend
<1>5. CountInv'
  <2>1. \A b \in Blocks : InTurn(b)' <=> InTurn(b)
    BY DEF InTurn
  <2>2. \A b \in Blocks : pc'[b] \in {"copy", "turn"} => pc[b] \in {"copy", "turn"}
    OBVIOUS
  <2>. QED BY <2>1, <2>2 DEF CountInv, Bound, Off, Pkg
<1>. QED BY <1>1, <1>2, <1>3, <1>4, <1>5

LEMMA LoopTestStep ==
  ASSUME IInv, NEW b \in Blocks, LoopTest(b)
  PROVE  IInv'
<1>1. pc \in [Blocks -> Labels]
  BY DEF IInv, TypeOK, Labels
<1>2. LoopTests
  BY <1>1 DEF LoopTests, LoopTest, Goto, Labels
<1>. QED BY <1>2, LoopTestsStep

LEMMA FlowControlStep ==
  ASSUME IInv, NEW b \in Blocks, FlowControl(b)
  PROVE  IInv'
<1>. USE ConstFacts DEF IInv, FlowControl, Goto, kernelVars, planVars, fpgaVars
<1>1. TypeOK'
  BY DEF TypeOK
<1>2. PlanInv'
  BY DEF PlanInv
<1>3. TurnInv'
  BY DEF TurnInv, InTurn, Pkg, TypeOK
<1>4. InfosAscend'
  BY DEF InfosAscend
<1>5. CountInv'
  <2>1. \A c \in Blocks : InTurn(c)' <=> InTurn(c)
    BY DEF InTurn, TypeOK
  <2>2. phase = "send"
    BY WorkingInPlan DEF Working
  <2>3. /\ length \in Nat /\ mutexSender \in Nat /\ Pkg(b) \in Nat
        /\ base \in Nat /\ writeCount \in Nat /\ readCount \in Nat
    BY DEF TypeOK, Pkg, Blocks
  <2>4. Pkg(b) + 1 <= mutexSender + NumBlocks
    BY <2>2, <2>3 DEF TurnInv
  <2>5. Off(Pkg(b) + 1) <= Off(mutexSender) + NumBlocks * MaxBlock
    BY <2>3, <2>4, OffFacts
  <2>6. base + Off(mutexSender) <= writeCount
    <3>1. Off(mutexSender) <= Off(mutexSender + 1) /\ Off(mutexSender) \in Nat
      BY <2>3, OffFacts
    <3>2. Off(mutexSender + 1) \in Nat
      <4>1. mutexSender + 1 \in Nat
        BY <2>3
      <4>. QED BY <4>1, <2>3, OffFacts
    <3>. QED BY <3>1, <3>2, <2>2, <2>3 DEF CountInv
  <2>7. Off(mutexSender) \in Nat /\ Off(Pkg(b) + 1) \in Nat
    <3>1. Pkg(b) + 1 \in Nat
      BY <2>3
    <3>. QED BY <3>1, <2>3, OffFacts
  <2>8. base + Off(Pkg(b) + 1) <= Bound
    BY <2>3, <2>5, <2>6, <2>7 DEF Bound
  <2>9. \A c \in Blocks : pc'[c] \in {"copy", "turn"} => c = b \/ pc[c] \in {"copy", "turn"}
    BY DEF TypeOK
  <2>. QED BY <2>1, <2>8, <2>9 DEF CountInv, Bound, Off, Pkg
<1>. QED BY <1>1, <1>2, <1>3, <1>4, <1>5

LEMMA CopyStep ==
  ASSUME IInv, NEW b \in Blocks, Copy(b)
  PROVE  IInv'
<1>. USE ConstFacts DEF IInv, Copy, Goto, kernelVars, planVars, fpgaVars
<1>1. TypeOK'
  <2>1. pre[Pkg(b)] \in Package /\ base \in Nat
    BY WorkingInPlan DEF Working, TypeOK
  <2>2. ring' \in [Units -> Int]
    BY <2>1 DEF TypeOK, Units, Package
  <2>3. pc' \in [Blocks -> {"loop", "flow", "copy", "turn", "post", "pass",
                            "done", "hung"}]
    BY DEF TypeOK
  <2>. QED BY <2>2, <2>3 DEF TypeOK
<1>2. PlanInv'
  BY DEF PlanInv
<1>3. TurnInv'
  BY DEF TurnInv, InTurn, Pkg, TypeOK
<1>4. InfosAscend'
  BY DEF InfosAscend
<1>5. CountInv'
  <2>1. \A c \in Blocks : InTurn(c)' <=> InTurn(c)
    BY DEF InTurn, TypeOK
  <2>2. \A c \in Blocks : pc'[c] \in {"copy", "turn"} <=> pc[c] \in {"copy", "turn"}
    BY DEF TypeOK
  <2>. QED BY <2>1, <2>2 DEF CountInv, Bound, Off, Pkg
<1>. QED BY <1>1, <1>2, <1>3, <1>4, <1>5

LEMMA TakeTurnStep ==
  ASSUME IInv, NEW b \in Blocks, TakeTurn(b)
  PROVE  IInv'
<1>. USE ConstFacts DEF IInv, TakeTurn, Goto, kernelVars, planVars, fpgaVars
<1>0. /\ phase = "send" /\ pre[Pkg(b)] \in Package
      /\ Off(Pkg(b) + 1) = Off(Pkg(b)) + pre[Pkg(b)].len
  BY WorkingInPlan DEF Working
<1>1. TypeOK'
  <2>1. pre[Pkg(b)].len \in Nat
    BY <1>0 DEF Package
  <2>2. writeCount' \in Nat
    BY <2>1 DEF TypeOK
  <2>3. pc' \in [Blocks -> {"loop", "flow", "copy", "turn", "post", "pass", "done", "hung"}]
    BY DEF TypeOK
  <2>. QED BY <2>2, <2>3 DEF TypeOK
<1>2. PlanInv'
  BY DEF PlanInv
<1>3. TurnInv'
  BY DEF TurnInv, InTurn, Pkg, TypeOK
<1>4. InfosAscend'
  BY DEF InfosAscend
<1>5. CountInv'
  <2>1. ~ \E c \in Blocks : InTurn(c)
    <3>1. SUFFICES ASSUME NEW c \in Blocks, InTurn(c) PROVE FALSE
      OBVIOUS
    <3>2. Pkg(c) = Pkg(b)
      BY <3>1 DEF TurnInv
    <3>3. c = b
      BY <3>2, PkgUnique
    <3>. QED BY <3>1, <3>3 DEF InTurn
  <2>2. /\ length \in Nat /\ mutexSender \in Nat /\ base \in Nat
        /\ Off(mutexSender) \in Nat /\ pre[Pkg(b)].len \in Nat
    BY <1>0, OffFacts DEF TypeOK, Package
  <2>3. writeCount = base + Off(mutexSender)
    BY <1>0, <2>1 DEF CountInv
  <2>4. writeCount' = base + Off(mutexSender + 1)
    BY <1>0, <2>2, <2>3
  <2>5. InTurn(b)'
    BY DEF InTurn, TypeOK
  <2>6. base + Off(Pkg(b) + 1) <= Bound
    BY <1>0 DEF CountInv
  <2>7. writeCount' <= Bound
    BY <2>4, <2>6
  <2>8. \A c \in Blocks : pc'[c] \in {"copy", "turn"} => pc[c] \in {"copy", "turn"}
    BY DEF TypeOK
  <2>. QED BY <1>0, <2>4, <2>5, <2>7, <2>8 DEF CountInv, Bound, Off, Pkg
<1>. QED BY <1>1, <1>2, <1>3, <1>4, <1>5

LEMMA TurnTimeoutStep ==
  ASSUME IInv, NEW b \in Blocks, TurnTimeout(b)
  PROVE  IInv'
<1>. USE ConstFacts DEF IInv, TurnTimeout, Goto, kernelVars, planVars, fpgaVars
<1>1. TypeOK'
  BY DEF TypeOK
<1>2. PlanInv'
  BY DEF PlanInv
<1>3. TurnInv'
  BY DEF TurnInv, InTurn, Pkg, TypeOK
<1>4. InfosAscend'
  BY DEF InfosAscend
<1>5. CountInv'
  <2>1. \A c \in Blocks : InTurn(c)' <=> InTurn(c)
    BY DEF InTurn, TypeOK
  <2>2. \A c \in Blocks : pc'[c] \in {"copy", "turn"} => pc[c] \in {"copy", "turn"}
    BY DEF TypeOK
  <2>. QED BY <2>1, <2>2 DEF CountInv, Bound, Off, Pkg
<1>. QED BY <1>1, <1>2, <1>3, <1>4, <1>5

LEMMA PostStep ==
  ASSUME IInv, NEW b \in Blocks, Post(b)
  PROVE  IInv'
<1>. USE ConstFacts DEF IInv, Post, Goto, kernelVars, planVars
<1>1. TypeOK'
  <2>1. pre[Pkg(b)] \in Package
    BY WorkingInPlan DEF Working
  <2>2. [addr |-> pre[Pkg(b)].addr, len |-> pre[Pkg(b)].len] \in Command
    BY <2>1 DEF Package, Command, InRing
  <2>. QED BY <2>2 DEF TypeOK
<1>2. PlanInv'
  BY DEF PlanInv
<1>3. TurnInv'
  BY DEF TurnInv, InTurn, Pkg, TypeOK
<1>4. InfosAscend'
  BY DEF InfosAscend
<1>5. CountInv'
  <2>1. \A c \in Blocks : InTurn(c)' <=> InTurn(c)
    BY DEF InTurn, TypeOK
  <2>2. \A c \in Blocks : pc'[c] \in {"copy", "turn"} => pc[c] \in {"copy", "turn"}
    BY DEF TypeOK
  <2>. QED BY <2>1, <2>2 DEF CountInv, Bound, Off, Pkg
<1>. QED BY <1>1, <1>2, <1>3, <1>4, <1>5

\* A block passes the turn on and goes to its next package, with or without a
\* command posted in the same step.
PassOn(b) ==
  /\ InTurn(b)
  /\ mutexSender' = Pkg(b) + 1
  /\ loopVar' = [loopVar EXCEPT ![b] = @ + NumBlocks]
  /\ Goto(b, "loop")
  /\ cmds' \in Seq(Command)
  /\ UNCHANGED <<kernelVars, planVars, writeCount, readCount, ring, taken, infos>>

LEMMA PassOnStep ==
  ASSUME IInv, NEW b \in Blocks, PassOn(b)
  PROVE  IInv'
<1>. USE ConstFacts DEF IInv, PassOn, Goto, kernelVars, planVars
<1>0. /\ phase = "send" /\ Pkg(b) \in Nat /\ mutexSender = Pkg(b)
      /\ preCnt \in Mult /\ loopVar[b] \in Mult /\ loopVar[b] < preCnt
  BY WorkingInPlan, PlanDone DEF Working, TurnInv, InTurn, PlanInv
<1>1. TypeOK'
  BY <1>0 DEF TypeOK
<1>2. PlanInv'
  BY DEF PlanInv
<1>3. TurnInv'
  <2>1. \A c \in Blocks : c # b => /\ Pkg(c) # mutexSender
                                   /\ loopVar'[c] = loopVar[c] /\ pc'[c] = pc[c]
    BY <1>0, PkgUnique DEF TypeOK
  <2>2. loopVar'[b] = loopVar[b] + NumBlocks /\ pc'[b] = "loop"
    BY DEF TypeOK
  <2>3. loopVar'[b] \in Mult /\ loopVar'[b] <= preCnt
    <3>. HIDE DEF IInv, PassOn
    <3>1. loopVar[b] + NumBlocks \in Mult /\ loopVar[b] + NumBlocks <= preCnt
      BY <1>0, MultFacts
    <3>. QED BY <2>2, <3>1
  <2>4. \A c \in Blocks : Pkg(c) \in Nat /\ mutexSender \in Nat
    <3>1. (\A c \in Blocks : loopVar[c] \in Nat /\ c \in Nat) /\ mutexSender \in Nat
      BY DEF TypeOK, Blocks
    <3>. HIDE DEF IInv, PassOn
    <3>. QED BY <3>1 DEF Pkg
  <2>5. ASSUME NEW c \in Blocks
        PROVE  /\ mutexSender' <= Pkg(c)' /\ Pkg(c)' < mutexSender' + NumBlocks
               /\ loopVar'[c] <= preCnt /\ loopVar'[c] \in Mult
               /\ pc'[c] \notin {"loop", "done"} => loopVar'[c] < preCnt
               /\ pc'[c] = "done" => loopVar'[c] = preCnt
               /\ InTurn(c)' => mutexSender' = Pkg(c)'
    <3>1. CASE c = b
      <4>1. Pkg(b)' = Pkg(b) + NumBlocks
        <5>1. loopVar[b] \in Nat /\ b \in Nat
          BY DEF TypeOK, Blocks
        <5>. HIDE DEF IInv, PassOn
        <5>. QED BY <2>2, <5>1 DEF Pkg
      <4>2. mutexSender' = Pkg(b) + 1 /\ NumBlocks \in Nat \ {0}
        OBVIOUS
      <4>. HIDE DEF IInv, PassOn
      <4>3. mutexSender' <= Pkg(b)' /\ Pkg(b)' < mutexSender' + NumBlocks
        BY <4>1, <4>2, <1>0
      <4>4. loopVar[b] \in Nat /\ preCnt \in Nat /\ loopVar'[b] = loopVar[b] + NumBlocks
        BY <1>0, <2>2, MultFacts
      <4>. QED BY <3>1, <4>3, <2>2, <2>3 DEF InTurn
    <3>2. CASE c # b
      <4>1. mutexSender <= Pkg(c) /\ Pkg(c) < mutexSender + NumBlocks
        BY <1>0 DEF TurnInv
      <4>2. Pkg(c)' = Pkg(c)
        BY <2>1, <3>2 DEF Pkg
      <4>3. ~InTurn(c)
        BY <2>1, <3>2 DEF TurnInv
      <4>4. mutexSender' <= Pkg(c)' /\ Pkg(c)' < mutexSender' + NumBlocks
        BY <2>1, <2>4, <3>2, <4>1, <4>2, <1>0
      <4>5. ~InTurn(c)'
        BY <2>1, <3>2, <4>3 DEF InTurn
      <4>. QED BY <1>0, <2>1, <3>2, <4>4, <4>5 DEF TurnInv
    <3>. QED BY <3>1, <3>2
  <2>. QED BY <1>0, <2>5 DEF TurnInv
<1>4. InfosAscend'
  BY DEF InfosAscend
<1>5. CountInv'
  <2>1. ~ \E c \in Blocks : InTurn(c)'
    <3>1. SUFFICES ASSUME NEW c \in Blocks, InTurn(c)' PROVE FALSE
      OBVIOUS
    <3>2. c # b /\ InTurn(c)
      BY <3>1 DEF InTurn, TypeOK
    <3>. QED BY <3>2, <1>0, PkgUnique DEF TurnInv
  <2>2. writeCount = base + Off(mutexSender + 1)
    BY <1>0 DEF CountInv, InTurn
  <2>3. \A c \in Blocks : pc'[c] \in {"copy", "turn"} =>
                            c # b /\ pc[c] \in {"copy", "turn"} /\ Pkg(c)' = Pkg(c)
    BY DEF TypeOK, Pkg
  <2>. QED BY <1>0, <2>1, <2>2, <2>3 DEF CountInv, Bound, Off
<1>. QED BY <1>1, <1>2, <1>3, <1>4, <1>5

LEMMA PassTurnStep ==
  ASSUME IInv, NEW b \in Blocks, PassTurn(b)
  PROVE  IInv'
<1>1. cmds \in Seq(Command)
  BY DEF IInv, TypeOK
<1>2. PassOn(b)
  BY <1>1 DEF PassTurn, PassOn, InTurn, fpgaVars
<1>. QED BY <1>2, PassOnStep

LEMMA SendEndStep ==
  ASSUME IInv, SendEnd
  PROVE  IInv'
<1>. USE ConstFacts DEF IInv, SendEnd, planVars, blockVars, fpgaVars
<1>1. TypeOK'
  BY DEF TypeOK
<1>2. PlanInv'
  BY DEF PlanInv
<1>3. TurnInv'
  BY DEF TurnInv, InTurn, Pkg
<1>4. InfosAscend'
  BY DEF InfosAscend
<1>5. CountInv'
  <2>1. 0 \in Blocks /\ NumBlocks - 1 \in Blocks
    BY DEF Blocks
  <2>2. loopVar[0] = preCnt /\ loopVar[NumBlocks - 1] = preCnt
    BY <2>1 DEF TurnInv
  <2>3. mutexSender <= preCnt /\ preCnt + (NumBlocks - 1) < mutexSender + NumBlocks
    BY <2>1, <2>2 DEF TurnInv, Pkg, TypeOK
  <2>4. mutexSender = preCnt
    BY <2>3 DEF TypeOK
  <2>5. writeCount = base + Off(mutexSender)
    BY DEF CountInv, InTurn
  <2>6. Off(preCnt) = length
    BY PlanDone DEF PlanInv
  <2>. QED BY <2>4, <2>5, <2>6 DEF CountInv, Bound
<1>. QED BY <1>1, <1>2, <1>3, <1>4, <1>5

-------------------------------------------------------------------------------
(* The steps of the FPGA and of the poll.                                  *)

LEMMA SeqOfFunction ==
  ASSUME NEW n \in Nat, NEW f \in [1..n -> Int]
  PROVE  f \in Seq(Int) /\ Len(f) = n
  OBVIOUS

LEMMA ConcatFacts ==
  ASSUME NEW s \in Seq(Int), NEW t \in Seq(Int)
  PROVE  s \o t \in Seq(Int) /\ Len(s \o t) = Len(s) + Len(t)
  OBVIOUS

LEMMA FetchStep ==
  ASSUME IInv, Fetch
  PROVE  IInv'
<1>. USE ConstFacts DEF IInv, Fetch, kernelVars, planVars, blockVars
<1>. DEFINE c == Head(cmds)
            data == [k \in 1..c.len |-> ring[c.addr + k - 1]]
<1>0. c \in Command /\ Tail(cmds) \in Seq(Command)
  BY DEF TypeOK
<1>1. data \in Seq(Int) /\ Len(data) = c.len
  <2>1. c.len \in Nat /\ c.addr \in Nat /\ c.addr + c.len <= SingleBuffer
    BY <1>0 DEF Command, InRing
  <2>. HIDE DEF c
  <2>2. \A k \in 1..c.len : c.addr + k - 1 \in Units
    BY <2>1 DEF Units
  <2>3. data \in [1..c.len -> Int]
    BY <2>2 DEF TypeOK
  <2>. QED BY <2>1, <2>3, SeqOfFunction
<1>2. taken' \in Seq(Int) /\ Len(taken') = Len(taken) + c.len
  <2>1. taken' = taken \o data
    OBVIOUS
  <2>2. taken \in Seq(Int)
    BY DEF TypeOK
  <2>. HIDE DEF c, data
  <2>. QED BY <2>1, <2>2, <1>1, ConcatFacts
<1>3. TypeOK'
  BY <1>0, <1>2 DEF TypeOK
<1>4. PlanInv'
  BY DEF PlanInv
<1>5. TurnInv'
  BY DEF TurnInv, InTurn, Pkg
<1>6. InfosAscend'
  <2>1. infos' = infos /\ readCount' = readCount
    OBVIOUS
  <2>2. /\ infos \in Seq(Nat) /\ readCount \in Nat /\ Len(taken) \in Nat
        /\ c.len \in Nat /\ InfosAscend
    BY <1>0 DEF TypeOK, Command
  <2>. HIDE DEF c, IInv, Fetch
  <2>. QED BY <1>2, <2>1, <2>2 DEF InfosAscend
<1>7. CountInv'
  BY DEF CountInv, Bound, Off, Pkg, InTurn
<1>. QED BY <1>3, <1>4, <1>5, <1>6, <1>7

LEMMA ReportStep ==
  ASSUME IInv, Report
  PROVE  IInv'
<1>. USE ConstFacts DEF IInv, Report, kernelVars, planVars, blockVars
<1>0. infos \in Seq(Nat) /\ Len(taken) \in Nat
  BY DEF TypeOK
<1>1. TypeOK'
  BY <1>0 DEF TypeOK
<1>2. PlanInv'
  BY DEF PlanInv
<1>3. TurnInv'
  BY DEF TurnInv, InTurn, Pkg
<1>4. InfosAscend'
  <2>1. Len(infos') = Len(infos) + 1 /\ Len(infos) \in Nat
    BY <1>0
  <2>2. \A k \in 1..Len(infos') : infos'[k] = IF k <= Len(infos) THEN infos[k] ELSE Len(taken)
    BY <1>0
  <2>. QED BY <2>1, <2>2, <1>0 DEF InfosAscend, TypeOK
<1>5. CountInv'
  BY DEF CountInv, Bound, Off, Pkg, InTurn
<1>. QED BY <1>1, <1>2, <1>3, <1>4, <1>5

LEMMA ReadInfoStep ==
  ASSUME IInv, ReadInfo
  PROVE  IInv'
<1>. USE ConstFacts DEF IInv, ReadInfo, kernelVars, planVars, blockVars
<1>0. /\ infos \in Seq(Nat) /\ Len(infos) \in Nat \ {0}
      /\ Head(infos) = infos[1] /\ Head(infos) \in Nat
  BY DEF TypeOK
<1>1. readCount <= readCount' /\ readCount' <= Len(taken)
  BY <1>0 DEF InfosAscend
<1>2. TypeOK'
  BY <1>0 DEF TypeOK
<1>3. PlanInv'
  BY DEF PlanInv
<1>4. TurnInv'
  BY DEF TurnInv, InTurn, Pkg
<1>5. InfosAscend'
  <2>1. Len(infos') = Len(infos) - 1
    BY <1>0
  <2>2. \A k \in 1..Len(infos') : infos'[k] = infos[k + 1] /\ k + 1 \in 1..Len(infos)
    BY <1>0, <2>1
  <2>3. \A k \in 1..Len(infos) : infos[1] <= infos[k]
    BY <1>0 DEF InfosAscend
  <2>. QED BY <1>0, <1>1, <2>1, <2>2, <2>3 DEF InfosAscend
<1>6. CountInv'
  <2>1. Bound' >= Bound /\ Bound \in Int /\ Bound' \in Int
    BY <1>1, <1>2 DEF Bound, TypeOK
  <2>2. \A k \in Nat : Off(k)' = Off(k)
    BY DEF Off
  <2>3. ASSUME NEW b \in Blocks, pc[b] \in {"copy", "turn"}
        PROVE  base + Off(Pkg(b) + 1) <= Bound'
    <3>0. phase = "send"
      BY <2>3, WorkingInPlan DEF Working
    <3>1. Pkg(b) + 1 \in Nat /\ length \in Nat /\ base \in Nat
      BY DEF TypeOK, Pkg, Blocks
    <3>2. Off(Pkg(b) + 1) \in Nat
      BY <3>1, OffFacts
    <3>3. base + Off(Pkg(b) + 1) <= Bound
      BY <2>3, <3>0 DEF CountInv
    <3>. QED BY <2>1, <3>1, <3>2, <3>3
  <2>4. writeCount \in Nat /\ writeCount <= Bound'
    BY <2>1 DEF CountInv, TypeOK
  <2>. QED BY <2>1, <2>3, <2>4 DEF CountInv, Off, Pkg, InTurn
<1>. QED BY <1>2, <1>3, <1>4, <1>5, <1>6

LEMMA StutterStep ==
  ASSUME IInv, UNCHANGED vars
  PROVE  IInv'
<1>. USE DEF IInv, vars, kernelVars, planVars, blockVars, fpgaVars
<1>1. TypeOK' /\ PlanInv'
  BY DEF TypeOK, PlanInv
<1>2. TurnInv' /\ InfosAscend'
  BY DEF TurnInv, InfosAscend, InTurn, Pkg
<1>3. CountInv'
  BY DEF CountInv, Bound, Off, Pkg, InTurn
<1>. QED BY <1>1, <1>2, <1>3

LEMMA IInvStep ==
  ASSUME IInv, [Next]_vars
  PROVE  IInv'
<1>1. CASE Host
  BY <1>1, PreStartStep, PrePlanStep, SendStartStep, SendEndStep DEF Host
<1>2. ASSUME NEW b \in Blocks, BlockStep(b)
      PROVE  IInv'
  BY <1>2, LoopTestStep, FlowControlStep, CopyStep, TakeTurnStep, PostStep,
     PassTurnStep DEF BlockStep
<1>3. ASSUME NEW b \in Blocks, TurnTimeout(b)
      PROVE  IInv'
  BY <1>3, TurnTimeoutStep
<1>4. CASE Fetch \/ Report \/ ReadInfo
  BY <1>4, FetchStep, ReportStep, ReadInfoStep
<1>5. CASE Exit \/ UNCHANGED vars
  BY <1>5, StutterStep DEF Exit
<1>. QED BY <1>1, <1>2, <1>3, <1>4, <1>5 DEF Next

LEMMA IInvInductive == Spec => []IInv
<1>1. IInv /\ [Next]_vars => IInv'
  BY IInvStep
<1>. QED BY <1>1, InitStep, PTL DEF Spec

-------------------------------------------------------------------------------
(* Where the units of the stream are in the ring.                          *)

LEMMA RingFacts ==
  /\ NumBlocks \in Nat \ {0} /\ MaxBlock \in Nat \ {0}
  /\ PkgLimit \in Nat /\ SingleBuffer \in Nat /\ MaxPackage \in Nat
  /\ WrapAt \in Nat /\ Window \in Nat /\ WrapAt + MaxBlock <= SingleBuffer
  /\ Lengths \subseteq Nat \ {0}
  BY ConstFacts

LEMMA BoundNat ==
  ASSUME readCount \in Nat
  PROVE  Bound \in Nat
<1>1. PICK m \in Nat : m = NumBlocks * MaxBlock
  BY ConstFacts
<1>. QED BY <1>1, RingFacts DEF Bound

-------------------------------------------------------------------------------
(* Addresses in the ring.                                                  *)

\* Address c lies d units of the stream after address a, in the same lap or
\* in the next, with the units skipped at the end of the ring in between.
Ahead(a, c, d) ==
  \/ c = a + d
  \/ a + d <= c + SingleBuffer /\ c + WrapAt < a + d

LEMMA AheadNext ==
  ASSUME NEW a \in 0..WrapAt, NEW c \in 0..WrapAt, NEW d \in Nat, NEW n \in Nat,
         Ahead(a, c, d), c + n <= SingleBuffer, d + n <= WrapAt
  PROVE  Ahead(a, NextAddr(c + n), d + n)
  BY ConstFacts DEF Ahead, NextAddr

\* Two pieces no more than WrapAt units apart, end to end, do not overlap.
LEMMA AheadDisjoint ==
  ASSUME NEW a \in 0..WrapAt, NEW c \in 0..WrapAt, NEW d \in Nat, NEW m \in Nat, NEW n \in Nat,
         Ahead(a, c, d), m <= d, d + n <= WrapAt
  PROVE  (a .. (a + m - 1)) \cap (c .. (c + n - 1)) = {}
  BY ConstFacts DEF Ahead

-------------------------------------------------------------------------------
(* The invariant.                                                          *)

Place == [pos : Nat, addr : 0..WrapAt]
At(u, a) == [pos |-> u, addr |-> a]

\* Units that have been given to the FPGA in commands.
Posted == IF \E b \in Blocks : pc[b] = "post" THEN base + Off(mutexSender) ELSE writeCount

\* P says where the stream has been put in the ring so far.
Placement(P) ==
  /\ At(base + Off(preCnt), bufOffset) \in P
  /\ \A k \in 0..(preCnt - 1) : At(base + Off(k), pre[k].addr) \in P
  /\ \A x \in P : x.pos <= base + Off(preCnt)
  /\ \A x, y \in P : x.pos <= y.pos /\ y.pos <= x.pos + WrapAt
                       => Ahead(x.addr, y.addr, y.pos - x.pos)

\* The commands are the stream from what was taken to what was posted, at[k]
\* is where the k-th begins, and the ring has its units.
Queue(P, at) ==
  /\ at[1] = Len(taken) /\ at[Len(cmds) + 1] = Posted
  /\ \A j, k \in 1..(Len(cmds) + 1) : j <= k => at[j] <= at[k]
  /\ \A k \in 1..Len(cmds) :
       /\ cmds[k].len \in 1..MaxBlock
       /\ at[k + 1] = at[k] + cmds[k].len
       /\ At(at[k], cmds[k].addr) \in P
       /\ \A u \in 0..(cmds[k].len - 1) : ring[cmds[k].addr + u] = at[k] + u

QueueInv ==
  \E P \in SUBSET Place : \E at \in [1..(Len(cmds) + 1) -> Nat] : Placement(P) /\ Queue(P, at)

\* A package that was copied and not yet posted is in the ring.
HeldInv ==
  \A b \in Blocks : pc[b] \in {"turn", "post"} =>
    \A u \in 0..(pre[Pkg(b)].len - 1) : ring[pre[Pkg(b)].addr + u] = base + Off(Pkg(b)) + u

TakenInv == \A u \in 1..Len(taken) : taken[u] = u - 1

CallInv ==
  /\ phase = "idle" => i >= length /\ writeCount = base + length
  /\ phase # "idle" => rounds > 0

SInv == QueueInv /\ HeldInv /\ TakenInv /\ CallInv

-------------------------------------------------------------------------------
(* Consequences.                                                           *)

LEMMA Spans == Window + NumBlocks * MaxBlock <= WrapAt
  BY ConstFacts, SendAssumption, BlocksFitOverhead DEF Window, WrapAt

LEMMA OffMono ==
  ASSUME length \in Nat, NEW j \in Nat, NEW k \in Nat, j <= k
  PROVE  Off(j) \in Nat /\ Off(k) \in Nat /\ Off(j) <= Off(k)
<1>1. j * MaxBlock \in Nat /\ k * MaxBlock \in Nat /\ j * MaxBlock <= k * MaxBlock
  BY ConstFacts, MulMono
<1>. QED BY <1>1 DEF Off, Smaller

\* A package in a block's hands lies behind what was posted and, to its end,
\* within a lap of what was taken.
LEMMA HeldFacts ==
  ASSUME IInv, NEW b \in Holding
  PROVE  /\ b \in Blocks /\ phase = "send"
         /\ Pkg(b) \in 0..(preCnt - 1) /\ Pkg(b) \in 0..(PkgLimit - 1)
         /\ pre[Pkg(b)] \in Package /\ pre[Pkg(b)].len \in 1..MaxBlock
         /\ Off(Pkg(b)) \in Nat /\ Off(Pkg(b) + 1) = Off(Pkg(b)) + pre[Pkg(b)].len
         /\ Posted <= base + Off(Pkg(b))
         /\ base + Off(Pkg(b) + 1) <= Len(taken) + WrapAt
<1>. USE RingFacts
<1>1. b \in Blocks /\ pc[b] \in {"copy", "turn", "post"} /\ Working(b)
  BY DEF Holding, Working
<1>2. /\ phase = "send"
      /\ Pkg(b) \in 0..(preCnt - 1) /\ Pkg(b) \in 0..(PkgLimit - 1)
      /\ pre[Pkg(b)] \in Package
      /\ Off(Pkg(b) + 1) = Off(Pkg(b)) + pre[Pkg(b)].len
  BY <1>1, WorkingInPlan DEF IInv
<1>3. /\ length \in Nat /\ base \in Nat /\ writeCount \in Nat /\ mutexSender \in Nat
      /\ Pkg(b) \in Nat /\ Len(taken) \in Nat /\ readCount \in Nat
  BY <1>2 DEF IInv, TypeOK
<1>4. pre[Pkg(b)].len \in 1..MaxBlock
  <2>1. /\ Pkg(b) * MaxBlock < length /\ Pkg(b) * MaxBlock \in Nat
        /\ pre[Pkg(b)].len = Smaller(MaxBlock, length - Pkg(b) * MaxBlock)
    BY <1>2, <1>3, MulSucc DEF IInv, PlanInv
  <2>. QED BY <2>1, <1>3 DEF Smaller
<1>5. /\ mutexSender <= Pkg(b) /\ Off(mutexSender) <= Off(Pkg(b))
      /\ Off(Pkg(b)) \in Nat /\ Off(mutexSender) \in Nat
  BY <1>1, <1>2, <1>3, OffMono DEF IInv, TurnInv
<1>6. Posted <= base + Off(Pkg(b))
  <2>1. CASE \E c \in Blocks : pc[c] = "post"
    <3>1. Posted = base + Off(mutexSender)
      BY <2>1 DEF Posted
    <3>. QED BY <3>1, <1>3, <1>5
  <2>2. CASE ~ \E c \in Blocks : InTurn(c)
    <3>1. writeCount = base + Off(mutexSender)
      BY <2>2, <1>2 DEF IInv, CountInv
    <3>. QED BY <2>2, <3>1, <1>3, <1>5, OffMono DEF Posted, InTurn
  <2>3. CASE /\ ~ \E c \in Blocks : pc[c] = "post"
             /\ \E c \in Blocks : InTurn(c)
    <3>1. PICK c \in Blocks : InTurn(c)
      BY <2>3
    <3>2. c # b
      BY <2>3, <3>1, <1>1 DEF InTurn
    <3>3. mutexSender # Pkg(b)
      BY <3>1, <3>2, <1>1, PkgUnique DEF IInv, TurnInv
    <3>4. Off(mutexSender + 1) <= Off(Pkg(b)) /\ Off(mutexSender + 1) \in Nat
      <4>1. mutexSender + 1 \in Nat /\ mutexSender + 1 <= Pkg(b)
        BY <3>3, <1>3, <1>5
      <4>. QED BY <4>1, <1>3, OffMono
    <3>5. writeCount = base + Off(mutexSender + 1)
      BY <3>1, <1>2 DEF IInv, CountInv
    <3>6. Posted = writeCount
      BY <2>3 DEF Posted
    <3>. QED BY <3>4, <3>5, <3>6, <1>3, <1>5
  <2>. QED BY <2>1, <2>2, <2>3
<1>7. base + Off(Pkg(b) + 1) <= Len(taken) + WrapAt
  <2>1. base + Off(Pkg(b) + 1) <= Bound
    <3>1. CASE pc[b] \in {"copy", "turn"}
      BY <3>1, <1>1, <1>2 DEF IInv, CountInv
    <3>2. CASE pc[b] = "post"
      <4>1. InTurn(b) /\ mutexSender = Pkg(b)
        BY <3>2, <1>1 DEF InTurn, IInv, TurnInv
      <4>2. writeCount = base + Off(mutexSender + 1) /\ writeCount <= Bound
        BY <4>1, <1>1, <1>2 DEF IInv, CountInv
      <4>. QED BY <4>1, <4>2
    <3>. QED BY <3>1, <3>2, <1>1
  <2>2. Bound <= Len(taken) + WrapAt
    BY <1>3, Spans DEF Bound, IInv, InfosAscend
  <2>3. base + Off(Pkg(b) + 1) \in Nat /\ Bound \in Int
    <3>1. Bound \in Nat
      BY <1>3, BoundNat
    <3>2. pre[Pkg(b)].len \in Nat
      BY <1>4
    <3>. QED BY <1>2, <1>3, <1>5, <3>1, <3>2
  <2>4. PICK m \in Nat, t \in Nat : m = base + Off(Pkg(b) + 1) /\ t = Len(taken) + WrapAt
    BY <2>3, <1>3
  <2>. QED BY <2>1, <2>2, <2>3, <2>4
<1>. QED BY <1>1, <1>2, <1>4, <1>5, <1>6, <1>7

LEMMA PlacedAhead ==
  ASSUME NEW P \in SUBSET Place, Placement(P), NEW u \in Nat, NEW v \in Nat, NEW a, NEW c,
         At(u, a) \in P, At(v, c) \in P, u <= v, v <= u + WrapAt
  PROVE  Ahead(a, c, v - u)
<1>1. At(u, a).pos = u /\ At(u, a).addr = a /\ At(v, c).pos = v /\ At(v, c).addr = c
  BY DEF At
<1>. QED BY <1>1 DEF Placement

LEMMA Gap ==
  ASSUME NEW u \in Nat, NEW v \in Nat, NEW m \in Nat, NEW n \in Nat, NEW t \in Nat, NEW w \in Nat,
         t <= u, u + m <= v, v + n <= t + w
  PROVE  v - u \in Nat /\ m <= v - u /\ (v - u) + n <= w
  OBVIOUS

-------------------------------------------------------------------------------
(* Nothing unread is overwritten.                                          *)

LEMMA NothingOverwritten ==
  ASSUME IInv, QueueInv
  PROVE  NoUnreadOverwritten
<1>. USE RingFacts
<1>1. PICK P \in SUBSET Place, at \in [1..(Len(cmds) + 1) -> Nat] : Placement(P) /\ Queue(P, at)
  BY DEF QueueInv
<1>2. base \in Nat /\ Len(cmds) \in Nat /\ Len(taken) \in Nat
  BY DEF IInv, TypeOK
<1>3. ASSUME NEW b \in Holding
      PROVE  /\ At(base + Off(Pkg(b)), pre[Pkg(b)].addr) \in P
             /\ pre[Pkg(b)].addr \in 0..WrapAt
  BY <1>1, HeldFacts DEF Placement, At, Place
<1>4. ASSUME NEW b \in Holding, NEW k \in 1..Len(cmds)
      PROVE  Region(pre[Pkg(b)]) \cap Region(cmds[k]) = {}
  <2>. DEFINE j == Pkg(b)
              d == (base + Off(j)) - at[k]
  <2>1. /\ At(at[k], cmds[k].addr) \in P /\ cmds[k].addr \in 0..WrapAt
        /\ cmds[k].len \in Nat /\ at[k] \in Nat /\ at[k] + cmds[k].len <= Posted
        /\ Len(taken) <= at[k]
    <3>1. /\ k \in 1..(Len(cmds) + 1) /\ k + 1 \in 1..(Len(cmds) + 1)
          /\ 1 \in 1..(Len(cmds) + 1) /\ Len(cmds) + 1 \in 1..(Len(cmds) + 1)
          /\ 1 <= k /\ k + 1 <= Len(cmds) + 1
      BY <1>2
    <3>2. at[1] <= at[k] /\ at[k + 1] <= at[Len(cmds) + 1]
      BY <3>1, <1>1 DEF Queue
    <3>. QED BY <3>1, <3>2, <1>1 DEF Queue, At, Place
  <2>2. /\ Posted <= base + Off(j) /\ base + Off(j) + pre[j].len <= Len(taken) + WrapAt
        /\ Off(j) \in Nat /\ pre[j].len \in Nat
    <3>1. /\ Posted <= base + Off(j) /\ base + Off(j + 1) <= Len(taken) + WrapAt
          /\ Off(j + 1) = Off(j) + pre[j].len
          /\ Off(j) \in Nat /\ pre[j].len \in 1..MaxBlock
      BY HeldFacts
    <3>. HIDE DEF j
    <3>. QED BY <1>2, <3>1
  <2>3. Posted \in Nat
    <3>1. at[Len(cmds) + 1] = Posted
      BY <1>1 DEF Queue
    <3>2. Len(cmds) + 1 \in 1..(Len(cmds) + 1)
      BY <1>2
    <3>. QED BY <3>1, <3>2
  <2>4. d \in Nat /\ cmds[k].len <= d /\ d + pre[j].len <= WrapAt
    <3>1. PICK v \in Nat : v = base + Off(j)
      BY <1>2, <2>2
    <3>2. at[k] + cmds[k].len <= v /\ v + pre[j].len <= Len(taken) + WrapAt
      BY <2>1, <2>2, <2>3, <3>1
    <3>3. v - at[k] \in Nat /\ cmds[k].len <= v - at[k] /\ (v - at[k]) + pre[j].len <= WrapAt
      BY <1>2, <2>1, <2>2, <3>2, Gap
    <3>. QED BY <3>1, <3>3
  <2>5. Ahead(cmds[k].addr, pre[j].addr, d)
    <3>1. PICK v \in Nat : v = base + Off(j)
      BY <1>2, <2>2
    <3>2. At(at[k], cmds[k].addr) \in P /\ At(v, pre[j].addr) \in P
      BY <1>3, <2>1, <3>1
    <3>3. v - at[k] \in Nat /\ at[k] <= v /\ v <= at[k] + WrapAt
      <4>1. v - at[k] \in Nat /\ cmds[k].len <= v - at[k] /\ v - at[k] + pre[j].len <= WrapAt
        BY <2>4, <3>1
      <4>2. at[k] \in Nat /\ pre[j].len \in Nat
        BY <2>1, <2>2
      <4>. HIDE DEF d, j
      <4>. QED BY <4>1, <4>2
    <3>4. Ahead(cmds[k].addr, pre[j].addr, v - at[k])
      BY <1>1, <3>2, <3>3, PlacedAhead
    <3>. QED BY <3>1, <3>4
  <2>. QED BY <1>3, <2>1, <2>2, <2>4, <2>5, AheadDisjoint DEF Region
<1>5. ASSUME NEW b \in Holding, NEW c \in Holding, Pkg(b) < Pkg(c)
      PROVE  Region(pre[Pkg(b)]) \cap Region(pre[Pkg(c)]) = {}
  <2>. DEFINE d == Off(Pkg(c)) - Off(Pkg(b))
  <2>1. /\ Off(Pkg(b)) \in Nat /\ Off(Pkg(c)) \in Nat
        /\ pre[Pkg(b)].len \in Nat /\ pre[Pkg(c)].len \in Nat
        /\ Off(Pkg(b)) + pre[Pkg(b)].len <= Off(Pkg(c))
    <3>1. Pkg(b) \in Nat /\ Pkg(c) \in Nat /\ Pkg(b) + 1 <= Pkg(c)
      <4>1. preCnt \in Nat
        BY DEF IInv, TypeOK
      <4>2. Pkg(b) \in 0..(preCnt - 1) /\ Pkg(c) \in 0..(preCnt - 1)
        BY HeldFacts
      <4>. QED BY <1>5, <4>1, <4>2
    <3>2. Off(Pkg(b) + 1) <= Off(Pkg(c))
      BY <3>1, OffMono DEF IInv, TypeOK
    <3>3. /\ Off(Pkg(b)) \in Nat /\ pre[Pkg(b)].len \in 1..MaxBlock
          /\ Off(Pkg(b) + 1) = Off(Pkg(b)) + pre[Pkg(b)].len
      BY HeldFacts
    <3>4. Off(Pkg(c)) \in Nat /\ pre[Pkg(c)].len \in 1..MaxBlock
      BY HeldFacts
    <3>. QED BY <3>2, <3>3, <3>4
  <2>2. Len(taken) <= base + Off(Pkg(b))
    <3>1. at[1] <= at[Len(cmds) + 1]
      BY <1>1, <1>2 DEF Queue
    <3>2. Len(taken) <= Posted /\ Posted \in Nat
      BY <3>1, <1>1, <1>2 DEF Queue
    <3>3. Posted <= base + Off(Pkg(b))
      BY HeldFacts
    <3>. QED BY <3>2, <3>3, <1>2, <2>1
  <2>3. base + Off(Pkg(c)) + pre[Pkg(c)].len <= Len(taken) + WrapAt
    <3>1. /\ base + Off(Pkg(c) + 1) <= Len(taken) + WrapAt
          /\ Off(Pkg(c) + 1) = Off(Pkg(c)) + pre[Pkg(c)].len
      BY HeldFacts
    <3>. QED BY <3>1, <1>2, <2>1
  <2>4. d \in Nat /\ pre[Pkg(b)].len <= d /\ d + pre[Pkg(c)].len <= WrapAt
    <3>1. PICK x \in Nat, y \in Nat, m \in Nat, n \in Nat, t \in Nat :
            /\ x = Off(Pkg(b)) /\ y = Off(Pkg(c)) /\ t = Len(taken)
            /\ m = pre[Pkg(b)].len /\ n = pre[Pkg(c)].len
      BY <1>2, <2>1
    <3>2. x + m <= y /\ t <= base + x /\ base + y + n <= t + WrapAt
      BY <2>1, <2>2, <2>3, <3>1
    <3>3. y - x \in Nat /\ m <= y - x /\ (y - x) + n <= WrapAt
      BY <1>2, <3>2
    <3>. QED BY <3>1, <3>3
  <2>5. Ahead(pre[Pkg(b)].addr, pre[Pkg(c)].addr, d)
    <3>1. PICK u \in Nat, v \in Nat : u = base + Off(Pkg(b)) /\ v = base + Off(Pkg(c))
      BY <1>2, <2>1
    <3>2. At(u, pre[Pkg(b)].addr) \in P /\ At(v, pre[Pkg(c)].addr) \in P
      BY <1>3, <3>1
    <3>3. u <= v /\ v <= u + WrapAt /\ v - u = d
      <4>1. PICK x \in Nat, y \in Nat : x = Off(Pkg(b)) /\ y = Off(Pkg(c))
        BY <2>1
      <4>2. y - x \in Nat /\ y - x <= WrapAt
        <5>1. y - x \in Nat /\ (y - x) + pre[Pkg(c)].len <= WrapAt
          BY <2>4, <4>1
        <5>. HIDE DEF d
        <5>. QED BY <2>1, <5>1
      <4>3. u = base + x /\ v = base + y
        BY <3>1, <4>1
      <4>4. v - u = y - x
        BY <1>2, <4>3
      <4>. QED BY <4>1, <4>2, <4>4
    <3>4. Ahead(pre[Pkg(b)].addr, pre[Pkg(c)].addr, v - u)
      BY <1>1, <3>2, <3>3, PlacedAhead
    <3>. QED BY <3>3, <3>4
  <2>. QED BY <1>3, <2>1, <2>4, <2>5, AheadDisjoint DEF Region
<1>6. ASSUME NEW b \in Holding, NEW c \in Holding \ {b}
      PROVE  Region(pre[Pkg(b)]) \cap Region(pre[Pkg(c)]) = {}
  <2>1. Pkg(b) # Pkg(c) /\ Pkg(b) \in Nat /\ Pkg(c) \in Nat
    BY HeldFacts, PkgUnique DEF IInv, TypeOK
  <2>2. CASE Pkg(b) < Pkg(c)
    BY <1>5, <2>2
  <2>3. CASE Pkg(c) < Pkg(b)
    <3>1. Region(pre[Pkg(c)]) \cap Region(pre[Pkg(b)]) = {}
      BY <1>5, <2>3
    <3>. QED BY <3>1
  <2>. QED BY <2>1, <2>2, <2>3
<1>. QED BY <1>4, <1>6 DEF NoUnreadOverwritten

-------------------------------------------------------------------------------
(* Every step keeps the invariant.                                         *)

LEMMA StreamInit == Init => SInv
<1>. SUFFICES ASSUME Init PROVE SInv
  OBVIOUS
<1>. USE RingFacts DEF Init
<1>1. Off(0) = 0
  BY OffFacts
<1>2. QueueInv
  <2>. DEFINE P == {At(0, 0)}
              at == [k \in 1..(Len(cmds) + 1) |-> 0]
  <2>1. P \in SUBSET Place
    BY DEF At, Place
  <2>2. Placement(P)
    BY <1>1 DEF Placement, At, Ahead
  <2>3. at \in [1..(Len(cmds) + 1) -> Nat] /\ Queue(P, at)
    BY DEF Queue, Posted
  <2>. QED BY <2>1, <2>2, <2>3 DEF QueueInv
<1>3. HeldInv /\ TakenInv /\ CallInv
  BY DEF HeldInv, TakenInv, CallInv
<1>. QED BY <1>2, <1>3 DEF SInv

\* The steps that leave the plan, the ring and the FPGA alone.
LEMMA QuietStep ==
  ASSUME SInv,
         UNCHANGED <<base, length, preCnt, bufOffset, pre, cmds, ring, taken>>,
         Posted' = Posted, CallInv',
         \A b \in Blocks : pc'[b] \in {"turn", "post"} =>
                            pc[b] \in {"turn", "post"} /\ loopVar'[b] = loopVar[b]
  PROVE  SInv'
<1>1. \A k : Off(k)' = Off(k)
  BY DEF Off
<1>2. PICK P \in SUBSET Place, at \in [1..(Len(cmds) + 1) -> Nat] : Placement(P) /\ Queue(P, at)
  BY DEF SInv, QueueInv
<1>3. Placement(P)'
  BY <1>1, <1>2 DEF Placement
<1>4. Queue(P, at)'
  BY <1>2 DEF Queue
<1>5. QueueInv'
  BY <1>3, <1>4 DEF QueueInv
<1>6. HeldInv' /\ TakenInv'
  BY <1>1 DEF SInv, HeldInv, TakenInv, Pkg
<1>. QED BY <1>5, <1>6 DEF SInv

LEMMA PostedSteps ==
  ASSUME IInv, NEW b \in Blocks,
         LoopTest(b) \/ FlowControl(b) \/ TakeTurn(b) \/ PassTurn(b) \/ TurnTimeout(b)
  PROVE  Posted' = Posted
<1>. USE DEF Goto, kernelVars, planVars, fpgaVars
<1>0. pc \in [Blocks -> {"loop", "flow", "copy", "turn", "post", "pass", "done", "hung"}]
  BY DEF IInv, TypeOK
<1>1. CASE LoopTest(b) \/ FlowControl(b) \/ TurnTimeout(b)
  <2>1. /\ UNCHANGED <<base, length, mutexSender, writeCount>>
        /\ \A c \in Blocks : pc'[c] = "post" <=> pc[c] = "post"
    BY <1>0, <1>1 DEF LoopTest, FlowControl, TurnTimeout
  <2>. QED BY <2>1 DEF Posted, Off
<1>2. CASE TakeTurn(b)
  <2>1. /\ phase = "send" /\ mutexSender = Pkg(b)
    BY <1>2, <1>0, WorkingInPlan DEF TakeTurn, Working, IInv
  <2>2. ~ \E c \in Blocks : InTurn(c)
    <3>. SUFFICES ASSUME NEW c \in Blocks, InTurn(c) PROVE FALSE
      OBVIOUS
    <3>1. c = b
      BY <2>1, PkgUnique DEF IInv, TurnInv
    <3>. QED BY <3>1, <1>2 DEF InTurn, TakeTurn
  <2>3. Posted = base + Off(mutexSender)
    BY <2>1, <2>2 DEF Posted, InTurn, IInv, CountInv
  <2>4. /\ UNCHANGED <<base, length, mutexSender>> /\ pc'[b] = "post"
    BY <1>0, <1>2 DEF TakeTurn
  <2>. QED BY <2>3, <2>4 DEF Posted, Off
<1>3. CASE PassTurn(b)
  <2>1. \A c \in Blocks : pc[c] # "post" /\ pc'[c] # "post"
    <3>. SUFFICES ASSUME NEW c \in Blocks PROVE pc[c] # "post" /\ pc'[c] # "post"
      OBVIOUS
    <3>1. InTurn(b) /\ pc[b] = "pass"
      BY <1>3 DEF PassTurn, InTurn
    <3>2. InTurn(c) => c = b
      BY <3>1, PkgUnique DEF IInv, TurnInv
    <3>. QED BY <1>0, <1>3, <3>1, <3>2 DEF PassTurn, InTurn
  <2>. QED BY <1>3, <2>1 DEF PassTurn, Posted
<1>. QED BY <1>1, <1>2, <1>3

LEMMA QuietSteps ==
  ASSUME IInv, IInv', SInv,
         \/ \E b \in Blocks : \/ LoopTest(b) \/ FlowControl(b) \/ TakeTurn(b)
                             \/ PassTurn(b) \/ TurnTimeout(b)
         \/ LoopTests \/ SendStart \/ SendEnd \/ Report \/ ReadInfo \/ UNCHANGED vars
  PROVE  SInv'
<1>. USE DEF Goto, kernelVars, planVars, blockVars, fpgaVars
<1>0. pc \in [Blocks -> {"loop", "flow", "copy", "turn", "post", "pass", "done", "hung"}]
  BY DEF IInv, TypeOK
<1>1. CASE SendStart \/ SendEnd
  <2>1. \A b \in Blocks : pc[b] = "done" /\ pc'[b] \in {"loop", "done"}
    BY <1>1 DEF SendStart, SendEnd, IInv, TurnInv
  <2>2. Posted' = Posted
    BY <1>1, <2>1 DEF SendStart, SendEnd, Posted
  <2>3. CallInv'
    <3>1. CASE SendStart
      BY <3>1 DEF SendStart, SInv, CallInv
    <3>2. CASE SendEnd
      <4>1. rounds' > 0 /\ phase' = "idle" /\ i' >= length'
        BY <3>2 DEF SendEnd, SInv, CallInv, IInv, PlanInv
      <4>2. writeCount' = base' + length'
        BY <4>1 DEF IInv, CountInv
      <4>. QED BY <4>1, <4>2 DEF CallInv
    <3>. QED BY <1>1, <3>1, <3>2
  <2>. QED BY <1>1, <2>1, <2>2, <2>3, QuietStep DEF SendStart, SendEnd
<1>2. CASE Report \/ ReadInfo \/ UNCHANGED vars
  <2>1. UNCHANGED <<kernelVars, planVars, blockVars, mutexSender, writeCount, cmds, ring, taken>>
    BY <1>2 DEF Report, ReadInfo, vars
  <2>2. Posted' = Posted /\ CallInv'
    BY <2>1 DEF Posted, Off, SInv, CallInv
  <2>. QED BY <2>1, <2>2, QuietStep
<1>3. ASSUME NEW b \in Blocks,
             LoopTest(b) \/ FlowControl(b) \/ TakeTurn(b) \/ PassTurn(b) \/ TurnTimeout(b)
      PROVE  SInv'
  <2>1. Posted' = Posted
    BY <1>3, PostedSteps
  <2>2. UNCHANGED <<kernelVars, planVars, cmds, ring, taken>>
    BY <1>3 DEF LoopTest, FlowControl, TakeTurn, PassTurn, TurnTimeout
  <2>3. phase = "send"
    BY <1>0, <1>3 DEF LoopTest, FlowControl, TakeTurn, PassTurn, TurnTimeout, IInv, TypeOK, TurnInv
  <2>4. CallInv'
    BY <2>2, <2>3 DEF SInv, CallInv
  <2>5. \A c \in Blocks : pc'[c] \in {"turn", "post"} =>
                           pc[c] \in {"turn", "post"} /\ loopVar'[c] = loopVar[c]
    <3>1. loopVar \in [Blocks -> Nat]
      BY DEF IInv, TypeOK
    <3>. QED BY <1>0, <1>3, <3>1 DEF LoopTest, FlowControl, TakeTurn, PassTurn, TurnTimeout
  <2>. QED BY <2>1, <2>2, <2>4, <2>5, QuietStep
<1>4. CASE LoopTests
  <2>1. /\ UNCHANGED <<kernelVars, planVars, loopVar, mutexSender, writeCount, cmds, ring, taken>>
        /\ \A b \in Blocks : pc'[b] \in {"turn", "post"} => pc'[b] = pc[b]
        /\ \A b \in Blocks : pc'[b] = "post" <=> pc[b] = "post"
    BY <1>4 DEF LoopTests
  <2>2. Posted' = Posted /\ CallInv'
    BY <2>1 DEF Posted, Off, SInv, CallInv
  <2>. QED BY <2>1, <2>2, QuietStep
<1>. QED BY <1>1, <1>2, <1>3, <1>4

LEMMA StreamPreStart ==
  ASSUME IInv, SInv, NEW len \in Lengths, PreStart(len)
  PROVE  SInv'
<1>. USE RingFacts DEF PreStart, blockVars, fpgaVars
<1>1. PICK P \in SUBSET Place, at \in [1..(Len(cmds) + 1) -> Nat] : Placement(P) /\ Queue(P, at)
  BY DEF SInv, QueueInv
<1>2. /\ length \in Nat /\ base \in Nat /\ preCnt \in Nat /\ i = preCnt * MaxBlock /\ i \in Nat
      /\ i >= length /\ writeCount = base + length
  BY DEF SInv, CallInv, IInv, TypeOK, PlanInv
<1>3. Off(preCnt) = length
  BY <1>2 DEF Off, Smaller
<1>4. Off(0)' = 0 /\ base' \in Nat
  BY <1>2 DEF Off, Smaller
<1>5. base' + Off(preCnt)' = base + Off(preCnt)
  BY <1>2, <1>3, <1>4 DEF Off
<1>6. Placement(P)'
  BY <1>1, <1>2, <1>5 DEF Placement
<1>7. \A b \in Blocks : pc[b] = "done"
  BY DEF IInv, TurnInv
<1>8. Posted' = Posted
  BY <1>7 DEF Posted
<1>9. Queue(P, at)'
  BY <1>1, <1>8 DEF Queue
<1>10. HeldInv' /\ TakenInv'
  BY <1>7 DEF HeldInv, SInv, TakenInv
<1>11. CallInv'
  BY DEF CallInv, IInv, TypeOK
<1>. QED BY <1>1, <1>6, <1>9, <1>10, <1>11 DEF SInv, QueueInv

LEMMA StreamPrePlan ==
  ASSUME IInv, SInv, PrePlan
  PROVE  SInv'
<1>. USE RingFacts DEF PrePlan, kernelVars, blockVars, fpgaVars
<1>. DEFINE n == Smaller(MaxBlock, length - i)
            u == base + Off(preCnt)
            v == base + Off(preCnt + 1)
<1>1. PICK P \in SUBSET Place, at \in [1..(Len(cmds) + 1) -> Nat] : Placement(P) /\ Queue(P, at)
  BY DEF SInv, QueueInv
<1>2. /\ length \in Nat /\ base \in Nat /\ preCnt \in Nat /\ i = preCnt * MaxBlock /\ i \in Nat
      /\ bufOffset \in 0..WrapAt /\ preCnt' = preCnt + 1
  BY DEF IInv, TypeOK, PlanInv
<1>3. n \in 1..MaxBlock
  BY <1>2 DEF Smaller
<1>4. Off(preCnt) = i /\ Off(preCnt + 1) = i + n /\ \A k : Off(k)' = Off(k)
  BY <1>2, MulSucc DEF Off, Smaller
<1>5. preCnt \in 0..(PkgLimit - 1) /\ bufOffset' \in 0..WrapAt
  <2>1. IInv'
    BY PrePlanStep
  <2>2. preCnt' \in 0..PkgLimit /\ bufOffset' \in 0..WrapAt
    BY <2>1 DEF IInv, TypeOK
  <2>. QED BY <1>2, <2>2
<1>6. u \in Nat /\ v \in Nat /\ v = u + n /\ bufOffset' = NextAddr(bufOffset + n)
  BY <1>2, <1>3, <1>4
<1>7. PICK a \in 0..WrapAt : a = bufOffset'
  BY <1>5
<1>8. PICK Q \in SUBSET Place : Q = P \cup {At(v, a)}
  <2>1. P \cup {At(v, a)} \in SUBSET Place
    BY <1>6 DEF At, Place
  <2>. HIDE DEF v
  <2>. QED BY <2>1
<1>9. \A x \in P : x.pos \in Nat /\ x.addr \in 0..WrapAt /\ x.pos <= u /\ x = At(x.pos, x.addr)
  BY <1>1 DEF Placement, Place, At
<1>10. ASSUME NEW x \in P, v <= x.pos + WrapAt
       PROVE  Ahead(x.addr, a, v - x.pos)
  <2>1. x.pos \in Nat /\ x.addr \in 0..WrapAt /\ x.pos <= u
    BY <1>9
  <2>2. u <= x.pos + WrapAt
    BY <1>3, <1>6, <1>10, <2>1
  <2>3. Ahead(x.addr, bufOffset, u - x.pos)
    <3>1. At(u, bufOffset) \in P /\ At(u, bufOffset).pos = u /\ At(u, bufOffset).addr = bufOffset
      BY <1>1 DEF Placement, At
    <3>. HIDE DEF u
    <3>. QED BY <1>1, <2>1, <2>2, <3>1 DEF Placement
  <2>4. PICK d \in Nat : d = u - x.pos
    BY <1>6, <2>1
  <2>5. d + n <= WrapAt /\ v - x.pos = d + n /\ bufOffset + n <= SingleBuffer /\ n \in Nat
    <3>. HIDE DEF u, v, n
    <3>. QED BY <1>2, <1>3, <1>6, <1>10, <2>1, <2>4
  <2>6. Ahead(x.addr, NextAddr(bufOffset + n), d + n)
    <3>. HIDE DEF u, v, n
    <3>. QED BY <1>2, <2>1, <2>3, <2>4, <2>5, AheadNext
  <2>. QED BY <1>6, <1>7, <2>5, <2>6
<1>11. \A x, y \in Q : x.pos <= y.pos /\ y.pos <= x.pos + WrapAt
                         => Ahead(x.addr, y.addr, y.pos - x.pos)
  <2>. SUFFICES ASSUME NEW x \in Q, NEW y \in Q, x.pos <= y.pos, y.pos <= x.pos + WrapAt
                PROVE  Ahead(x.addr, y.addr, y.pos - x.pos)
    OBVIOUS
  <2>1. At(v, a).pos = v /\ At(v, a).addr = a
    BY DEF At
  <2>2. CASE x \in P /\ y \in P
    BY <1>1, <2>2 DEF Placement
  <2>3. CASE x \in P /\ y = At(v, a)
    <3>. HIDE DEF v
    <3>. QED BY <1>10, <2>1, <2>3
  <2>4. CASE x = At(v, a) /\ y \in P
    <3>1. v <= y.pos /\ y.pos <= u /\ y.pos \in Nat
      BY <1>9, <2>1, <2>4
    <3>. QED BY <1>3, <1>6, <3>1
  <2>5. CASE x = At(v, a) /\ y = At(v, a)
    <3>1. v - v = 0 /\ a = a + 0
      BY <1>6
    <3>. QED BY <2>1, <2>5, <3>1 DEF Ahead
  <2>. QED BY <1>8, <2>2, <2>3, <2>4, <2>5
<1>12. \A k \in 0..preCnt : At(base + Off(k), pre'[k].addr) \in P
  <2>. SUFFICES ASSUME NEW k \in 0..preCnt PROVE At(base + Off(k), pre'[k].addr) \in P
    OBVIOUS
  <2>1. CASE k = preCnt
    <3>1. pre'[preCnt].addr = bufOffset
      BY <1>5 DEF IInv, TypeOK
    <3>. QED BY <1>1, <2>1, <3>1 DEF Placement
  <2>2. CASE k # preCnt
    <3>1. k \in 0..(preCnt - 1) /\ pre'[k] = pre[k]
      BY <1>2, <1>5, <2>2 DEF IInv, TypeOK
    <3>. QED BY <1>1, <3>1 DEF Placement
  <2>. QED BY <2>1, <2>2
<1>13. Placement(Q)'
  <2>1. base' + Off(preCnt)' = v
    BY <1>2, <1>4 DEF Off
  <2>2. \A x \in Q : x.pos <= v
    BY <1>3, <1>6, <1>8, <1>9 DEF At
  <2>3. \A k \in 0..(preCnt' - 1) : At(base' + Off(k)', pre'[k].addr) \in Q
    BY <1>2, <1>4, <1>8, <1>12
  <2>4. At(base' + Off(preCnt)', bufOffset') \in Q
    BY <1>7, <1>8, <2>1
  <2>5. \A x \in Q : x.pos <= base' + Off(preCnt)'
    BY <2>1, <2>2
  <2>. HIDE DEF PrePlan, v
  <2>. QED BY <1>11, <2>3, <2>4, <2>5 DEF Placement
<1>14. \A b \in Blocks : pc[b] = "done"
  BY DEF IInv, TurnInv
<1>15. Posted' = Posted
  BY <1>14 DEF Posted
<1>16. Queue(Q, at)'
  BY <1>1, <1>8, <1>15 DEF Queue
<1>17. HeldInv' /\ TakenInv' /\ CallInv'
  BY <1>14 DEF SInv, HeldInv, TakenInv, CallInv
<1>18. QueueInv'
  <2>1. cmds' = cmds
    OBVIOUS
  <2>. HIDE DEF PrePlan
  <2>. QED BY <2>1, <1>1, <1>13, <1>16 DEF QueueInv
<1>. QED BY <1>17, <1>18 DEF SInv

LEMMA StreamCopy ==
  ASSUME IInv, SInv, NEW b \in Blocks, Copy(b)
  PROVE  SInv'
<1>. USE RingFacts DEF Copy, Goto, kernelVars, planVars
<1>. DEFINE p == pre[Pkg(b)]
<1>1. PICK P \in SUBSET Place, at \in [1..(Len(cmds) + 1) -> Nat] : Placement(P) /\ Queue(P, at)
  BY DEF SInv, QueueInv
<1>2. b \in Holding /\ pc \in [Blocks -> {"loop", "flow", "copy", "turn", "post", "pass", "done", "hung"}]
  BY DEF Holding, IInv, TypeOK
<1>3. NoUnreadOverwritten
  BY NothingOverwritten DEF SInv
<1>4. \A x \in Units : ring'[x] = IF x \in Region(p) THEN base + p.off + (x - p.addr) ELSE ring[x]
  OBVIOUS
<1>5. \A k : Off(k)' = Off(k) /\ Pkg(k)' = Pkg(k)
  BY DEF Off, Pkg
<1>6. Posted' = Posted
  <2>1. \A c \in Blocks : pc'[c] = "post" <=> pc[c] = "post"
    BY <1>2
  <2>. QED BY <1>5, <2>1 DEF Posted
<1>7. Placement(P)'
  BY <1>1, <1>5 DEF Placement
<1>8. ASSUME NEW k \in 1..Len(cmds), NEW u \in 0..(cmds[k].len - 1)
      PROVE  ring'[cmds[k].addr + u] = ring[cmds[k].addr + u]
  <2>1. cmds[k] \in Command
    BY DEF IInv, TypeOK
  <2>2. cmds[k].addr + u \in Units /\ cmds[k].addr + u \in Region(cmds[k])
    BY <2>1 DEF Command, InRing, Units, Region
  <2>3. cmds[k].addr + u \notin Region(p)
    BY <1>2, <1>3, <2>2 DEF NoUnreadOverwritten
  <2>. QED BY <1>4, <2>2, <2>3
<1>9. UNCHANGED <<kernelVars, planVars, cmds, taken, writeCount, mutexSender>>
  BY DEF fpgaVars
<1>. HIDE DEF Copy
<1>10. Queue(P, at)'
  <2>1. cmds' = cmds /\ taken' = taken
    BY <1>9
  <2>2. /\ at[1] = Len(taken) /\ at[Len(cmds) + 1] = Posted
        /\ \A j, k \in 1..(Len(cmds) + 1) : j <= k => at[j] <= at[k]
    BY <1>1 DEF Queue
  <2>3. ASSUME NEW k \in 1..Len(cmds)
        PROVE  /\ cmds[k].len \in 1..MaxBlock /\ at[k + 1] = at[k] + cmds[k].len
               /\ At(at[k], cmds[k].addr) \in P
               /\ \A u \in 0..(cmds[k].len - 1) : ring'[cmds[k].addr + u] = at[k] + u
    <3>1. /\ cmds[k].len \in 1..MaxBlock /\ at[k + 1] = at[k] + cmds[k].len
          /\ At(at[k], cmds[k].addr) \in P
          /\ \A u \in 0..(cmds[k].len - 1) : ring[cmds[k].addr + u] = at[k] + u
      BY <1>1 DEF Queue
    <3>. QED BY <1>8, <3>1
  <2>. QED BY <1>6, <2>1, <2>2, <2>3 DEF Queue
<1>11. HeldInv'
  <2>. SUFFICES ASSUME NEW c \in Blocks, pc'[c] \in {"turn", "post"},
                       NEW u \in 0..(pre[Pkg(c)].len - 1)
                PROVE  ring'[pre[Pkg(c)].addr + u] = base + Off(Pkg(c)) + u
    BY <1>5, <1>9 DEF HeldInv
  <2>1. c \in Holding
    BY <1>2 DEF Holding, Copy
  <2>2. /\ pre[Pkg(c)].addr + u \in Units /\ pre[Pkg(c)].addr + u \in Region(pre[Pkg(c)])
        /\ pre[Pkg(c)].addr \in Nat /\ u \in Nat
    <3>1. pre[Pkg(c)] \in Package
      BY <2>1, HeldFacts
    <3>2. PICK q \in Package : q = pre[Pkg(c)]
      BY <3>1
    <3>3. q.addr \in Nat /\ q.len \in Nat /\ q.addr + q.len <= SingleBuffer
      BY DEF Package, InRing
    <3>4. u \in 0..(q.len - 1)
      BY <3>2
    <3>5. q.addr + u \in Units /\ q.addr + u \in Region(q)
      BY <3>3, <3>4 DEF Units, Region
    <3>. QED BY <3>2, <3>3, <3>4, <3>5
  <2>3. CASE c = b
    <3>1. p.off = Off(Pkg(b))
      <4>1. /\ p.off = Pkg(b) * MaxBlock /\ Pkg(b) * MaxBlock < length
            /\ Pkg(b) * MaxBlock \in Nat /\ length \in Nat
        <5>1. Pkg(b) \in 0..(preCnt - 1) /\ Pkg(b) \in Nat
          BY <1>2, HeldFacts DEF IInv, TypeOK
        <5>. QED BY <5>1, MulSucc DEF IInv, PlanInv, TypeOK
      <4>. QED BY <4>1 DEF Off, Smaller
    <3>2. ring'[p.addr + u] = base + p.off + ((p.addr + u) - p.addr)
      BY <1>4, <2>2, <2>3
    <3>3. (p.addr + u) - p.addr = u
      BY <2>2, <2>3
    <3>. QED BY <2>3, <3>1, <3>2, <3>3
  <2>4. CASE c # b
    <3>1. pc[c] \in {"turn", "post"}
      BY <1>2, <2>4 DEF Copy
    <3>2. pre[Pkg(c)].addr + u \notin Region(p)
      BY <1>2, <1>3, <2>1, <2>2, <2>4 DEF NoUnreadOverwritten
    <3>. QED BY <1>4, <2>2, <3>1, <3>2 DEF SInv, HeldInv
  <2>. QED BY <2>3, <2>4
<1>12. TakenInv' /\ CallInv'
  BY <1>9 DEF SInv, TakenInv, CallInv
<1>13. QueueInv'
  BY <1>1, <1>7, <1>9, <1>10 DEF QueueInv
<1>. QED BY <1>11, <1>12, <1>13 DEF SInv

\* A block posts its command, and may pass the turn on in the same step.
PostOn(b) ==
  /\ pc[b] = "post"
  /\ cmds' = Append(cmds, [addr |-> pre[Pkg(b)].addr, len |-> pre[Pkg(b)].len])
  /\ pc'[b] \in {"pass", "loop"}
  /\ \A c \in Blocks \ {b} : pc'[c] = pc[c] /\ loopVar'[c] = loopVar[c]
  /\ UNCHANGED <<kernelVars, planVars, writeCount, ring, taken>>

LEMMA StreamPosted ==
  ASSUME IInv, SInv, NEW b \in Blocks, PostOn(b)
  PROVE  SInv'
<1>. USE RingFacts
<1>. DEFINE p == pre[Pkg(b)]
            N == Len(cmds)
<1>1. PICK P \in SUBSET Place, at \in [1..(Len(cmds) + 1) -> Nat] : Placement(P) /\ Queue(P, at)
  BY DEF SInv, QueueInv
<1>2. /\ UNCHANGED <<kernelVars, planVars, writeCount, ring, taken>>
      /\ pc[b] = "post" /\ pc'[b] \in {"pass", "loop"}
      /\ \A c \in Blocks \ {b} : pc'[c] = pc[c] /\ loopVar'[c] = loopVar[c]
      /\ cmds' = Append(cmds, [addr |-> p.addr, len |-> p.len])
  BY DEF PostOn
<1>3. b \in Holding /\ mutexSender = Pkg(b) /\ InTurn(b)
  BY <1>2 DEF Holding, IInv, TurnInv, InTurn
<1>4. /\ phase = "send" /\ Pkg(b) \in 0..(preCnt - 1)
      /\ p.len \in 1..MaxBlock /\ Off(Pkg(b) + 1) = Off(Pkg(b)) + p.len /\ Off(Pkg(b)) \in Nat
      /\ base \in Nat /\ N \in Nat /\ cmds \in Seq(Command) /\ p.addr \in Nat
  <2>1. base \in Nat /\ N \in Nat /\ cmds \in Seq(Command)
    BY DEF IInv, TypeOK
  <2>2. p \in Package
    BY <1>3, HeldFacts
  <2>. QED BY <1>3, <2>1, <2>2, HeldFacts DEF Package
<1>5. Posted = base + Off(Pkg(b))
  BY <1>2, <1>3 DEF Posted
<1>6. writeCount = base + Off(Pkg(b) + 1)
  BY <1>3, <1>4 DEF IInv, CountInv
<1>7. \A c \in Blocks : pc'[c] # "post"
  <2>. SUFFICES ASSUME NEW c \in Blocks, pc'[c] = "post" PROVE FALSE
    OBVIOUS
  <2>1. c # b /\ InTurn(c)
    BY <1>2 DEF InTurn
  <2>. QED BY <2>1, <1>3, PkgUnique DEF IInv, TurnInv
<1>8. Posted' = Posted + p.len /\ Posted \in Nat
  <2>1. Posted' = writeCount
    BY <1>2, <1>7 DEF Posted
  <2>. QED BY <2>1, <1>4, <1>5, <1>6
<1>9. /\ Len(cmds') = N + 1 /\ cmds'[N + 1] = [addr |-> p.addr, len |-> p.len]
      /\ \A k \in 1..N : cmds'[k] = cmds[k]
  BY <1>2, <1>4
<1>10. /\ \A k : Off(k)' = Off(k)
       /\ \A c \in Blocks \ {b} : Pkg(c)' = Pkg(c)
  BY <1>2 DEF Off, Pkg, kernelVars
<1>11. Placement(P)'
  BY <1>1, <1>2, <1>10 DEF Placement, kernelVars, planVars
<1>12. PICK w \in Nat : w = Posted + p.len
  <2>1. Posted \in Nat /\ p.len \in Nat
    BY <1>4, <1>8
  <2>. QED BY <2>1
<1>13. PICK m \in Nat : m = N
  BY <1>4
<1>14. PICK to \in [1..(m + 2) -> Nat] :
         (\A k \in 1..(m + 1) : to[k] = at[k]) /\ to[m + 2] = w
  <2>. DEFINE f == [k \in 1..(m + 2) |-> IF k <= m + 1 THEN at[k] ELSE w]
  <2>1. f \in [1..(m + 2) -> Nat]
    BY <1>12, <1>13
  <2>2. (\A k \in 1..(m + 1) : f[k] = at[k]) /\ f[m + 2] = w
    BY <1>13
  <2>. HIDE DEF f
  <2>. QED BY <2>1, <2>2
<1>15. at[m + 1] = Posted /\ to[m + 1] = Posted /\ to[1] = Len(taken) /\ to[m + 2] = to[m + 1] + p.len
  BY <1>1, <1>12, <1>13, <1>14 DEF Queue
<1>16. \A j, k \in 1..(m + 2) : j <= k => to[j] <= to[k]
  <2>. SUFFICES ASSUME NEW j \in 1..(m + 2), NEW k \in 1..(m + 2), j <= k PROVE to[j] <= to[k]
    OBVIOUS
  <2>1. \A h, l \in 1..(m + 1) : h <= l => to[h] <= to[l]
    BY <1>1, <1>13, <1>14 DEF Queue
  <2>2. CASE k <= m + 1
    BY <2>1, <2>2
  <2>3. CASE k = m + 2 /\ j <= m + 1
    <3>1. to[j] <= to[m + 1]
      BY <2>1, <2>3
    <3>2. to[j] \in Nat /\ to[m + 1] \in Nat
      BY <1>14, <2>3
    <3>3. to[k] = to[m + 1] + p.len /\ p.len \in Nat
      BY <1>4, <1>15, <2>3
    <3>. QED BY <3>1, <3>2, <3>3
  <2>4. CASE k = m + 2 /\ j = m + 2
    BY <2>4, <1>14
  <2>. QED BY <2>2, <2>3, <2>4
<1>17. ASSUME NEW k \in 1..(m + 1)
       PROVE  /\ cmds'[k].len \in 1..MaxBlock
              /\ to[k + 1] = to[k] + cmds'[k].len
              /\ At(to[k], cmds'[k].addr) \in P
              /\ \A u \in 0..(cmds'[k].len - 1) : ring[cmds'[k].addr + u] = to[k] + u
  <2>1. CASE k = m + 1
    <3>1. cmds'[k].len = p.len /\ cmds'[k].addr = p.addr
      BY <1>9, <1>13, <2>1
    <3>2. At(base + Off(Pkg(b)), p.addr) \in P
      BY <1>1, <1>4 DEF Placement
    <3>3. \A u \in 0..(p.len - 1) : ring[p.addr + u] = base + Off(Pkg(b)) + u
      BY <1>2 DEF SInv, HeldInv
    <3>. QED BY <1>4, <1>5, <1>15, <2>1, <3>1, <3>2, <3>3
  <2>2. CASE k \in 1..m
    <3>1. cmds'[k] = cmds[k] /\ to[k] = at[k] /\ to[k + 1] = at[k + 1]
      BY <1>9, <1>13, <1>14, <2>2
    <3>. QED BY <1>1, <1>13, <2>2, <3>1 DEF Queue
  <2>. QED BY <2>1, <2>2
<1>18. Queue(P, to)' /\ to \in [1..(Len(cmds') + 1) -> Nat]
  <2>1. Len(cmds') = m + 1 /\ (m + 1) + 1 = m + 2
    BY <1>9, <1>13
  <2>2. Len(taken') = Len(taken) /\ ring' = ring
    BY <1>2
  <2>3. to[m + 2] = Posted'
    BY <1>8, <1>12, <1>14
  <2>. QED BY <1>15, <1>16, <1>17, <2>1, <2>2, <2>3 DEF Queue
<1>19. QueueInv'
  BY <1>11, <1>18 DEF QueueInv
<1>20. HeldInv'
  <2>1. \A c \in Blocks : pc'[c] \in {"turn", "post"} => pc[c] \in {"turn", "post"} /\ c # b
    BY <1>2
  <2>. QED BY <2>1, <1>2, <1>10 DEF SInv, HeldInv, planVars, kernelVars
<1>21. TakenInv' /\ CallInv'
  BY <1>2 DEF SInv, TakenInv, CallInv, kernelVars, planVars
<1>. QED BY <1>19, <1>20, <1>21 DEF SInv

LEMMA StreamPost ==
  ASSUME IInv, SInv, NEW b \in Blocks, Post(b)
  PROVE  SInv'
<1>1. pc \in [Blocks -> Labels]
  BY DEF IInv, TypeOK, Labels
<1>2. PostOn(b)
  BY <1>1 DEF Post, PostOn, Goto
<1>. QED BY <1>2, StreamPosted

LEMMA SeqExt ==
  ASSUME NEW s \in Seq(Int), NEW t \in Seq(Int), NEW n \in Nat, Len(t) = n,
         \A u \in 1..Len(s) : s[u] = u - 1,
         \A u \in 1..n : t[u] = Len(s) + u - 1
  PROVE  s \o t = [u \in 1..(Len(s) + n) |-> u - 1]
<1>1. s \o t \in Seq(Int) /\ Len(s \o t) = Len(s) + n
  BY ConcatFacts
<1>2. ASSUME NEW u \in 1..(Len(s) + n)
      PROVE  (s \o t)[u] = u - 1
  <2>1. CASE u <= Len(s)
    <3>1. (s \o t)[u] = s[u]
      BY <2>1
    <3>. QED BY <2>1, <3>1
  <2>2. CASE ~ u <= Len(s)
    <3>1. u - Len(s) \in 1..n /\ (s \o t)[u] = t[u - Len(s)]
      BY <2>2
    <3>. QED BY <2>2, <3>1
  <2>. QED BY <2>1, <2>2
<1>3. s \o t \in [1..(Len(s) + n) -> Int]
  <2>1. \A q \in Seq(Int) : q \in [1..Len(q) -> Int]
    OBVIOUS
  <2>. QED BY <1>1, <2>1
<1>. QED BY <1>2, <1>3

\* The FPGA takes the units that come next, as the caller wrote them.
LEMMA FetchTakes ==
  ASSUME IInv, SInv, Fetch
  PROVE  /\ Head(cmds).len \in 1..MaxBlock
         /\ Len(taken) + Head(cmds).len <= writeCount
         /\ taken' = [u \in 1..(Len(taken) + Head(cmds).len) |-> u - 1]
         /\ SInv'
<1>. USE RingFacts
<1>. DEFINE c == Head(cmds)
<1>1. PICK P \in SUBSET Place, at \in [1..(Len(cmds) + 1) -> Nat] : Placement(P) /\ Queue(P, at)
  BY DEF SInv, QueueInv
<1>2. /\ UNCHANGED <<kernelVars, planVars, mutexSender, writeCount, blockVars, ring>>
      /\ cmds # <<>> /\ cmds' = Tail(cmds)
      /\ taken' = taken \o [k \in 1..c.len |-> ring[c.addr + k - 1]]
  BY DEF Fetch
<1>3. /\ cmds \in Seq(Command) /\ taken \in Seq(Int) /\ ring \in [Units -> Int]
      /\ writeCount \in Nat /\ length \in Nat /\ base \in Nat /\ mutexSender \in Nat
  BY DEF IInv, TypeOK
<1>4. PICK m \in Nat : m = Len(cmds)
  BY <1>3
<1>5. /\ m >= 1 /\ c = cmds[1] /\ Len(cmds') = m - 1
      /\ \A k \in 1..(m - 1) : cmds'[k] = cmds[k + 1]
  BY <1>2, <1>3, <1>4
<1>6. /\ c.len \in 1..MaxBlock /\ at[2] = at[1] + c.len /\ at[1] = Len(taken)
      /\ \A u \in 0..(c.len - 1) : ring[c.addr + u] = at[1] + u
  <2>1. 1 \in 1..Len(cmds) /\ 1 + 1 = 2
    BY <1>4, <1>5
  <2>2. /\ at[1] = Len(taken) /\ cmds[1].len \in 1..MaxBlock /\ at[1 + 1] = at[1] + cmds[1].len
        /\ \A u \in 0..(cmds[1].len - 1) : ring[cmds[1].addr + u] = at[1] + u
    BY <1>1, <2>1 DEF Queue
  <2>. QED BY <1>5, <2>1, <2>2
<1>7. PICK n \in 1..MaxBlock : n = c.len
  BY <1>6
<1>8. taken' = [u \in 1..(Len(taken) + n) |-> u - 1] /\ Len(taken') = Len(taken) + n
  <2>. DEFINE data == [k \in 1..n |-> ring[c.addr + k - 1]]
  <2>1. c.addr \in Nat /\ c.addr + n <= SingleBuffer
    BY <1>3, <1>4, <1>5, <1>7 DEF Command, InRing
  <2>2. PICK a \in Nat : a = c.addr
    BY <2>1
  <2>3. ASSUME NEW k \in 1..n
        PROVE  data[k] \in Int /\ data[k] = Len(taken) + k - 1
    <3>1. k - 1 \in 0..(n - 1) /\ a + k - 1 = a + (k - 1) /\ a + k - 1 \in Units
      BY <2>1, <2>2 DEF Units
    <3>2. ring[a + k - 1] = Len(taken) + (k - 1)
      BY <1>6, <1>7, <2>2, <3>1
    <3>. QED BY <1>3, <2>2, <3>1, <3>2
  <2>4. data \in [1..n -> Int]
    BY <2>3
  <2>5. taken' = taken \o data
    BY <1>2, <1>7
  <2>6. \A k \in 1..n : data[k] = Len(taken) + k - 1
    BY <2>3
  <2>. HIDE DEF data
  <2>7. data \in Seq(Int) /\ Len(data) = n
    BY <2>4, SeqOfFunction
  <2>8. \A u \in 1..Len(taken) : taken[u] = u - 1
    BY DEF SInv, TakenInv
  <2>9. taken' = [u \in 1..(Len(taken) + n) |-> u - 1]
    BY <1>3, <2>5, <2>6, <2>7, <2>8, SeqExt
  <2>10. Len(taken') = Len(taken) + n
    BY <1>3, <2>5, <2>7, ConcatFacts
  <2>. QED BY <2>9, <2>10
<1>9. /\ UNCHANGED <<phase, rounds, length, base, i, pre, preCnt, bufOffset, pc, loopVar>>
      /\ \A k : Off(k)' = Off(k) /\ Pkg(k)' = Pkg(k)
  BY <1>2 DEF kernelVars, planVars, blockVars, Off, Pkg
<1>10. Posted' = Posted
  BY <1>2, <1>9 DEF Posted
<1>11. PICK to \in [1..m -> Nat] : \A k \in 1..m : to[k] = at[k + 1]
  <2>. DEFINE f == [k \in 1..m |-> at[k + 1]]
  <2>1. f \in [1..m -> Nat] /\ \A k \in 1..m : f[k] = at[k + 1]
    BY <1>4
  <2>. HIDE DEF f
  <2>. QED BY <2>1
<1>12. Placement(P)'
  BY <1>1, <1>9 DEF Placement
<1>13. Queue(P, to)' /\ to \in [1..(Len(cmds') + 1) -> Nat]
  <2>1. Len(cmds') + 1 = m
    BY <1>5
  <2>2. to[1] = Len(taken') /\ to[m] = Posted'
    <3>1. 1 \in 1..m /\ m \in 1..m /\ 1 + 1 = 2
      BY <1>5
    <3>2. to[1] = at[2] /\ to[m] = at[m + 1]
      BY <1>11, <3>1
    <3>3. at[m + 1] = Posted
      BY <1>1, <1>4 DEF Queue
    <3>. QED BY <1>6, <1>7, <1>8, <1>10, <3>2, <3>3
  <2>3. \A j, k \in 1..m : j <= k => to[j] <= to[k]
    <3>. SUFFICES ASSUME NEW j \in 1..m, NEW k \in 1..m, j <= k PROVE to[j] <= to[k]
      OBVIOUS
    <3>1. j + 1 \in 1..(m + 1) /\ k + 1 \in 1..(m + 1) /\ j + 1 <= k + 1
      OBVIOUS
    <3>2. at[j + 1] <= at[k + 1]
      BY <1>1, <1>4, <3>1 DEF Queue
    <3>. QED BY <1>11, <3>2
  <2>4. ASSUME NEW k \in 1..(m - 1)
        PROVE  /\ cmds'[k].len \in 1..MaxBlock
               /\ to[k + 1] = to[k] + cmds'[k].len
               /\ At(to[k], cmds'[k].addr) \in P
               /\ \A u \in 0..(cmds'[k].len - 1) : ring[cmds'[k].addr + u] = to[k] + u
    <3>1. k + 1 \in 1..m /\ k \in 1..m
      OBVIOUS
    <3>2. cmds'[k] = cmds[k + 1] /\ to[k] = at[k + 1] /\ to[k + 1] = at[(k + 1) + 1]
      BY <1>5, <1>11, <3>1
    <3>3. \A q \in 1..m : /\ cmds[q].len \in 1..MaxBlock
                           /\ at[q + 1] = at[q] + cmds[q].len
                           /\ At(at[q], cmds[q].addr) \in P
                           /\ \A u \in 0..(cmds[q].len - 1) :
                                ring[cmds[q].addr + u] = at[q] + u
      BY <1>1, <1>4 DEF Queue
    <3>4. PICK l \in 1..m : l = k + 1
      BY <3>1
    <3>5. /\ cmds[l].len \in 1..MaxBlock /\ at[l + 1] = at[l] + cmds[l].len
          /\ At(at[l], cmds[l].addr) \in P
          /\ \A u \in 0..(cmds[l].len - 1) : ring[cmds[l].addr + u] = at[l] + u
      BY <3>3
    <3>. QED BY <3>2, <3>4, <3>5
  <2>5. Len(cmds') = m - 1 /\ ring' = ring
    BY <1>2, <1>5
  <2>. QED BY <2>1, <2>2, <2>3, <2>4, <2>5 DEF Queue
<1>14. QueueInv'
  BY <1>12, <1>13 DEF QueueInv
<1>15. TakenInv'
  BY <1>3, <1>8 DEF TakenInv
<1>16. HeldInv' /\ CallInv'
  BY <1>2, <1>9 DEF SInv, HeldInv, CallInv
<1>17. Len(taken) + n <= writeCount
  <2>1. at[2] <= at[m + 1]
    BY <1>1, <1>4, <1>5 DEF Queue
  <2>2. Len(taken) + n <= Posted
    BY <1>1, <1>4, <1>6, <1>7, <2>1 DEF Queue
  <2>3. Posted <= writeCount /\ Posted \in Nat
    <3>1. CASE \E b \in Blocks : pc[b] = "post"
      <4>1. PICK b \in Blocks : pc[b] = "post"
        BY <3>1
      <4>2. InTurn(b) /\ Working(b)
        BY <4>1 DEF InTurn, Working
      <4>3. phase = "send"
        BY <4>2, WorkingInPlan DEF IInv
      <4>4. writeCount = base + Off(mutexSender + 1)
        BY <4>2, <4>3 DEF IInv, CountInv
      <4>5. Off(mutexSender) <= Off(mutexSender + 1) /\ Off(mutexSender) \in Nat /\ Off(mutexSender + 1) \in Nat
        <5>1. mutexSender + 1 \in Nat /\ mutexSender <= mutexSender + 1
          BY <1>3
        <5>. QED BY <1>3, <5>1, OffMono
      <4>6. Posted = base + Off(mutexSender)
        BY <3>1 DEF Posted
      <4>. QED BY <1>3, <4>4, <4>5, <4>6
    <3>2. CASE ~ \E b \in Blocks : pc[b] = "post"
      BY <1>3, <3>2 DEF Posted
    <3>. QED BY <3>1, <3>2
  <2>. QED BY <1>3, <2>2, <2>3
<1>. QED BY <1>6, <1>7, <1>8, <1>14, <1>15, <1>16, <1>17 DEF SInv

LEMMA SInvStep ==
  ASSUME IInv, SInv, IInv', [Next]_vars
  PROVE  SInv'
<1>1. CASE Host
  BY <1>1, StreamPreStart, StreamPrePlan, QuietSteps DEF Host
<1>2. ASSUME NEW b \in Blocks, BlockStep(b) \/ TurnTimeout(b)
      PROVE  SInv'
  BY <1>2, QuietSteps, StreamCopy, StreamPost DEF BlockStep
<1>3. CASE Fetch \/ Report \/ ReadInfo
  BY <1>3, FetchTakes, QuietSteps
<1>4. CASE Exit \/ UNCHANGED vars
  BY <1>4, QuietSteps DEF Exit
<1>. QED BY <1>1, <1>2, <1>3, <1>4 DEF Next

\* The write count grows by a package that the bound has room for.
LEMMA TurnAnnounces ==
  ASSUME IInv, IInv', NEW b \in Blocks, TakeTurn(b)
  PROVE  /\ pre[Pkg(b)].len \in 1..MaxBlock
         /\ writeCount + pre[Pkg(b)].len - Len(taken) <= Window + NumBlocks * MaxBlock
         /\ taken' = taken /\ writeCount' = writeCount + pre[Pkg(b)].len
<1>. USE RingFacts
<1>1. taken' = taken /\ writeCount' = writeCount + pre[Pkg(b)].len
  BY DEF TakeTurn, fpgaVars
<1>2. pre[Pkg(b)].len \in 1..MaxBlock
  BY HeldFacts DEF TakeTurn, Holding
<1>3. writeCount' <= readCount' + Window + NumBlocks * MaxBlock /\ readCount' <= Len(taken')
  BY DEF IInv, CountInv, Bound, InfosAscend
<1>4. writeCount' \in Nat /\ readCount' \in Nat /\ Len(taken') \in Nat
  BY DEF IInv, TypeOK
<1>5. writeCount + pre[Pkg(b)].len - Len(taken) <= Window + NumBlocks * MaxBlock
  <2>1. PICK k \in Nat : k = NumBlocks * MaxBlock
    OBVIOUS
  <2>2. PICK w \in Nat : w = writeCount'
    BY <1>4
  <2>3. writeCount + pre[Pkg(b)].len - Len(taken) = w - Len(taken)
    <3>1. w = writeCount + pre[Pkg(b)].len
      BY <1>1, <2>2
    <3>2. PICK n \in Nat, t \in Nat, c \in Nat : n = pre[Pkg(b)].len /\ t = Len(taken) /\ c = writeCount
      <4>1. pre[Pkg(b)].len \in Nat
        BY <1>2
      <4>2. Len(taken) \in Nat /\ writeCount \in Nat
        BY DEF IInv, TypeOK
      <4>. QED BY <4>1, <4>2
    <3>3. c + n - t = (c + n) - t
      OBVIOUS
    <3>. QED BY <3>1, <3>2, <3>3
  <2>4. w - Len(taken) <= Window + k
    BY <1>1, <1>3, <1>4, <2>1, <2>2
  <2>. QED BY <2>1, <2>3, <2>4
<1>. QED BY <1>1, <1>2, <1>5

LEMMA StreamInductive == Spec => [](IInv /\ SInv)
<1>1. Init => IInv /\ SInv
  BY InitStep, StreamInit
<1>2. IInv /\ SInv /\ IInv' /\ [Next]_vars => SInv'
  BY SInvStep
<1>. QED BY <1>1, <1>2, IInvInductive, PTL DEF Spec

-------------------------------------------------------------------------------
(* Nobody waits for what only a waiting one can bring about.               *)

FpgaCanMove ==
  \/ cmds # <<>> \/ infos # <<>>
  \/ Len(infos) < InfoBound /\ LastReport < Len(taken)

WindowOpen == writeCount <= readCount + Window

\* A step of the block's loop other than the five seconds.
BlockCanMove(b) ==
  \/ pc[b] \in {"loop", "copy", "post", "pass"}
  \/ pc[b] = "flow" /\ WindowOpen
  \/ pc[b] = "turn" /\ mutexSender = Pkg(b)

\* While socket_send runs its blocks are done, or one of them has a step, or
\* the FPGA has one that brings the window on, unless the block whose turn it
\* is has run into the five seconds.
NeverStuck ==
  phase = "send" =>
    \/ \A b \in Blocks : pc[b] = "done"
    \/ \E b \in Blocks : BlockCanMove(b)
    \/ FpgaCanMove
    \/ \E b \in Blocks : pc[b] = "hung" /\ mutexSender = Pkg(b)

\* The next package to be posted is in some block's hands.
LEMMA NextIsHeld ==
  ASSUME TypeOK, TurnInv, phase = "send"
  PROVE  \E b \in Blocks : Pkg(b) = mutexSender
<1>. DEFINE q == mutexSender \div NumBlocks
            b == mutexSender - q * NumBlocks
<1>. USE RingFacts
<1>1. mutexSender \in Nat
  BY DEF TypeOK
<1>2. q \in Nat /\ NumBlocks * q <= mutexSender /\ mutexSender < NumBlocks * q + NumBlocks
  BY <1>1, DivFacts
<1>. HIDE DEF q
<1>3. NumBlocks * q = q * NumBlocks /\ q * NumBlocks \in Nat
  BY <1>2
<1>4. b \in Blocks /\ mutexSender = q * NumBlocks + b
  BY <1>1, <1>2, <1>3 DEF Blocks
<1>. HIDE DEF b
<1>5. loopVar[b] \in Mult /\ mutexSender <= Pkg(b) /\ Pkg(b) < mutexSender + NumBlocks
  BY <1>4 DEF TurnInv
<1>6. PICK m \in Mult : m = q * NumBlocks
  BY <1>2, <1>3, ModMul DEF Mult
<1>7. /\ m < loopVar[b] => m + NumBlocks <= loopVar[b]
      /\ loopVar[b] < m => loopVar[b] + NumBlocks <= m
      /\ m \in Nat /\ loopVar[b] \in Nat
  BY <1>5, <1>6, MultFacts
<1>8. b \in Nat
  BY <1>4 DEF Blocks
<1>9. loopVar[b] = m
  BY <1>1, <1>4, <1>5, <1>6, <1>7, <1>8 DEF Pkg
<1>. QED BY <1>4, <1>6, <1>9 DEF Pkg

\* Once the block to post next has left its loop, all have, or are about to.
LEMMA LastOnesLeave ==
  ASSUME IInv, phase = "send", NEW b \in Blocks, Pkg(b) = mutexSender, pc[b] = "done",
         NEW c \in Blocks
  PROVE  pc[c] \in {"loop", "done"}
<1>. SUFFICES ASSUME Working(c) PROVE FALSE
  BY DEF IInv, TypeOK, Working
<1>1. loopVar[b] = preCnt /\ mutexSender <= Pkg(c)
  BY DEF IInv, TurnInv
<1>2. Pkg(c) \in 0..(preCnt - 1)
  BY WorkingInPlan DEF IInv
<1>3. loopVar[b] \in Nat /\ b \in Nat /\ preCnt \in Nat
  <2>1. loopVar \in [Blocks -> Nat] /\ preCnt \in 0..PkgLimit
    BY DEF IInv, TypeOK
  <2>. QED BY <2>1 DEF Blocks
<1>. QED BY <1>1, <1>2, <1>3 DEF Pkg

\* With nothing left for the FPGA to read or to report, and nothing in between
\* taking a turn and posting, the window is open.
LEMMA DrainedIsOpen ==
  ASSUME IInv, SInv, InfoBound # 0, ~FpgaCanMove, \A b \in Blocks : pc[b] # "post"
  PROVE  WindowOpen
<1>1. infos = <<>> /\ cmds = <<>>
  BY DEF FpgaCanMove
<1>2. Len(infos) < InfoBound
  BY <1>1, SendAssumption
<1>3. ~(readCount < Len(taken))
  BY <1>1, <1>2 DEF FpgaCanMove, LastReport
<1>4. PICK at \in [1..(Len(cmds) + 1) -> Nat] : at[1] = Len(taken) /\ at[Len(cmds) + 1] = Posted
  BY DEF SInv, QueueInv, Queue
<1>5. writeCount = Len(taken)
  BY <1>1, <1>4 DEF Posted
<1>6. writeCount \in Nat /\ readCount \in Nat
  BY DEF IInv, TypeOK
<1>. QED BY <1>3, <1>5, <1>6, RingFacts DEF WindowOpen

LEMMA StuckNowhere ==
  ASSUME IInv, SInv, InfoBound # 0
  PROVE  NeverStuck
<1>. SUFFICES ASSUME phase = "send", \A b \in Blocks : ~BlockCanMove(b), ~FpgaCanMove
              PROVE  \/ \A b \in Blocks : pc[b] = "done"
                     \/ \E b \in Blocks : pc[b] = "hung" /\ mutexSender = Pkg(b)
  BY DEF NeverStuck
<1>1. \A b \in Blocks : pc[b] \notin {"loop", "copy", "post", "pass"}
  BY DEF BlockCanMove
<1>2. WindowOpen
  BY <1>1, DrainedIsOpen
<1>3. PICK b \in Blocks : Pkg(b) = mutexSender
  BY NextIsHeld DEF IInv
<1>4. pc[b] \in {"done", "hung"}
  <2>1. pc[b] \in {"loop", "flow", "copy", "turn", "post", "pass", "done", "hung"}
    BY DEF IInv, TypeOK
  <2>. QED BY <1>1, <1>2, <1>3, <2>1 DEF BlockCanMove
<1>5. CASE pc[b] = "done"
  BY <1>1, <1>3, <1>5, LastOnesLeave
<1>. QED BY <1>3, <1>4, <1>5

-------------------------------------------------------------------------------
(* The theorems.                                                           *)

\* Every variable keeps its type; in particular no package and no command
\* ever reaches outside the connection's ring, and the plan never overruns
\* the pre_* arrays.
THEOREM TypeCorrect == Spec => []TypeOK
<1>1. IInv => TypeOK
  BY DEF IInv
<1>. QED BY <1>1, IInvInductive, PTL

\* The turn of mutex_sender is exclusive: the unsynchronised += on
\* send_write_count has one writer at a time.
THEOREM TurnExclusive == Spec => []OneBlockHasTheTurn
<1>1. IInv => OneBlockHasTheTurn
  <2>. SUFFICES ASSUME IInv, NEW b \in Blocks, NEW c \in Blocks,
                       InTurn(b), InTurn(c)
                PROVE  b = c
    BY DEF OneBlockHasTheTurn, InTurn
  <2>1. Pkg(b) = Pkg(c)
    BY DEF IInv, TurnInv
  <2>. QED BY <2>1, PkgUnique DEF IInv
<1>. QED BY <1>1, IInvInductive, PTL

\* No block reads an entry of the pre_* arrays beyond the call's plan, where the
\* packages of every call are a multiple of the grid (WholeRounds).  With other
\* numbers the code's last blocks do (network_kernel.cu:46).
THEOREM NoStalePackage == Spec => []BlocksStayInPlan
<1>1. IInv => BlocksStayInPlan
  <2>. SUFFICES ASSUME IInv, NEW b \in Blocks,
                       pc[b] \in {"flow", "copy", "turn", "post", "pass"}
                PROVE  Pkg(b) < preCnt
    BY DEF BlocksStayInPlan
  <2>1. TypeOK /\ PlanInv /\ TurnInv /\ Working(b)
    BY DEF IInv, Working
  <2>2. Pkg(b) \in 0..(preCnt - 1)
    BY <2>1, WorkingInPlan
  <2>. QED BY <2>1, <2>2 DEF TypeOK
<1>. QED BY <1>1, IInvInductive, PTL

\* Flow control bounds what is announced ahead of the FPGA's reports by the
\* window and one package per block, whatever the interleaving.
THEOREM AnnouncedBounded == Spec => []FlowBound
<1>1. IInv => FlowBound
  BY DEF IInv, CountInv, Bound, FlowBound
<1>. QED BY <1>1, IInvInductive, PTL

\* A call that has ended announced exactly its units.
THEOREM CallsComplete == Spec => []CallComplete
<1>1. IInv => CallComplete
  BY DEF IInv, CountInv, CallComplete
<1>. QED BY <1>1, IInvInductive, PTL

\* No block ever copies over a unit the FPGA has still to read, nor over one
\* another block has copied: OVERHEAD absorbs what the flow control of
\* socket_send does not count, wherever the ring wraps.
THEOREM NothingUnreadLost == Spec => []NoUnreadOverwritten
<1>1. IInv /\ SInv => NoUnreadOverwritten
  BY NothingOverwritten DEF SInv
<1>. QED BY <1>1, StreamInductive, PTL

\* Every step of the send path announces the next piece of the stream or takes
\* its next units with the caller's content, or changes neither.
LEMMA StreamStep ==
  ASSUME IInv, SInv, IInv', [Next]_vars
  PROVE  [Stream!StreamNext]_(Stream!svars)
<1>. USE RingFacts
<1>1. CASE Fetch
  <2>1. writeCount' = writeCount
    BY <1>1 DEF Fetch
  <2>2. Stream!Take(Head(cmds).len)
    BY <1>1, <2>1, FetchTakes DEF Stream!Take
  <2>3. Head(cmds).len \in 1..MaxBlock
    BY <1>1, FetchTakes
  <2>. QED BY <2>2, <2>3 DEF Stream!StreamNext
<1>2. ASSUME NEW b \in Blocks, TakeTurn(b)
      PROVE  Stream!StreamNext
  <2>1. Stream!Announce(pre[Pkg(b)].len) /\ pre[Pkg(b)].len \in 1..MaxBlock
    BY <1>2, TurnAnnounces DEF Stream!Announce
  <2>. QED BY <2>1 DEF Stream!StreamNext
<1>3. CASE ~Fetch /\ ~ \E b \in Blocks : TakeTurn(b)
  <2>1. UNCHANGED <<writeCount, taken>>
    BY <1>3 DEF Next, Host, PreStart, PrePlan, SendStart, SendEnd, BlockStep, LoopTest, FlowControl,
                Copy, Post, PassTurn, TurnTimeout, Report, ReadInfo, Exit, vars, fpgaVars
  <2>. QED BY <2>1 DEF Stream!svars
<1>. QED BY <1>1, <1>2, <1>3

\* The send path is the ordered, bounded stream: the FPGA reads the caller's
\* units, each once, in order and with the caller's content.
THEOREM SendIsStream == Spec => ImplementsStream
<1>1. Init => Stream!StreamInit
  BY DEF Init, Stream!StreamInit
<1>2. IInv /\ SInv /\ IInv' /\ [Next]_vars => [Stream!StreamNext]_(Stream!svars)
  BY StreamStep
<1>. QED BY <1>1, <1>2, StreamInductive, PTL DEF Spec, ImplementsStream, Stream!StreamSpec

\* However the blocks, the FPGA and the poll of its reports interleave, no
\* call of socket_send comes to a standstill: the blocks wait for the turn and
\* for the window, but the one whose turn it is waits for the window only, and
\* with everything posted read and reported the window is open.
THEOREM SendNeverStuck ==
  ASSUME InfoBound # 0
  PROVE  Spec => []NeverStuck
<1>1. IInv /\ SInv => NeverStuck
  BY StuckNowhere
<1>. QED BY <1>1, StreamInductive, PTL
===============================================================================
