-------------------------- MODULE SendOffloadProofs --------------------------
(***************************************************************************)
(* Proofs about both forms of the send path.  Where the blocks post their  *)
(* commands the theorems are those of GpuSendProofs.  Where the host posts *)
(* the path is seen as one whose blocks loop over the rounds themselves    *)
(* and post at once: a command a block has left and the host has not       *)
(* posted counts as posted, and a block that is done with a round counts   *)
(* as having gone on to the next.  Seen so, every step of the host's loop  *)
(* is one of GpuSend's, or several of them that do not disturb each other. *)
(***************************************************************************)
EXTENDS SendOffload, GpuSendProofs, SequenceTheorems, WellFoundedInduction

-------------------------------------------------------------------------------
(* The path as GpuSend has it.                                             *)

\* The first package of the round.
Round == launches * NumBlocks

Looping == hostPc \in {"sync", "post"} \/ (hostPc = "launch" /\ launches < HostRounds)

\* Commands the blocks have left and the host has not posted: n of them, from
\* block a on.
Pending(data, a, n) == [k \in 1..n |-> data[a + k - 1]]

Waiting ==
  CASE hostPc = "sync" -> mutexSender - Round
    [] hostPc = "post" -> NumBlocks - posted
    [] OTHER -> 0

Left == Pending(ctrlData, IF hostPc = "post" THEN posted ELSE 0, Waiting)

pcOn == [b \in Blocks |-> IF Looping /\ pc[b] = "done" THEN "loop" ELSE pc[b]]
loopOn == [b \in Blocks |-> IF hostPc \in {"sync", "post"} /\ pc[b] = "done"
                            THEN Round + NumBlocks ELSE Round]
cmdsOn == cmds \o Left

V == INSTANCE GpuSendProofs WITH pc <- pcOn, loopVar <- loopOn, cmds <- cmdsOn

-------------------------------------------------------------------------------
(* The invariant.                                                          *)

HostTypes ==
  /\ pc \in [Blocks -> {"flow", "copy", "turn", "post", "done", "hung"}]
  /\ loopVar \in [Blocks -> Nat]
  /\ cmds \in Seq(Command)
  /\ hostPc \in {"idle", "launch", "sync", "post"}
  /\ launches \in Nat /\ posted \in 0..NumBlocks
  /\ ctrlData \in [Blocks -> Command]

\* Where the host is in its loop, the blocks are in their round.
HostPlace ==
  /\ phase = "send" <=> hostPc # "idle"
  /\ phase = "pre" \/ rounds = 0 => launches = 0
  /\ rounds = 0 => phase = "idle"
  /\ phase # "idle" => length % (NumBlocks * MaxBlock) = 0
  /\ hostPc # "idle" => launches <= HostRounds
  /\ hostPc \in {"sync", "post"} => launches < HostRounds
  /\ hostPc # "sync" => \A b \in Blocks : pc[b] = "done"
  /\ hostPc = "sync" => \A b \in Blocks : loopVar[b] = Round

HostInv == HostTypes /\ HostPlace /\ V!IInv /\ V!SInv

OffloadInv ==
  /\ poster \in {"blocks", "host"}
  /\ poster = "blocks" => hostPc = "idle" /\ IInv /\ SInv
  /\ poster = "host" => HostInv

-------------------------------------------------------------------------------
(* Rounds and packages.                                                    *)

LEMMA RoundFacts ==
  ASSUME launches \in Nat
  PROVE  /\ Round \in Mult /\ Round \in Nat
         /\ (launches + 1) * NumBlocks = Round + NumBlocks
         /\ launches = 0 => Round = 0
<1>1. NumBlocks \in Nat \ {0}
  BY ConstFacts
<1>2. Round \in Nat /\ Round % NumBlocks = 0
  BY <1>1, ModMul DEF Round
<1>3. (launches + 1) * NumBlocks = Round + NumBlocks
  BY <1>1, MulSucc DEF Round
<1>4. 0 * NumBlocks = 0
  BY <1>1
<1>. QED BY <1>2, <1>3, <1>4 DEF Mult, Round

LEMMA Quotient ==
  ASSUME NEW m \in Nat \ {0}, NEW q \in Nat
  PROVE  (q * m) \div m = q
<1>. DEFINE d == (q * m) \div m
<1>1. q * m \in Nat
  OBVIOUS
<1>2. d \in Nat /\ m * d <= q * m /\ q * m < m * d + m
  BY <1>1, DivFacts
<1>. HIDE DEF d
<1>3. m * d = d * m /\ (d + 1) * m = d * m + m /\ d * m \in Nat
  BY <1>2, MulSucc
<1>4. q < d + 1
  <2>1. q * m < (d + 1) * m
    BY <1>1, <1>2, <1>3
  <2>. QED BY <2>1, <1>2, MulLess
<1>5. d < q + 1
  <2>1. (q + 1) * m = q * m + m
    BY MulSucc
  <2>2. d * m < (q + 1) * m
    BY <1>1, <1>2, <1>3, <2>1
  <2>. QED BY <2>2, <1>2, MulLess
<1>6. d = q
  BY <1>2, <1>4, <1>5
<1>. QED BY <1>6 DEF d

\* A call in whole rounds has as many packages as its rounds have blocks.
LEMMA RoundsOfCall ==
  ASSUME NEW n \in Nat \ {0}, n % (NumBlocks * MaxBlock) = 0
  PROVE  /\ (n \div MaxBlock) \div NumBlocks \in Nat \ {0}
         /\ n = (((n \div MaxBlock) \div NumBlocks) * NumBlocks) * MaxBlock
<1>1. NumBlocks \in Nat \ {0} /\ MaxBlock \in Nat \ {0}
  BY ConstFacts
<1>2. PICK K \in Nat : K = NumBlocks * MaxBlock
  BY <1>1
<1>3. K # 0
  <2>1. NumBlocks >= 1 /\ MaxBlock >= 1
    BY <1>1
  <2>2. 1 * MaxBlock <= NumBlocks * MaxBlock
    BY <1>1, <2>1, MulMono
  <2>. QED BY <1>1, <1>2, <2>1, <2>2
<1>4. PICK q \in Nat : n = q * K
  BY <1>2, <1>3, ModFacts
<1>5. q # 0
  BY <1>2, <1>4
<1>6. q * K = (q * NumBlocks) * MaxBlock
  BY <1>1, <1>2
<1>7. q * NumBlocks \in Nat
  BY <1>1
<1>8. n \div MaxBlock = q * NumBlocks
  BY <1>1, <1>4, <1>6, <1>7, Quotient
<1>9. (q * NumBlocks) \div NumBlocks = q
  BY <1>1, Quotient
<1>. QED BY <1>4, <1>5, <1>6, <1>8, <1>9

LEMMA PlanOfRounds ==
  ASSUME HostTypes, HostPlace, V!IInv, phase # "idle", i >= length
  PROVE  /\ HostRounds \in Nat \ {0} /\ preCnt = HostRounds * NumBlocks
         /\ launches < HostRounds => Round < preCnt
         /\ launches = HostRounds => Round = preCnt
<1>1. /\ NumBlocks \in Nat \ {0} /\ MaxBlock \in Nat \ {0}
      /\ Lengths \subseteq Nat \ {0} /\ launches \in Nat
  BY ConstFacts DEF HostTypes
<1>2. /\ length \in Nat \ {0} /\ preCnt \in Nat /\ i = preCnt * MaxBlock
      /\ \A k \in 0..(preCnt - 1) : k * MaxBlock < length
      /\ length % (NumBlocks * MaxBlock) = 0
  <2>1. length \in Lengths /\ preCnt \in Nat
    BY DEF V!IInv, V!PlanInv, V!TypeOK
  <2>2. i = preCnt * MaxBlock /\ \A k \in 0..(preCnt - 1) : k * MaxBlock < length
    BY DEF V!IInv, V!PlanInv
  <2>. QED BY <1>1, <2>1, <2>2 DEF HostPlace
<1>3. HostRounds \in Nat \ {0} /\ length = (HostRounds * NumBlocks) * MaxBlock
  BY <1>2, RoundsOfCall DEF HostRounds
<1>4. PICK n \in Nat : n = HostRounds * NumBlocks
  BY <1>1, <1>3
<1>5. n <= preCnt
  <2>1. ASSUME preCnt < n
        PROVE  FALSE
    <3>1. preCnt + 1 <= n /\ preCnt + 1 \in Nat
      BY <1>2, <2>1
    <3>2. (preCnt + 1) * MaxBlock <= n * MaxBlock
      BY <1>1, <3>1, MulMono
    <3>3. (preCnt + 1) * MaxBlock = preCnt * MaxBlock + MaxBlock /\ preCnt * MaxBlock \in Nat
      BY <1>1, <1>2, MulSucc
    <3>. QED BY <1>1, <1>2, <1>3, <1>4, <3>2, <3>3
  <2>. QED BY <1>2, <2>1
<1>6. preCnt <= n
  <2>1. ASSUME n < preCnt
        PROVE  FALSE
    <3>1. n \in 0..(preCnt - 1)
      BY <1>2, <2>1
    <3>2. n * MaxBlock < length
      BY <1>2, <3>1
    <3>. QED BY <1>1, <1>2, <1>3, <1>4, <3>2
  <2>. QED BY <1>2, <2>1
<1>7. preCnt = n
  BY <1>2, <1>5, <1>6
<1>8. launches < HostRounds => Round < preCnt
  <2>. SUFFICES ASSUME launches < HostRounds PROVE Round < preCnt
    OBVIOUS
  <2>1. (launches + 1) * NumBlocks <= HostRounds * NumBlocks
    <3>1. launches + 1 <= HostRounds /\ launches + 1 \in Nat
      BY <1>1, <1>3
    <3>. QED BY <1>1, <1>3, <3>1, MulMono
  <2>. QED BY <1>1, <1>4, <1>7, <2>1, RoundFacts
<1>. QED BY <1>3, <1>4, <1>7, <1>8 DEF Round

-------------------------------------------------------------------------------
(* The commands that wait.                                                 *)

LEMMA PendingSeq ==
  ASSUME NEW f \in [Blocks -> Command], NEW a \in Nat, NEW n \in Nat, a + n <= NumBlocks
  PROVE  /\ Pending(f, a, n) \in Seq(Command) /\ Len(Pending(f, a, n)) = n
         /\ \A k \in 1..n : Pending(f, a, n)[k] = f[a + k - 1]
<1>1. \A k \in 1..n : a + k - 1 \in Blocks
  BY ConstFacts DEF Blocks
<1>2. Pending(f, a, n) \in [1..n -> Command] /\ \A k \in 1..n : Pending(f, a, n)[k] = f[a + k - 1]
  BY <1>1 DEF Pending
<1>. QED BY <1>2, LenProperties, IsASeq

LEMMA PendingNone ==
  ASSUME NEW f, NEW a
  PROVE  Pending(f, a, 0) = <<>>
  BY DEF Pending

\* Block b leaves its command.
LEMMA PendingMore ==
  ASSUME NEW f \in [Blocks -> Command], NEW b \in Blocks, NEW c \in Command
  PROVE  Pending([f EXCEPT ![b] = c], 0, b + 1) = Append(Pending(f, 0, b), c)
<1>. DEFINE g == [f EXCEPT ![b] = c]
<1>1. b \in Nat /\ b + 1 <= NumBlocks /\ 0 + b <= NumBlocks /\ 0 + (b + 1) <= NumBlocks
  BY ConstFacts DEF Blocks
<1>2. g \in [Blocks -> Command]
  OBVIOUS
<1>3. \A k \in 1..b : g[0 + k - 1] = f[0 + k - 1]
  BY <1>1 DEF Blocks
<1>4. g[b] = c /\ 0 + (b + 1) - 1 = b
  BY <1>1
<1>. HIDE DEF g
<1>5. /\ Pending(g, 0, b + 1) \in Seq(Command) /\ Len(Pending(g, 0, b + 1)) = b + 1
      /\ \A k \in 1..(b + 1) : Pending(g, 0, b + 1)[k] = g[0 + k - 1]
  <2>1. b + 1 \in Nat
    BY <1>1
  <2>. QED BY <1>1, <1>2, <2>1, PendingSeq
<1>6. /\ Pending(f, 0, b) \in Seq(Command) /\ Len(Pending(f, 0, b)) = b
      /\ \A k \in 1..b : Pending(f, 0, b)[k] = f[0 + k - 1]
  BY <1>1, PendingSeq
<1>7. /\ Append(Pending(f, 0, b), c) \in Seq(Command) /\ Len(Append(Pending(f, 0, b), c)) = b + 1
      /\ \A k \in 1..b : Append(Pending(f, 0, b), c)[k] = Pending(f, 0, b)[k]
      /\ Append(Pending(f, 0, b), c)[b + 1] = c
  <2>1. PICK t \in Seq(Command) : t = Pending(f, 0, b)
    BY <1>6
  <2>2. /\ Append(t, c) \in Seq(Command) /\ Len(Append(t, c)) = Len(t) + 1
        /\ \A k \in 1..Len(t) : Append(t, c)[k] = t[k]
        /\ Append(t, c)[Len(t) + 1] = c
    BY AppendProperties
  <2>. QED BY <1>6, <2>1, <2>2
<1>8. \A k \in 1..(b + 1) : Pending(g, 0, b + 1)[k] = Append(Pending(f, 0, b), c)[k]
  <2>. SUFFICES ASSUME NEW k \in 1..(b + 1)
                PROVE  Pending(g, 0, b + 1)[k] = Append(Pending(f, 0, b), c)[k]
    OBVIOUS
  <2>1. CASE k = b + 1
    BY <1>4, <1>5, <1>7, <2>1
  <2>2. CASE k \in 1..b
    BY <1>3, <1>5, <1>6, <1>7, <2>2
  <2>3. k = b + 1 \/ k \in 1..b
    BY <1>1
  <2>. QED BY <2>1, <2>2, <2>3
<1>9. Pending(g, 0, b + 1) = Append(Pending(f, 0, b), c)
  <2>1. PICK s \in Seq(Command), t \in Seq(Command) :
          s = Pending(g, 0, b + 1) /\ t = Append(Pending(f, 0, b), c)
    BY <1>5, <1>7
  <2>2. Len(s) = Len(t) /\ \A k \in 1..Len(s) : s[k] = t[k]
    BY <1>5, <1>7, <1>8, <2>1
  <2>3. s = t
    BY <2>2, SeqEqual
  <2>. QED BY <2>1, <2>3
<1>. QED BY <1>9 DEF g

\* The host posts the next command.
LEMMA PendingPost ==
  ASSUME NEW s \in Seq(Command), NEW f \in [Blocks -> Command], NEW a \in Blocks
  PROVE  s \o Pending(f, a, NumBlocks - a)
           = Append(s, f[a]) \o Pending(f, a + 1, NumBlocks - (a + 1))
<1>. DEFINE n == NumBlocks - (a + 1)
            t == Pending(f, a, n + 1)
            u == Pending(f, a + 1, n)
<1>1. n \in Nat /\ a \in Nat /\ NumBlocks - a = n + 1 /\ a + 1 \in Nat /\ n + 1 \in Nat
      /\ a + (n + 1) <= NumBlocks /\ (a + 1) + n <= NumBlocks /\ f[a] \in Command
  BY ConstFacts DEF Blocks
<1>. HIDE DEF n
<1>2. /\ t \in Seq(Command) /\ Len(t) = n + 1
      /\ \A k \in 1..(n + 1) : t[k] = f[a + k - 1]
  BY <1>1, PendingSeq
<1>3. /\ u \in Seq(Command) /\ Len(u) = n
      /\ \A k \in 1..n : u[k] = f[(a + 1) + k - 1]
  BY <1>1, PendingSeq
<1>4. t = <<f[a]>> \o u
  <2>1. <<f[a]>> \in Seq(Command) /\ Len(<<f[a]>>) = 1 /\ <<f[a]>>[1] = f[a]
    BY <1>1
  <2>. HIDE DEF u, t
  <2>2. /\ <<f[a]>> \o u \in Seq(Command) /\ Len(<<f[a]>> \o u) = 1 + n
        /\ \A k \in 1..(1 + n) : (<<f[a]>> \o u)[k] = IF k <= 1 THEN <<f[a]>>[k] ELSE u[k - 1]
    BY <1>3, <2>1, ConcatProperties
  <2>3. ASSUME NEW k \in 1..(n + 1)
        PROVE  t[k] = (<<f[a]>> \o u)[k]
    <3>1. CASE k = 1
      BY <1>1, <1>2, <2>1, <2>2, <3>1
    <3>2. CASE k > 1
      <4>1. k - 1 \in 1..n /\ (a + 1) + (k - 1) - 1 = a + k - 1
        BY <1>1, <3>2
      <4>2. t[k] = f[a + k - 1]
        BY <1>2
      <4>3. (<<f[a]>> \o u)[k] = u[k - 1]
        BY <1>1, <2>2, <3>2
      <4>4. u[k - 1] = f[(a + 1) + (k - 1) - 1]
        BY <1>3, <4>1
      <4>. QED BY <4>1, <4>2, <4>3, <4>4
    <3>3. k = 1 \/ k > 1
      OBVIOUS
    <3>. QED BY <3>1, <3>2, <3>3
  <2>4. PICK v \in Seq(Command) : v = <<f[a]>> \o u
    BY <2>2
  <2>5. Len(t) = Len(v) /\ \A k \in 1..Len(t) : t[k] = v[k]
    BY <1>1, <1>2, <2>2, <2>3, <2>4
  <2>6. t = v
    BY <1>2, <2>5, SeqEqual
  <2>. QED BY <2>4, <2>6
<1>. HIDE DEF u, t
<1>5. Append(s, f[a]) = s \o <<f[a]>> /\ <<f[a]>> \in Seq(Command)
  BY <1>1, AppendIsConcat
<1>6. (s \o <<f[a]>>) \o u = s \o (<<f[a]>> \o u)
  BY <1>3, <1>5, ConcatAssociative
<1>7. s \o t = Append(s, f[a]) \o u
  BY <1>4, <1>5, <1>6
<1>. QED BY <1>1, <1>7 DEF t, u, n

LEMMA AppendRight ==
  ASSUME NEW s \in Seq(Command), NEW t \in Seq(Command), NEW c \in Command
  PROVE  s \o Append(t, c) = Append(s \o t, c)
<1>1. s \o t \in Seq(Command) /\ <<c>> \in Seq(Command)
  BY ConcatProperties
<1>2. Append(t, c) = t \o <<c>> /\ Append(s \o t, c) = (s \o t) \o <<c>>
  BY <1>1, AppendIsConcat
<1>3. (s \o t) \o <<c>> = s \o (t \o <<c>>)
  BY <1>1, ConcatAssociative
<1>. QED BY <1>2, <1>3

LEMMA HeadOfConcat ==
  ASSUME NEW s \in Seq(Command), NEW t \in Seq(Command), s # <<>>
  PROVE  /\ Head(s \o t) = Head(s) /\ Tail(s \o t) = Tail(s) \o t /\ s \o t # <<>>
         /\ Tail(s) \in Seq(Command)
<1>1. Head(s) \in Command /\ Tail(s) \in Seq(Command) /\ s = <<Head(s)>> \o Tail(s)
      /\ <<Head(s)>> \in Seq(Command)
  <2>1. Head(s) \in Command /\ Tail(s) \in Seq(Command)
    BY HeadTailProperties
  <2>2. s = <<Head(s)>> \o Tail(s)
    OBVIOUS
  <2>. QED BY <2>1, <2>2
<1>. DEFINE h == Head(s)
            r == Tail(s)
<1>2. s \o t = <<h>> \o (r \o t)
  BY <1>1, ConcatAssociative
<1>3. r \o t \in Seq(Command)
  BY <1>1, ConcatProperties
<1>. HIDE DEF h, r
<1>4. h \in Command /\ r \in Seq(Command)
  BY <1>1 DEF h, r
<1>5. Head(<<h>> \o (r \o t)) = h /\ Tail(<<h>> \o (r \o t)) = r \o t /\ <<h>> \o (r \o t) # <<>>
  BY <1>3, <1>4
<1>. QED BY <1>1, <1>2, <1>5 DEF h, r

-------------------------------------------------------------------------------
(* What the steps of the kernels and of the FPGA look like from GpuSend.   *)

LEMMA SameBlocks ==
  ASSUME UNCHANGED <<pc, hostPc, launches>>, length' = length \/ hostPc = "idle"
  PROVE  pcOn' = pcOn /\ loopOn' = loopOn
<1>1. Looping' = Looping /\ Round' = Round
  BY DEF Looping, HostRounds, Round
<1>. QED BY <1>1 DEF pcOn, loopOn

LEMMA SameLeft ==
  ASSUME \/ UNCHANGED <<mutexSender, hostPc, launches, posted, ctrlData>>
         \/ hostPc \in {"idle", "launch"} /\ hostPc' \in {"idle", "launch"}
  PROVE  Left' = Left
<1>1. CASE UNCHANGED <<mutexSender, hostPc, launches, posted, ctrlData>>
  BY <1>1 DEF Left, Waiting, Round, Pending
<1>2. CASE hostPc \in {"idle", "launch"} /\ hostPc' \in {"idle", "launch"}
  <2>1. Left = Pending(ctrlData, 0, 0) /\ Left' = Pending(ctrlData', 0, 0)
    BY <1>2 DEF Left, Waiting
  <2>. QED BY <2>1, PendingNone
<1>. QED BY <1>1, <1>2

\* A block that holds a package is where GpuSend has it, and so is its move.
LEMMA BlockMoves ==
  ASSUME HostTypes, HostPlace, NEW b \in Blocks, NEW l \in {"copy", "turn", "post", "hung"},
         pc[b] # "done", pc' = [pc EXCEPT ![b] = l],
         UNCHANGED <<phase, rounds, length, loopVar, cmds, mutexSender, hostVars>>
  PROVE  /\ hostPc = "sync" /\ pcOn[b] = pc[b] /\ V!Pkg(b) = Pkg(b)
         /\ pcOn' = [pcOn EXCEPT ![b] = l] /\ loopOn' = loopOn /\ cmdsOn' = cmdsOn
         /\ HostTypes' /\ HostPlace'
<1>. USE DEF hostVars
<1>1. hostPc = "sync" /\ loopVar[b] = Round
  BY DEF HostPlace
<1>2. V!Pkg(b) = Pkg(b) /\ pcOn[b] = pc[b]
  BY <1>1 DEF V!Pkg, Pkg, loopOn, pcOn
<1>3. Looping /\ Looping' /\ Round' = Round
  BY <1>1 DEF Looping, Round
<1>4. pc'[b] = l /\ \A c \in Blocks \ {b} : pc'[c] = pc[c]
  BY DEF HostTypes
<1>5. pcOn' = [pcOn EXCEPT ![b] = l]
  BY <1>3, <1>4 DEF pcOn
<1>6. loopOn' = loopOn
  BY <1>1, <1>3, <1>4 DEF loopOn
<1>7. cmdsOn' = cmdsOn
  BY SameLeft DEF cmdsOn
<1>8. HostTypes'
  BY DEF HostTypes
<1>9. HostPlace'
  BY <1>1, <1>3 DEF HostPlace, HostRounds
<1>. QED BY <1>1, <1>2, <1>5, <1>6, <1>7, <1>8, <1>9

LEMMA BlockSteps ==
  ASSUME HostTypes, HostPlace, NEW b \in Blocks, UNCHANGED hostVars,
         FlowControl(b) \/ Copy(b) \/ TakeTurn(b) \/ TurnTimeout(b)
  PROVE  /\ FlowControl(b) => V!FlowControl(b)
         /\ Copy(b) => V!Copy(b)
         /\ TakeTurn(b) => V!TakeTurn(b)
         /\ TurnTimeout(b) => V!TurnTimeout(b)
         /\ HostTypes' /\ HostPlace'
<1>. USE DEF Goto, V!Goto, kernelVars, V!kernelVars, planVars, V!planVars, fpgaVars, V!fpgaVars
<1>. DEFINE Move(l) == /\ pcOn[b] = pc[b] /\ V!Pkg(b) = Pkg(b)
                       /\ pcOn' = [pcOn EXCEPT ![b] = l] /\ loopOn' = loopOn /\ cmdsOn' = cmdsOn
                       /\ HostTypes' /\ HostPlace'
<1>1. CASE FlowControl(b)
  <2>1. Move("copy")
    BY <1>1, BlockMoves DEF FlowControl
  <2>. QED BY <1>1, <2>1 DEF FlowControl, Copy, TakeTurn, TurnTimeout, V!FlowControl, Window, V!Window
<1>2. CASE Copy(b)
  <2>1. Move("turn")
    BY <1>2, BlockMoves DEF Copy
  <2>. QED BY <1>2, <2>1 DEF FlowControl, Copy, TakeTurn, TurnTimeout, V!Copy, Region, V!Region, Units, V!Units
<1>3. CASE TakeTurn(b)
  <2>1. Move("post")
    BY <1>3, BlockMoves DEF TakeTurn
  <2>. QED BY <1>3, <2>1 DEF FlowControl, Copy, TakeTurn, TurnTimeout, V!TakeTurn
<1>4. CASE TurnTimeout(b)
  <2>1. Move("hung")
    BY <1>4, BlockMoves DEF TurnTimeout
  <2>. QED BY <1>4, <2>1 DEF FlowControl, Copy, TakeTurn, TurnTimeout, V!TurnTimeout
<1>. QED BY <1>1, <1>2, <1>3, <1>4

LEMMA PlanSteps ==
  ASSUME HostTypes, HostPlace, UNCHANGED hostVars, NEW len \in Lengths,
         \/ rounds = 0 /\ len % (NumBlocks * MaxBlock) = 0 /\ PreStart(len)
         \/ PrePlan
  PROVE  /\ PreStart(len) => V!PreStart(len)
         /\ PrePlan => V!PrePlan
         /\ HostTypes' /\ HostPlace'
<1>. USE DEF hostVars, kernelVars, V!kernelVars, blockVars, V!blockVars, fpgaVars, V!fpgaVars
<1>1. CASE PreStart(len) /\ rounds = 0 /\ len % (NumBlocks * MaxBlock) = 0
  <2>1. hostPc = "idle" /\ UNCHANGED <<pc, hostPc, launches>>
    BY <1>1 DEF PreStart, HostPlace
  <2>2. pcOn' = pcOn /\ loopOn' = loopOn
    BY <2>1, SameBlocks
  <2>3. cmdsOn' = cmdsOn
    BY <1>1, <2>1, SameLeft DEF cmdsOn, PreStart
  <2>4. V!PreStart(len)
    BY <1>1, <2>2, <2>3 DEF PreStart, V!PreStart
  <2>5. HostTypes'
    BY <1>1 DEF HostTypes, PreStart
  <2>6. HostPlace'
    <3>1. rounds \in Nat
      BY <1>1
    <3>. QED BY <1>1, <2>1, <3>1 DEF HostPlace, PreStart, HostTypes
  <2>. QED BY <1>1, <2>4, <2>5, <2>6 DEF PreStart, PrePlan
<1>2. CASE PrePlan
  <2>1. UNCHANGED <<pc, hostPc, launches>> /\ length' = length
    BY <1>2 DEF PrePlan
  <2>2. pcOn' = pcOn /\ loopOn' = loopOn
    BY <2>1, SameBlocks
  <2>3. cmdsOn' = cmdsOn
    BY <1>2, SameLeft DEF cmdsOn, PrePlan
  <2>4. V!PrePlan
    BY <1>2, <2>2, <2>3 DEF PrePlan, V!PrePlan, Smaller, V!Smaller, NextAddr, V!NextAddr, WrapAt, V!WrapAt
  <2>5. HostTypes'
    BY <1>2 DEF HostTypes, PrePlan
  <2>6. HostPlace'
    BY <1>2, <2>1 DEF HostPlace, PrePlan, HostRounds, Round
  <2>. QED BY <1>2, <2>4, <2>5, <2>6 DEF PreStart, PrePlan
<1>. QED BY <1>1, <1>2

LEMMA LeftSeq ==
  ASSUME HostTypes, HostPlace, V!IInv
  PROVE  /\ Waiting \in 0..NumBlocks
         /\ Left \in Seq(Command) /\ Len(Left) = Waiting
         /\ hostPc = "sync" => Round <= mutexSender /\ mutexSender <= Round + NumBlocks
         /\ (hostPc = "launch" /\ launches < HostRounds) => mutexSender = Round
<1>0. NumBlocks \in Nat \ {0} /\ Round \in Nat /\ posted \in 0..NumBlocks /\ mutexSender \in Nat
  BY ConstFacts, RoundFacts DEF HostTypes, V!IInv, V!TypeOK
<1>1. ASSUME Looping
      PROVE  /\ mutexSender <= loopOn[0]
             /\ loopOn[NumBlocks - 1] + (NumBlocks - 1) < mutexSender + NumBlocks
             /\ \A b \in Blocks : pc[b] = "done" => loopOn[b] = IF hostPc \in {"sync", "post"} THEN Round + NumBlocks ELSE Round
             /\ \A b \in Blocks : pc[b] # "done" => loopOn[b] = Round
  <2>1. phase = "send"
    BY <1>1 DEF Looping, HostPlace
  <2>2. 0 \in V!Blocks /\ NumBlocks - 1 \in V!Blocks
    BY <1>0 DEF V!Blocks
  <2>3. mutexSender <= V!Pkg(0) /\ V!Pkg(NumBlocks - 1) < mutexSender + NumBlocks
    BY <2>1, <2>2 DEF V!IInv, V!TurnInv
  <2>4. loopOn[0] \in Nat
    BY <1>0, <2>2 DEF loopOn, Blocks, V!Blocks
  <2>. QED BY <2>3, <2>4 DEF V!Pkg, loopOn
<1>2. hostPc = "sync" => Round <= mutexSender /\ mutexSender <= Round + NumBlocks
  <2>. SUFFICES ASSUME hostPc = "sync" PROVE Round <= mutexSender /\ mutexSender <= Round + NumBlocks
    OBVIOUS
  <2>1. Looping
    BY DEF Looping
  <2>2. 0 \in Blocks /\ NumBlocks - 1 \in Blocks
    BY <1>0 DEF Blocks
  <2>3. loopOn[0] \in {Round, Round + NumBlocks} /\ loopOn[NumBlocks - 1] \in {Round, Round + NumBlocks}
    BY <1>1, <2>1, <2>2
  <2>. QED BY <1>0, <1>1, <2>1, <2>3
<1>3. (hostPc = "launch" /\ launches < HostRounds) => mutexSender = Round
  <2>. SUFFICES ASSUME hostPc = "launch", launches < HostRounds PROVE mutexSender = Round
    OBVIOUS
  <2>1. Looping
    BY DEF Looping
  <2>2. 0 \in Blocks /\ NumBlocks - 1 \in Blocks
    BY <1>0 DEF Blocks
  <2>3. loopOn[0] = Round /\ loopOn[NumBlocks - 1] = Round
    BY <1>1, <2>1, <2>2
  <2>. QED BY <1>0, <1>1, <2>1, <2>3
<1>4. Waiting \in 0..NumBlocks
  BY <1>0, <1>2 DEF Waiting
<1>5. Left \in Seq(Command) /\ Len(Left) = Waiting
  <2>. DEFINE a == IF hostPc = "post" THEN posted ELSE 0
  <2>1. a \in Nat /\ a + Waiting <= NumBlocks /\ Waiting \in Nat
    BY <1>0, <1>4 DEF Waiting
  <2>2. ctrlData \in [Blocks -> Command]
    BY DEF HostTypes
  <2>. HIDE DEF a
  <2>3. Pending(ctrlData, a, Waiting) \in Seq(Command) /\ Len(Pending(ctrlData, a, Waiting)) = Waiting
    BY <2>1, <2>2, PendingSeq
  <2>. QED BY <2>3 DEF a, Left
<1>. QED BY <1>2, <1>3, <1>4, <1>5

LEMMA FpgaSteps ==
  ASSUME HostTypes, HostPlace, V!IInv, UNCHANGED hostVars, Fetch \/ Report \/ ReadInfo
  PROVE  /\ Fetch => V!Fetch /\ Head(cmdsOn) = Head(cmds)
         /\ Report => V!Report
         /\ ReadInfo => V!ReadInfo
         /\ HostTypes' /\ HostPlace'
<1>. USE DEF hostVars, kernelVars, V!kernelVars, planVars, V!planVars, blockVars, V!blockVars
<1>1. /\ UNCHANGED <<pc, loopVar, hostPc, launches, posted, ctrlData, mutexSender, length, phase, rounds>>
  BY DEF Fetch, Report, ReadInfo
<1>2. pcOn' = pcOn /\ loopOn' = loopOn /\ Left' = Left
  BY <1>1, SameBlocks, SameLeft
<1>3. cmds \in Seq(Command) /\ Left \in Seq(Command)
  BY LeftSeq DEF HostTypes
<1>4. HostPlace'
  BY <1>1 DEF HostPlace, HostRounds, Round
<1>5. CASE Fetch
  <2>1. cmds # <<>> /\ cmds' = Tail(cmds)
    BY <1>5 DEF Fetch
  <2>2. /\ Head(cmdsOn) = Head(cmds) /\ Tail(cmdsOn) = Tail(cmds) \o Left /\ cmdsOn # <<>>
        /\ Tail(cmds) \in Seq(Command)
    BY <1>3, <2>1, HeadOfConcat DEF cmdsOn
  <2>3. cmdsOn' = Tail(cmdsOn)
    BY <1>2, <2>1, <2>2 DEF cmdsOn
  <2>4. V!Fetch
    BY <1>2, <1>5, <2>2, <2>3 DEF Fetch, V!Fetch
  <2>5. HostTypes'
    BY <1>1, <2>1, <2>2 DEF HostTypes
  <2>6. cmds' # cmds
    <3>1. Len(Tail(cmds)) = Len(cmds) - 1 /\ Len(cmds) \in Nat
      BY <1>3, <2>1
    <3>2. Len(Tail(cmds)) # Len(cmds)
      BY <3>1
    <3>3. Tail(cmds) # cmds
      BY <3>2
    <3>. QED BY <2>1, <3>3
  <2>7. ~Report /\ ~ReadInfo
    BY <2>6 DEF Report, ReadInfo
  <2>. QED BY <1>4, <2>2, <2>4, <2>5, <2>7
<1>6. CASE (Report \/ ReadInfo) /\ ~Fetch
  <2>1. cmds' = cmds /\ cmdsOn' = cmdsOn
    BY <1>2, <1>6 DEF Report, ReadInfo, cmdsOn
  <2>2. HostTypes'
    BY <1>1, <2>1 DEF HostTypes
  <2>3. Report => V!Report
    BY <1>2, <2>1 DEF Report, V!Report, LastReport, V!LastReport
  <2>4. ReadInfo => V!ReadInfo
    BY <1>2, <2>1 DEF ReadInfo, V!ReadInfo
  <2>. QED BY <1>4, <1>6, <2>2, <2>3, <2>4
<1>. QED BY <1>5, <1>6

-------------------------------------------------------------------------------
(* The steps of the host's loop.                                           *)

LEMMA OffloadStart ==
  ASSUME OffloadInit
  PROVE  OffloadInv
<1>. USE DEF OffloadInit
<1>1. CASE poster = "blocks"
  BY <1>1, InitStep, StreamInit DEF OffloadInv
<1>2. CASE poster = "host"
  <2>1. HostTypes
    <3>1. [addr |-> 0, len |-> 0] \in Command
      BY SendAssumption DEF Command, InRing
    <3>. QED BY <3>1, ConstFacts DEF HostTypes, Init
  <2>2. HostPlace
    BY DEF HostPlace, Init
  <2>3. V!Init
    <3>1. pcOn = [b \in Blocks |-> "done"]
      BY DEF pcOn, Looping, Init
    <3>2. Round = 0
      BY RoundFacts
    <3>3. loopOn = [b \in Blocks |-> 0]
      BY <3>2 DEF loopOn
    <3>4. Left = <<>>
      BY PendingNone DEF Left, Waiting
    <3>5. cmdsOn = <<>>
      BY <3>4 DEF cmdsOn, Init
    <3>. QED BY <3>1, <3>3, <3>5 DEF Init, V!Init, V!NoPackage, NoPackage, V!Blocks, Blocks, V!Units, Units
  <2>4. V!IInv /\ V!SInv
    BY <2>3, V!InitStep, V!StreamInit, SendAssumption, BlocksFitOverhead, WholeRounds
       DEF V!NumPackages, NumPackages
  <2>. QED BY <1>2, <2>1, <2>2, <2>4 DEF OffloadInv, HostInv
<1>. QED BY <1>1, <1>2

LEMMA EnterLoopSteps ==
  ASSUME HostInv, EnterLoop
  PROVE  V!SendStart /\ HostTypes' /\ HostPlace'
<1>. USE DEF HostInv, EnterLoop, planVars, V!planVars, blockVars, fpgaVars, V!fpgaVars
<1>1. hostPc = "idle" /\ launches = 0 /\ Round = 0 /\ \A b \in Blocks : pc[b] = "done"
  BY RoundFacts DEF HostPlace, HostTypes
<1>2. HostRounds \in Nat \ {0} /\ HostRounds' = HostRounds /\ Round' = 0
  BY <1>1, PlanOfRounds DEF HostRounds, Round
<1>3. Looping' /\ hostPc' = "launch" /\ UNCHANGED pc
  BY <1>1, <1>2 DEF Looping
<1>4. pcOn' = [b \in Blocks |-> "loop"] /\ loopOn' = [b \in Blocks |-> 0]
  BY <1>1, <1>2, <1>3 DEF pcOn, loopOn
<1>5. cmdsOn' = cmdsOn
  BY <1>1, <1>3, SameLeft DEF cmdsOn
<1>6. V!SendStart
  BY <1>4, <1>5 DEF V!SendStart, V!Blocks, Blocks
<1>7. HostTypes'
  BY DEF HostTypes
<1>8. HostPlace'
  <2>1. rounds # 0
    BY DEF HostPlace
  <2>. QED BY <1>1, <1>2, <1>3, <2>1 DEF HostPlace
<1>. QED BY <1>6, <1>7, <1>8

LEMMA LaunchSteps ==
  ASSUME HostInv, Launch
  PROVE  V!LoopTests /\ HostTypes' /\ HostPlace'
<1>. USE DEF HostInv, Launch, kernelVars, V!kernelVars, planVars, V!planVars, fpgaVars, V!fpgaVars
<1>1. /\ hostPc = "launch" /\ launches < HostRounds /\ phase = "send" /\ i >= length
      /\ \A b \in Blocks : pc[b] = "done"
  BY DEF HostPlace, V!IInv, V!PlanInv
<1>2. Round < preCnt /\ HostRounds' = HostRounds /\ Round' = Round /\ Looping /\ Looping'
  BY <1>1, PlanOfRounds DEF HostRounds, Round, Looping
<1>3. pc' = [b \in Blocks |-> "flow"] /\ hostPc' = "sync" /\ loopVar' = [b \in Blocks |-> Round]
  BY DEF Round
<1>4. loopOn' = loopOn /\ loopOn = [b \in Blocks |-> Round]
  BY <1>1, <1>2, <1>3 DEF loopOn
<1>5. pcOn = [b \in Blocks |-> "loop"] /\ pcOn' = [b \in Blocks |-> "flow"]
  BY <1>1, <1>2, <1>3 DEF pcOn
<1>6. Left = <<>> /\ Left' = <<>>
  <2>1. Waiting = 0 /\ Waiting' = 0
    <3>1. mutexSender = Round /\ Round \in Nat
      BY <1>1, LeftSeq, RoundFacts DEF HostTypes
    <3>. QED BY <1>1, <1>2, <1>3, <3>1 DEF Waiting
  <2>2. Left = Pending(ctrlData, 0, 0) /\ Left' = Pending(ctrlData', 0, 0)
    BY <1>1, <1>3, <2>1 DEF Left
  <2>. QED BY <2>2, PendingNone
<1>7. cmdsOn' = cmdsOn
  BY <1>6 DEF cmdsOn
<1>8. V!LoopTests
  BY <1>2, <1>4, <1>5, <1>7 DEF V!LoopTests, V!Labels, V!Blocks, Blocks
<1>9. HostTypes'
  BY <1>3, RoundFacts DEF HostTypes
<1>10. HostPlace'
  BY <1>1, <1>2, <1>3 DEF HostPlace
<1>. QED BY <1>8, <1>9, <1>10

LEMMA SyncSteps ==
  ASSUME HostInv, Sync
  PROVE  UNCHANGED V!vars /\ HostTypes' /\ HostPlace'
<1>. USE DEF HostInv, Sync, vars, kernelVars, planVars, blockVars, fpgaVars
<1>1. /\ hostPc = "sync" /\ \A b \in Blocks : pc[b] = "done"
      /\ hostPc' = "post" /\ posted' = 0 /\ pc' = pc /\ ctrlData' = ctrlData
  OBVIOUS
<1>2. Round' = Round /\ Looping /\ Looping' /\ NumBlocks \in Nat \ {0}
  BY <1>1, ConstFacts DEF Looping, Round
<1>3. pcOn' = pcOn /\ loopOn' = loopOn
  BY <1>1, <1>2 DEF pcOn, loopOn
<1>4. mutexSender = Round + NumBlocks
  <2>1. phase = "send"
    BY <1>1 DEF HostPlace
  <2>2. 0 \in V!Blocks /\ 0 \in Blocks /\ NumBlocks - 1 \in V!Blocks /\ NumBlocks - 1 \in Blocks
    BY <1>2 DEF V!Blocks, Blocks
  <2>3. mutexSender <= V!Pkg(0) /\ V!Pkg(NumBlocks - 1) < mutexSender + NumBlocks
    BY <2>1, <2>2 DEF V!IInv, V!TurnInv
  <2>4. loopOn[0] = Round + NumBlocks /\ loopOn[NumBlocks - 1] = Round + NumBlocks
    BY <1>1, <2>2 DEF loopOn
  <2>5. Round \in Nat /\ mutexSender \in Nat
    BY RoundFacts DEF HostTypes, V!IInv, V!TypeOK
  <2>. QED BY <1>2, <2>3, <2>4, <2>5 DEF V!Pkg
<1>5. Left' = Left
  <2>1. Waiting = NumBlocks /\ Waiting' = NumBlocks
    <3>1. Round \in Nat
      BY RoundFacts DEF HostTypes
    <3>. QED BY <1>1, <1>2, <1>4, <3>1 DEF Waiting
  <2>2. Left = Pending(ctrlData, 0, NumBlocks) /\ Left' = Pending(ctrlData', 0, NumBlocks)
    BY <1>1, <2>1 DEF Left
  <2>. QED BY <1>1, <2>2
<1>6. UNCHANGED V!vars
  BY <1>3, <1>5 DEF V!vars, V!kernelVars, V!planVars, V!blockVars, V!fpgaVars, cmdsOn
<1>7. HostTypes'
  BY ConstFacts DEF HostTypes
<1>8. HostPlace'
  BY <1>1, <1>2 DEF HostPlace, HostRounds
<1>. QED BY <1>6, <1>7, <1>8

LEMMA HostPostSteps ==
  ASSUME HostInv, HostPost
  PROVE  UNCHANGED V!vars /\ HostTypes' /\ HostPlace'
<1>. USE DEF HostInv, HostPost, kernelVars, planVars, blockVars
<1>1. /\ hostPc = "post" /\ hostPc' = "post" /\ posted \in Blocks /\ posted' = posted + 1
      /\ cmds' = Append(cmds, ctrlData[posted]) /\ ctrlData' = ctrlData /\ cmds \in Seq(Command)
      /\ ctrlData \in [Blocks -> Command] /\ posted \in Nat /\ posted + 1 \in 0..NumBlocks
  BY ConstFacts DEF HostTypes, Blocks
<1>2. pcOn' = pcOn /\ loopOn' = loopOn
  BY <1>1, SameBlocks
<1>3. Left = Pending(ctrlData, posted, NumBlocks - posted)
  BY <1>1 DEF Left, Waiting
<1>4. Left' = Pending(ctrlData, posted + 1, NumBlocks - (posted + 1))
  BY <1>1 DEF Left, Waiting
<1>5. cmdsOn' = cmdsOn
  BY <1>1, <1>3, <1>4, PendingPost DEF cmdsOn
<1>6. UNCHANGED V!vars
  BY <1>2, <1>5 DEF V!vars, V!kernelVars, V!planVars, V!blockVars, V!fpgaVars
<1>7. HostTypes'
  BY <1>1 DEF HostTypes
<1>8. HostPlace'
  BY <1>1 DEF HostPlace, HostRounds
<1>. QED BY <1>6, <1>7, <1>8

LEMMA NextRoundSteps ==
  ASSUME HostInv, HostNextRound
  PROVE  V!LoopTests /\ HostTypes' /\ HostPlace'
<1>. USE DEF HostInv, HostNextRound, vars, kernelVars, planVars, blockVars, fpgaVars
<1>1. /\ hostPc = "post" /\ hostPc' = "launch" /\ launches' = launches + 1 /\ posted = NumBlocks
      /\ phase = "send" /\ i >= length /\ launches < HostRounds /\ launches \in Nat
      /\ \A b \in Blocks : pc[b] = "done"
  BY DEF HostPlace, V!IInv, V!PlanInv, HostTypes
<1>2. Round' = Round + NumBlocks /\ HostRounds' = HostRounds /\ HostRounds \in Nat /\ Looping
  BY <1>1, RoundFacts, PlanOfRounds DEF HostRounds, Round, Looping
<1>3. /\ pcOn = [b \in Blocks |-> "loop"]
      /\ pcOn' = [b \in Blocks |-> IF Looping' THEN "loop" ELSE "done"]
  BY <1>1, <1>2 DEF pcOn
<1>4. loopOn = [b \in Blocks |-> Round + NumBlocks] /\ loopOn' = loopOn
  BY <1>1, <1>2 DEF loopOn
<1>5. ~Looping' => Round + NumBlocks = preCnt
  <2>. SUFFICES ASSUME ~Looping' PROVE Round + NumBlocks = preCnt
    OBVIOUS
  <2>1. launches + 1 = HostRounds
    BY <1>1, <1>2 DEF Looping
  <2>2. preCnt = HostRounds * NumBlocks
    BY <1>1, PlanOfRounds
  <2>3. (launches + 1) * NumBlocks = Round + NumBlocks
    BY <1>1, RoundFacts
  <2>. QED BY <2>1, <2>2, <2>3
<1>6. cmdsOn' = cmdsOn
  <2>1. NumBlocks - NumBlocks = 0
    BY ConstFacts
  <2>2. Left = Pending(ctrlData, posted, 0) /\ Left' = Pending(ctrlData', 0, 0)
    BY <1>1, <2>1 DEF Left, Waiting
  <2>. QED BY <2>2, PendingNone DEF cmdsOn
<1>7. V!LoopTests
  <2>1. ~Looping' => ~(Round + NumBlocks < preCnt)
    <3>1. Round \in Nat /\ NumBlocks \in Nat
      BY <1>1, RoundFacts, ConstFacts
    <3>. QED BY <1>5, <3>1
  <2>. QED BY <1>3, <1>4, <1>6, <2>1
       DEF V!LoopTests, V!Labels, V!Blocks, Blocks, V!kernelVars, V!planVars, V!fpgaVars
<1>8. HostTypes'
  BY <1>1 DEF HostTypes
<1>9. HostPlace'
  BY <1>1, <1>2 DEF HostPlace
<1>. QED BY <1>7, <1>8, <1>9

LEMMA HostDoneSteps ==
  ASSUME HostInv, HostDone
  PROVE  V!SendEnd /\ HostTypes' /\ HostPlace'
<1>. USE DEF HostInv, HostDone, planVars, V!planVars, blockVars, V!blockVars, fpgaVars, V!fpgaVars
<1>1. /\ hostPc = "launch" /\ hostPc' = "idle" /\ phase = "send" /\ i >= length
      /\ launches >= HostRounds /\ \A b \in Blocks : pc[b] = "done"
  BY DEF HostPlace, V!IInv, V!PlanInv
<1>2. ~Looping /\ ~Looping'
  <2>1. HostRounds \in Nat /\ launches \in Nat
    BY <1>1, PlanOfRounds DEF HostTypes
  <2>. QED BY <1>1, <2>1 DEF Looping
<1>3. pcOn = [b \in Blocks |-> "done"] /\ pcOn' = pcOn
  BY <1>1, <1>2 DEF pcOn
<1>4. loopOn' = loopOn
  BY <1>1 DEF loopOn, Round
<1>5. cmdsOn' = cmdsOn
  BY <1>1, SameLeft DEF cmdsOn
<1>6. V!SendEnd
  BY <1>1, <1>3, <1>4, <1>5 DEF V!SendEnd, V!Blocks, Blocks
<1>7. HostTypes'
  BY DEF HostTypes
<1>8. HostPlace'
  BY <1>1 DEF HostPlace
<1>. QED BY <1>6, <1>7, <1>8

LEMMA HandOverSteps ==
  ASSUME HostInv, NEW b \in Blocks, HandOver(b)
  PROVE  V!PassOn(b) /\ V!PostOn(b) /\ HostTypes' /\ HostPlace'
<1>. USE DEF HostInv, HandOver, Goto, V!Goto, kernelVars, V!kernelVars, planVars, V!planVars, fpgaVars
<1>. DEFINE c == [addr |-> pre[Pkg(b)].addr, len |-> pre[Pkg(b)].len]
<1>1. /\ pc[b] = "post" /\ hostPc = "sync" /\ loopVar[b] = Round /\ hostPc' = "sync"
      /\ pc' = [pc EXCEPT ![b] = "done"] /\ launches' = launches
  BY DEF HostPlace
<1>2. Round' = Round /\ Looping /\ Looping' /\ Round \in Nat /\ b \in Nat
  BY <1>1, RoundFacts, ConstFacts DEF HostTypes, Looping, Round, Blocks
<1>3. pc'[b] = "done" /\ \A d \in Blocks \ {b} : pc'[d] = pc[d]
  BY <1>1 DEF HostTypes
<1>4. pcOn[b] = "post" /\ pcOn' = [pcOn EXCEPT ![b] = "loop"]
  BY <1>1, <1>2, <1>3 DEF pcOn
<1>5. loopOn[b] = Round /\ loopOn' = [loopOn EXCEPT ![b] = @ + NumBlocks]
  BY <1>1, <1>2, <1>3 DEF loopOn
<1>6. V!Pkg(b) = Pkg(b) /\ Pkg(b) = Round + b /\ V!InTurn(b)
  BY <1>1, <1>4, <1>5 DEF V!Pkg, Pkg, V!InTurn
<1>7. b \in V!Blocks
  BY DEF V!Blocks, Blocks
<1>8. mutexSender = Round + b
  BY <1>6, <1>7 DEF V!IInv, V!TurnInv
<1>9. c \in Command
  <2>1. V!TypeOK /\ V!PlanInv /\ V!TurnInv /\ V!Working(b)
    BY <1>4 DEF V!IInv, V!Working
  <2>2. pre[V!Pkg(b)] \in V!Package
    BY <1>7, <2>1, V!WorkingInPlan, SendAssumption, BlocksFitOverhead, WholeRounds
       DEF V!NumPackages, NumPackages
  <2>. QED BY <1>6, <2>2 DEF Command, V!Package, V!InRing, InRing
<1>10. cmdsOn' = Append(cmdsOn, c) /\ cmdsOn' \in Seq(Command)
  <2>1. Waiting = b /\ Waiting' = b + 1
    <3>1. mutexSender' = Round + b + 1
      BY <1>6
    <3>. QED BY <1>1, <1>2, <1>8, <3>1 DEF Waiting
  <2>2. Left = Pending(ctrlData, 0, b) /\ Left' = Pending([ctrlData EXCEPT ![b] = c], 0, b + 1)
    BY <1>1, <2>1 DEF Left
  <2>3. ctrlData \in [Blocks -> Command] /\ cmds \in Seq(Command) /\ Left \in Seq(Command)
    BY LeftSeq DEF HostTypes
  <2>4. Left' = Append(Left, c)
    BY <1>9, <2>2, <2>3, PendingMore
  <2>5. cmds \o Append(Left, c) = Append(cmds \o Left, c)
    BY <1>9, <2>3, AppendRight
  <2>6. cmds \o Left \in Seq(Command)
    BY <2>3, ConcatProperties
  <2>7. Append(cmds \o Left, c) \in Seq(Command)
    BY <1>9, <2>6, AppendProperties
  <2>. QED BY <2>4, <2>5, <2>7 DEF cmdsOn
<1>11. V!PassOn(b)
  BY <1>4, <1>5, <1>6, <1>10 DEF V!PassOn, V!Command, Command, V!InRing, InRing
<1>12. V!PostOn(b)
  <2>1. \A d \in Blocks \ {b} : pcOn'[d] = pcOn[d] /\ loopOn'[d] = loopOn[d]
    BY <1>1, <1>2, <1>3 DEF pcOn, loopOn
  <2>2. pcOn'[b] = "loop"
    BY <1>4 DEF pcOn
  <2>. QED BY <1>4, <1>6, <1>10, <2>1, <2>2 DEF V!PostOn, V!Blocks, Blocks
<1>13. HostTypes'
  BY <1>1, <1>9 DEF HostTypes
<1>14. HostPlace'
  BY <1>1, <1>2 DEF HostPlace, HostRounds
<1>. QED BY <1>11, <1>12, <1>13, <1>14

-------------------------------------------------------------------------------
(* Every step keeps the invariant, and is a step of the stream.            *)

LEMMA HostStep ==
  ASSUME HostInv, poster = "host", [OffloadNext]_allVars
  PROVE  /\ HostInv' /\ poster' = "host"
         /\ [Stream!StreamNext]_(Stream!svars)
<1>. USE SendAssumption, BlocksFitOverhead, WholeRounds DEF V!NumPackages, NumPackages
<1>. DEFINE Announced == [Stream!StreamNext]_(Stream!svars)
<1>0. V!IInv /\ V!SInv /\ HostTypes /\ HostPlace /\ V!Blocks = Blocks
  BY DEF HostInv, V!Blocks, Blocks
<1>1. ASSUME NEW len \in Lengths, HostCall(len)
      PROVE  HostInv' /\ poster' = "host" /\ Announced
  <2>1. /\ rounds = 0 /\ len % (NumBlocks * MaxBlock) = 0 /\ PreStart(len) /\ UNCHANGED hostVars
    BY <1>1 DEF HostCall, OnGpu
  <2>2. V!PreStart(len) /\ HostTypes' /\ HostPlace'
    BY <1>0, <2>1, PlanSteps
  <2>3. V!IInv'
    BY <1>0, <2>2, V!PreStartStep
  <2>4. V!SInv'
    BY <1>0, <2>2, V!StreamPreStart
  <2>. QED BY <2>1, <2>2, <2>3, <2>4 DEF HostInv, hostVars, PreStart, fpgaVars, Stream!svars
<1>2. CASE OnGpu(PrePlan)
  <2>1. PrePlan /\ UNCHANGED hostVars /\ length \in Lengths
    BY <1>0, <1>2 DEF OnGpu, PrePlan, V!IInv, V!PlanInv
  <2>2. V!PrePlan /\ HostTypes' /\ HostPlace'
    BY <1>0, <2>1, PlanSteps
  <2>3. V!IInv'
    BY <1>0, <2>2, V!PrePlanStep
  <2>4. V!SInv'
    BY <1>0, <2>2, V!StreamPrePlan
  <2>. QED BY <1>2, <2>1, <2>2, <2>3, <2>4 DEF HostInv, hostVars, PrePlan, fpgaVars, Stream!svars
<1>3. CASE EnterLoop \/ HostDone
  <2>1. (V!SendStart \/ V!SendEnd) /\ HostTypes' /\ HostPlace'
    BY <1>3, EnterLoopSteps, HostDoneSteps
  <2>2. V!IInv'
    BY <1>0, <2>1, V!SendStartStep, V!SendEndStep
  <2>3. V!SInv'
    BY <1>0, <2>1, <2>2, V!QuietSteps
  <2>. QED BY <1>3, <2>1, <2>2, <2>3 DEF HostInv, EnterLoop, HostDone, fpgaVars, Stream!svars
<1>4. CASE Launch \/ HostNextRound
  <2>1. V!LoopTests /\ HostTypes' /\ HostPlace'
    BY <1>4, LaunchSteps, NextRoundSteps
  <2>2. V!IInv'
    BY <1>0, <2>1, V!LoopTestsStep
  <2>3. V!SInv'
    BY <1>0, <2>1, <2>2, V!QuietSteps
  <2>. QED BY <1>4, <2>1, <2>2, <2>3 DEF HostInv, Launch, HostNextRound, vars, fpgaVars, Stream!svars
<1>5. CASE Sync \/ HostPost
  <2>1. UNCHANGED V!vars /\ HostTypes' /\ HostPlace'
    BY <1>5, SyncSteps, HostPostSteps
  <2>2. V!IInv'
    BY <1>0, <2>1, V!StutterStep
  <2>3. V!SInv'
    BY <1>0, <2>1, <2>2, V!QuietSteps
  <2>. QED BY <1>5, <2>1, <2>2, <2>3 DEF HostInv, Sync, HostPost, vars, fpgaVars, Stream!svars
<1>6. ASSUME NEW b \in Blocks, HandOver(b)
      PROVE  HostInv' /\ poster' = "host" /\ Announced
  <2>1. V!PassOn(b) /\ V!PostOn(b) /\ HostTypes' /\ HostPlace'
    BY <1>6, HandOverSteps
  <2>2. V!IInv'
    BY <1>0, <2>1, V!PassOnStep
  <2>3. V!SInv'
    BY <1>0, <2>1, V!StreamPosted
  <2>. QED BY <1>6, <2>1, <2>2, <2>3 DEF HostInv, HandOver, fpgaVars, Stream!svars
<1>7. ASSUME NEW b \in Blocks, OnGpu(FlowControl(b) \/ Copy(b) \/ TakeTurn(b)) \/ OnGpu(TurnTimeout(b))
      PROVE  HostInv' /\ poster' = "host" /\ Announced
  <2>1. UNCHANGED hostVars /\ (FlowControl(b) \/ Copy(b) \/ TakeTurn(b) \/ TurnTimeout(b))
    BY <1>7 DEF OnGpu
  <2>2. /\ FlowControl(b) => V!FlowControl(b)
        /\ Copy(b) => V!Copy(b)
        /\ TakeTurn(b) => V!TakeTurn(b)
        /\ TurnTimeout(b) => V!TurnTimeout(b)
        /\ HostTypes' /\ HostPlace'
    BY <1>0, <2>1, BlockSteps
  <2>3. V!IInv'
    BY <1>0, <2>1, <2>2, V!FlowControlStep, V!CopyStep, V!TakeTurnStep, V!TurnTimeoutStep
  <2>4. V!SInv'
    <3>1. CASE V!Copy(b)
      BY <1>0, <2>3, <3>1, V!StreamCopy
    <3>2. CASE V!FlowControl(b) \/ V!TakeTurn(b) \/ V!TurnTimeout(b)
      BY <1>0, <2>3, <3>2, V!QuietSteps
    <3>. QED BY <2>1, <2>2, <3>1, <3>2
  <2>5. Announced
    <3>1. CASE TakeTurn(b)
      <4>1. V!TakeTurn(b)
        BY <2>2, <3>1
      <4>2. /\ pre[V!Pkg(b)].len \in 1..MaxBlock
            /\ writeCount + pre[V!Pkg(b)].len - Len(taken) <= V!Window + NumBlocks * MaxBlock
            /\ taken' = taken /\ writeCount' = writeCount + pre[V!Pkg(b)].len
        BY <1>0, <2>3, <4>1, V!TurnAnnounces
      <4>3. Stream!Announce(pre[V!Pkg(b)].len)
        BY <4>2 DEF Stream!Announce, V!Window, Window
      <4>. QED BY <4>2, <4>3 DEF Stream!StreamNext
    <3>2. CASE ~TakeTurn(b)
      BY <2>1, <3>2 DEF FlowControl, Copy, TurnTimeout, fpgaVars, Stream!svars
    <3>. QED BY <3>1, <3>2
  <2>. QED BY <2>1, <2>2, <2>3, <2>4, <2>5 DEF HostInv, hostVars
<1>8. CASE OnGpu(FpgaStep)
  <2>1. UNCHANGED hostVars /\ (Fetch \/ Report \/ ReadInfo)
    BY <1>8 DEF OnGpu, FpgaStep
  <2>2. /\ Fetch => V!Fetch /\ Head(cmdsOn) = Head(cmds)
        /\ Report => V!Report
        /\ ReadInfo => V!ReadInfo
        /\ HostTypes' /\ HostPlace'
    BY <1>0, <2>1, FpgaSteps
  <2>3. V!IInv'
    BY <1>0, <2>1, <2>2, V!FetchStep, V!ReportStep, V!ReadInfoStep
  <2>4. CASE Fetch
    <3>1. /\ Head(cmdsOn).len \in 1..MaxBlock
          /\ Len(taken) + Head(cmdsOn).len <= writeCount
          /\ taken' = [u \in 1..(Len(taken) + Head(cmdsOn).len) |-> u - 1]
          /\ V!SInv'
      BY <1>0, <2>2, <2>4, V!FetchTakes
    <3>2. Stream!Take(Head(cmdsOn).len)
      BY <2>4, <3>1 DEF Stream!Take, Fetch
    <3>3. Announced
      BY <3>1, <3>2 DEF Stream!StreamNext
    <3>. QED BY <2>1, <2>2, <2>3, <3>1, <3>3 DEF HostInv, hostVars
  <2>5. CASE Report \/ ReadInfo
    <3>1. V!SInv'
      BY <1>0, <2>2, <2>3, <2>5, V!QuietSteps
    <3>. QED BY <2>1, <2>2, <2>3, <2>5, <3>1 DEF HostInv, hostVars, Report, ReadInfo, Stream!svars
  <2>. QED BY <2>1, <2>4, <2>5
<1>9. CASE UNCHANGED allVars
  <2>1. UNCHANGED <<vars, hostVars>>
    BY <1>9 DEF allVars
  <2>2. pcOn' = pcOn /\ loopOn' = loopOn /\ Left' = Left
    BY <2>1, SameBlocks, SameLeft DEF vars, kernelVars, blockVars, hostVars
  <2>3. UNCHANGED V!vars
    BY <2>1, <2>2 DEF V!vars, V!kernelVars, V!planVars, V!blockVars, V!fpgaVars, cmdsOn,
                      vars, kernelVars, planVars, blockVars, fpgaVars
  <2>4. V!IInv'
    BY <1>0, <2>3, V!StutterStep
  <2>5. V!SInv'
    BY <1>0, <2>3, <2>4, V!QuietSteps
  <2>6. HostTypes' /\ HostPlace'
    BY <1>0, <2>1 DEF HostTypes, HostPlace, HostRounds, Round, vars, kernelVars, planVars,
                      blockVars, fpgaVars, hostVars
  <2>. QED BY <2>1, <2>4, <2>5, <2>6 DEF HostInv, hostVars, vars, fpgaVars, Stream!svars
<1>10. ASSUME ByBlocks(Next)
       PROVE  FALSE
  BY <1>10 DEF ByBlocks
<1>. QED BY <1>1, <1>2, <1>3, <1>4, <1>5, <1>6, <1>7, <1>8, <1>9, <1>10
         DEF OffloadNext, HostLoop, HostBlockStep

LEMMA BlocksStep ==
  ASSUME poster = "blocks", hostPc = "idle", IInv, SInv, [OffloadNext]_allVars
  PROVE  /\ IInv' /\ SInv' /\ poster' = "blocks" /\ hostPc' = "idle"
         /\ [Stream!StreamNext]_(Stream!svars)
<1>1. UNCHANGED hostVars /\ [Next]_vars
  BY DEF OffloadNext, ByBlocks, HostCall, OnGpu, HostLoop, EnterLoop, Launch, Sync, HostPost,
         HostNextRound, HostDone, HostBlockStep, HandOver, allVars
<1>2. IInv'
  BY <1>1, IInvStep
<1>3. SInv'
  BY <1>1, <1>2, SInvStep
<1>. QED BY <1>1, <1>2, <1>3, StreamStep DEF hostVars

LEMMA OffloadStep ==
  ASSUME OffloadInv, [OffloadNext]_allVars
  PROVE  OffloadInv' /\ [Stream!StreamNext]_(Stream!svars)
<1>1. CASE poster = "blocks"
  BY <1>1, BlocksStep DEF OffloadInv
<1>2. CASE poster = "host"
  BY <1>2, HostStep DEF OffloadInv
<1>. QED BY <1>1, <1>2 DEF OffloadInv

LEMMA OffloadInductive == OffloadSpec => []OffloadInv
<1>1. OffloadInv /\ [OffloadNext]_allVars => OffloadInv'
  BY OffloadStep
<1>. QED BY <1>1, OffloadStart, PTL DEF OffloadSpec

-------------------------------------------------------------------------------
(* Nobody waits for what only a waiting one can bring about.               *)

\* What all blocks of a round but one may hold fits the window.
RoundFitsWindow == (NumBlocks - 1) * MaxBlock <= Window

\* While the kernel of the call, or of the round, runs, its blocks are done, or
\* one of them has a step, or the FPGA has one that brings the window on,
\* unless the block whose turn it is has run into the five seconds.
NoneStuck ==
  (IF poster = "blocks" THEN phase = "send" ELSE hostPc = "sync") =>
    \/ \A b \in Blocks : pc[b] = "done"
    \/ \E b \in Blocks : BlockCanMove(b)
    \/ FpgaCanMove
    \/ \E b \in Blocks : pc[b] = "hung" /\ mutexSender = Pkg(b)

LEMMA LeastNumber ==
  ASSUME NEW T \in SUBSET Nat, T # {}
  PROVE  \E n \in T : \A m \in T : ~(m < n)
<1>1. PICK n \in T : \A m \in T : ~(<<m, n>> \in OpToRel(<, Nat))
  BY NatLessThanWellFounded, WFMin
<1>2. ASSUME NEW m \in T PROVE ~(m < n)
  <2>1. <<m, n>> \in Nat \X Nat
    OBVIOUS
  <2>. QED BY <1>1, <2>1 DEF OpToRel
<1>. QED BY <1>2

\* Pieces of at most MaxBlock units, one after the other.
LEMMA PiecesBound ==
  ASSUME NEW n \in Nat, NEW at \in [1..(n + 1) -> Nat],
         \A k \in 1..n : at[k + 1] <= at[k] + MaxBlock
  PROVE  at[n + 1] <= at[1] + n * MaxBlock
<1>. DEFINE Over(k) == ~(at[k + 1] <= at[1] + k * MaxBlock)
            T == {k \in 0..n : Over(k)}
<1>. SUFFICES ASSUME T # {} PROVE FALSE
  OBVIOUS
<1>1. PICK l \in T : \A m \in T : ~(m < l)
  <2>1. T \in SUBSET Nat
    OBVIOUS
  <2>. HIDE DEF T
  <2>. QED BY <2>1, LeastNumber
<1>2. l \in 0..n /\ Over(l)
  OBVIOUS
<1>3. l # 0
  <2>1. 1 \in 1..(n + 1) /\ at[1] \in Nat /\ MaxBlock \in Nat
    BY ConstFacts
  <2>2. ~Over(0)
    BY <2>1
  <2>. QED BY <1>2, <2>2
<1>4. PICK j \in 0..n : j + 1 = l /\ j + 1 \in 1..n
  <2>1. l - 1 \in 0..n /\ (l - 1) + 1 = l /\ l \in 1..n
    BY <1>2, <1>3
  <2>. QED BY <2>1
<1>5. ~Over(j)
  BY <1>1, <1>4
<1>6. (j + 1) * MaxBlock = j * MaxBlock + MaxBlock /\ j * MaxBlock \in Nat
  BY MulSucc, ConstFacts
<1>7. at[(j + 1) + 1] <= at[j + 1] + MaxBlock
  BY <1>4
<1>8. MaxBlock \in Nat
  BY ConstFacts
<1>9. at[1] \in Nat /\ at[j + 1] \in Nat /\ at[(j + 1) + 1] \in Nat
  <2>1. 1 \in 1..(n + 1) /\ j + 1 \in 1..(n + 1) /\ (j + 1) + 1 \in 1..(n + 1)
    BY <1>4
  <2>. QED BY <2>1
<1>10. at[(j + 1) + 1] <= at[1] + (j + 1) * MaxBlock
  <2>1. PICK p \in Nat : p = j * MaxBlock
    BY <1>6
  <2>2. PICK u \in Nat : u = at[1]
    BY <1>9
  <2>3. PICK v \in Nat : v = at[j + 1]
    BY <1>9
  <2>4. v <= u + p
    BY <1>5, <2>1, <2>2, <2>3
  <2>5. PICK w \in Nat : w = at[(j + 1) + 1]
    BY <1>9
  <2>6. w <= v + MaxBlock
    BY <1>7, <2>3, <2>5
  <2>7. w <= u + (p + MaxBlock)
    BY <1>8, <2>4, <2>6
  <2>8. (j + 1) * MaxBlock = p + MaxBlock
    BY <1>6, <2>1
  <2>. QED BY <2>2, <2>5, <2>7, <2>8
<1>. QED BY <1>2, <1>4, <1>10

\* With nothing left for the FPGA to read or to report, what is announced and
\* not read is what the blocks of this round have left to the host.
LEMMA RoundIsOpen ==
  ASSUME HostInv, hostPc = "sync", InfoBound # 0, RoundFitsWindow, ~FpgaCanMove,
         \A b \in Blocks : pc[b] # "post", mutexSender < Round + NumBlocks
  PROVE  WindowOpen
<1>. DEFINE n == mutexSender - Round
<1>1. infos = <<>> /\ cmds = <<>>
  BY DEF FpgaCanMove
<1>2. ~(readCount < Len(taken))
  <2>1. Len(infos) < InfoBound
    BY <1>1, SendAssumption
  <2>. QED BY <1>1, <2>1 DEF FpgaCanMove, LastReport
<1>3. /\ n \in 0..NumBlocks /\ Left \in Seq(Command) /\ Len(Left) = n
      /\ Round \in Nat /\ mutexSender \in Nat
  <2>1. HostTypes /\ HostPlace /\ V!IInv
    BY DEF HostInv
  <2>2. /\ Waiting \in 0..NumBlocks /\ Left \in Seq(Command) /\ Len(Left) = Waiting
    BY <2>1, LeftSeq
  <2>3. Waiting = n
    BY DEF Waiting
  <2>. QED BY <2>1, <2>2, <2>3, RoundFacts DEF HostTypes, V!IInv, V!TypeOK
<1>4. cmdsOn = Left
  BY <1>1, <1>3, ConcatEmptySeq DEF cmdsOn
<1>5. V!Posted = writeCount
  <2>1. \A b \in Blocks : pcOn[b] # "post"
    BY DEF pcOn
  <2>. QED BY <2>1 DEF V!Posted, V!Blocks, Blocks
<1>. HIDE DEF n
<1>6. PICK at \in [1..(n + 1) -> Nat] :
        /\ at[1] = Len(taken) /\ at[n + 1] = writeCount
        /\ \A k \in 1..n : cmdsOn[k].len \in 1..MaxBlock /\ at[k + 1] = at[k] + cmdsOn[k].len
  <2>1. PICK P \in SUBSET V!Place, at \in [1..(Len(cmdsOn) + 1) -> Nat] : V!Queue(P, at)
    BY DEF HostInv, V!SInv, V!QueueInv
  <2>2. Len(cmdsOn) = n
    BY <1>3, <1>4
  <2>. QED BY <1>5, <2>1, <2>2 DEF V!Queue
<1>7. writeCount <= Len(taken) + n * MaxBlock
  <2>1. ASSUME NEW k \in 1..n
        PROVE  at[k + 1] <= at[k] + MaxBlock
    <3>1. PICK m \in 1..MaxBlock : at[k + 1] = at[k] + m
      BY <1>6
    <3>2. k \in 1..(n + 1) /\ MaxBlock \in Nat
      BY <1>3, ConstFacts
    <3>3. at[k] \in Nat
      BY <3>2
    <3>. QED BY <3>1, <3>2, <3>3
  <2>2. n \in Nat
    BY <1>3
  <2>3. at[n + 1] <= at[1] + n * MaxBlock
    BY <2>1, <2>2, PiecesBound
  <2>. QED BY <1>6, <2>3
<1>8. n * MaxBlock <= Window
  <2>1. n <= NumBlocks - 1 /\ n \in Nat /\ NumBlocks - 1 \in Nat
    BY <1>3, ConstFacts DEF n
  <2>2. n * MaxBlock <= (NumBlocks - 1) * MaxBlock /\ n * MaxBlock \in Nat
        /\ (NumBlocks - 1) * MaxBlock \in Nat
    BY <2>1, ConstFacts, MulMono
  <2>. QED BY <2>2, ConstFacts DEF RoundFitsWindow
<1>9. /\ writeCount \in Nat /\ readCount \in Nat /\ n * MaxBlock \in Nat
      /\ Len(taken) \in Nat
  BY <1>3, <1>6, ConstFacts DEF HostInv, V!IInv, V!TypeOK
<1>. QED BY <1>2, <1>7, <1>8, <1>9, ConstFacts DEF WindowOpen

LEMMA RoundNeverStuck ==
  ASSUME HostInv, hostPc = "sync", InfoBound # 0, RoundFitsWindow, ~FpgaCanMove,
         \A b \in Blocks : ~BlockCanMove(b)
  PROVE  \/ \A b \in Blocks : pc[b] = "done"
         \/ \E b \in Blocks : pc[b] = "hung" /\ mutexSender = Pkg(b)
<1>1. HostTypes /\ HostPlace /\ V!IInv /\ phase = "send"
  BY DEF HostInv, HostPlace
<1>2. PICK b \in Blocks : V!Pkg(b) = mutexSender
  <2>1. \E b \in V!Blocks : V!Pkg(b) = mutexSender
    BY <1>1, V!NextIsHeld, SendAssumption, BlocksFitOverhead, WholeRounds
       DEF V!IInv, V!NumPackages, NumPackages
  <2>. QED BY <2>1 DEF V!Blocks, Blocks
<1>3. /\ Round \in Nat /\ NumBlocks \in Nat \ {0}
      /\ \A c \in Blocks : c \in 0..(NumBlocks - 1)
      /\ \A c \in Blocks : pc[c] # "done" => V!Pkg(c) = Round + c /\ V!Pkg(c) = Pkg(c)
      /\ \A c \in Blocks : pc[c] = "done" => V!Pkg(c) = Round + NumBlocks + c
  BY <1>1, RoundFacts, ConstFacts DEF HostTypes, HostPlace, V!Pkg, Pkg, loopOn, Blocks
<1>4. \A c \in Blocks : mutexSender <= V!Pkg(c)
  BY <1>1 DEF V!IInv, V!TurnInv, V!Blocks, Blocks
<1>5. CASE pc[b] = "done"
  <2>1. \A c \in Blocks : pc[c] = "done"
    BY <1>2, <1>3, <1>4, <1>5
  <2>. QED BY <2>1
<1>6. CASE pc[b] # "done"
  <2>1. mutexSender = Pkg(b) /\ mutexSender < Round + NumBlocks
    BY <1>2, <1>3, <1>6
  <2>2. \A c \in Blocks : pc[c] # "post"
    BY DEF BlockCanMove
  <2>3. WindowOpen
    BY <2>1, <2>2, RoundIsOpen
  <2>4. pc[b] \in {"flow", "copy", "turn", "post", "hung"}
    BY <1>1, <1>6 DEF HostTypes
  <2>5. pc[b] = "hung"
    BY <2>1, <2>3, <2>4 DEF BlockCanMove
  <2>. QED BY <2>1, <2>5
<1>. QED BY <1>5, <1>6

-------------------------------------------------------------------------------
(* The theorems.                                                           *)

\* Whoever posts, every variable keeps its type: no command, posted or left
\* for the host, reaches outside the connection's ring, and the plan never
\* overruns the pre_* arrays.
THEOREM OffloadTypeCorrect == OffloadSpec => []TypeOK
<1>1. OffloadInv => TypeOK
  <2>1. CASE poster = "blocks"
    BY <2>1 DEF OffloadInv, IInv
  <2>2. CASE poster = "host" /\ HostInv
    <3>1. V!TypeOK /\ HostTypes
      BY <2>2 DEF HostInv, V!IInv
    <3>. QED BY <3>1 DEF V!TypeOK, TypeOK, HostTypes, V!Package, Package, V!InRing, InRing, V!WrapAt,
                         WrapAt, V!Units, Units
  <2>. QED BY <2>1, <2>2 DEF OffloadInv
<1>. QED BY <1>1, OffloadInductive, PTL

\* Whoever posts, the unsynchronised += on send_write_count has one writer at
\* a time.
THEOREM OffloadTurnExclusive == OffloadSpec => []OneBlockHasTheTurn
<1>1. OffloadInv => OneBlockHasTheTurn
  <2>. SUFFICES ASSUME OffloadInv, NEW b \in Blocks, NEW c \in Blocks, InTurn(b), InTurn(c)
                PROVE  b = c
    BY DEF OneBlockHasTheTurn, InTurn
  <2>1. CASE poster = "blocks"
    <3>1. Pkg(b) = Pkg(c)
      BY <2>1 DEF OffloadInv, IInv, TurnInv
    <3>. QED BY <2>1, <3>1, PkgUnique DEF OffloadInv, IInv
  <2>2. CASE poster = "host" /\ HostInv
    <3>1. V!InTurn(b) /\ V!InTurn(c) /\ b \in V!Blocks /\ c \in V!Blocks
      BY DEF InTurn, V!InTurn, pcOn, V!Blocks, Blocks
    <3>2. V!Pkg(b) = V!Pkg(c) /\ V!TypeOK /\ V!TurnInv
      BY <2>2, <3>1 DEF HostInv, V!IInv, V!TurnInv
    <3>. QED BY <3>1, <3>2, V!PkgUnique, SendAssumption, BlocksFitOverhead, WholeRounds
             DEF V!NumPackages, NumPackages
  <2>. QED BY <2>1, <2>2 DEF OffloadInv
<1>. QED BY <1>1, OffloadInductive, PTL

\* Whoever posts, no block reads an entry of the pre_* arrays beyond the
\* call's plan, where the packages of every call are a multiple of the grid
\* (WholeRounds): the rounds the host counts are those of the plan.
THEOREM OffloadInPlan == OffloadSpec => []BlocksStayInPlan
<1>1. OffloadInv => BlocksStayInPlan
  <2>. SUFFICES ASSUME OffloadInv, NEW b \in Blocks,
                       pc[b] \in {"flow", "copy", "turn", "post", "pass"}
                PROVE  Pkg(b) < preCnt
    BY DEF BlocksStayInPlan
  <2>1. CASE poster = "blocks"
    <3>1. TypeOK /\ PlanInv /\ TurnInv /\ Working(b)
      BY <2>1 DEF OffloadInv, IInv, Working
    <3>2. Pkg(b) \in 0..(preCnt - 1)
      BY <3>1, WorkingInPlan
    <3>. QED BY <3>1, <3>2 DEF TypeOK
  <2>2. CASE poster = "host" /\ HostInv
    <3>1. V!TypeOK /\ V!PlanInv /\ V!TurnInv /\ V!Working(b) /\ b \in V!Blocks
      BY <2>2 DEF HostInv, V!IInv, V!Working, pcOn, V!Blocks, Blocks
    <3>2. V!Pkg(b) \in 0..(preCnt - 1)
      BY <3>1, V!WorkingInPlan, SendAssumption, BlocksFitOverhead, WholeRounds
         DEF V!NumPackages, NumPackages
    <3>3. V!Pkg(b) = Pkg(b)
      BY <2>2 DEF HostInv, HostPlace, V!Pkg, Pkg, loopOn
    <3>. QED BY <3>1, <3>2, <3>3 DEF V!TypeOK
  <2>. QED BY <2>1, <2>2 DEF OffloadInv
<1>. QED BY <1>1, OffloadInductive, PTL

\* Whoever posts, what is announced is at most the window and one package per
\* block ahead of the FPGA's reports.
THEOREM OffloadBounded == OffloadSpec => []FlowBound
<1>1. OffloadInv => FlowBound
  BY DEF OffloadInv, HostInv, IInv, CountInv, Bound, FlowBound, V!IInv, V!CountInv, V!Bound, V!Window, Window
<1>. QED BY <1>1, OffloadInductive, PTL

\* Whoever posts, a call that has ended announced exactly its units.
THEOREM OffloadComplete == OffloadSpec => []CallComplete
<1>1. OffloadInv => CallComplete
  BY DEF OffloadInv, HostInv, IInv, CountInv, CallComplete, V!IInv, V!CountInv
<1>. QED BY <1>1, OffloadInductive, PTL

\* Whoever posts, no block copies over a unit the FPGA has still to read,
\* though in the host's form it learns of a package only when the whole round
\* is over.
THEOREM OffloadNothingUnreadLost == OffloadSpec => []NoUnreadOverwritten
<1>1. OffloadInv => NoUnreadOverwritten
  <2>. SUFFICES ASSUME OffloadInv PROVE NoUnreadOverwritten
    OBVIOUS
  <2>1. CASE poster = "blocks"
    BY <2>1, NothingOverwritten DEF OffloadInv, SInv
  <2>2. CASE poster = "host" /\ HostInv
    <3>1. V!NoUnreadOverwritten
      BY <2>2, V!NothingOverwritten, SendAssumption, BlocksFitOverhead, WholeRounds
         DEF HostInv, V!SInv, V!NumPackages, NumPackages
    <3>2. \A b \in Holding : b \in V!Holding /\ b \in Blocks /\ V!Pkg(b) = Pkg(b)
      BY <2>2 DEF HostInv, HostPlace, Holding, V!Holding, V!Blocks, Blocks, pcOn, V!Pkg, Pkg, loopOn
    <3>3. \A k \in 1..Len(cmds) : k \in 1..Len(cmdsOn) /\ cmdsOn[k] = cmds[k]
      <4>1. cmds \in Seq(Command) /\ Left \in Seq(Command)
        BY <2>2, LeftSeq DEF HostInv, HostTypes
      <4>. QED BY <4>1, ConcatProperties DEF cmdsOn
    <3>. QED BY <3>1, <3>2, <3>3 DEF V!NoUnreadOverwritten, NoUnreadOverwritten, V!Region, Region
  <2>. QED BY <2>1, <2>2 DEF OffloadInv
<1>. QED BY <1>1, OffloadInductive, PTL

\* Whoever posts, the FPGA reads the caller's units, each once, in order and
\* with the caller's content.
THEOREM OffloadIsStream == OffloadSpec => ImplementsStream
<1>1. OffloadInit => Stream!StreamInit
  BY DEF OffloadInit, Init, Stream!StreamInit
<1>2. OffloadInv /\ [OffloadNext]_allVars => [Stream!StreamNext]_(Stream!svars)
  BY OffloadStep
<1>. QED BY <1>1, <1>2, OffloadInductive, PTL DEF OffloadSpec, ImplementsStream, Stream!StreamSpec

\* Whoever posts, no kernel of a call comes to a standstill.  Where the host
\* posts, the FPGA learns of a round only when all its blocks are done, so what
\* the others hold has to fit the window: else a block waits for the window,
\* the host for the block, and the FPGA for the host.
THEOREM OffloadNeverStuck ==
  ASSUME InfoBound # 0, RoundFitsWindow
  PROVE  OffloadSpec => []NoneStuck
<1>1. OffloadInv => NoneStuck
  <2>. SUFFICES ASSUME OffloadInv PROVE NoneStuck
    OBVIOUS
  <2>1. CASE poster = "blocks"
    <3>1. NeverStuck
      BY <2>1, StuckNowhere DEF OffloadInv
    <3>. QED BY <2>1, <3>1 DEF NeverStuck, NoneStuck
  <2>2. CASE poster = "host" /\ HostInv
    BY <2>2, RoundNeverStuck DEF NoneStuck
  <2>. QED BY <2>1, <2>2 DEF OffloadInv
<1>. QED BY <1>1, OffloadInductive, PTL
===============================================================================
