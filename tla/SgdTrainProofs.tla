---------------------------- MODULE SgdTrainProofs ----------------------------
(***************************************************************************)
(* Proofs about the CPU baseline, for every number of processes, threads,  *)
(* minibatches and epochs and for both programs: its barriers keep a       *)
(* process's threads apart, and every step of the training uses the whole  *)
(* dot products of its own minibatch and model.                            *)
(***************************************************************************)
EXTENDS SgdTrain, FiniteSetTheorems, WellFoundedInduction, TLAPS

-------------------------------------------------------------------------------
(* Barriers a member has come to, and passed, in the minibatch it is in.   *)

ThreadCame == <<1, 1, 2, 3, 3, 3, 4>>
MainCame   == <<1, 1, 2, 2, 3, 4, 4>>
ThreadGone == <<0, 1, 1, 2, 3, 3, 3>>
MainGone   == <<0, 1, 1, 2, 2, 3, 4>>

Came(p, k) == IF k \in Loop THEN IF p = Main THEN MainCame[k] ELSE ThreadCame[k] ELSE 0
Gone(p, k) == IF k \in Loop THEN IF p = Main THEN MainGone[k] ELSE ThreadGone[k] ELSE 0

\* Barriers passed since the start.
Passed(r, p) == 4 * step[r][p] + Gone(p, pc[r][p])

-------------------------------------------------------------------------------
(* The inductive invariant.                                                *)

PlaceTypes ==
  /\ mode \in {"model", "data"} /\ batch \in Batches
  /\ pc \in [Ranks -> [Members -> 0..9]]
  /\ step \in [Ranks -> [Members -> 0..Steps]]

\* Where the members of a process can be.
PlaceInv ==
  \A r \in Ranks : \A p \in Members :
    /\ pc[r][p] \in Loop => step[r][p] < Steps
    /\ pc[r][p] = EpochEnd => p = Main
    /\ pc[r][Main] = Unstarted => pc[r][p] = Unstarted
    /\ pc[r][p] = Unstarted => step[r][p] = 0
    /\ pc[r][p] = End /\ p # Main => step[r][p] = Steps
    /\ pc[r][Main] = End =>
         step[r][Main] = Steps \/ (p # Main => pc[r][p] = Unstarted)

\* Nobody has passed a barrier that another member has not come to.
BarrierInv ==
  \A r \in Ranks : \A p, q \in Members :
    Passed(r, p) <= 4 * step[r][q] + Came(q, pc[r][q])

IInv == PlaceTypes /\ PlaceInv /\ BarrierInv

-------------------------------------------------------------------------------

LEMMA ConstFacts ==
  /\ NumRanks \in Nat \ {0} /\ NumThreads \in Nat \ {0} /\ Steps \in Nat \ {0}
  /\ Batches \subseteq Nat /\ Threads \subseteq Members /\ Main \in Members /\ Main \notin Threads
  /\ \A p \in Members : p = Main \/ p \in Threads
<1>1. PerEpoch \in Nat \ {0} /\ Epochs \in Nat \ {0}
  BY TrainAssumption
<1>2. PerEpoch * Epochs \in Nat \ {0}
  BY <1>1
<1>. QED BY <1>2, TrainAssumption DEF Steps, Threads, Members, Main

LEMMA Adding ==
  ASSUME NEW S, IsFiniteSet(S), NEW n \in Nat, Cardinality(S) = n, NEW e, e \notin S
  PROVE  IsFiniteSet(S \cup {e}) /\ Cardinality(S \cup {e}) = n + 1
  BY FS_AddElement

LEMMA Counting ==
  /\ Cardinality({}) = 0 /\ Cardinality({1}) = 1 /\ Cardinality({1, 3}) = 2
  /\ Cardinality({1, 3, 4}) = 3 /\ Cardinality({1, 3, 5}) = 3
  /\ Cardinality({1, 3, 4, 7}) = 4 /\ Cardinality({1, 3, 5, 6}) = 4
<1>1. Cardinality({}) = 0 /\ IsFiniteSet({1}) /\ Cardinality({1}) = 1
  BY FS_EmptySet, FS_Singleton
<1>2. IsFiniteSet({1} \cup {3}) /\ Cardinality({1} \cup {3}) = 1 + 1
  <2>1. 3 \notin {1}
    OBVIOUS
  <2>. QED BY <1>1, <2>1, Adding
<1>3. {1} \cup {3} = {1, 3} /\ 1 + 1 = 2
  OBVIOUS
<1>4. ASSUME NEW c \in {4, 5}
      PROVE  IsFiniteSet({1, 3} \cup {c}) /\ Cardinality({1, 3} \cup {c}) = 2 + 1
  <2>1. c \notin {1, 3}
    OBVIOUS
  <2>2. IsFiniteSet({1, 3}) /\ Cardinality({1, 3}) = 2
    BY <1>2, <1>3
  <2>. QED BY <2>1, <2>2, Adding
<1>5. {1, 3} \cup {4} = {1, 3, 4} /\ {1, 3} \cup {5} = {1, 3, 5} /\ 2 + 1 = 3
  OBVIOUS
<1>6. IsFiniteSet({1, 3, 4} \cup {7}) /\ Cardinality({1, 3, 4} \cup {7}) = 3 + 1
  <2>1. 7 \notin {1, 3, 4}
    OBVIOUS
  <2>2. IsFiniteSet({1, 3, 4}) /\ Cardinality({1, 3, 4}) = 3
    BY <1>4, <1>5
  <2>. QED BY <2>1, <2>2, Adding
<1>7. IsFiniteSet({1, 3, 5} \cup {6}) /\ Cardinality({1, 3, 5} \cup {6}) = 3 + 1
  <2>1. 6 \notin {1, 3, 5}
    OBVIOUS
  <2>2. IsFiniteSet({1, 3, 5}) /\ Cardinality({1, 3, 5}) = 3
    BY <1>4, <1>5
  <2>. QED BY <2>1, <2>2, Adding
<1>8. {1, 3, 4} \cup {7} = {1, 3, 4, 7} /\ {1, 3, 5} \cup {6} = {1, 3, 5, 6} /\ 3 + 1 = 4
  OBVIOUS
<1>9. Cardinality({1, 3}) = 2 /\ Cardinality({1, 3, 4}) = 3 /\ Cardinality({1, 3, 5}) = 3
  BY <1>2, <1>3, <1>4, <1>5
<1>. QED BY <1>1, <1>6, <1>7, <1>8, <1>9

LEMMA ArrivedIs ==
  ASSUME NEW r \in Ranks, NEW p \in Members, pc[r][p] \in 0..9, step[r][p] \in Nat
  PROVE  Arrived(r, p) = 4 * step[r][p] + Came(p, pc[r][p])
<1>. DEFINE j == pc[r][p]
            B(T) == {k \in T : Program(p)[k] = "barrier"}
            S == {k \in Loop : j \in k..7}
<1>1. Arrived(r, p) = Cardinality(B(Loop)) * step[r][p] + Cardinality(B(S))
  BY DEF Arrived, Barriers
<1>. HIDE DEF j
<1>2. j \in 0..9 /\ step[r][p] \in Nat
  BY DEF j
<1>3. CASE p = Main
  <2>1. \A k \in 1..7 : Program(p)[k] = "barrier" <=> k \in {1, 3, 5, 6}
    BY <1>3 DEF Program, MainProgram
  <2>2. B(Loop) = {1, 3, 5, 6}
    BY <2>1 DEF Loop
  <2>3. B(S) = {k \in {1, 3, 5, 6} : j \in k..7}
    BY <2>1 DEF Loop
  <2>4. Cardinality(B(S)) = Came(p, j)
    <3>1. CASE j \in {0, 8, 9}
      <4>1. B(S) = {}
        BY <2>3, <3>1
      <4>2. Cardinality(B(S)) = 0
        BY <4>1, Counting
      <4>3. Came(p, j) = 0
        BY <3>1 DEF Came, Loop
      <4>. QED BY <4>2, <4>3
    <3>2. CASE j \in {1, 2}
      <4>1. B(S) = {1}
        BY <2>3, <3>2
      <4>2. Cardinality(B(S)) = 1
        BY <4>1, Counting
      <4>3. Came(p, j) = 1
        BY <1>3, <3>2 DEF Came, Loop, MainCame
      <4>. QED BY <4>2, <4>3
    <3>3. CASE j \in {3, 4}
      <4>1. B(S) = {1, 3}
        BY <2>3, <3>3
      <4>2. Cardinality(B(S)) = 2
        BY <4>1, Counting
      <4>3. Came(p, j) = 2
        BY <1>3, <3>3 DEF Came, Loop, MainCame
      <4>. QED BY <4>2, <4>3
    <3>4. CASE j = 5
      <4>1. B(S) = {1, 3, 5}
        BY <2>3, <3>4
      <4>2. Cardinality(B(S)) = 3
        BY <4>1, Counting
      <4>3. Came(p, j) = 3
        BY <1>3, <3>4 DEF Came, Loop, MainCame
      <4>. QED BY <4>2, <4>3
    <3>5. CASE j \in {6, 7}
      <4>1. B(S) = {1, 3, 5, 6}
        BY <2>3, <3>5
      <4>2. Cardinality(B(S)) = 4
        BY <4>1, Counting
      <4>3. Came(p, j) = 4
        BY <1>3, <3>5 DEF Came, Loop, MainCame
      <4>. QED BY <4>2, <4>3
    <3>. QED BY <1>2, <3>1, <3>2, <3>3, <3>4, <3>5
  <2>5. Cardinality(B(Loop)) = 4
    BY <2>2, Counting
  <2>. QED BY <1>1, <2>4, <2>5 DEF j
<1>4. CASE p # Main
  <2>1. \A k \in 1..7 : Program(p)[k] = "barrier" <=> k \in {1, 3, 4, 7}
    BY <1>4 DEF Program, ThreadProgram
  <2>2. B(Loop) = {1, 3, 4, 7}
    BY <2>1 DEF Loop
  <2>3. B(S) = {k \in {1, 3, 4, 7} : j \in k..7}
    BY <2>1 DEF Loop
  <2>4. Cardinality(B(S)) = Came(p, j)
    <3>1. CASE j \in {0, 8, 9}
      <4>1. B(S) = {}
        BY <2>3, <3>1
      <4>2. Cardinality(B(S)) = 0
        BY <4>1, Counting
      <4>3. Came(p, j) = 0
        BY <3>1 DEF Came, Loop
      <4>. QED BY <4>2, <4>3
    <3>2. CASE j \in {1, 2}
      <4>1. B(S) = {1}
        BY <2>3, <3>2
      <4>2. Cardinality(B(S)) = 1
        BY <4>1, Counting
      <4>3. Came(p, j) = 1
        BY <1>4, <3>2 DEF Came, Loop, ThreadCame
      <4>. QED BY <4>2, <4>3
    <3>3. CASE j = 3
      <4>1. B(S) = {1, 3}
        BY <2>3, <3>3
      <4>2. Cardinality(B(S)) = 2
        BY <4>1, Counting
      <4>3. Came(p, j) = 2
        BY <1>4, <3>3 DEF Came, Loop, ThreadCame
      <4>. QED BY <4>2, <4>3
    <3>4. CASE j \in {4, 5, 6}
      <4>1. B(S) = {1, 3, 4}
        BY <2>3, <3>4
      <4>2. Cardinality(B(S)) = 3
        BY <4>1, Counting
      <4>3. Came(p, j) = 3
        BY <1>4, <3>4 DEF Came, Loop, ThreadCame
      <4>. QED BY <4>2, <4>3
    <3>5. CASE j = 7
      <4>1. B(S) = {1, 3, 4, 7}
        BY <2>3, <3>5
      <4>2. Cardinality(B(S)) = 4
        BY <4>1, Counting
      <4>3. Came(p, j) = 4
        BY <1>4, <3>5 DEF Came, Loop, ThreadCame
      <4>. QED BY <4>2, <4>3
    <3>. QED BY <1>2, <3>1, <3>2, <3>3, <3>4, <3>5
  <2>5. Cardinality(B(Loop)) = 4
    BY <2>2, Counting
  <2>. QED BY <1>1, <2>4, <2>5 DEF j
<1>. QED BY <1>3, <1>4

LEMMA Tables ==
  ASSUME NEW p \in Members
  PROVE  /\ \A k \in 0..9 : Came(p, k) \in 0..4 /\ Gone(p, k) \in 0..4 /\ Gone(p, k) <= Came(p, k)
         /\ \A k \in 1..6 : Came(p, k) <= Came(p, k + 1)
         /\ \A k \in 1..6 : Program(p)[k] = "barrier" => Gone(p, k + 1) = Came(p, k)
         /\ \A k \in 1..6 : Program(p)[k] # "barrier" => Gone(p, k + 1) = Gone(p, k)
         /\ Program(p)[7] = "barrier" <=> p # Main
         /\ Came(p, 7) = 4 /\ Came(p, 1) = 1 /\ Gone(p, 1) = 0
         /\ p = Main => Gone(p, 7) = 4
         /\ Came(p, 0) = 0 /\ Came(p, 8) = 0 /\ Came(p, 9) = 0
         /\ Gone(p, 0) = 0 /\ Gone(p, 8) = 0 /\ Gone(p, 9) = 0
<1>1. CASE p = Main
  BY <1>1 DEF Came, Gone, Loop, MainCame, MainGone, Program, MainProgram
<1>2. CASE p # Main
  BY <1>2 DEF Came, Gone, Loop, ThreadCame, ThreadGone, Program, ThreadProgram
<1>. QED BY <1>1, <1>2

-------------------------------------------------------------------------------
(* Every step keeps the invariant.                                         *)

LEMMA InitStep == Init => IInv
<1>. SUFFICES ASSUME Init PROVE IInv
  OBVIOUS
<1>. USE ConstFacts DEF Init, Unstarted, Loop, EpochEnd, End
<1>1. PlaceTypes /\ PlaceInv
  BY DEF PlaceTypes, PlaceInv
<1>2. \A r \in Ranks : \A p \in Members : pc[r][p] = 0 /\ step[r][p] = 0
  OBVIOUS
<1>3. BarrierInv
  BY <1>2, Tables DEF BarrierInv, Passed
<1>. QED BY <1>1, <1>3 DEF IInv

\* One member goes to k and has finished n minibatches; it takes back no
\* barrier it has come to, and passes none that another has not come to.
Move(r, p, k, n) ==
  /\ UNCHANGED <<mode, batch>>
  /\ pc' \in [Ranks -> [Members -> 0..9]] /\ step' \in [Ranks -> [Members -> 0..Steps]]
  /\ pc'[r][p] = k /\ step'[r][p] = n
  /\ \A q \in Ranks : \A m \in Members :
       q # r \/ m # p => step'[q][m] = step[q][m] /\ pc'[q][m] = pc[q][m]
  /\ 4 * step[r][p] + Came(p, pc[r][p]) <= 4 * n + Came(p, k)
  /\ \A q \in Members \ {p} :
       4 * n + Gone(p, k) <= 4 * step[r][q] + Came(q, pc[r][q])

LEMMA MoveStep ==
  ASSUME IInv, PlaceInv',
         NEW r \in Ranks, NEW p \in Members, NEW k \in 0..9, NEW n \in 0..Steps,
         Move(r, p, k, n)
  PROVE  IInv'
<1>. USE DEF Move
<1>1. PlaceTypes'
  BY DEF IInv, PlaceTypes
<1>2. /\ pc'[r][p] = k
      /\ \A q \in Ranks : \A m \in Members : q # r \/ m # p => pc'[q][m] = pc[q][m]
  OBVIOUS
<1>3. \A q \in Ranks : \A m \in Members :
        /\ pc[q][m] \in 0..9 /\ step[q][m] \in Nat
        /\ Came(m, pc[q][m]) \in Nat /\ Gone(m, pc[q][m]) \in Nat
  <2>. SUFFICES ASSUME NEW q \in Ranks, NEW m \in Members
                PROVE  /\ pc[q][m] \in 0..9 /\ step[q][m] \in Nat
                       /\ Came(m, pc[q][m]) \in Nat /\ Gone(m, pc[q][m]) \in Nat
    OBVIOUS
  <2>1. pc[q][m] \in 0..9 /\ step[q][m] \in Nat
    BY DEF IInv, PlaceTypes
  <2>2. Came(m, pc[q][m]) \in 0..4 /\ Gone(m, pc[q][m]) \in 0..4
    BY <2>1, Tables
  <2>. QED BY <2>1, <2>2
<1>4. Came(p, k) \in Nat /\ Gone(p, k) \in Nat /\ Gone(p, k) <= Came(p, k) /\ n \in Nat
  BY Tables
<1>5. ASSUME NEW q \in Ranks, NEW m \in Members, NEW l \in Members
      PROVE  Passed(q, m)' <= 4 * step'[q][l] + Came(l, pc'[q][l])
  <2>1. Passed(q, m) <= 4 * step[q][l] + Came(l, pc[q][l])
    BY DEF IInv, BarrierInv
  <2>2. CASE q # r \/ (m # p /\ l # p)
    <3>1. /\ step'[q][l] = step[q][l] /\ pc'[q][l] = pc[q][l]
          /\ step'[q][m] = step[q][m] /\ pc'[q][m] = pc[q][m]
      BY <1>2, <2>2
    <3>. QED BY <2>1, <3>1 DEF Passed
  <2>3. CASE q = r /\ m # p /\ l = p
    <3>1. step'[q][m] = step[q][m] /\ pc'[q][m] = pc[q][m]
      BY <1>2, <2>3
    <3>2. Passed(q, m)' = Passed(q, m) /\ Passed(q, m) \in Nat
      BY <1>3, <3>1 DEF Passed
    <3>. QED BY <1>2, <1>3, <1>4, <2>1, <2>3, <3>2
  <2>4. CASE q = r /\ m = p /\ l # p
    <3>1. step'[q][l] = step[q][l] /\ pc'[q][l] = pc[q][l]
      BY <1>2, <2>4
    <3>. QED BY <1>2, <2>4, <3>1 DEF Passed
  <2>5. CASE q = r /\ m = p /\ l = p
    BY <1>2, <1>4, <2>5 DEF Passed
  <2>. QED BY <2>2, <2>3, <2>4, <2>5
<1>6. BarrierInv'
  BY <1>5 DEF BarrierInv
<1>. QED BY <1>1, <1>6 DEF IInv

\* A step of a member's loop, from its place j to its place k, with n
\* minibatches finished.
LoopStep(r, p, j, k, n) ==
  /\ pc[r][p] = j
  /\ UNCHANGED <<mode, batch>>
  /\ pc' = [pc EXCEPT ![r][p] = k] /\ step' = [step EXCEPT ![r][p] = n]
  /\ j < 7 => k = j + 1 /\ n = step[r][p]
  /\ j = 7 => /\ n = step[r][p] + 1
              /\ k \in {1, EpochEnd, End}
              /\ k = 1 => n < Steps
              /\ k = EpochEnd => p = Main
              /\ k = End => n = Steps
  /\ Program(p)[j] = "barrier" => \A q \in Members : Arrived(r, q) >= Arrived(r, p)

LEMMA AdvanceTo ==
  ASSUME IInv, NEW r \in Ranks, NEW p \in Members, NEW j \in 1..7,
         NEW k \in 0..9, NEW n \in 0..Steps, LoopStep(r, p, j, k, n)
  PROVE  IInv'
<1>. USE DEF LoopStep
<1>0. Steps \in Nat \ {0} /\ Main \in Members
  BY ConstFacts
<1>1. /\ pc \in [Ranks -> [Members -> 0..9]] /\ step \in [Ranks -> [Members -> 0..Steps]]
      /\ step[r][p] \in Nat /\ step[r][p] < Steps
  BY DEF IInv, PlaceTypes, PlaceInv, Loop
<1>2. /\ pc[r][Main] = Unstarted => j = Unstarted
      /\ pc[r][Main] = End => step[r][Main] = Steps \/ p = Main
  <2>1. /\ pc[r][Main] = Unstarted => pc[r][p] = Unstarted
        /\ pc[r][Main] = End => step[r][Main] = Steps \/ (p # Main => pc[r][p] = Unstarted)
    BY DEF IInv, PlaceInv
  <2>2. pc[r][p] # Unstarted
    BY DEF Unstarted
  <2>. QED BY <2>1, <2>2
<1>3. /\ j < 7 => k = j + 1 /\ n = step[r][p]
      /\ j = 7 => /\ n = step[r][p] + 1
                  /\ k \in {1, EpochEnd, End}
                  /\ k = 1 => n < Steps
                  /\ k = EpochEnd => p = Main
                  /\ k = End => n = Steps
  OBVIOUS
<1>5. /\ step'[r][p] = n /\ pc'[r][p] = k
      /\ pc' \in [Ranks -> [Members -> 0..9]] /\ step' \in [Ranks -> [Members -> 0..Steps]]
      /\ \A q \in Ranks : \A m \in Members :
           q # r \/ m # p => step'[q][m] = step[q][m] /\ pc'[q][m] = pc[q][m]
  BY <1>1
<1>6. PlaceInv'
  <2>. SUFFICES ASSUME NEW q \in Ranks, NEW m \in Members
                PROVE  /\ pc'[q][m] \in Loop => step'[q][m] < Steps
                       /\ pc'[q][m] = EpochEnd => m = Main
                       /\ pc'[q][Main] = Unstarted => pc'[q][m] = Unstarted
                       /\ pc'[q][m] = Unstarted => step'[q][m] = 0
                       /\ pc'[q][m] = End /\ m # Main => step'[q][m] = Steps
                       /\ pc'[q][Main] = End =>
                            step'[q][Main] = Steps \/ (m # Main => pc'[q][m] = Unstarted)
    BY DEF PlaceInv
  <2>1. pc[r][Main] # Unstarted
    BY <1>1, <1>2 DEF Unstarted
  <2>2. k # Unstarted /\ (k \in Loop => n < Steps)
    BY <1>1, <1>3 DEF Unstarted, EpochEnd, End, Loop
  <2>3. pc[r][Main] = End => step[r][Main] = Steps \/ p = Main
    BY <1>2
  <2>4. CASE q = r /\ m = p
    BY <1>1, <1>3, <1>5, <2>1, <2>2, <2>3, <2>4 DEF End, EpochEnd, Loop, Unstarted
  <2>5. CASE q = r /\ m # p
    <3>1. p = Main => pc'[r][Main] = k
      BY <1>5
    <3>2. p # Main => pc'[r][Main] = pc[r][Main] /\ step'[r][Main] = step[r][Main]
      BY <1>5
    <3>3. pc'[q][m] = pc[q][m] /\ step'[q][m] = step[q][m]
      BY <1>5, <2>5
    <3>4. /\ pc[q][m] \in Loop => step[q][m] < Steps
          /\ pc[q][m] = EpochEnd => m = Main
          /\ pc[q][m] = Unstarted => step[q][m] = 0
          /\ pc[q][m] = End /\ m # Main => step[q][m] = Steps
          /\ pc[q][Main] = End => step[q][Main] = Steps \/ (m # Main => pc[q][m] = Unstarted)
      BY DEF IInv, PlaceInv
    <3>5. pc'[r][Main] # Unstarted
      BY <2>1, <2>2, <3>1, <3>2
    <3>6. pc'[r][Main] = End => step'[r][Main] = Steps \/ (m # Main => pc'[r][m] = Unstarted)
      <4>1. CASE p = Main
        <5>1. k = End => n = Steps
          BY <1>1, <1>3 DEF End
        <5>. QED BY <1>5, <3>1, <4>1, <5>1
      <4>2. CASE p # Main
        BY <2>5, <3>2, <3>3, <3>4, <4>2
      <4>. QED BY <4>1, <4>2
    <3>. QED BY <2>5, <3>3, <3>4, <3>5, <3>6
  <2>6. CASE q # r
    BY <1>5, <2>6 DEF IInv, PlaceInv
  <2>. QED BY <2>4, <2>5, <2>6
<1>7. /\ Came(p, j) \in Nat /\ Gone(p, j) \in Nat /\ Gone(p, k) \in Nat
      /\ 4 * step[r][p] + Came(p, j) <= 4 * n + Came(p, k)
  <2>1. Came(p, j) \in 0..4 /\ Gone(p, j) \in Nat /\ Gone(p, k) \in Nat /\ Came(p, k) \in 0..4
    BY <1>1, <1>3, Tables
  <2>2. CASE j < 7
    <3>1. j \in 1..6 /\ k = j + 1 /\ n = step[r][p]
      BY <1>1, <1>3, <2>2
    <3>2. Came(p, j) <= Came(p, k)
      BY <3>1, Tables
    <3>. QED BY <1>1, <2>1, <3>1, <3>2
  <2>3. CASE j = 7
    BY <1>1, <1>3, <2>1, <2>3
  <2>. QED BY <1>1, <2>1, <2>2, <2>3
<1>8. ASSUME NEW q \in Members
      PROVE  4 * n + Gone(p, k) <= 4 * step[r][q] + Came(q, pc[r][q])
  <2>0. /\ Passed(r, p) <= 4 * step[r][q] + Came(q, pc[r][q])
        /\ Passed(r, p) = 4 * step[r][p] + Gone(p, j)
        /\ step[r][q] \in Nat /\ Came(q, pc[r][q]) \in Nat
    <3>1. pc[r][q] \in 0..9 /\ step[r][q] \in Nat
      BY <1>1
    <3>2. Came(q, pc[r][q]) \in Nat
      BY <3>1, Tables
    <3>. QED BY <3>1, <3>2 DEF IInv, BarrierInv, Passed
  <2>1. Program(p)[j] = "barrier" =>
          4 * step[r][p] + Came(p, j) <= 4 * step[r][q] + Came(q, pc[r][q])
    <3>1. /\ pc[r][p] \in 0..9 /\ pc[r][q] \in 0..9
          /\ step[r][p] \in Nat /\ step[r][q] \in Nat
      BY <1>1
    <3>2. /\ Arrived(r, p) = 4 * step[r][p] + Came(p, j)
          /\ Arrived(r, q) = 4 * step[r][q] + Came(q, pc[r][q])
      BY <3>1, ArrivedIs
    <3>3. Came(p, j) \in Nat
      BY <1>7
    <3>. QED BY <2>0, <3>1, <3>2, <3>3
  <2>2. CASE j < 7
    <3>1. j \in 1..6 /\ k = j + 1 /\ n = step[r][p]
      BY <1>1, <1>3, <2>2
    <3>2. CASE Program(p)[j] = "barrier"
      BY <2>1, <3>1, <3>2, Tables
    <3>3. CASE Program(p)[j] # "barrier"
      <4>1. Gone(p, k) = Gone(p, j)
        BY <3>1, <3>3, Tables
      <4>. QED BY <2>0, <3>1, <4>1
    <3>. QED BY <3>2, <3>3
  <2>3. CASE j = 7
    <3>1. Gone(p, k) = 0 /\ 4 * n = 4 * step[r][p] + 4
      <4>1. k = 1 \/ k = 8 \/ k = 9
        BY <1>3, <2>3 DEF EpochEnd, End
      <4>2. Gone(p, k) = 0
        BY <4>1, Tables
      <4>3. n = step[r][p] + 1
        BY <1>3, <2>3
      <4>. QED BY <1>1, <4>2, <4>3
    <3>2. CASE p = Main
      BY <1>1, <2>0, <2>3, <3>1, <3>2, Tables
    <3>3. CASE p # Main
      BY <1>1, <2>0, <2>1, <2>3, <3>1, <3>3, Tables
    <3>. QED BY <3>2, <3>3
  <2>. QED BY <1>1, <2>2, <2>3
<1>9. /\ 4 * step[r][p] + Came(p, pc[r][p]) <= 4 * n + Came(p, k)
      /\ \A q \in Members \ {p} : 4 * n + Gone(p, k) <= 4 * step[r][q] + Came(q, pc[r][q])
  BY <1>7, <1>8
<1>10. Move(r, p, k, n)
  BY <1>5, <1>9 DEF Move
<1>. QED BY <1>6, <1>10, MoveStep

\* A step of a member's loop.
LEMMA AdvanceStep ==
  ASSUME IInv, NEW r \in Ranks, NEW p \in Members, pc[r][p] \in Loop, Advance(r, p),
         Program(p)[pc[r][p]] = "barrier" => \A q \in Members : Arrived(r, q) >= Arrived(r, p)
  PROVE  IInv'
<1>0. Steps \in Nat \ {0} /\ Main \in Members
  BY ConstFacts
<1>1. PICK j \in 1..7 : j = pc[r][p]
  BY DEF Loop
<1>2. PICK i \in 0..(Steps - 1) : i = step[r][p]
  <2>1. step[r][p] \in 0..Steps /\ step[r][p] < Steps
    BY DEF IInv, PlaceTypes, PlaceInv
  <2>. QED BY <1>0, <2>1
<1>3. PICK k \in 0..9 : k = NextPc(r, p)
  <2>1. NextPc(r, p) \in 0..9
    BY <1>1 DEF NextPc, EpochEnd, End
  <2>. QED BY <2>1
<1>4. PICK n \in 0..Steps : n = i + (IF j = 7 THEN 1 ELSE 0)
  BY <1>0
<1>5. /\ j < 7 => k = j + 1 /\ n = i
      /\ j = 7 => /\ n = i + 1
                  /\ k \in {1, EpochEnd, End}
                  /\ k = 1 => n < Steps
                  /\ k = EpochEnd => p = Main
                  /\ k = End => n = Steps
  BY <1>0, <1>1, <1>2, <1>3, <1>4 DEF NextPc, EpochEnd, End
<1>6. /\ UNCHANGED <<mode, batch>>
      /\ pc' = [pc EXCEPT ![r][p] = k] /\ step' = [step EXCEPT ![r][p] = n]
  BY <1>1, <1>2, <1>3, <1>4 DEF Advance
<1>7. Program(p)[j] = "barrier" => \A q \in Members : Arrived(r, q) >= Arrived(r, p)
  BY <1>1
<1>8. LoopStep(r, p, j, k, n)
  <2>1. pc[r][p] = j /\ step[r][p] = i
    BY <1>1, <1>2
  <2>2. j < 7 => k = j + 1 /\ n = step[r][p]
    BY <1>5, <2>1
  <2>3. j = 7 => /\ n = step[r][p] + 1
                 /\ k \in {1, EpochEnd, End}
                 /\ k = 1 => n < Steps
                 /\ k = EpochEnd => p = Main
                 /\ k = End => n = Steps
    BY <1>5, <2>1
  <2>4. pc[r][p] = j
    BY <2>1
  <2>. QED BY <1>6, <1>7, <2>2, <2>3, <2>4 DEF LoopStep
<1>. QED BY <1>8, AdvanceTo

LEMMA StartStep ==
  ASSUME IInv, NEW r \in Ranks, Start(r)
  PROVE  IInv'
<1>0. Steps \in Nat \ {0} /\ Main \in Members
  BY ConstFacts
<1>1. /\ \A p \in Members : pc[r][p] = 0 /\ step[r][p] = 0
      /\ UNCHANGED <<mode, batch, step>>
  BY DEF Start, IInv, PlaceInv, Unstarted
<1>2. /\ \/ \A p \in Members : pc'[r][p] = 1
         \/ pc'[r][Main] = 9 /\ \A p \in Members \ {Main} : pc'[r][p] = 0
      /\ pc' \in [Ranks -> [Members -> 0..9]]
      /\ \A q \in Ranks \ {r} : pc'[q] = pc[q]
  <2>1. pc \in [Ranks -> [Members -> 0..9]]
    BY DEF IInv, PlaceTypes
  <2>2. CASE Accepted
    BY <2>1, <2>2 DEF Start
  <2>3. CASE ~Accepted
    BY <1>0, <1>1, <2>1, <2>3 DEF Start, End
  <2>. QED BY <2>2, <2>3
<1>3. PlaceTypes'
  BY <1>1, <1>2 DEF IInv, PlaceTypes
<1>4. PlaceInv'
  <2>. SUFFICES ASSUME NEW q \in Ranks, NEW m \in Members
                PROVE  /\ pc'[q][m] \in Loop => step'[q][m] < Steps
                       /\ pc'[q][m] = EpochEnd => m = Main
                       /\ pc'[q][Main] = Unstarted => pc'[q][m] = Unstarted
                       /\ pc'[q][m] = Unstarted => step'[q][m] = 0
                       /\ pc'[q][m] = End /\ m # Main => step'[q][m] = Steps
                       /\ pc'[q][Main] = End =>
                            step'[q][Main] = Steps \/ (m # Main => pc'[q][m] = Unstarted)
    BY DEF PlaceInv
  <2>1. CASE q = r
    BY <1>0, <1>1, <1>2, <2>1 DEF Loop, EpochEnd, End, Unstarted
  <2>2. CASE q # r
    BY <1>1, <1>2, <2>2 DEF IInv, PlaceInv
  <2>. QED BY <2>1, <2>2
<1>5. BarrierInv'
  <2>. SUFFICES ASSUME NEW q \in Ranks, NEW m \in Members, NEW l \in Members
                PROVE  Passed(q, m)' <= 4 * step'[q][l] + Came(l, pc'[q][l])
    BY DEF BarrierInv
  <2>1. CASE q = r
    <3>1. pc'[q][m] \in {0, 1, 9} /\ pc'[q][l] \in {0, 1, 9}
      BY <1>2, <2>1
    <3>2. Gone(m, pc'[q][m]) = 0 /\ Came(l, pc'[q][l]) \in Nat
      BY <3>1, Tables
    <3>3. step'[q][m] = 0 /\ step'[q][l] = 0
      BY <1>1, <2>1
    <3>. QED BY <3>2, <3>3 DEF Passed
  <2>2. CASE q # r
    BY <1>1, <1>2, <2>2 DEF IInv, BarrierInv, Passed
  <2>. QED BY <2>1, <2>2
<1>. QED BY <1>3, <1>4, <1>5 DEF IInv

LEMMA FinishEpochStep ==
  ASSUME IInv, NEW r \in Ranks, FinishEpoch(r)
  PROVE  IInv'
<1>0. Steps \in Nat \ {0} /\ Main \in Members
  BY ConstFacts
<1>1. /\ pc \in [Ranks -> [Members -> 0..9]] /\ step \in [Ranks -> [Members -> 0..Steps]]
      /\ pc[r][Main] = 8
  BY DEF IInv, PlaceTypes, FinishEpoch, EpochEnd
<1>2. PICK n \in 0..Steps : n = step[r][Main]
  BY <1>0, <1>1
<1>3. PICK k \in {1, 9} : k = IF n < Steps THEN 1 ELSE 9
  OBVIOUS
<1>4. /\ UNCHANGED <<mode, batch, step>>
      /\ pc' = [pc EXCEPT ![r][Main] = k]
  BY <1>2, <1>3 DEF FinishEpoch, End
<1>5. /\ pc' \in [Ranks -> [Members -> 0..9]] /\ pc'[r][Main] = k
      /\ \A q \in Ranks : \A m \in Members : q # r \/ m # Main => pc'[q][m] = pc[q][m]
  BY <1>0, <1>1, <1>4
<1>6. PlaceInv'
  <2>. SUFFICES ASSUME NEW q \in Ranks, NEW m \in Members
                PROVE  /\ pc'[q][m] \in Loop => step'[q][m] < Steps
                       /\ pc'[q][m] = EpochEnd => m = Main
                       /\ pc'[q][Main] = Unstarted => pc'[q][m] = Unstarted
                       /\ pc'[q][m] = Unstarted => step'[q][m] = 0
                       /\ pc'[q][m] = End /\ m # Main => step'[q][m] = Steps
                       /\ pc'[q][Main] = End =>
                            step'[q][Main] = Steps \/ (m # Main => pc'[q][m] = Unstarted)
    BY DEF PlaceInv
  <2>1. k = 1 => n < Steps
    BY <1>3
  <2>2. k = 9 => n = Steps
    BY <1>0, <1>3
  <2>3. CASE q = r /\ m = Main
    BY <1>2, <1>4, <1>5, <2>1, <2>2, <2>3 DEF Loop, EpochEnd, End, Unstarted
  <2>4. CASE q = r /\ m # Main
    <3>1. pc'[q][m] = pc[q][m] /\ step'[q][m] = step[q][m]
      BY <1>4, <1>5, <2>4
    <3>2. pc'[q][Main] = k /\ step'[q][Main] = n
      BY <1>2, <1>4, <1>5, <2>4
    <3>3. /\ pc[q][m] \in Loop => step[q][m] < Steps
          /\ pc[q][m] = EpochEnd => m = Main
          /\ pc[q][m] = Unstarted => step[q][m] = 0
          /\ pc[q][m] = End /\ m # Main => step[q][m] = Steps
      BY DEF IInv, PlaceInv
    <3>. QED BY <2>2, <2>4, <3>1, <3>2, <3>3 DEF End, Unstarted
  <2>5. CASE q # r
    BY <1>0, <1>4, <1>5, <2>5 DEF IInv, PlaceInv
  <2>. QED BY <2>3, <2>4, <2>5
<1>7. /\ Came(Main, 8) = 0 /\ Gone(Main, 8) = 0
      /\ Came(Main, k) \in Nat /\ Gone(Main, k) = 0
  BY <1>0, Tables
<1>8. \A q \in Members : 4 * n + 0 <= 4 * step[r][q] + Came(q, pc[r][q])
  BY <1>0, <1>1, <1>2, <1>7 DEF IInv, BarrierInv, Passed
<1>9. 4 * step[r][Main] + Came(Main, pc[r][Main]) <= 4 * n + Came(Main, k)
  BY <1>0, <1>1, <1>2, <1>7
<1>10. Move(r, Main, k, n)
  BY <1>1, <1>2, <1>4, <1>5, <1>7, <1>8, <1>9 DEF Move
<1>. QED BY <1>0, <1>6, <1>10, MoveStep

LEMMA IInvInductive == IInv /\ [Next]_vars => IInv'
<1>. SUFFICES ASSUME IInv, [Next]_vars PROVE IInv'
  OBVIOUS
<1>0. Main \in Members /\ Threads \subseteq Members /\ Main \notin Threads
  BY ConstFacts
<1>1. ASSUME NEW r \in Ranks, NEW p \in Members, Pass(r, p)
      PROVE  IInv'
  <2>1. pc[r][p] \in Loop /\ Advance(r, p) /\ \A q \in Members : Arrived(r, q) >= Arrived(r, p)
    BY <1>1 DEF Pass, At
  <2>. QED BY <2>1, AdvanceStep
<1>2. ASSUME NEW r \in Ranks, NEW t \in Threads,
             CalcDot(r, t) \/ CalcStatistics(r, t) \/ CalcGradient(r, t)
      PROVE  IInv'
  <2>1. pc[r][t] \in Loop /\ Advance(r, t) /\ Program(t)[pc[r][t]] # "barrier" /\ t \in Members
    BY <1>0, <1>2 DEF CalcDot, CalcStatistics, CalcGradient, At
  <2>. QED BY <2>1, AdvanceStep
<1>3. ASSUME NEW r \in Ranks, InitGradient(r) \/ UpdateX(r) \/ AllReduceDot(r)
      PROVE  IInv'
  <2>1. pc[r][Main] \in Loop /\ Advance(r, Main) /\ Program(Main)[pc[r][Main]] # "barrier"
    BY <1>3 DEF InitGradient, UpdateX, AllReduceDot, At
  <2>. QED BY <1>0, <2>1, AdvanceStep
<1>4. ASSUME UNCHANGED controlVars
      PROVE  IInv'
  BY <1>4 DEF controlVars, IInv, PlaceTypes, PlaceInv, BarrierInv, Passed
<1>5. ASSUME NEW r \in Ranks, MainStep(r)
      PROVE  IInv'
  <2>1. Enter(r) => UNCHANGED controlVars
    BY DEF Enter
  <2>. QED BY <1>0, <1>1, <1>3, <1>4, <1>5, <2>1, StartStep, FinishEpochStep DEF MainStep
<1>6. ASSUME NEW r \in Ranks, NEW t \in Threads, ThreadStep(r, t)
      PROVE  IInv'
  BY <1>0, <1>1, <1>2, <1>6 DEF ThreadStep
<1>7. CASE UNCHANGED vars
  BY <1>4, <1>7 DEF vars
<1>8. CASE Finished
  BY <1>7, <1>8 DEF Finished
<1>. QED BY <1>5, <1>6, <1>7, <1>8 DEF Next

-------------------------------------------------------------------------------
(* The members' places keep their arrays apart.                            *)

\* Two threads of a process have no sample in common.
LEMMA SlicesApart ==
  ASSUME PlaceTypes, NEW r \in Ranks, NEW t \in Threads, NEW u \in Threads, t # u
  PROVE  Slice(r, t) \cap Slice(r, u) = {}
<1>1. PICK b \in Nat : b = batch
  BY ConstFacts DEF PlaceTypes
<1>2. NumRanks \in Nat \ {0} /\ NumThreads \in Nat \ {0}
  BY ConstFacts
<1>3. b \div NumRanks \in Nat
  BY <1>1, <1>2
<1>4. MiniBatch \in Nat /\ PerRank \in Nat
  <2>1. CASE mode = "data"
    <3>1. (b \div NumRanks) * NumRanks \in Nat
      BY <1>2, <1>3
    <3>2. ((b \div NumRanks) * NumRanks) \div NumRanks \in Nat
      BY <1>2, <3>1
    <3>. QED BY <1>1, <2>1, <3>1, <3>2 DEF MiniBatch, PerRank
  <2>2. CASE mode # "data"
    BY <1>1, <2>2 DEF MiniBatch, PerRank
  <2>. QED BY <2>1, <2>2
<1>5. PICK n \in Nat : n = PerThread
  BY <1>2, <1>4 DEF PerThread
<1>6. PICK c \in Nat : c = RankBias(r)
  <2>1. r \in Nat
    BY <1>2 DEF Ranks
  <2>2. r * PerRank \in Nat
    BY <1>4, <2>1
  <2>. QED BY <2>2 DEF RankBias
<1>7. t \in Nat /\ u \in Nat
  BY <1>2 DEF Threads
<1>8. ASSUME NEW v \in Nat, NEW w \in Nat, v < w
      PROVE  n * v + n <= n * w
  <2>1. PICK d \in Nat : w = v + 1 + d
    <3>1. w - (v + 1) \in Nat
      BY <1>8
    <3>2. w = v + 1 + (w - (v + 1))
      BY <1>8
    <3>. QED BY <3>1, <3>2
  <2>2. n * (v + 1 + d) = n * v + n + n * d /\ n * d \in Nat /\ n * v \in Nat
    OBVIOUS
  <2>. QED BY <2>1, <2>2
<1>9. PICK a \in Nat, e \in Nat : a = n * t /\ e = n * u
  BY <1>5, <1>7
<1>10. a + n <= e \/ e + n <= a
  <2>1. CASE t < u
    BY <1>7, <1>8, <1>9, <2>1
  <2>2. CASE u < t
    BY <1>7, <1>8, <1>9, <2>2
  <2>. QED BY <1>7, <2>1, <2>2
<1>11. /\ Slice(r, t) = (c + a) .. ((c + a) + n - 1)
       /\ Slice(r, u) = (c + e) .. ((c + e) + n - 1)
  BY <1>5, <1>6, <1>9 DEF Slice
<1>12. ASSUME NEW s \in Slice(r, t), s \in Slice(r, u)
       PROVE  FALSE
  BY <1>10, <1>11, <1>12
<1>. QED BY <1>12

LEMMA PartsApart ==
  ASSUME PlaceTypes, NEW r \in Ranks, NEW t \in Threads, NEW u \in Threads, t # u,
         NEW array
  PROVE  Part(array, r, t) \cap Part(array, r, u) = {}
BY SlicesApart DEF Part

LEMMA ThreadAccess ==
  ASSUME NEW r \in Ranks, NEW t \in Threads
  PROVE  /\ pc[r][t] = 2 => Reads(r, t) = Model /\ Writes(r, t) = Part("dot", r, t)
         /\ pc[r][t] = 5 => /\ Reads(r, t) = Part("dot_sum", r, t)
                            /\ Writes(r, t) = Part("statistics", r, t)
         /\ pc[r][t] = 6 => /\ Reads(r, t) = Part("statistics", r, t)
                            /\ Writes(r, t) = {<<"x_gradient", t>>}
         /\ pc[r][t] \notin {2, 5, 6} => Reads(r, t) = {} /\ Writes(r, t) = {}
<1>1. t # Main /\ Program(t) = ThreadProgram
  BY ConstFacts DEF Program
<1>2. CASE pc[r][t] = 2
  BY <1>1, <1>2 DEF Reads, Writes, At, Loop, ThreadProgram
<1>3. CASE pc[r][t] = 5
  BY <1>1, <1>3 DEF Reads, Writes, At, Loop, ThreadProgram
<1>4. CASE pc[r][t] = 6
  BY <1>1, <1>4 DEF Reads, Writes, At, Loop, ThreadProgram
<1>5. CASE pc[r][t] \notin {2, 5, 6}
  <2>1. \A op \in {"dot", "statistics", "gradient", "init", "allreduce", "update"} :
          ~At(r, t, op)
    BY <1>1, <1>5 DEF At, Loop, ThreadProgram
  <2>2. Reads(r, t) = {}
    BY <1>1, <2>1 DEF Reads
  <2>3. Writes(r, t) = {}
    BY <1>1, <2>1 DEF Writes
  <2>. QED BY <1>5, <2>2, <2>3
<1>. QED BY <1>2, <1>3, <1>4, <1>5

LEMMA MainAccess ==
  ASSUME NEW r \in Ranks
  PROVE  /\ pc[r][Main] = 2 => Reads(r, Main) = {} /\ Writes(r, Main) = Gradients
         /\ pc[r][Main] = 4 => Reads(r, Main) = All("dot") /\ Writes(r, Main) = All("dot_sum")
         /\ pc[r][Main] = 7 => Reads(r, Main) = Gradients /\ Writes(r, Main) = Model
         /\ pc[r][Main] = 8 => Reads(r, Main) = Model /\ Writes(r, Main) = {}
         /\ pc[r][Main] = 9 =>
              /\ Reads(r, Main) = {}
              /\ Writes(r, Main) =
                   All("dot") \cup All("dot_sum") \cup All("statistics") \cup Gradients
         /\ pc[r][Main] \notin {2, 4, 7, 8, 9} => Reads(r, Main) = {} /\ Writes(r, Main) = {}
<1>1. Program(Main) = MainProgram
  BY DEF Program
<1>2. CASE pc[r][Main] = 2
  BY <1>1, <1>2 DEF Reads, Writes, At, Loop, MainProgram, EpochEnd, End
<1>3. CASE pc[r][Main] = 4
  BY <1>1, <1>3 DEF Reads, Writes, At, Loop, MainProgram, EpochEnd, End
<1>4. CASE pc[r][Main] = 7
  BY <1>1, <1>4 DEF Reads, Writes, At, Loop, MainProgram, EpochEnd, End
<1>5. CASE pc[r][Main] \notin {2, 4, 7}
  <2>1. \A op \in {"dot", "statistics", "gradient", "init", "allreduce", "update"} :
          ~At(r, Main, op)
    BY <1>1, <1>5 DEF At, Loop, MainProgram
  <2>2. Reads(r, Main) = IF pc[r][Main] = 8 THEN Model ELSE {}
    BY <2>1 DEF Reads, EpochEnd
  <2>3. Writes(r, Main) =
          IF pc[r][Main] = 9
          THEN All("dot") \cup All("dot_sum") \cup All("statistics") \cup Gradients
          ELSE {}
    BY <2>1 DEF Writes, End
  <2>. QED BY <1>5, <2>2, <2>3
<1>. QED BY <1>2, <1>3, <1>4, <1>5

\* Where a worker uses its arrays, main is not where it would disturb it.
LEMMA PlacesApart ==
  ASSUME IInv, NEW r \in Ranks, NEW t \in Threads
  PROVE  /\ pc[r][t] = 2 => pc[r][Main] \notin {4, 7, 9}
         /\ pc[r][t] = 5 => pc[r][Main] \notin {4, 9}
         /\ pc[r][t] = 6 => pc[r][Main] \notin {2, 7, 9}
<1>0. t \in Members /\ Main \in Members /\ t # Main /\ Steps \in Nat
  BY ConstFacts
<1>1. /\ step[r][t] \in 0..Steps /\ step[r][Main] \in 0..Steps
      /\ pc[r][t] \in Loop => step[r][t] < Steps
      /\ pc[r][Main] = 9 => step[r][Main] = Steps \/ pc[r][t] = 0
  BY <1>0 DEF IInv, PlaceTypes, PlaceInv, End, Unstarted
<1>2. PICK w \in Nat, m \in Nat : w = step[r][t] /\ m = step[r][Main]
  BY <1>0, <1>1
<1>3. /\ 4 * w + Gone(t, pc[r][t]) <= 4 * m + Came(Main, pc[r][Main])
      /\ 4 * m + Gone(Main, pc[r][Main]) <= 4 * w + Came(t, pc[r][t])
  BY <1>0, <1>2 DEF IInv, BarrierInv, Passed
<1>4. /\ pc[r][t] = 2 => Gone(t, pc[r][t]) = 1 /\ Came(t, pc[r][t]) = 1
      /\ pc[r][t] \in {5, 6} => Gone(t, pc[r][t]) = 3 /\ Came(t, pc[r][t]) = 3
  BY <1>0 DEF Gone, Came, ThreadGone, ThreadCame, Loop
<1>5. /\ pc[r][Main] = 2 => Gone(Main, pc[r][Main]) = 1 /\ Came(Main, pc[r][Main]) = 1
      /\ pc[r][Main] = 4 => Gone(Main, pc[r][Main]) = 2 /\ Came(Main, pc[r][Main]) = 2
      /\ pc[r][Main] = 7 => Gone(Main, pc[r][Main]) = 4 /\ Came(Main, pc[r][Main]) = 4
      /\ pc[r][Main] = 9 => Gone(Main, pc[r][Main]) = 0
  BY DEF Gone, Came, MainGone, MainCame, Loop
<1>6. ASSUME pc[r][t] \in {2, 5, 6}, pc[r][Main] = 9
      PROVE  FALSE
  <2>1. m = Steps /\ w < Steps
    BY <1>1, <1>2, <1>6 DEF Loop
  <2>. QED BY <1>0, <1>2, <1>3, <1>4, <1>5, <1>6, <2>1
<1>7. pc[r][t] = 2 => pc[r][Main] # 4 /\ pc[r][Main] # 7
  BY <1>2, <1>3, <1>4, <1>5
<1>8. pc[r][t] = 5 => pc[r][Main] # 4
  BY <1>2, <1>3, <1>4, <1>5
<1>9. pc[r][t] = 6 => pc[r][Main] # 2 /\ pc[r][Main] # 7
  BY <1>2, <1>3, <1>4, <1>5
<1>. QED BY <1>6, <1>7, <1>8, <1>9

LEMMA ThreadsApart ==
  ASSUME IInv, NEW r \in Ranks, NEW t \in Threads, NEW u \in Threads, t # u
  PROVE  Writes(r, t) \cap (Reads(r, u) \cup Writes(r, u)) = {}
<1>1. Part("dot", r, t) \cap (Model \cup Part("dot", r, u)) = {}
  BY PartsApart DEF IInv, Part, Model
<1>2. Part("dot", r, t) \cap (Part("dot_sum", r, u) \cup Part("statistics", r, u)
                                \cup {<<"x_gradient", u>>}) = {}
  BY DEF Part
<1>3. Part("statistics", r, t) \cap (Model \cup Part("dot", r, u) \cup Part("dot_sum", r, u)
                                       \cup {<<"x_gradient", u>>}) = {}
  BY DEF Part, Model
<1>4. Part("statistics", r, t) \cap Part("statistics", r, u) = {}
  BY PartsApart DEF IInv
<1>5. {<<"x_gradient", t>>} \cap (Model \cup Part("dot", r, u) \cup Part("dot_sum", r, u)
          \cup Part("statistics", r, u) \cup {<<"x_gradient", u>>}) = {}
  BY DEF Part, Model
<1>6. \/ Writes(r, t) = {}
      \/ Writes(r, t) = Part("dot", r, t) \/ Writes(r, t) = Part("statistics", r, t)
      \/ Writes(r, t) = {<<"x_gradient", t>>}
  BY ThreadAccess
<1>7. \/ Reads(r, u) = {} /\ Writes(r, u) = {}
      \/ Reads(r, u) = Model /\ Writes(r, u) = Part("dot", r, u)
      \/ Reads(r, u) = Part("dot_sum", r, u) /\ Writes(r, u) = Part("statistics", r, u)
      \/ Reads(r, u) = Part("statistics", r, u) /\ Writes(r, u) = {<<"x_gradient", u>>}
  BY ThreadAccess
<1>. QED BY <1>1, <1>2, <1>3, <1>4, <1>5, <1>6, <1>7

LEMMA MainApart ==
  ASSUME IInv, NEW r \in Ranks, NEW t \in Threads
  PROVE  /\ Writes(r, Main) \cap (Reads(r, t) \cup Writes(r, t)) = {}
         /\ Writes(r, t) \cap (Reads(r, Main) \cup Writes(r, Main)) = {}
<1>1. CASE pc[r][t] = 2
  <2>1. pc[r][Main] \notin {4, 7, 9} /\ Reads(r, t) = Model /\ Writes(r, t) = Part("dot", r, t)
    BY <1>1, PlacesApart, ThreadAccess
  <2>2. /\ Writes(r, Main) = {} \/ Writes(r, Main) = Gradients
        /\ Reads(r, Main) = {} \/ Reads(r, Main) = Model
    BY <2>1, MainAccess
  <2>. QED BY <2>1, <2>2 DEF Part, Model, Gradients
<1>2. CASE pc[r][t] = 5
  <2>1. /\ pc[r][Main] \notin {4, 9}
        /\ Reads(r, t) = Part("dot_sum", r, t) /\ Writes(r, t) = Part("statistics", r, t)
    BY <1>2, PlacesApart, ThreadAccess
  <2>2. /\ Writes(r, Main) = {} \/ Writes(r, Main) = Gradients \/ Writes(r, Main) = Model
        /\ Reads(r, Main) = {} \/ Reads(r, Main) = Model \/ Reads(r, Main) = Gradients
    BY <2>1, MainAccess
  <2>. QED BY <2>1, <2>2 DEF Part, Model, Gradients
<1>3. CASE pc[r][t] = 6
  <2>1. /\ pc[r][Main] \notin {2, 7, 9}
        /\ Reads(r, t) = Part("statistics", r, t) /\ Writes(r, t) = {<<"x_gradient", t>>}
    BY <1>3, PlacesApart, ThreadAccess
  <2>2. /\ Writes(r, Main) = {} \/ Writes(r, Main) = All("dot_sum")
        /\ Reads(r, Main) = {} \/ Reads(r, Main) = Model \/ Reads(r, Main) = All("dot")
    BY <2>1, MainAccess
  <2>. QED BY <2>1, <2>2 DEF Part, Model, All
<1>4. CASE pc[r][t] \notin {2, 5, 6}
  BY <1>4, ThreadAccess
<1>. QED BY <1>1, <1>2, <1>3, <1>4

\* No two members of a process, wherever the barriers let them be at the same
\* time, use an array that one of them writes: the barrier calls of the two
\* programs are enough, for every number of processes, threads and
\* minibatches, and where main runs ahead into the next minibatch or the end.
THEOREM BarriersSuffice == Spec => []NoRace
<1>1. IInv => NoRace
  <2>. SUFFICES ASSUME IInv, NEW r \in Ranks, NEW p \in Members, NEW q \in Members, p # q
                PROVE  Writes(r, p) \cap (Reads(r, q) \cup Writes(r, q)) = {}
    BY DEF NoRace
  <2>1. (p = Main \/ p \in Threads) /\ (q = Main \/ q \in Threads)
    BY ConstFacts
  <2>2. CASE p \in Threads /\ q \in Threads
    BY <2>2, ThreadsApart
  <2>3. CASE p = Main /\ q \in Threads
    BY <2>3, MainApart
  <2>4. CASE p \in Threads /\ q = Main
    BY <2>4, MainApart
  <2>. QED BY <2>1, <2>2, <2>3, <2>4
<1>. QED BY <1>1, InitStep, IInvInductive, PTL DEF Spec

-------------------------------------------------------------------------------
(* The data: what the arrays hold where the members are.                   *)

Grads == SUBSET (Samples \X Dots)

DataTypes ==
  /\ entered \in [Ranks -> Nat] /\ left \in [Ranks -> Nat]
  /\ sent \in [Ranks -> [{0, 1} -> [dot : Row, steps : 0..Steps]]]
  /\ dot \in [Ranks -> Row] /\ dotSum \in [Ranks -> Row] /\ stat \in [Ranks -> Row]
  /\ gradient \in [Ranks -> [Threads -> Grads]]
  /\ x \in [Ranks -> Seq(Grads)]
  /\ total \in [Ranks -> SUBSET (Ranks \X Nat)]

\* The samples of a process's threads, and the sum of a sample's dot products
\* over the processes that have it, in step k.
Covered(r) == {s \in Samples : \E t \in Threads : s \in Slice(r, t)}
Summed(s, k) == {<<q, k>> : q \in {q \in Ranks : s \in Covered(q)}}
Learned(S, k) == {<<s, Summed(s, k)>> : s \in S}

\* Collective operations before the one in step k.
Index(k) == k + (k \div PerEpoch)

\* The collective operations a process has left are those of the place where
\* its main thread is, and nobody leaves one that another has not entered.
CollectiveInv ==
  \A r \in Ranks :
    /\ left[r] = Index(step[r][Main])
                 + (IF pc[r][Main] \in 5..7 THEN 1 ELSE 0)
                 - (IF pc[r][Main] = EpochEnd THEN 1 ELSE 0)
    /\ entered[r] = left[r] \/ (entered[r] = left[r] + 1 /\ pc[r][Main] \in {4, EpochEnd})
    /\ \A q \in Ranks : left[q] <= entered[r]
    /\ pc[r][Main] = EpochEnd => step[r][Main] > 0 /\ step[r][Main] % PerEpoch = 0

\* What a process gave to its last two collective operations.
Recent(r, i) == i < entered[r] /\ entered[r] <= i + 2
SentAt(r, k) ==
  /\ Recent(r, Index(k)) =>
       \A s \in Samples :
         sent[r][Index(k) % 2].dot[s] = IF s \in Covered(r) THEN {<<r, k>>} ELSE {}
  /\ k > 0 /\ k % PerEpoch = 0 /\ Recent(r, Index(k) - 1) =>
       sent[r][(Index(k) - 1) % 2].steps = k
SentInv == \A r \in Ranks : \A k \in 0..Steps : SentAt(r, k)

DotInv ==
  \A r \in Ranks :
    /\ \A t \in Threads : pc[r][t] \in 3..7 =>
         \A s \in Slice(r, t) : dot[r][s] = {<<r, step[r][t]>>}
    /\ \A s \in Samples \ Covered(r) : dot[r][s] = {}

SumInv ==
  \A r \in Ranks : pc[r][Main] \in 5..7 =>
    \A s \in Samples : dotSum[r][s] = Summed(s, step[r][Main])

StatInv ==
  \A r \in Ranks : \A t \in Threads : pc[r][t] \in 6..7 =>
    \A s \in Slice(r, t) : stat[r][s] = Summed(s, step[r][t])

\* From the clearing to the update a thread's gradient is empty or whole.
GradInv ==
  \A r \in Ranks : \A t \in Threads : pc[r][Main] \in 3..7 =>
    gradient[r][t] =
      IF step[r][t] = step[r][Main] /\ pc[r][t] # 7 THEN {}
      ELSE Learned(Slice(r, t), step[r][Main])

ModelInv ==
  \A r \in Ranks :
    /\ Len(x[r]) = step[r][Main]
    /\ \A k \in 1..Len(x[r]) : x[r][k] = Learned(Covered(r), k - 1)

TotalInv ==
  \A r \in Ranks :
    pc[r][Main] \in Loop /\ step[r][Main] >= PerEpoch =>
      total[r] = Ranks \X {(step[r][Main] \div PerEpoch) * PerEpoch}

DataInv ==
  /\ DataTypes /\ CollectiveInv /\ SentInv
  /\ DotInv /\ SumInv /\ StatInv /\ GradInv /\ ModelInv /\ TotalInv

-------------------------------------------------------------------------------
(* Numbers.                                                                *)

LEMMA DivFacts ==
  ASSUME NEW P \in Nat \ {0}, NEW k \in Nat
  PROVE  /\ k \div P \in Nat /\ k % P \in 0..(P - 1) /\ k = P * (k \div P) + (k % P)
         /\ (k + 1) % P = 0 => (k + 1) \div P = (k \div P) + 1
         /\ (k + 1) % P # 0 => (k + 1) \div P = k \div P
<1>1. k \div P \in Nat /\ k % P \in 0..(P - 1) /\ k = P * (k \div P) + (k % P)
  OBVIOUS
<1>2. /\ (k + 1) \div P \in Nat /\ (k + 1) % P \in 0..(P - 1)
      /\ k + 1 = P * ((k + 1) \div P) + ((k + 1) % P)
  OBVIOUS
<1>. DEFINE a == k \div P
            b == k % P
            c == (k + 1) \div P
            d == (k + 1) % P
<1>3. a \in Nat /\ b \in Nat /\ c \in Nat /\ d \in Nat
  BY <1>1, <1>2
<1>4. k = P * a + b /\ k + 1 = P * c + d /\ b < P /\ d < P
  BY <1>1, <1>2
<1>. HIDE DEF a, b, c, d
<1>5. ASSUME NEW u \in Nat, NEW v \in Nat, u < v
      PROVE  P * u + P <= P * v
  <2>1. PICK w \in Nat : v = u + 1 + w
    <3>1. v - (u + 1) \in Nat /\ v = u + 1 + (v - (u + 1))
      BY <1>5
    <3>. QED BY <3>1
  <2>2. P * (u + 1 + w) = P * u + P + P * w /\ P * w \in Nat /\ P * u \in Nat
    OBVIOUS
  <2>. QED BY <2>1, <2>2
<1>6. P * a \in Nat /\ P * c \in Nat /\ P * (a + 1) = P * a + P /\ a + 1 \in Nat
  BY <1>3
<1>7. a <= c
  <2>. SUFFICES ASSUME c < a PROVE FALSE
    BY <1>3
  <2>1. P * c + P <= P * a
    BY <1>3, <1>5
  <2>. QED BY <1>3, <1>4, <1>6, <2>1
<1>8. c <= a + 1
  <2>. SUFFICES ASSUME a + 1 < c PROVE FALSE
    BY <1>3
  <2>1. P * (a + 1) + P <= P * c
    BY <1>3, <1>5, <1>6
  <2>. QED BY <1>3, <1>4, <1>6, <2>1
<1>9. c = a \/ c = a + 1
  BY <1>3, <1>7, <1>8
<1>10. d = 0 => c = a + 1
  <2>. SUFFICES ASSUME d = 0, c = a PROVE FALSE
    BY <1>9
  <2>. QED BY <1>3, <1>4, <1>6
<1>11. d # 0 => c = a
  <2>. SUFFICES ASSUME d # 0, c = a + 1 PROVE FALSE
    BY <1>9
  <2>. QED BY <1>3, <1>4, <1>6
<1>. QED BY <1>1, <1>10, <1>11 DEF a, c, d

LEMMA DivMonotone ==
  ASSUME NEW P \in Nat \ {0}, NEW j \in Nat, NEW k \in Nat, j <= k
  PROVE  j \div P <= k \div P
<1>. DEFINE a == j \div P
            b == j % P
            c == k \div P
            d == k % P
<1>1. /\ a \in Nat /\ b \in Nat /\ c \in Nat /\ d \in Nat
      /\ j = P * a + b /\ k = P * c + d /\ b < P /\ d < P
  OBVIOUS
<1>. HIDE DEF a, b, c, d
<1>. SUFFICES ASSUME c < a PROVE FALSE
  BY <1>1 DEF a, c
<1>2. PICK w \in Nat : a = c + 1 + w
  <2>1. a - (c + 1) \in Nat /\ a = c + 1 + (a - (c + 1))
    BY <1>1
  <2>. QED BY <2>1
<1>3. P * (c + 1 + w) = P * c + P + P * w /\ P * w \in Nat /\ P * c \in Nat
  BY <1>1
<1>. QED BY <1>1, <1>2, <1>3

LEMMA EpochFacts == PerEpoch \in Nat \ {0} /\ Steps \in Nat \ {0}
BY TrainAssumption, ConstFacts

LEMMA IndexNext ==
  ASSUME NEW k \in Nat
  PROVE  /\ Index(k) \in Nat /\ k <= Index(k)
         /\ LastOfEpoch(k) => Index(k + 1) = Index(k) + 2
         /\ ~LastOfEpoch(k) => Index(k + 1) = Index(k) + 1
<1>1. /\ k \div PerEpoch \in Nat
      /\ (k + 1) % PerEpoch = 0 => (k + 1) \div PerEpoch = (k \div PerEpoch) + 1
      /\ (k + 1) % PerEpoch # 0 => (k + 1) \div PerEpoch = k \div PerEpoch
  BY EpochFacts, DivFacts
<1>. QED BY <1>1 DEF Index, LastOfEpoch

\* Two collective operations of a run are not the same.
LEMMA IndexApart ==
  ASSUME NEW j \in Nat, NEW k \in Nat
  PROVE  /\ j < k => Index(j) < Index(k)
         /\ j < k /\ k % PerEpoch = 0 => Index(j) + 1 < Index(k)
         /\ Index(j) = Index(k) => j = k
         /\ k % PerEpoch = 0 => Index(j) # Index(k) - 1
<1>1. ASSUME NEW a \in Nat, NEW b \in Nat, a < b
      PROVE  Index(a) < Index(b)
  <2>1. a \div PerEpoch <= b \div PerEpoch /\ a \div PerEpoch \in Nat /\ b \div PerEpoch \in Nat
    BY <1>1, EpochFacts, DivMonotone, DivFacts
  <2>. QED BY <1>1, <2>1 DEF Index
<1>2. ASSUME j < k, k % PerEpoch = 0
      PROVE  Index(j) + 1 < Index(k)
  <2>1. k - 1 \in Nat /\ (k - 1) + 1 = k
    BY <1>2
  <2>2. LastOfEpoch(k - 1)
    BY <1>2, <2>1 DEF LastOfEpoch
  <2>3. Index(k) = Index(k - 1) + 2 /\ Index(k - 1) \in Nat /\ Index(j) \in Nat
    BY <2>1, <2>2, IndexNext
  <2>4. j = k - 1 \/ j < k - 1
    BY <1>2
  <2>5. Index(j) <= Index(k - 1)
    <3>1. CASE j = k - 1
      BY <3>1, <2>3
    <3>2. CASE j < k - 1
      BY <1>1, <2>1, <2>3, <3>2
    <3>. QED BY <2>4, <3>1, <3>2
  <2>. QED BY <2>3, <2>5
<1>3. Index(j) \in Nat /\ Index(k) \in Nat
  BY IndexNext
<1>4. Index(j) = Index(k) => j = k
  <2>1. j < k \/ k < j \/ j = k
    OBVIOUS
  <2>. QED BY <1>1, <1>3, <2>1
<1>5. k % PerEpoch = 0 => Index(j) # Index(k) - 1
  <2>1. j < k \/ k < j \/ j = k
    OBVIOUS
  <2>. QED BY <1>1, <1>2, <1>3, <2>1
<1>. QED BY <1>1, <1>2, <1>4, <1>5

-------------------------------------------------------------------------------
(* What a step changes, and where the members are when it is taken.        *)

\* The samples are split as mode and batch say, which no step changes.
LEMMA Split ==
  ASSUME UNCHANGED <<mode, batch>>
  PROVE  /\ Samples' = Samples /\ Row' = Row /\ Grads' = Grads
         /\ \A r \in Ranks : \A t \in Threads : Slice(r, t)' = Slice(r, t)
         /\ \A r \in Ranks : Covered(r)' = Covered(r)
         /\ \A s, k : Summed(s, k)' = Summed(s, k)
         /\ \A S, k : Learned(S, k)' = Learned(S, k)
<1>1. MiniBatch' = MiniBatch
  BY DEF MiniBatch
<1>2. PerRank' = PerRank
  BY <1>1 DEF PerRank
<1>3. PerThread' = PerThread
  BY <1>2 DEF PerThread
<1>4. Samples' = Samples
  BY <1>1 DEF Samples
<1>5. Row' = Row /\ Grads' = Grads
  BY <1>4 DEF Row, Grads, Dots
<1>6. \A r : RankBias(r)' = RankBias(r)
  BY <1>2 DEF RankBias
<1>7. \A r, t : Slice(r, t)' = Slice(r, t)
  BY <1>3, <1>6 DEF Slice
<1>8. \A r : Covered(r)' = Covered(r)
  BY <1>4, <1>7 DEF Covered
<1>9. \A s, k : Summed(s, k)' = Summed(s, k)
  BY <1>8 DEF Summed
<1>10. \A S, k : Learned(S, k)' = Learned(S, k)
  BY <1>9 DEF Learned
<1>. QED BY <1>4, <1>5, <1>7, <1>8, <1>9, <1>10

LEMMA NoStepChangesMode == [Next]_vars => UNCHANGED <<mode, batch>>
<1>1. UNCHANGED vars => UNCHANGED <<mode, batch>>
  BY DEF vars, controlVars
<1>2. Finished => UNCHANGED <<mode, batch>>
  BY <1>1 DEF Finished
<1>3. ASSUME NEW r \in Ranks, MainStep(r)
      PROVE  UNCHANGED <<mode, batch>>
  BY <1>3 DEF MainStep, Start, Pass, InitGradient, UpdateX, Enter, AllReduceDot, FinishEpoch,
              Advance, controlVars
<1>4. ASSUME NEW r \in Ranks, NEW t \in Threads, ThreadStep(r, t)
      PROVE  UNCHANGED <<mode, batch>>
  BY <1>4 DEF ThreadStep, Pass, CalcDot, CalcStatistics, CalcGradient, Advance
<1>. QED BY <1>1, <1>2, <1>3, <1>4 DEF Next

\* The place of a member whose step advances it.
LEMMA Advanced ==
  ASSUME IInv, NEW r \in Ranks, NEW p \in Members, pc[r][p] \in Loop, Advance(r, p)
  PROVE  /\ \A q \in Ranks : \A m \in Members :
              q # r \/ m # p => pc'[q][m] = pc[q][m] /\ step'[q][m] = step[q][m]
         /\ pc[r][p] < 7 => pc'[r][p] = pc[r][p] + 1 /\ step'[r][p] = step[r][p]
         /\ pc[r][p] = 7 => /\ step'[r][p] = step[r][p] + 1
                            /\ pc'[r][p] \in {1, EpochEnd, End}
                            /\ pc'[r][p] = EpochEnd <=> p = Main /\ LastOfEpoch(step[r][p])
<1>1. pc \in [Ranks -> [Members -> 0..9]] /\ step \in [Ranks -> [Members -> 0..Steps]]
  BY DEF IInv, PlaceTypes
<1>2. /\ pc'[r][p] = NextPc(r, p)
      /\ step'[r][p] = step[r][p] + (IF pc[r][p] = 7 THEN 1 ELSE 0)
      /\ \A q \in Ranks : \A m \in Members :
           q # r \/ m # p => pc'[q][m] = pc[q][m] /\ step'[q][m] = step[q][m]
  BY <1>1 DEF Advance
<1>3. step[r][p] \in Nat /\ pc[r][p] \in 1..7
  BY <1>1, EpochFacts DEF Loop
<1>4. pc[r][p] < 7 => pc'[r][p] = pc[r][p] + 1 /\ step'[r][p] = step[r][p]
  BY <1>2, <1>3 DEF NextPc
<1>5. pc[r][p] = 7 => /\ step'[r][p] = step[r][p] + 1
                      /\ pc'[r][p] \in {1, EpochEnd, End}
                      /\ pc'[r][p] = EpochEnd <=> p = Main /\ LastOfEpoch(step[r][p])
  BY <1>2, <1>3 DEF NextPc, EpochEnd, End
<1>. QED BY <1>2, <1>4, <1>5

LEMMA StepRange ==
  ASSUME IInv, NEW r \in Ranks, NEW p \in Members
  PROVE  /\ pc[r][p] \in 0..9 /\ step[r][p] \in Nat /\ step[r][p] <= Steps
         /\ pc[r][p] \in 1..7 => step[r][p] < Steps
  BY EpochFacts DEF IInv, PlaceTypes, PlaceInv, Loop

\* Where the barriers let a worker and main be.
LEMMA Together ==
  ASSUME IInv, NEW r \in Ranks, NEW t \in Threads
  PROVE  /\ pc[r][t] = 2 => pc[r][Main] \in 1..3 /\ step[r][t] = step[r][Main]
         /\ pc[r][t] \in {5, 6} => pc[r][Main] \in 5..6 /\ step[r][t] = step[r][Main]
         /\ pc[r][Main] = 2 => pc[r][t] \in 1..3 /\ step[r][t] = step[r][Main]
         /\ pc[r][Main] = 4 => pc[r][t] \in 3..4 /\ step[r][t] = step[r][Main]
         /\ pc[r][Main] \in 3..7 =>
              \/ step[r][t] = step[r][Main] /\ pc[r][t] \in 1..7
              \/ step[r][t] = step[r][Main] + 1 /\ pc[r][t] \notin 2..7
         /\ pc[r][Main] = 7 =>
              \/ step[r][t] = step[r][Main] /\ pc[r][t] = 7
              \/ step[r][t] = step[r][Main] + 1 /\ pc[r][t] \notin 2..7
<1>0. t \in Members /\ Main \in Members /\ t # Main
  BY ConstFacts
<1>. DEFINE k == pc[r][t]
            l == pc[r][Main]
<1>1. PICK w \in Nat, m \in Nat : w = step[r][t] /\ m = step[r][Main]
  BY <1>0, StepRange
<1>2. k \in 0..9 /\ l \in 0..9
  BY <1>0, StepRange
<1>3. /\ 4 * w + Gone(t, k) <= 4 * m + Came(Main, l)
      /\ 4 * m + Gone(Main, l) <= 4 * w + Came(t, k)
  BY <1>0, <1>1 DEF IInv, BarrierInv, Passed
<1>. HIDE DEF k, l
<1>4. /\ k \in 1..7 => Gone(t, k) = ThreadGone[k] /\ Came(t, k) = ThreadCame[k]
      /\ k \in {0, 8, 9} => Gone(t, k) = 0 /\ Came(t, k) = 0
      /\ l \in 1..7 => Gone(Main, l) = MainGone[l] /\ Came(Main, l) = MainCame[l]
      /\ l \in {0, 8, 9} => Gone(Main, l) = 0 /\ Came(Main, l) = 0
  BY <1>0 DEF Gone, Came, Loop
<1>5. /\ k = 1 => ThreadGone[k] = 0 /\ ThreadCame[k] = 1
      /\ k = 2 => ThreadGone[k] = 1 /\ ThreadCame[k] = 1
      /\ k = 3 => ThreadGone[k] = 1 /\ ThreadCame[k] = 2
      /\ k = 4 => ThreadGone[k] = 2 /\ ThreadCame[k] = 3
      /\ k \in {5, 6} => ThreadGone[k] = 3 /\ ThreadCame[k] = 3
      /\ k = 7 => ThreadGone[k] = 3 /\ ThreadCame[k] = 4
  BY DEF ThreadGone, ThreadCame
<1>6. /\ l = 1 => MainGone[l] = 0 /\ MainCame[l] = 1
      /\ l = 2 => MainGone[l] = 1 /\ MainCame[l] = 1
      /\ l = 3 => MainGone[l] = 1 /\ MainCame[l] = 2
      /\ l = 4 => MainGone[l] = 2 /\ MainCame[l] = 2
      /\ l = 5 => MainGone[l] = 2 /\ MainCame[l] = 3
      /\ l = 6 => MainGone[l] = 3 /\ MainCame[l] = 4
      /\ l = 7 => MainGone[l] = 4 /\ MainCame[l] = 4
  BY DEF MainGone, MainCame
<1>7. k = 2 => l \in 1..3 /\ w = m
  BY <1>2, <1>3, <1>4, <1>5, <1>6
<1>8. k \in {5, 6} => l \in 5..6 /\ w = m
  BY <1>2, <1>3, <1>4, <1>5, <1>6
<1>9. l = 2 => k \in 1..3 /\ w = m
  BY <1>2, <1>3, <1>4, <1>5, <1>6
<1>10. l = 4 => k \in 3..4 /\ w = m
  BY <1>2, <1>3, <1>4, <1>5, <1>6
<1>11. l \in 3..7 => (w = m /\ k \in 1..7) \/ (w = m + 1 /\ k \notin 2..7)
  BY <1>2, <1>3, <1>4, <1>5, <1>6
<1>12. l = 7 => (w = m /\ k = 7) \/ (w = m + 1 /\ k \notin 2..7)
  BY <1>2, <1>3, <1>4, <1>5, <1>6
<1>. QED BY <1>1, <1>7, <1>8, <1>9, <1>10, <1>11, <1>12 DEF k, l

LEMMA WorkerActs ==
  ASSUME NEW r \in Ranks, NEW t \in Threads, ThreadStep(r, t)
  PROVE  /\ pc[r][t] \in Loop /\ Advance(r, t)
         /\ UNCHANGED <<entered, left, sent, x, dotSum, total>>
         /\ pc[r][t] = 2 => CalcDot(r, t)
         /\ pc[r][t] = 5 => CalcStatistics(r, t)
         /\ pc[r][t] = 6 => CalcGradient(r, t)
         /\ pc[r][t] # 2 => dot' = dot
         /\ pc[r][t] # 5 => stat' = stat
         /\ pc[r][t] # 6 => gradient' = gradient
<1>1. t # Main /\ Program(t) = ThreadProgram
  BY ConstFacts DEF Program
<1>2. \A op : At(r, t, op) => /\ pc[r][t] \in 1..7 /\ ThreadProgram[pc[r][t]] = op
  BY <1>1 DEF At, Loop
<1>3. /\ At(r, t, "barrier") => pc[r][t] \in {1, 3, 4, 7}
      /\ At(r, t, "dot") => pc[r][t] = 2
      /\ At(r, t, "statistics") => pc[r][t] = 5
      /\ At(r, t, "gradient") => pc[r][t] = 6
  BY <1>2 DEF ThreadProgram
<1>4. CASE Pass(r, t)
  BY <1>2, <1>3, <1>4 DEF Pass, mpiVars, dataVars, Loop
<1>5. CASE CalcDot(r, t)
  BY <1>2, <1>3, <1>5 DEF CalcDot, mpiVars, Loop
<1>6. CASE CalcStatistics(r, t)
  BY <1>2, <1>3, <1>6 DEF CalcStatistics, mpiVars, Loop
<1>7. CASE CalcGradient(r, t)
  BY <1>2, <1>3, <1>7 DEF CalcGradient, mpiVars, Loop
<1>. QED BY <1>4, <1>5, <1>6, <1>7 DEF ThreadStep

\* A step of main's loop.
MainTurn(r) ==
  Pass(r, Main) \/ InitGradient(r) \/ UpdateX(r) \/ AllReduceDot(r)

LEMMA MainActs ==
  ASSUME NEW r \in Ranks, MainTurn(r)
  PROVE  /\ pc[r][Main] \in Loop /\ Advance(r, Main)
         /\ UNCHANGED <<entered, sent, dot, stat, total>>
         /\ pc[r][Main] = 2 => InitGradient(r)
         /\ pc[r][Main] = 4 => AllReduceDot(r)
         /\ pc[r][Main] = 7 => UpdateX(r)
         /\ pc[r][Main] # 2 => gradient' = gradient
         /\ pc[r][Main] # 4 => UNCHANGED <<left, dotSum>>
         /\ pc[r][Main] # 7 => x' = x
<1>1. Program(Main) = MainProgram
  BY DEF Program
<1>2. \A op : At(r, Main, op) => /\ pc[r][Main] \in 1..7 /\ MainProgram[pc[r][Main]] = op
  BY <1>1 DEF At, Loop
<1>3. /\ At(r, Main, "barrier") => pc[r][Main] \in {1, 3, 5, 6}
      /\ At(r, Main, "init") => pc[r][Main] = 2
      /\ At(r, Main, "allreduce") => pc[r][Main] = 4
      /\ At(r, Main, "update") => pc[r][Main] = 7
  BY <1>2 DEF MainProgram
<1>4. CASE Pass(r, Main)
  BY <1>2, <1>3, <1>4 DEF Pass, mpiVars, dataVars, Loop
<1>5. CASE InitGradient(r)
  BY <1>2, <1>3, <1>5 DEF InitGradient, mpiVars, Loop
<1>6. CASE UpdateX(r)
  BY <1>2, <1>3, <1>6 DEF UpdateX, mpiVars, Loop
<1>7. CASE AllReduceDot(r)
  BY <1>2, <1>3, <1>7 DEF AllReduceDot, Loop
<1>. QED BY <1>4, <1>5, <1>6, <1>7 DEF MainTurn

\* The start of a process and the end of an epoch take main to the loop or
\* to its end.
LEMMA StartActs ==
  ASSUME IInv, NEW r \in Ranks, Start(r)
  PROVE  /\ UNCHANGED <<step, entered, left, sent, x, dot, dotSum, stat, gradient, total>>
         /\ \A q \in Ranks : q # r => pc'[q] = pc[q]
         /\ pc[r][Main] = 0 /\ step[r][Main] = 0 /\ pc'[r][Main] \in {1, 9}
         /\ \A t \in Threads : pc'[r][t] \in {0, 1}
<1>1. pc \in [Ranks -> [Members -> 0..9]] /\ Main \in Members
  BY ConstFacts DEF IInv, PlaceTypes
<1>2. pc[r][Main] = 0 /\ \A p \in Members : pc[r][p] = 0 /\ step[r][p] = 0
  BY <1>1 DEF Start, IInv, PlaceInv, Unstarted
<1>3. /\ UNCHANGED <<step, entered, left, sent, x, dot, dotSum, stat, gradient, total>>
      /\ \A q \in Ranks : q # r => pc'[q] = pc[q]
      /\ pc'[r] = IF Accepted THEN [p \in Members |-> 1] ELSE [pc[r] EXCEPT ![Main] = End]
  BY <1>1 DEF Start, mpiVars, dataVars
<1>4. \A t \in Threads : t \in Members /\ t # Main
  BY ConstFacts
<1>5. CASE Accepted
  <2>1. pc'[r] = [p \in Members |-> 1]
    BY <1>3, <1>5
  <2>. QED BY <1>1, <1>2, <1>3, <1>4, <2>1
<1>6. CASE ~Accepted
  <2>1. pc'[r] = [pc[r] EXCEPT ![Main] = End] /\ pc[r] \in [Members -> 0..9]
    BY <1>1, <1>3, <1>6
  <2>2. pc'[r][Main] = 9 /\ \A t \in Threads : pc'[r][t] = pc[r][t]
    BY <1>1, <1>4, <2>1 DEF End
  <2>3. \A t \in Threads : pc'[r][t] = 0
    BY <1>2, <1>4, <2>2
  <2>. QED BY <1>1, <1>2, <1>3, <2>2, <2>3
<1>. QED BY <1>5, <1>6

LEMMA FinishActs ==
  ASSUME IInv, NEW r \in Ranks, FinishEpoch(r)
  PROVE  /\ UNCHANGED <<step, entered, sent, x, dot, dotSum, stat, gradient>>
         /\ \A q \in Ranks : \A p \in Members : q # r \/ p # Main => pc'[q][p] = pc[q][p]
         /\ pc[r][Main] = EpochEnd /\ pc'[r][Main] \in {1, 9} /\ Complete(r)
BY ConstFacts DEF FinishEpoch, IInv, PlaceTypes, End

\* The kinds of steps.
LEMMA Kinds ==
  ASSUME [Next]_vars
  PROVE  \/ UNCHANGED vars
         \/ \E r \in Ranks : \E t \in Threads : ThreadStep(r, t)
         \/ \E r \in Ranks : MainTurn(r)
         \/ \E r \in Ranks : Start(r)
         \/ \E r \in Ranks : Enter(r)
         \/ \E r \in Ranks : FinishEpoch(r)
BY DEF Next, MainStep, MainTurn, Finished

-------------------------------------------------------------------------------
(* The collective operations.                                              *)

LEMMA CollectiveStep ==
  ASSUME IInv, CollectiveInv, entered \in [Ranks -> Nat], left \in [Ranks -> Nat], [Next]_vars
  PROVE  CollectiveInv'
<1>. DEFINE In(a, m, j) == Index(m) + (IF j \in 5..7 THEN 1 ELSE 0) - (IF j = EpochEnd THEN 1 ELSE 0)
            Have(e, a, m, j) ==
              /\ a = In(a, m, j)
              /\ e = a \/ (e = a + 1 /\ j \in {4, EpochEnd})
              /\ j = EpochEnd => m > 0 /\ m % PerEpoch = 0
<1>0. Main \in Members /\ \A t \in Threads : t \in Members /\ t # Main
  BY ConstFacts
<1>1. \A q \in Ranks : Have(entered[q], left[q], step[q][Main], pc[q][Main])
  BY DEF CollectiveInv
<1>2. \A q, u \in Ranks : left[q] <= entered[u]
  BY DEF CollectiveInv
<1>3. \A q \in Ranks : entered[q] \in Nat /\ left[q] \in Nat /\ step[q][Main] \in Nat
  BY <1>0, StepRange
<1>4. SUFFICES /\ \A q \in Ranks : Have(entered'[q], left'[q], step'[q][Main], pc'[q][Main])
               /\ \A q, u \in Ranks : left'[q] <= entered'[u]
  BY DEF CollectiveInv
<1>5. CASE UNCHANGED vars
  BY <1>1, <1>2, <1>5 DEF vars, controlVars, mpiVars
<1>6. ASSUME NEW r \in Ranks, NEW t \in Threads, ThreadStep(r, t)
      PROVE  /\ \A q \in Ranks : Have(entered'[q], left'[q], step'[q][Main], pc'[q][Main])
             /\ \A q, u \in Ranks : left'[q] <= entered'[u]
  <2>1. /\ UNCHANGED <<entered, left>>
        /\ \A q \in Ranks : pc'[q][Main] = pc[q][Main] /\ step'[q][Main] = step[q][Main]
    BY <1>0, <1>6, WorkerActs, Advanced
  <2>. QED BY <1>1, <1>2, <2>1
<1>7. ASSUME NEW r \in Ranks, MainTurn(r)
      PROVE  /\ \A q \in Ranks : Have(entered'[q], left'[q], step'[q][Main], pc'[q][Main])
             /\ \A q, u \in Ranks : left'[q] <= entered'[u]
  <2>0. pc[r][Main] \in Loop /\ Advance(r, Main) /\ entered' = entered
    BY <1>7, MainActs
  <2>1. /\ \A q \in Ranks : q # r => pc'[q][Main] = pc[q][Main] /\ step'[q][Main] = step[q][Main]
        /\ pc[r][Main] < 7 => pc'[r][Main] = pc[r][Main] + 1 /\ step'[r][Main] = step[r][Main]
        /\ pc[r][Main] = 7 => /\ step'[r][Main] = step[r][Main] + 1
                              /\ pc'[r][Main] \in {1, EpochEnd, End}
                              /\ pc'[r][Main] = EpochEnd <=> LastOfEpoch(step[r][Main])
    BY <1>0, <2>0, Advanced
  <2>2. CASE pc[r][Main] = 4
    <3>1. /\ entered[r] > left[r] /\ \A u \in Ranks : entered[u] >= entered[r]
          /\ left' = [left EXCEPT ![r] = @ + 1]
      BY <1>7, <2>2, MainActs DEF AllReduceDot, Complete
    <3>2. left'[r] = left[r] + 1 /\ \A q \in Ranks : q # r => left'[q] = left[q]
      BY <3>1
    <3>3. pc'[r][Main] = 5 /\ step'[r][Main] = step[r][Main]
      BY <2>1, <2>2
    <3>4. entered[r] = left[r] + 1
      BY <1>1, <1>3, <3>1
    <3>5. Have(entered'[r], left'[r], step'[r][Main], pc'[r][Main])
      BY <1>1, <1>3, <2>0, <2>2, <3>2, <3>3, <3>4, IndexNext DEF EpochEnd
    <3>6. \A q, u \in Ranks : left'[q] <= entered'[u]
      BY <1>2, <1>3, <2>0, <3>1, <3>2, <3>4
    <3>. QED BY <1>1, <2>0, <2>1, <3>2, <3>5, <3>6
  <2>3. CASE pc[r][Main] \in 1..6 /\ pc[r][Main] # 4
    <3>1. left' = left /\ pc'[r][Main] = pc[r][Main] + 1 /\ step'[r][Main] = step[r][Main]
      BY <1>7, <2>1, <2>3, MainActs
    <3>2. Have(entered'[r], left'[r], step'[r][Main], pc'[r][Main])
      BY <1>1, <1>3, <2>0, <2>3, <3>1, IndexNext DEF EpochEnd
    <3>. QED BY <1>1, <1>2, <2>0, <2>1, <3>1, <3>2
  <2>4. CASE pc[r][Main] = 7
    <3>1. left' = left /\ step'[r][Main] = step[r][Main] + 1
      BY <1>7, <2>1, <2>4, MainActs
    <3>2. left[r] = Index(step[r][Main]) + 1 /\ entered[r] = left[r]
      BY <1>1, <1>3, <2>4, IndexNext DEF EpochEnd
    <3>3. CASE LastOfEpoch(step[r][Main])
      <4>1. pc'[r][Main] = EpochEnd /\ Index(step'[r][Main]) = Index(step[r][Main]) + 2
        BY <1>3, <2>1, <2>4, <3>1, <3>3, IndexNext
      <4>2. step'[r][Main] > 0 /\ step'[r][Main] % PerEpoch = 0
        BY <1>3, <3>1, <3>3 DEF LastOfEpoch
      <4>3. Have(entered'[r], left'[r], step'[r][Main], pc'[r][Main])
        BY <1>3, <2>0, <3>1, <3>2, <4>1, <4>2, IndexNext DEF EpochEnd
      <4>. QED BY <1>1, <1>2, <2>0, <2>1, <3>1, <4>3
    <3>4. CASE ~LastOfEpoch(step[r][Main])
      <4>1. pc'[r][Main] \in {1, 9} /\ Index(step'[r][Main]) = Index(step[r][Main]) + 1
        BY <1>3, <2>1, <2>4, <3>1, <3>4, IndexNext DEF EpochEnd, End
      <4>3. Have(entered'[r], left'[r], step'[r][Main], pc'[r][Main])
        BY <1>3, <2>0, <3>1, <3>2, <4>1, IndexNext DEF EpochEnd
      <4>. QED BY <1>1, <1>2, <2>0, <2>1, <3>1, <4>3
    <3>. QED BY <3>3, <3>4
  <2>. QED BY <2>0, <2>2, <2>3, <2>4 DEF Loop
<1>8. ASSUME NEW r \in Ranks, Start(r)
      PROVE  /\ \A q \in Ranks : Have(entered'[q], left'[q], step'[q][Main], pc'[q][Main])
             /\ \A q, u \in Ranks : left'[q] <= entered'[u]
  <2>1. /\ UNCHANGED <<step, entered, left>> /\ pc[r][Main] = 0 /\ pc'[r][Main] \in {1, 9}
        /\ \A q \in Ranks : q # r => pc'[q] = pc[q]
    BY <1>8, StartActs
  <2>2. Have(entered[r], left[r], step[r][Main], pc'[r][Main])
    BY <1>1, <2>1 DEF EpochEnd
  <2>. QED BY <1>1, <1>2, <2>1, <2>2
<1>9. ASSUME NEW r \in Ranks, Enter(r)
      PROVE  /\ \A q \in Ranks : Have(entered'[q], left'[q], step'[q][Main], pc'[q][Main])
             /\ \A q, u \in Ranks : left'[q] <= entered'[u]
  <2>1. /\ UNCHANGED <<pc, step, left>> /\ InCollective(r) /\ entered[r] = left[r]
        /\ entered'[r] = entered[r] + 1 /\ \A q \in Ranks : q # r => entered'[q] = entered[q]
    BY <1>9 DEF Enter, controlVars
  <2>2. pc[r][Main] \in {4, EpochEnd}
    BY <2>1 DEF InCollective, At, Program, MainProgram, Loop
  <2>3. Have(entered'[r], left[r], step[r][Main], pc[r][Main])
    BY <1>1, <1>3, <2>1, <2>2
  <2>4. \A q, u \in Ranks : left[q] <= entered'[u]
    BY <1>2, <1>3, <2>1
  <2>. QED BY <1>1, <2>1, <2>3, <2>4
<1>10. ASSUME NEW r \in Ranks, FinishEpoch(r)
       PROVE  /\ \A q \in Ranks : Have(entered'[q], left'[q], step'[q][Main], pc'[q][Main])
              /\ \A q, u \in Ranks : left'[q] <= entered'[u]
  <2>1. /\ UNCHANGED <<step, entered>> /\ pc[r][Main] = EpochEnd /\ pc'[r][Main] \in {1, 9}
        /\ \A q \in Ranks : q # r => pc'[q][Main] = pc[q][Main]
        /\ entered[r] > left[r] /\ \A u \in Ranks : entered[u] >= entered[r]
    BY <1>0, <1>10, FinishActs DEF Complete
  <2>2. left'[r] = left[r] + 1 /\ \A q \in Ranks : q # r => left'[q] = left[q]
    BY <1>10 DEF FinishEpoch
  <2>3. entered[r] = left[r] + 1 /\ left[r] = Index(step[r][Main]) - 1
    BY <1>1, <1>3, <2>1, IndexNext DEF EpochEnd
  <2>4. Have(entered'[r], left'[r], step'[r][Main], pc'[r][Main])
    BY <1>1, <1>3, <2>1, <2>2, <2>3, IndexNext DEF EpochEnd
  <2>5. \A q, u \in Ranks : left'[q] <= entered'[u]
    BY <1>2, <1>3, <2>1, <2>2, <2>3
  <2>. QED BY <1>1, <2>1, <2>2, <2>4, <2>5
<1>. QED BY <1>5, <1>6, <1>7, <1>8, <1>9, <1>10, Kinds

LEMMA CollectiveRange ==
  ASSUME IInv, CollectiveInv, NEW r \in Ranks, entered \in [Ranks -> Nat], left \in [Ranks -> Nat]
  PROVE  /\ pc[r][Main] = 4 => left[r] = Index(step[r][Main])
         /\ pc[r][Main] = EpochEnd =>
              left[r] = Index(step[r][Main]) - 1 /\ step[r][Main] % PerEpoch = 0
         /\ Complete(r) =>
              \A q \in Ranks : left[r] < entered[q] /\ entered[q] <= left[r] + 2
<1>1. Main \in Members /\ step[r][Main] \in Nat /\ \A q \in Ranks : entered[q] \in Nat /\ left[q] \in Nat
  BY ConstFacts, StepRange
<1>2. Index(step[r][Main]) \in Nat
  BY <1>1, IndexNext
<1>3. ASSUME Complete(r), NEW q \in Ranks
      PROVE  left[r] < entered[q] /\ entered[q] <= left[r] + 2
  <2>1. entered[r] = left[r] + 1 /\ entered[q] >= entered[r]
    BY <1>1, <1>3 DEF Complete, CollectiveInv
  <2>2. left[q] <= entered[r] /\ entered[q] <= left[q] + 1
    BY <1>1 DEF CollectiveInv
  <2>. QED BY <1>1, <2>1, <2>2
<1>. QED BY <1>1, <1>2, <1>3 DEF CollectiveInv, EpochEnd

\* What a process gives is of the step it is in, and stays until everyone has it.
LEMMA SentStep ==
  ASSUME IInv, DataInv, [Next]_vars
  PROVE  SentInv'
<1>0. /\ Main \in Members /\ Steps \in Nat /\ \A t \in Threads : t \in Members /\ t # Main
  BY ConstFacts
<1>1. UNCHANGED <<mode, batch>>
  BY NoStepChangesMode
<1>2. Samples' = Samples /\ \A r \in Ranks : Covered(r)' = Covered(r)
  BY <1>1, Split
<1>3. ASSUME NEW q \in Ranks, NEW k \in 0..Steps, entered'[q] = entered[q], sent'[q] = sent[q]
      PROVE  SentAt(q, k)'
  <2>1. SentAt(q, k)
    BY DEF DataInv, SentInv
  <2>2. /\ Recent(q, Index(k))' <=> Recent(q, Index(k))
        /\ Recent(q, Index(k) - 1)' <=> Recent(q, Index(k) - 1)
    BY <1>3 DEF Recent
  <2>. QED BY <1>2, <1>3, <2>1, <2>2 DEF SentAt
<1>10. UNCHANGED <<entered, sent>> => SentInv'
  BY <1>3 DEF SentInv
<1>4. CASE UNCHANGED vars
  BY <1>4, <1>10 DEF vars, mpiVars
<1>5. ASSUME NEW r \in Ranks, Enter(r)
      PROVE  SentInv'
  <2>. DEFINE n == entered[r]
              m == step[r][Main]
  <2>1. /\ InCollective(r) /\ n = left[r] /\ entered' = [entered EXCEPT ![r] = n + 1]
        /\ sent' = [sent EXCEPT ![r][n % 2] = [dot |-> dot[r], steps |-> Len(x[r])]]
    BY <1>5 DEF Enter
  <2>2. /\ entered \in [Ranks -> Nat] /\ left \in [Ranks -> Nat] /\ m \in Nat
        /\ sent \in [Ranks -> [{0, 1} -> [dot : Row, steps : 0..Steps]]] /\ Len(x[r]) = m
    BY <1>0, StepRange DEF DataInv, DataTypes, ModelInv
  <2>3. n \in Nat /\ n % 2 \in {0, 1}
    BY <2>2
  <2>4. /\ entered'[r] = n + 1
        /\ \A q \in Ranks : q # r => entered'[q] = entered[q] /\ sent'[q] = sent[q]
        /\ sent'[r][n % 2] = [dot |-> dot[r], steps |-> m]
        /\ \A j \in {0, 1} : j # n % 2 => sent'[r][j] = sent[r][j]
    BY <2>1, <2>2, <2>3
  <2>5. pc[r][Main] \in {4, EpochEnd}
    BY <2>1 DEF InCollective, At, Program, MainProgram, Loop
  <2>6. /\ pc[r][Main] = 4 => n = Index(m)
        /\ pc[r][Main] = EpochEnd => n = Index(m) - 1 /\ m % PerEpoch = 0
    BY <2>1, <2>2, CollectiveRange DEF DataInv
  <2>7. ASSUME pc[r][Main] = 4, NEW s \in Samples
        PROVE  dot[r][s] = IF s \in Covered(r) THEN {<<r, m>>} ELSE {}
    <3>1. CASE s \in Covered(r)
      <4>1. PICK t \in Threads : s \in Slice(r, t)
        BY <3>1 DEF Covered
      <4>2. pc[r][t] \in 3..7 /\ step[r][t] = m
        BY <2>7, Together
      <4>. QED BY <3>1, <4>1, <4>2 DEF DataInv, DotInv
    <3>2. CASE s \notin Covered(r)
      BY <3>2 DEF DataInv, DotInv
    <3>. QED BY <3>1, <3>2
  <2>. HIDE DEF n, m
  <2>8. ASSUME NEW i \in Nat, i < n + 1, n + 1 <= i + 2, i # n
        PROVE  Recent(r, i) /\ i % 2 \in {0, 1} /\ i % 2 # n % 2
    BY <2>3, <2>8 DEF Recent, n
  <2>9. ASSUME NEW k \in 0..Steps, Index(k) < n + 1, n + 1 <= Index(k) + 2, NEW s \in Samples
        PROVE  sent'[r][Index(k) % 2].dot[s] = IF s \in Covered(r) THEN {<<r, k>>} ELSE {}
    <3>1. k \in Nat /\ m \in Nat
      BY <1>0, <2>2 DEF m
    <3>4. Index(k) \in Nat /\ Index(m) \in Nat
      BY <3>1, IndexNext
    <3>2. CASE Index(k) = n
      <4>1. pc[r][Main] = 4
        BY <2>2, <2>5, <2>6, <3>1, <3>2, <3>4, IndexApart DEF m
      <4>2. k = m
        BY <2>2, <2>6, <3>1, <3>2, <3>4, <4>1, IndexApart DEF m
      <4>3. sent'[r][Index(k) % 2].dot[s] = dot[r][s]
        BY <2>4, <3>2
      <4>. QED BY <2>7, <4>1, <4>2, <4>3 DEF m
    <3>3. CASE Index(k) # n
      <4>1. Recent(r, Index(k)) /\ sent'[r][Index(k) % 2] = sent[r][Index(k) % 2]
        BY <2>4, <2>8, <2>9, <3>3, <3>4
      <4>. QED BY <4>1 DEF DataInv, SentInv, SentAt
    <3>. QED BY <3>2, <3>3
  <2>10. ASSUME NEW k \in 0..Steps, k > 0, k % PerEpoch = 0,
                Index(k) - 1 < n + 1, n + 1 <= (Index(k) - 1) + 2
         PROVE  sent'[r][(Index(k) - 1) % 2].steps = k
    <3>1. k \in Nat /\ m \in Nat
      BY <1>0, <2>2 DEF m
    <3>4. Index(k) \in Nat /\ Index(m) \in Nat /\ k <= Index(k)
      BY <3>1, IndexNext
    <3>2. CASE Index(k) - 1 = n
      <4>1. pc[r][Main] = EpochEnd
        BY <2>2, <2>5, <2>6, <2>10, <3>1, <3>2, <3>4, IndexApart DEF m
      <4>2. k = m
        <5>1. Index(k) = Index(m)
          BY <2>6, <3>1, <3>2, <3>4, <4>1 DEF m
        <5>. QED BY <3>1, <5>1, IndexApart DEF m
      <4>. QED BY <2>4, <3>2, <4>2
    <3>3. CASE Index(k) - 1 # n
      <4>1. Index(k) - 1 \in Nat
        BY <2>10, <3>1, <3>4
      <4>2. Recent(r, Index(k) - 1) /\ sent'[r][(Index(k) - 1) % 2] = sent[r][(Index(k) - 1) % 2]
        BY <2>4, <2>8, <2>10, <3>3, <4>1
      <4>. QED BY <2>10, <4>2 DEF DataInv, SentInv, SentAt
    <3>. QED BY <3>2, <3>3
  <2>11. ASSUME NEW k \in 0..Steps
         PROVE  SentAt(r, k)'
    <3>1. Recent(r, Index(k))' <=> Index(k) < n + 1 /\ n + 1 <= Index(k) + 2
      BY <2>4 DEF Recent
    <3>2. Recent(r, Index(k) - 1)' <=> Index(k) - 1 < n + 1 /\ n + 1 <= (Index(k) - 1) + 2
      BY <2>4 DEF Recent
    <3>3. Recent(r, Index(k))' =>
            \A s \in Samples' : sent'[r][Index(k) % 2].dot[s] =
                                  IF s \in Covered(r)' THEN {<<r, k>>} ELSE {}
      BY <1>2, <2>9, <3>1
    <3>4. k > 0 /\ k % PerEpoch = 0 /\ Recent(r, Index(k) - 1)' =>
            sent'[r][(Index(k) - 1) % 2].steps = k
      BY <2>10, <3>2
    <3>. QED BY <3>3, <3>4 DEF SentAt
  <2>. QED BY <1>3, <2>4, <2>11 DEF SentInv
<1>6. ASSUME NEW r \in Ranks, NEW t \in Threads, ThreadStep(r, t)
      PROVE  SentInv'
  BY <1>6, <1>10, WorkerActs
<1>7. ASSUME NEW r \in Ranks, MainTurn(r)
      PROVE  SentInv'
  BY <1>7, <1>10, MainActs
<1>8. ASSUME NEW r \in Ranks, Start(r)
      PROVE  SentInv'
  BY <1>8, <1>10, StartActs
<1>9. ASSUME NEW r \in Ranks, FinishEpoch(r)
      PROVE  SentInv'
  BY <1>9, <1>10, FinishActs
<1>. QED BY <1>4, <1>5, <1>6, <1>7, <1>8, <1>9, Kinds

-------------------------------------------------------------------------------
(* The arrays.                                                             *)

LEMMA SlicesInside ==
  ASSUME PlaceTypes, NEW r \in Ranks, NEW t \in Threads
  PROVE  Slice(r, t) \subseteq Samples
<1>1. PICK b \in Nat : b = batch
  BY ConstFacts DEF PlaceTypes
<1>2. NumRanks \in Nat \ {0} /\ NumThreads \in Nat \ {0} /\ r \in Nat /\ t \in Nat
      /\ r <= NumRanks - 1 /\ t <= NumThreads - 1
  BY ConstFacts DEF Ranks, Threads
<1>3. ASSUME NEW a \in Nat, NEW i \in Nat, NEW n \in Nat \ {0}, i <= n - 1
      PROVE  a * i + a <= a * n /\ a * i \in Nat /\ a * n \in Nat
  <2>1. PICK w \in Nat : n = i + 1 + w
    <3>1. n - (i + 1) \in Nat /\ n = i + 1 + (n - (i + 1))
      BY <1>3
    <3>. QED BY <3>1
  <2>2. a * (i + 1 + w) = a * i + a + a * w /\ a * w \in Nat /\ a * i \in Nat
    OBVIOUS
  <2>. QED BY <2>1, <2>2
<1>4. ASSUME NEW a \in Nat, NEW n \in Nat \ {0}
      PROVE  (a \div n) \in Nat /\ (a \div n) * n \in Nat /\ (a \div n) * n <= a
  <2>1. (a \div n) \in Nat /\ a % n \in Nat /\ a = n * (a \div n) + (a % n)
    BY DivFacts
  <2>2. n * (a \div n) = (a \div n) * n /\ n * (a \div n) \in Nat
    BY <2>1
  <2>. QED BY <2>1, <2>2
<1>5. /\ MiniBatch \in Nat /\ PerRank \in Nat /\ RankBias(r) \in Nat
      /\ RankBias(r) + PerRank <= MiniBatch
  <2>1. CASE mode = "data"
    <3>1. PICK c \in Nat : c = MiniBatch
      BY <1>1, <1>2, <1>4, <2>1 DEF MiniBatch
    <3>2. PerRank = c \div NumRanks /\ PerRank \in Nat /\ PerRank * NumRanks <= c
      BY <1>2, <1>4, <2>1, <3>1 DEF PerRank
    <3>3. PerRank * r + PerRank <= PerRank * NumRanks /\ PerRank * r \in Nat
      BY <1>2, <1>3, <3>2
    <3>4. PerRank * NumRanks \in Nat /\ RankBias(r) = PerRank * r
      BY <1>2, <2>1, <3>2 DEF RankBias
    <3>. QED BY <3>1, <3>2, <3>3, <3>4
  <2>2. CASE mode # "data"
    BY <1>1, <2>2 DEF MiniBatch, PerRank, RankBias
  <2>. QED BY <2>1, <2>2
<1>6. PICK p \in Nat, m \in Nat, z \in Nat : p = PerRank /\ m = MiniBatch /\ z = RankBias(r)
  BY <1>5
<1>7. PerThread \in Nat /\ PerThread * NumThreads <= p
  BY <1>2, <1>4, <1>6 DEF PerThread
<1>8. PICK n \in Nat : n = PerThread
  BY <1>7
<1>9. n * t + n <= n * NumThreads /\ n * t \in Nat /\ n * NumThreads \in Nat
  BY <1>2, <1>3
<1>10. PICK e \in Nat : e = n * t
  BY <1>9
<1>11. e + n <= p /\ z + p <= m
  BY <1>5, <1>6, <1>7, <1>8, <1>9, <1>10
<1>12. Slice(r, t) = (z + e) .. ((z + e) + n - 1) /\ Samples = 0 .. (m - 1)
  BY <1>6, <1>8, <1>10 DEF Slice, Samples
<1>. QED BY <1>11, <1>12

\* A worker is where it was, unless it takes the step itself or is started.
LEMMA OthersStay ==
  ASSUME IInv, [Next]_vars, NEW r \in Ranks, NEW t \in Threads, ~ThreadStep(r, t)
  PROVE  /\ pc'[r][t] = pc[r][t] \/ (pc[r][t] = 0 /\ pc'[r][t] \in {0, 1})
         /\ step'[r][t] = step[r][t]
<1>0. Main \in Members /\ \A u \in Threads : u \in Members /\ u # Main
  BY ConstFacts
<1>1. CASE UNCHANGED vars
  BY <1>1 DEF vars, controlVars
<1>2. ASSUME NEW q \in Ranks, NEW u \in Threads, ThreadStep(q, u)
      PROVE  pc'[r][t] = pc[r][t] /\ step'[r][t] = step[r][t]
  <2>1. q # r \/ u # t
    BY <1>2
  <2>. QED BY <1>0, <1>2, <2>1, WorkerActs, Advanced
<1>3. ASSUME NEW q \in Ranks, MainTurn(q)
      PROVE  pc'[r][t] = pc[r][t] /\ step'[r][t] = step[r][t]
  BY <1>0, <1>3, MainActs, Advanced
<1>4. ASSUME NEW q \in Ranks, Start(q)
      PROVE  /\ pc'[r][t] = pc[r][t] \/ (pc[r][t] = 0 /\ pc'[r][t] \in {0, 1})
             /\ step'[r][t] = step[r][t]
  <2>1. CASE q = r
    <3>1. pc[r][t] = 0
      BY <1>0, <1>4, <2>1 DEF Start, IInv, PlaceInv, Unstarted
    <3>. QED BY <1>4, <2>1, <3>1, StartActs
  <2>2. CASE q # r
    BY <1>4, <2>2, StartActs
  <2>. QED BY <2>1, <2>2
<1>5. ASSUME NEW q \in Ranks, Enter(q)
      PROVE  pc'[r][t] = pc[r][t] /\ step'[r][t] = step[r][t]
  BY <1>5 DEF Enter, controlVars
<1>6. ASSUME NEW q \in Ranks, FinishEpoch(q)
      PROVE  pc'[r][t] = pc[r][t] /\ step'[r][t] = step[r][t]
  BY <1>0, <1>6, FinishActs
<1>. QED BY <1>1, <1>2, <1>3, <1>4, <1>5, <1>6, Kinds

\* The workers' arrays are changed by their own steps only.
LEMMA OthersKeep ==
  ASSUME [Next]_vars, \A r \in Ranks : \A t \in Threads : ~ThreadStep(r, t)
  PROVE  dot' = dot /\ stat' = stat
<1>1. CASE UNCHANGED vars
  BY <1>1 DEF vars, dataVars
<1>2. ASSUME NEW q \in Ranks, MainTurn(q)
      PROVE  dot' = dot /\ stat' = stat
  BY <1>2, MainActs
<1>3. ASSUME NEW q \in Ranks, Start(q) \/ Enter(q) \/ FinishEpoch(q)
      PROVE  dot' = dot /\ stat' = stat
  BY <1>3 DEF Start, Enter, FinishEpoch, dataVars
<1>. QED BY <1>1, <1>2, <1>3, Kinds

LEMMA DotStep ==
  ASSUME IInv, DataInv, [Next]_vars
  PROVE  DotInv'
<1>0. \A t \in Threads : t \in Members /\ t # Main
  BY ConstFacts
<1>1. UNCHANGED <<mode, batch>>
  BY NoStepChangesMode
<1>2. /\ Samples' = Samples /\ \A r \in Ranks : Covered(r)' = Covered(r)
      /\ \A r \in Ranks : \A t \in Threads : Slice(r, t)' = Slice(r, t)
  BY <1>1, Split
<1>3. SUFFICES
        /\ \A r \in Ranks : \A t \in Threads : pc'[r][t] \in 3..7 =>
             \A s \in Slice(r, t) : dot'[r][s] = {<<r, step'[r][t]>>}
        /\ \A r \in Ranks : \A s \in Samples \ Covered(r) : dot'[r][s] = {}
  BY <1>2 DEF DotInv
<1>4. /\ \A r \in Ranks : \A t \in Threads : pc[r][t] \in 3..7 =>
           \A s \in Slice(r, t) : dot[r][s] = {<<r, step[r][t]>>}
      /\ \A r \in Ranks : \A s \in Samples \ Covered(r) : dot[r][s] = {}
  BY DEF DataInv, DotInv
<1>5. CASE \A r \in Ranks : \A t \in Threads : ~ThreadStep(r, t)
  BY <1>4, <1>5, OthersStay, OthersKeep
<1>6. ASSUME NEW r \in Ranks, NEW t \in Threads, ThreadStep(r, t)
      PROVE  /\ \A q \in Ranks : \A u \in Threads : pc'[q][u] \in 3..7 =>
                  \A s \in Slice(q, u) : dot'[q][s] = {<<q, step'[q][u]>>}
             /\ \A q \in Ranks : \A s \in Samples \ Covered(q) : dot'[q][s] = {}
  <2>1. pc[r][t] \in 1..7 /\ Advance(r, t)
    BY <1>6, WorkerActs DEF Loop
  <2>2. /\ \A q \in Ranks : \A u \in Threads :
             q # r \/ u # t => pc'[q][u] = pc[q][u] /\ step'[q][u] = step[q][u]
        /\ pc[r][t] < 7 => pc'[r][t] = pc[r][t] + 1 /\ step'[r][t] = step[r][t]
        /\ pc[r][t] = 7 => pc'[r][t] \in {1, 8, 9}
    BY <1>0, <2>1, Advanced DEF EpochEnd, End, Loop
  <2>3. CASE pc[r][t] = 2
    <3>1. dot' = [dot EXCEPT ![r] =
            [s \in Samples |-> IF s \in Slice(r, t) THEN {<<r, Len(x[r])>>} ELSE dot[r][s]]]
      BY <1>6, <2>3, WorkerActs DEF CalcDot
    <3>2. Len(x[r]) = step[r][t] /\ step'[r][t] = step[r][t]
      BY <2>2, <2>3, Together DEF DataInv, ModelInv
    <3>3. dot \in [Ranks -> Row]
      BY DEF DataInv, DataTypes
    <3>4. \A q \in Ranks : q # r => dot'[q] = dot[q]
      BY <3>1, <3>3
    <3>5. \A s \in Samples :
            dot'[r][s] = IF s \in Slice(r, t) THEN {<<r, step'[r][t]>>} ELSE dot[r][s]
      BY <3>1, <3>2, <3>3
    <3>6. ASSUME NEW u \in Threads, u # t, NEW s \in Slice(r, u)
          PROVE  dot'[r][s] = dot[r][s]
      <4>1. s \in Samples /\ s \notin Slice(r, t)
        BY <3>6, SlicesInside, SlicesApart DEF IInv
      <4>. QED BY <3>5, <4>1
    <3>7. ASSUME NEW s \in Slice(r, t)
          PROVE  dot'[r][s] = {<<r, step'[r][t]>>}
      BY <3>5, SlicesInside DEF IInv
    <3>8. ASSUME NEW s \in Samples \ Covered(r)
          PROVE  dot'[r][s] = {}
      BY <1>4, <3>5 DEF Covered
    <3>. QED BY <1>4, <2>2, <3>4, <3>6, <3>7, <3>8
  <2>4. CASE pc[r][t] # 2
    <3>1. dot' = dot
      BY <1>6, <2>4, WorkerActs
    <3>2. pc'[r][t] \in 3..7 => pc[r][t] \in 3..7 /\ step'[r][t] = step[r][t]
      BY <2>1, <2>2, <2>4
    <3>. QED BY <1>4, <2>2, <3>1, <3>2
  <2>. QED BY <2>3, <2>4
<1>. QED BY <1>5, <1>6

LEMMA StatStep ==
  ASSUME IInv, DataInv, [Next]_vars
  PROVE  StatInv'
<1>0. \A t \in Threads : t \in Members /\ t # Main
  BY ConstFacts
<1>1. UNCHANGED <<mode, batch>>
  BY NoStepChangesMode
<1>2. /\ Samples' = Samples /\ \A s, k : Summed(s, k)' = Summed(s, k)
      /\ \A r \in Ranks : \A t \in Threads : Slice(r, t)' = Slice(r, t)
  BY <1>1, Split
<1>3. SUFFICES \A r \in Ranks : \A t \in Threads : pc'[r][t] \in 6..7 =>
                 \A s \in Slice(r, t) : stat'[r][s] = Summed(s, step'[r][t])
  <2>1. \A r \in Ranks : \A t \in Threads : \A s : Summed(s, step[r][t])' = Summed(s, step'[r][t])
    BY <1>1, Split DEF Summed
  <2>. QED BY <1>2, <2>1 DEF StatInv
<1>4. \A r \in Ranks : \A t \in Threads : pc[r][t] \in 6..7 =>
        \A s \in Slice(r, t) : stat[r][s] = Summed(s, step[r][t])
  BY DEF DataInv, StatInv
<1>5. CASE \A r \in Ranks : \A t \in Threads : ~ThreadStep(r, t)
  BY <1>4, <1>5, OthersStay, OthersKeep
<1>6. ASSUME NEW r \in Ranks, NEW t \in Threads, ThreadStep(r, t)
      PROVE  \A q \in Ranks : \A u \in Threads : pc'[q][u] \in 6..7 =>
               \A s \in Slice(q, u) : stat'[q][s] = Summed(s, step'[q][u])
  <2>1. pc[r][t] \in 1..7 /\ Advance(r, t)
    BY <1>6, WorkerActs DEF Loop
  <2>2. /\ \A q \in Ranks : \A u \in Threads :
             q # r \/ u # t => pc'[q][u] = pc[q][u] /\ step'[q][u] = step[q][u]
        /\ pc[r][t] < 7 => pc'[r][t] = pc[r][t] + 1 /\ step'[r][t] = step[r][t]
        /\ pc[r][t] = 7 => pc'[r][t] \in {1, 8, 9}
    BY <1>0, <2>1, Advanced DEF EpochEnd, End, Loop
  <2>3. CASE pc[r][t] = 5
    <3>1. stat' = [stat EXCEPT ![r] =
            [s \in Samples |-> IF s \in Slice(r, t) THEN dotSum[r][s] ELSE stat[r][s]]]
      BY <1>6, <2>3, WorkerActs DEF CalcStatistics
    <3>2. \A s \in Samples : dotSum[r][s] = Summed(s, step[r][t])
      BY <2>3, Together DEF DataInv, SumInv
    <3>3. stat \in [Ranks -> Row] /\ step'[r][t] = step[r][t]
      BY <2>2, <2>3 DEF DataInv, DataTypes
    <3>4. \A q \in Ranks : q # r => stat'[q] = stat[q]
      BY <3>1, <3>3
    <3>5. \A s \in Samples :
            stat'[r][s] = IF s \in Slice(r, t) THEN dotSum[r][s] ELSE stat[r][s]
      BY <3>1, <3>3
    <3>6. ASSUME NEW u \in Threads, u # t, NEW s \in Slice(r, u)
          PROVE  stat'[r][s] = stat[r][s]
      <4>1. s \in Samples /\ s \notin Slice(r, t)
        BY <3>6, SlicesInside, SlicesApart DEF IInv
      <4>. QED BY <3>5, <4>1
    <3>7. ASSUME NEW s \in Slice(r, t)
          PROVE  stat'[r][s] = Summed(s, step'[r][t])
      BY <3>2, <3>3, <3>5, SlicesInside DEF IInv
    <3>. QED BY <1>4, <2>2, <3>4, <3>6, <3>7
  <2>4. CASE pc[r][t] # 5
    <3>1. stat' = stat
      BY <1>6, <2>4, WorkerActs
    <3>2. pc'[r][t] \in 6..7 => pc[r][t] \in 6..7 /\ step'[r][t] = step[r][t]
      BY <2>1, <2>2, <2>4
    <3>. QED BY <1>4, <2>2, <3>1, <3>2
  <2>. QED BY <2>3, <2>4
<1>. QED BY <1>5, <1>6

\* Main is where it was in its loop unless it takes a step of the loop, and
\* what only that step changes is as it was.
LEMMA MainStays ==
  ASSUME IInv, DataTypes, [Next]_vars, NEW r \in Ranks, ~MainTurn(r)
  PROVE  /\ step'[r][Main] = step[r][Main]
         /\ pc'[r][Main] = pc[r][Main] \/ (pc[r][Main] \in {0, 8} /\ pc'[r][Main] \in {1, 9})
         /\ x'[r] = x[r] /\ dotSum'[r] = dotSum[r]
<1>0. Main \in Members /\ \A u \in Threads : u \in Members /\ u # Main
  BY ConstFacts
<1>1. CASE UNCHANGED vars
  BY <1>1 DEF vars, controlVars, dataVars
<1>2. ASSUME NEW q \in Ranks, NEW u \in Threads, ThreadStep(q, u)
      PROVE  /\ pc'[r][Main] = pc[r][Main] /\ step'[r][Main] = step[r][Main]
             /\ x' = x /\ dotSum' = dotSum
  BY <1>0, <1>2, WorkerActs, Advanced
<1>3. ASSUME NEW q \in Ranks, MainTurn(q)
      PROVE  /\ pc'[r][Main] = pc[r][Main] /\ step'[r][Main] = step[r][Main]
             /\ x'[r] = x[r] /\ dotSum'[r] = dotSum[r]
  <2>1. q # r
    BY <1>3
  <2>2. pc'[r][Main] = pc[r][Main] /\ step'[r][Main] = step[r][Main]
    BY <1>0, <1>3, <2>1, MainActs, Advanced
  <2>3. x'[r] = x[r]
    <3>1. CASE pc[q][Main] = 7
      BY <1>3, <2>1, <3>1, MainActs DEF UpdateX, DataTypes
    <3>2. CASE pc[q][Main] # 7
      BY <1>3, <3>2, MainActs
    <3>. QED BY <3>1, <3>2
  <2>4. dotSum'[r] = dotSum[r]
    <3>1. CASE pc[q][Main] = 4
      BY <1>3, <2>1, <3>1, MainActs DEF AllReduceDot, DataTypes
    <3>2. CASE pc[q][Main] # 4
      BY <1>3, <3>2, MainActs
    <3>. QED BY <3>1, <3>2
  <2>. QED BY <2>2, <2>3, <2>4
<1>4. ASSUME NEW q \in Ranks, Start(q)
      PROVE  /\ step'[r][Main] = step[r][Main]
             /\ pc'[r][Main] = pc[r][Main] \/ (pc[r][Main] = 0 /\ pc'[r][Main] \in {1, 9})
             /\ x' = x /\ dotSum' = dotSum
  BY <1>4, StartActs
<1>5. ASSUME NEW q \in Ranks, Enter(q)
      PROVE  /\ pc'[r][Main] = pc[r][Main] /\ step'[r][Main] = step[r][Main]
             /\ x' = x /\ dotSum' = dotSum
  BY <1>5 DEF Enter, controlVars, dataVars
<1>6. ASSUME NEW q \in Ranks, FinishEpoch(q)
      PROVE  /\ step'[r][Main] = step[r][Main]
             /\ pc'[r][Main] = pc[r][Main] \/ (pc[r][Main] = 8 /\ pc'[r][Main] \in {1, 9})
             /\ x' = x /\ dotSum' = dotSum
  BY <1>0, <1>6, FinishActs DEF EpochEnd
<1>. QED BY <1>1, <1>2, <1>3, <1>4, <1>5, <1>6, Kinds

LEMMA SumStep ==
  ASSUME IInv, DataInv, [Next]_vars
  PROVE  SumInv'
<1>0. Main \in Members
  BY ConstFacts
<1>1. UNCHANGED <<mode, batch>>
  BY NoStepChangesMode
<1>2. Samples' = Samples /\ \A s, k : Summed(s, k)' = Summed(s, k)
  BY <1>1, Split
<1>3. SUFFICES ASSUME NEW r \in Ranks, pc'[r][Main] \in 5..7, NEW s \in Samples
               PROVE  dotSum'[r][s] = Summed(s, step'[r][Main])
  <2>1. \A r \in Ranks : \A s : Summed(s, step[r][Main])' = Summed(s, step'[r][Main])
    BY <1>1, Split DEF Summed
  <2>. QED BY <1>2, <2>1 DEF SumInv
<1>4. pc[r][Main] \in 5..7 => dotSum[r][s] = Summed(s, step[r][Main])
  BY DEF DataInv, SumInv
<1>5. CASE ~MainTurn(r)
  BY <1>3, <1>4, <1>5, MainStays DEF DataInv
<1>6. CASE MainTurn(r)
  <2>1. pc[r][Main] \in 1..7 /\ Advance(r, Main)
    BY <1>6, MainActs DEF Loop
  <2>2. pc[r][Main] \in 4..6 /\ step'[r][Main] = step[r][Main]
    BY <1>0, <1>3, <2>1, Advanced DEF EpochEnd, End, Loop
  <2>3. CASE pc[r][Main] = 4
    <3>. DEFINE k == step[r][Main]
    <3>1. /\ Complete(r)
          /\ dotSum' = [dotSum EXCEPT ![r] =
               [u \in Samples |-> UNION {Given(q, r).dot[u] : q \in Ranks}]]
      BY <1>6, <2>3, MainActs DEF AllReduceDot
    <3>2. dotSum'[r][s] = UNION {Given(q, r).dot[s] : q \in Ranks}
      BY <3>1 DEF DataInv, DataTypes
    <3>3. left[r] = Index(k) /\ \A q \in Ranks : left[r] < entered[q] /\ entered[q] <= left[r] + 2
      BY <2>3, <3>1, CollectiveRange DEF DataInv, DataTypes
    <3>4. k \in 0..Steps
      BY <1>0, StepRange, EpochFacts
    <3>. HIDE DEF k
    <3>5. ASSUME NEW q \in Ranks
          PROVE  Given(q, r).dot[s] = IF s \in Covered(q) THEN {<<q, k>>} ELSE {}
      <4>1. Recent(q, Index(k)) /\ SentAt(q, k)
        BY <3>3, <3>4 DEF Recent, DataInv, SentInv
      <4>. QED BY <3>3, <4>1 DEF SentAt, Given
    <3>6. UNION {Given(q, r).dot[s] : q \in Ranks} = Summed(s, k)
      BY <3>5 DEF Summed
    <3>. QED BY <2>2, <3>2, <3>6 DEF k
  <2>4. CASE pc[r][Main] # 4
    BY <1>4, <1>6, <2>2, <2>4, MainActs
  <2>. QED BY <2>3, <2>4
<1>. QED BY <1>5, <1>6

\* Nobody but the worker and main touches a worker's gradient.
LEMMA GradKept ==
  ASSUME [Next]_vars, NEW r \in Ranks, NEW t \in Threads, gradient \in [Ranks -> [Threads -> Grads]],
         ~(ThreadStep(r, t) /\ pc[r][t] = 6), ~(MainTurn(r) /\ pc[r][Main] = 2)
  PROVE  gradient'[r][t] = gradient[r][t]
<1>1. CASE UNCHANGED vars
  BY <1>1 DEF vars, dataVars
<1>2. ASSUME NEW q \in Ranks, NEW u \in Threads, ThreadStep(q, u)
      PROVE  gradient'[r][t] = gradient[r][t]
  <2>1. CASE pc[q][u] = 6
    <3>1. q # r \/ u # t
      BY <2>1, <1>2
    <3>. QED BY <1>2, <2>1, <3>1, WorkerActs DEF CalcGradient
  <2>2. CASE pc[q][u] # 6
    BY <1>2, <2>2, WorkerActs
  <2>. QED BY <2>1, <2>2
<1>3. ASSUME NEW q \in Ranks, MainTurn(q)
      PROVE  gradient'[r][t] = gradient[r][t]
  <2>1. CASE pc[q][Main] = 2
    <3>1. q # r
      BY <1>3, <2>1
    <3>. QED BY <1>3, <2>1, <3>1, MainActs DEF InitGradient
  <2>2. CASE pc[q][Main] # 2
    BY <1>3, <2>2, MainActs
  <2>. QED BY <2>1, <2>2
<1>4. ASSUME NEW q \in Ranks, Start(q) \/ Enter(q) \/ FinishEpoch(q)
      PROVE  gradient'[r][t] = gradient[r][t]
  BY <1>4 DEF Start, Enter, FinishEpoch, dataVars
<1>. QED BY <1>1, <1>2, <1>3, <1>4, Kinds

LEMMA GradStep ==
  ASSUME IInv, DataInv, [Next]_vars
  PROVE  GradInv'
<1>0. Main \in Members /\ \A t \in Threads : t \in Members /\ t # Main
  BY ConstFacts
<1>1. UNCHANGED <<mode, batch>>
  BY NoStepChangesMode
<1>2. SUFFICES ASSUME NEW r \in Ranks, NEW t \in Threads, pc'[r][Main] \in 3..7
               PROVE  gradient'[r][t] =
                        IF step'[r][t] = step'[r][Main] /\ pc'[r][t] # 7 THEN {}
                        ELSE Learned(Slice(r, t), step'[r][Main])
  <2>1. \A q \in Ranks : \A u \in Threads :
          Learned(Slice(q, u), step[q][Main])' = Learned(Slice(q, u), step'[q][Main])
    <3>1. \A q \in Ranks : \A u \in Threads : Slice(q, u)' = Slice(q, u)
      BY <1>1, Split
    <3>2. \A s, k : Summed(s, k)' = Summed(s, k)
      BY <1>1, Split
    <3>3. \A q \in Ranks : \A s : Summed(s, step[q][Main])' = Summed(s, step'[q][Main])
      BY <1>1, Split DEF Summed
    <3>. QED BY <3>1, <3>3 DEF Learned
  <2>. QED BY <2>1 DEF GradInv
<1>3. /\ gradient \in [Ranks -> [Threads -> Grads]]
      /\ pc[r][Main] \in 3..7 =>
           gradient[r][t] = IF step[r][t] = step[r][Main] /\ pc[r][t] # 7 THEN {}
                            ELSE Learned(Slice(r, t), step[r][Main])
  BY DEF DataInv, DataTypes, GradInv
<1>4. CASE ThreadStep(r, t)
  <2>1. pc[r][t] \in 1..7 /\ Advance(r, t)
    BY <1>4, WorkerActs DEF Loop
  <2>2. /\ pc'[r][Main] = pc[r][Main] /\ step'[r][Main] = step[r][Main]
        /\ pc[r][t] < 7 => pc'[r][t] = pc[r][t] + 1 /\ step'[r][t] = step[r][t]
        /\ pc[r][t] = 7 => step'[r][t] = step[r][t] + 1
    BY <1>0, <2>1, Advanced DEF Loop
  <2>3. pc[r][Main] \in 3..7 /\ step[r][t] \in Nat /\ step[r][Main] \in Nat
    BY <1>0, <1>2, <2>2, StepRange
  <2>4. CASE pc[r][t] = 6
    <3>1. gradient' = [gradient EXCEPT ![r][t] = @ \cup {<<s, stat[r][s]>> : s \in Slice(r, t)}]
      BY <1>4, <2>4, WorkerActs DEF CalcGradient
    <3>2. gradient[r][t] = {} /\ step[r][t] = step[r][Main]
      BY <1>3, <2>3, <2>4, Together
    <3>3. \A s \in Slice(r, t) : stat[r][s] = Summed(s, step[r][Main])
      BY <2>4, <3>2 DEF DataInv, StatInv
    <3>4. gradient'[r][t] = {<<s, stat[r][s]>> : s \in Slice(r, t)}
      BY <1>3, <3>1, <3>2
    <3>5. gradient'[r][t] = Learned(Slice(r, t), step[r][Main])
      BY <3>3, <3>4 DEF Learned
    <3>. QED BY <2>2, <2>4, <3>5
  <2>5. CASE pc[r][t] # 6
    <3>1. gradient'[r][t] = gradient[r][t]
      <4>1. ~(MainTurn(r) /\ pc[r][Main] = 2)
        BY <2>3
      <4>. QED BY <1>3, <2>5, <4>1, GradKept
    <3>2. pc[r][t] = 7 => step'[r][t] # step[r][Main]
      <4>1. pc[r][t] = 7 => step[r][t] = step[r][Main]
        BY <2>3, Together
      <4>. QED BY <2>2, <2>3, <4>1
    <3>3. pc[r][t] < 6 => pc'[r][t] # 7 /\ step'[r][t] = step[r][t]
      BY <2>1, <2>2
    <3>. QED BY <1>3, <2>1, <2>2, <2>3, <2>5, <3>1, <3>2, <3>3
  <2>. QED BY <2>4, <2>5
<1>5. CASE ~ThreadStep(r, t) /\ MainTurn(r)
  <2>1. pc[r][Main] \in 1..7 /\ Advance(r, Main)
    BY <1>5, MainActs DEF Loop
  <2>2. pc'[r][t] = pc[r][t] /\ step'[r][t] = step[r][t]
    BY <1>0, <2>1, Advanced DEF Loop
  <2>3. pc[r][Main] \in 2..6 /\ step'[r][Main] = step[r][Main]
    BY <1>0, <1>2, <2>1, Advanced DEF EpochEnd, End, Loop
  <2>4. CASE pc[r][Main] = 2
    <3>1. gradient' = [gradient EXCEPT ![r] = Cleared(r)]
      BY <1>5, <2>4, MainActs DEF InitGradient
    <3>2. gradient'[r][t] = {}
      BY <1>3, <3>1 DEF Cleared
    <3>3. pc[r][t] # 7 /\ step[r][t] = step[r][Main]
      BY <2>4, Together
    <3>. QED BY <2>2, <2>3, <3>2, <3>3
  <2>5. CASE pc[r][Main] # 2
    <3>1. gradient'[r][t] = gradient[r][t]
      BY <1>3, <1>5, <2>5, GradKept
    <3>. QED BY <1>3, <2>2, <2>3, <2>5, <3>1
  <2>. QED BY <2>4, <2>5
<1>6. CASE ~ThreadStep(r, t) /\ ~MainTurn(r)
  <2>1. pc'[r][Main] = pc[r][Main] /\ step'[r][Main] = step[r][Main]
    BY <1>2, <1>6, MainStays DEF DataInv
  <2>2. gradient'[r][t] = gradient[r][t]
    BY <1>3, <1>6, GradKept
  <2>3. /\ step'[r][t] = step[r][t]
        /\ pc'[r][t] = pc[r][t] \/ (pc[r][t] = 0 /\ pc'[r][t] \in {0, 1})
    BY <1>6, OthersStay
  <2>4. pc'[r][t] = 7 <=> pc[r][t] = 7
    BY <2>3
  <2>. QED BY <1>2, <1>3, <2>1, <2>2, <2>3, <2>4
<1>. QED BY <1>4, <1>5, <1>6

\* Main updates the model with the whole gradients of all its workers.
LEMMA WholeUpdate ==
  ASSUME IInv, DataInv, NEW r \in Ranks, pc[r][Main] = 7
  PROVE  UNION {gradient[r][t] : t \in Threads} = Learned(Covered(r), step[r][Main])
<1>1. ASSUME NEW t \in Threads
      PROVE  gradient[r][t] = Learned(Slice(r, t), step[r][Main])
  <2>1. (step[r][t] = step[r][Main] /\ pc[r][t] = 7) \/ step[r][t] = step[r][Main] + 1
    BY Together
  <2>2. step[r][Main] \in Nat
    BY ConstFacts, StepRange
  <2>3. ~(step[r][t] = step[r][Main] /\ pc[r][t] # 7)
    BY <2>1, <2>2
  <2>. QED BY <2>3 DEF DataInv, GradInv
<1>2. \A t \in Threads : Slice(r, t) \subseteq Samples
  BY SlicesInside DEF IInv
<1>3. \A S, k : Learned(S, k) = {<<s, Summed(s, k)>> : s \in S}
  BY DEF Learned
<1>. HIDE DEF Learned
<1>4. \A g : g \in UNION {gradient[r][t] : t \in Threads} <=>
             \E t \in Threads : \E s \in Slice(r, t) : g = <<s, Summed(s, step[r][Main])>>
  BY <1>1, <1>3
<1>5. \A g : g \in Learned(Covered(r), step[r][Main]) <=>
             \E t \in Threads : \E s \in Slice(r, t) : g = <<s, Summed(s, step[r][Main])>>
  BY <1>2, <1>3 DEF Covered
<1>. QED BY <1>4, <1>5

LEMMA ModelStep ==
  ASSUME IInv, DataInv, [Next]_vars
  PROVE  ModelInv'
<1>0. Main \in Members
  BY ConstFacts
<1>1. UNCHANGED <<mode, batch>>
  BY NoStepChangesMode
<1>2. SUFFICES ASSUME NEW r \in Ranks
               PROVE  /\ Len(x'[r]) = step'[r][Main]
                      /\ \A k \in 1..Len(x'[r]) : x'[r][k] = Learned(Covered(r), k - 1)
  <2>1. \A q \in Ranks : \A k : Learned(Covered(q), k)' = Learned(Covered(q), k)
    <3>1. \A q \in Ranks : Covered(q)' = Covered(q)
      BY <1>1, Split
    <3>2. \A s, k : Summed(s, k)' = Summed(s, k)
      BY <1>1, Split
    <3>. QED BY <3>1, <3>2 DEF Learned
  <2>. QED BY <2>1 DEF ModelInv
<1>3. /\ Len(x[r]) = step[r][Main]
      /\ \A k \in 1..Len(x[r]) : x[r][k] = Learned(Covered(r), k - 1)
  BY DEF DataInv, ModelInv
<1>4. CASE ~MainTurn(r)
  BY <1>3, <1>4, MainStays DEF DataInv
<1>5. CASE MainTurn(r)
  <2>1. pc[r][Main] \in 1..7 /\ Advance(r, Main)
    BY <1>5, MainActs DEF Loop
  <2>2. CASE pc[r][Main] = 7
    <3>. DEFINE G == UNION {gradient[r][t] : t \in Threads}
    <3>1. x' = [x EXCEPT ![r] = Append(@, G)] /\ step'[r][Main] = step[r][Main] + 1
      BY <1>0, <1>5, <2>1, <2>2, MainActs, Advanced DEF UpdateX, Loop
    <3>2. G = Learned(Covered(r), step[r][Main])
      BY <2>2, WholeUpdate
    <3>3. x \in [Ranks -> Seq(Grads)]
      BY DEF DataInv, DataTypes
    <3>4. G \in Grads
      <4>1. \A t \in Threads : gradient[r][t] \in Grads
        BY DEF DataInv, DataTypes
      <4>. QED BY <4>1 DEF Grads
    <3>. HIDE DEF G
    <3>5. x'[r] = Append(x[r], G) /\ x[r] \in Seq(Grads)
      BY <3>1, <3>3
    <3>6. /\ Len(x'[r]) = Len(x[r]) + 1 /\ Len(x[r]) \in Nat
          /\ x'[r][Len(x[r]) + 1] = G
          /\ \A k \in 1..Len(x[r]) : x'[r][k] = x[r][k]
      BY <3>4, <3>5
    <3>7. ASSUME NEW k \in 1..Len(x'[r])
          PROVE  x'[r][k] = Learned(Covered(r), k - 1)
      <4>1. CASE k = Len(x[r]) + 1
        <5>1. k - 1 = step[r][Main]
          BY <1>3, <3>6, <4>1
        <5>. QED BY <3>2, <3>6, <4>1, <5>1
      <4>2. CASE k # Len(x[r]) + 1
        <5>1. k \in 1..Len(x[r])
          BY <3>6, <4>2
        <5>. QED BY <1>3, <3>6, <5>1
      <4>. QED BY <4>1, <4>2
    <3>. QED BY <1>3, <3>1, <3>6, <3>7
  <2>3. CASE pc[r][Main] # 7
    <3>1. x' = x /\ step'[r][Main] = step[r][Main]
      BY <1>0, <1>5, <2>1, <2>3, MainActs, Advanced DEF Loop
    <3>. QED BY <1>3, <3>1
  <2>. QED BY <2>2, <2>3
<1>. QED BY <1>4, <1>5

LEMMA TotalKept ==
  ASSUME [Next]_vars, NEW r \in Ranks, ~FinishEpoch(r), DataTypes
  PROVE  total'[r] = total[r]
<1>1. CASE UNCHANGED vars
  BY <1>1 DEF vars, dataVars
<1>2. ASSUME NEW q \in Ranks, NEW u \in Threads, ThreadStep(q, u)
      PROVE  total'[r] = total[r]
  BY <1>2, WorkerActs
<1>3. ASSUME NEW q \in Ranks, MainTurn(q)
      PROVE  total'[r] = total[r]
  BY <1>3, MainActs
<1>4. ASSUME NEW q \in Ranks, Start(q) \/ Enter(q)
      PROVE  total'[r] = total[r]
  BY <1>4 DEF Start, Enter, dataVars
<1>5. ASSUME NEW q \in Ranks, FinishEpoch(q)
      PROVE  total'[r] = total[r]
  <2>1. q # r
    BY <1>5
  <2>. QED BY <1>5, <2>1 DEF FinishEpoch, DataTypes
<1>. QED BY <1>1, <1>2, <1>3, <1>4, <1>5, Kinds

LEMMA EpochEndStays ==
  ASSUME IInv, [Next]_vars, NEW r \in Ranks, ~FinishEpoch(r), pc[r][Main] = 8
  PROVE  pc'[r][Main] = 8
<1>0. Main \in Members /\ \A u \in Threads : u \in Members /\ u # Main
  BY ConstFacts
<1>1. CASE UNCHANGED vars
  BY <1>1 DEF vars, controlVars
<1>2. ASSUME NEW q \in Ranks, NEW u \in Threads, ThreadStep(q, u)
      PROVE  pc'[r][Main] = pc[r][Main]
  BY <1>0, <1>2, WorkerActs, Advanced
<1>3. ASSUME NEW q \in Ranks, MainTurn(q)
      PROVE  pc'[r][Main] = pc[r][Main]
  <2>1. pc[q][Main] \in Loop /\ Advance(q, Main)
    BY <1>3, MainActs
  <2>2. q # r
    BY <2>1 DEF Loop
  <2>. QED BY <1>0, <2>1, <2>2, Advanced
<1>4. ASSUME NEW q \in Ranks, Start(q)
      PROVE  pc'[r][Main] = pc[r][Main]
  <2>1. q # r
    BY <1>4 DEF Start, Unstarted
  <2>. QED BY <1>4, <2>1, StartActs
<1>5. ASSUME NEW q \in Ranks, Enter(q)
      PROVE  pc'[r][Main] = pc[r][Main]
  BY <1>5 DEF Enter, controlVars
<1>6. ASSUME NEW q \in Ranks, FinishEpoch(q)
      PROVE  pc'[r][Main] = pc[r][Main]
  <2>1. q # r
    BY <1>6
  <2>. QED BY <1>0, <1>6, <2>1, FinishActs
<1>. QED BY <1>1, <1>2, <1>3, <1>4, <1>5, <1>6, Kinds

LEMMA TotalStep ==
  ASSUME IInv, DataInv, [Next]_vars
  PROVE  TotalInv'
<1>0. Main \in Members
  BY ConstFacts
<1>2. SUFFICES ASSUME NEW r \in Ranks, pc'[r][Main] \in 1..7, step'[r][Main] >= PerEpoch
               PROVE  total'[r] = Ranks \X {(step'[r][Main] \div PerEpoch) * PerEpoch}
  BY DEF TotalInv, Loop
<1>3. pc[r][Main] \in 1..7 /\ step[r][Main] >= PerEpoch =>
        total[r] = Ranks \X {(step[r][Main] \div PerEpoch) * PerEpoch}
  BY DEF DataInv, TotalInv, Loop
<1>4. step[r][Main] \in Nat /\ step[r][Main] <= Steps
  BY <1>0, StepRange
<1>5. CASE FinishEpoch(r)
  <2>. DEFINE k == step[r][Main]
  <2>1. /\ step'[r][Main] = k /\ pc[r][Main] = EpochEnd /\ Complete(r)
        /\ total' = [total EXCEPT ![r] = {<<q, Given(q, r).steps>> : q \in Ranks}]
    BY <1>5, FinishActs DEF FinishEpoch
  <2>2. total'[r] = {<<q, Given(q, r).steps>> : q \in Ranks}
    BY <2>1 DEF DataInv, DataTypes
  <2>3. left[r] = Index(k) - 1 /\ k % PerEpoch = 0 /\ k > 0
        /\ \A q \in Ranks : left[r] < entered[q] /\ entered[q] <= left[r] + 2
    <3>1. entered \in [Ranks -> Nat] /\ left \in [Ranks -> Nat] /\ CollectiveInv
      BY DEF DataInv, DataTypes
    <3>2. left[r] = Index(k) - 1 /\ k % PerEpoch = 0
          /\ \A q \in Ranks : left[r] < entered[q] /\ entered[q] <= left[r] + 2
      BY <2>1, <3>1, CollectiveRange
    <3>3. k > 0
      BY <2>1, <3>1 DEF CollectiveInv
    <3>. QED BY <3>2, <3>3
  <2>4. k \in 0..Steps /\ (k \div PerEpoch) * PerEpoch = k
    <3>1. PerEpoch \in Nat \ {0} /\ Steps \in Nat
      BY EpochFacts
    <3>2. k = PerEpoch * (k \div PerEpoch) + 0 /\ k \div PerEpoch \in Nat
      BY <1>4, <2>3, <3>1, DivFacts
    <3>. QED BY <1>4, <3>1, <3>2
  <2>. HIDE DEF k
  <2>5. ASSUME NEW q \in Ranks
        PROVE  Given(q, r).steps = k
    <3>1. Recent(q, Index(k) - 1) /\ SentAt(q, k)
      <4>0. k \in Nat /\ entered[q] \in Nat
        BY <2>4, EpochFacts DEF DataInv, DataTypes
      <4>1. Index(k) \in Nat /\ entered[q] \in Nat
        BY <4>0, IndexNext
      <4>2. Recent(q, Index(k) - 1)
        BY <2>3, <4>1 DEF Recent
      <4>. QED BY <2>4, <4>2 DEF DataInv, SentInv
    <3>. QED BY <2>3, <3>1 DEF SentAt, Given
  <2>6. total'[r] = Ranks \X {k}
    BY <2>2, <2>5
  <2>. QED BY <2>1, <2>4, <2>6 DEF k
<1>6. CASE ~FinishEpoch(r) /\ MainTurn(r)
  <2>1. pc[r][Main] \in 1..7 /\ Advance(r, Main)
    BY <1>6, MainActs DEF Loop
  <2>2. total'[r] = total[r]
    BY <1>6, TotalKept DEF DataInv
  <2>3. CASE pc[r][Main] < 7
    <3>1. step'[r][Main] = step[r][Main]
      BY <1>0, <2>1, <2>3, Advanced DEF Loop
    <3>. QED BY <1>2, <1>3, <2>1, <2>2, <3>1
  <2>4. CASE pc[r][Main] = 7
    <3>1. step'[r][Main] = step[r][Main] + 1 /\ ~LastOfEpoch(step[r][Main])
      BY <1>0, <1>2, <2>1, <2>4, Advanced DEF Loop, EpochEnd
    <3>2. step'[r][Main] \div PerEpoch = step[r][Main] \div PerEpoch
      BY <1>4, <3>1, EpochFacts, DivFacts DEF LastOfEpoch
    <3>3. step[r][Main] >= PerEpoch
      <4>. SUFFICES ASSUME step[r][Main] + 1 = PerEpoch PROVE FALSE
        BY <1>2, <1>4, <3>1, EpochFacts
      <4>1. PerEpoch % PerEpoch = 0
        BY EpochFacts
      <4>. QED BY <3>1, <4>1 DEF LastOfEpoch
    <3>. QED BY <1>3, <2>1, <2>2, <3>2, <3>3
  <2>. QED BY <2>1, <2>3, <2>4
<1>7. CASE ~FinishEpoch(r) /\ ~MainTurn(r)
  <2>1. /\ step'[r][Main] = step[r][Main]
        /\ pc'[r][Main] = pc[r][Main] \/ (pc[r][Main] \in {0, 8} /\ pc'[r][Main] \in {1, 9})
    BY <1>7, MainStays DEF DataInv
  <2>2. pc[r][Main] # 8 \/ pc'[r][Main] = 8
    BY <1>7, EpochEndStays DEF DataInv
  <2>3. pc'[r][Main] = pc[r][Main] \/ step[r][Main] = 0
    <3>1. pc[r][Main] = 0 => step[r][Main] = 0
      BY <1>0 DEF IInv, PlaceInv, Unstarted
    <3>. QED BY <2>1, <2>2, <3>1
  <2>4. pc'[r][Main] = pc[r][Main]
    BY <1>2, <2>1, <2>3, EpochFacts
  <2>. QED BY <1>2, <1>3, <1>7, <2>1, <2>4, TotalKept DEF DataInv
<1>. QED BY <1>5, <1>6, <1>7

-------------------------------------------------------------------------------
(* The types of the data.                                                  *)

LEMMA SplitKept ==
  ASSUME [Next]_vars
  PROVE  Samples' = Samples /\ Row' = Row /\ Grads' = Grads
BY NoStepChangesMode, Split

LEMMA UpdatesRange ==
  ASSUME IInv, ModelInv, NEW r \in Ranks
  PROVE  Len(x[r]) \in 0..Steps
<1>1. Main \in Members /\ Steps \in Nat
  BY ConstFacts
<1>2. step[r][Main] \in Nat /\ step[r][Main] <= Steps
  BY <1>1, StepRange
<1>3. Len(x[r]) = step[r][Main]
  BY DEF ModelInv
<1>. QED BY <1>1, <1>2, <1>3

LEMMA TypesStep ==
  ASSUME IInv, DataInv, [Next]_vars
  PROVE  DataTypes'
<1>0. Main \in Members /\ Steps \in Nat /\ \A t \in Threads : t \in Members /\ t # Main
  BY ConstFacts
<1>1. Samples' = Samples /\ Row' = Row /\ Grads' = Grads
  BY SplitKept
<1>2. DataTypes /\ PlaceTypes
  BY DEF DataInv, IInv
<1>3. SUFFICES
        /\ entered' \in [Ranks -> Nat] /\ left' \in [Ranks -> Nat]
        /\ sent' \in [Ranks -> [{0, 1} -> [dot : Row, steps : 0..Steps]]]
        /\ dot' \in [Ranks -> Row] /\ dotSum' \in [Ranks -> Row] /\ stat' \in [Ranks -> Row]
        /\ gradient' \in [Ranks -> [Threads -> Grads]]
        /\ x' \in [Ranks -> Seq(Grads)]
        /\ total' \in [Ranks -> SUBSET (Ranks \X Nat)]
  BY <1>1 DEF DataTypes
<1>. USE DEF DataTypes
<1>4. CASE UNCHANGED vars
  BY <1>2, <1>4 DEF vars, mpiVars, dataVars
<1>5. ASSUME NEW r \in Ranks, NEW t \in Threads, ThreadStep(r, t)
      PROVE  /\ dot' \in [Ranks -> Row] /\ stat' \in [Ranks -> Row]
             /\ gradient' \in [Ranks -> [Threads -> Grads]]
             /\ UNCHANGED <<entered, left, sent, x, dotSum, total>>
  <2>1. UNCHANGED <<entered, left, sent, x, dotSum, total>>
    BY <1>5, WorkerActs
  <2>2. dot' \in [Ranks -> Row]
    <3>1. CASE pc[r][t] = 2
      <4>1. dot' = [dot EXCEPT ![r] =
              [s \in Samples |-> IF s \in Slice(r, t) THEN {<<r, Len(x[r])>>} ELSE dot[r][s]]]
        BY <1>5, <3>1, WorkerActs DEF CalcDot
      <4>2. Len(x[r]) \in 0..Steps
        BY UpdatesRange DEF DataInv
      <4>3. {<<r, Len(x[r])>>} \in Dots
        BY <4>2 DEF Dots
      <4>4. [s \in Samples |-> IF s \in Slice(r, t) THEN {<<r, Len(x[r])>>} ELSE dot[r][s]] \in Row
        BY <1>2, <4>3 DEF Row
      <4>. QED BY <1>2, <4>1, <4>4
    <3>2. CASE pc[r][t] # 2
      BY <1>2, <1>5, <3>2, WorkerActs
    <3>. QED BY <3>1, <3>2
  <2>3. stat' \in [Ranks -> Row]
    <3>1. CASE pc[r][t] = 5
      <4>1. stat' = [stat EXCEPT ![r] =
              [s \in Samples |-> IF s \in Slice(r, t) THEN dotSum[r][s] ELSE stat[r][s]]]
        BY <1>5, <3>1, WorkerActs DEF CalcStatistics
      <4>2. [s \in Samples |-> IF s \in Slice(r, t) THEN dotSum[r][s] ELSE stat[r][s]] \in Row
        BY <1>2 DEF Row
      <4>. QED BY <1>2, <4>1, <4>2
    <3>2. CASE pc[r][t] # 5
      BY <1>2, <1>5, <3>2, WorkerActs
    <3>. QED BY <3>1, <3>2
  <2>4. gradient' \in [Ranks -> [Threads -> Grads]]
    <3>1. CASE pc[r][t] = 6
      <4>. DEFINE G == gradient[r][t] \cup {<<s, stat[r][s]>> : s \in Slice(r, t)}
      <4>1. gradient' = [gradient EXCEPT ![r][t] = G]
        BY <1>5, <3>1, WorkerActs DEF CalcGradient
      <4>2. \A s \in Slice(r, t) : s \in Samples /\ stat[r][s] \in Dots
        BY <1>2, SlicesInside DEF Row
      <4>3. G \in Grads
        BY <1>2, <4>2 DEF Grads
      <4>. HIDE DEF G
      <4>. QED BY <1>2, <4>1, <4>3
    <3>2. CASE pc[r][t] # 6
      BY <1>2, <1>5, <3>2, WorkerActs
    <3>. QED BY <3>1, <3>2
  <2>. QED BY <2>1, <2>2, <2>3, <2>4
<1>6. ASSUME NEW r \in Ranks, MainTurn(r)
      PROVE  /\ left' \in [Ranks -> Nat] /\ dotSum' \in [Ranks -> Row]
             /\ gradient' \in [Ranks -> [Threads -> Grads]]
             /\ x' \in [Ranks -> Seq(Grads)]
             /\ UNCHANGED <<entered, sent, dot, stat, total>>
  <2>1. UNCHANGED <<entered, sent, dot, stat, total>>
    BY <1>6, MainActs
  <2>2. left' \in [Ranks -> Nat] /\ dotSum' \in [Ranks -> Row]
    <3>1. CASE pc[r][Main] = 4
      <4>1. /\ left' = [left EXCEPT ![r] = @ + 1]
            /\ dotSum' = [dotSum EXCEPT ![r] =
                 [s \in Samples |-> UNION {Given(q, r).dot[s] : q \in Ranks}]]
        BY <1>6, <3>1, MainActs DEF AllReduceDot
      <4>2. ASSUME NEW q \in Ranks, NEW s \in Samples
            PROVE  Given(q, r).dot[s] \in Dots
        <5>1. left[r] \in Nat
          BY <1>2
        <5>2. left[r] % 2 \in {0, 1}
          BY <5>1
        <5>3. sent[q][left[r] % 2] \in [dot : Row, steps : 0..Steps]
          BY <1>2, <5>2
        <5>4. Given(q, r).dot \in Row
          BY <5>3 DEF Given
        <5>. QED BY <5>4 DEF Row
      <4>3. \A s \in Samples : UNION {Given(q, r).dot[s] : q \in Ranks} \in Dots
        BY <4>2 DEF Dots
      <4>4. [s \in Samples |-> UNION {Given(q, r).dot[s] : q \in Ranks}] \in Row
        BY <4>3 DEF Row
      <4>. QED BY <1>2, <4>1, <4>4
    <3>2. CASE pc[r][Main] # 4
      BY <1>2, <1>6, <3>2, MainActs
    <3>. QED BY <3>1, <3>2
  <2>3. gradient' \in [Ranks -> [Threads -> Grads]]
    <3>1. CASE pc[r][Main] = 2
      <4>1. gradient' = [gradient EXCEPT ![r] = Cleared(r)]
        BY <1>6, <3>1, MainActs DEF InitGradient
      <4>2. Cleared(r) \in [Threads -> Grads]
        BY DEF Cleared, Grads
      <4>. QED BY <1>2, <4>1, <4>2
    <3>2. CASE pc[r][Main] # 2
      BY <1>2, <1>6, <3>2, MainActs
    <3>. QED BY <3>1, <3>2
  <2>4. x' \in [Ranks -> Seq(Grads)]
    <3>1. CASE pc[r][Main] = 7
      <4>. DEFINE G == UNION {gradient[r][t] : t \in Threads}
      <4>1. x' = [x EXCEPT ![r] = Append(@, G)]
        BY <1>6, <3>1, MainActs DEF UpdateX
      <4>2. G \in Grads
        BY <1>2 DEF Grads
      <4>. HIDE DEF G
      <4>3. Append(x[r], G) \in Seq(Grads)
        BY <1>2, <4>2
      <4>. QED BY <1>2, <4>1, <4>3
    <3>2. CASE pc[r][Main] # 7
      BY <1>2, <1>6, <3>2, MainActs
    <3>. QED BY <3>1, <3>2
  <2>. QED BY <2>1, <2>2, <2>3, <2>4
<1>7. ASSUME NEW r \in Ranks, Start(r)
      PROVE  UNCHANGED <<entered, left, sent, x, dot, dotSum, stat, gradient, total>>
  BY <1>7, StartActs
<1>8. ASSUME NEW r \in Ranks, Enter(r)
      PROVE  /\ entered' \in [Ranks -> Nat]
             /\ sent' \in [Ranks -> [{0, 1} -> [dot : Row, steps : 0..Steps]]]
             /\ UNCHANGED <<left, x, dot, dotSum, stat, gradient, total>>
  <2>1. /\ entered' = [entered EXCEPT ![r] = @ + 1]
        /\ sent' = [sent EXCEPT ![r][entered[r] % 2] = [dot |-> dot[r], steps |-> Len(x[r])]]
        /\ UNCHANGED <<left, x, dot, dotSum, stat, gradient, total>>
    BY <1>8 DEF Enter, dataVars
  <2>2. Len(x[r]) \in 0..Steps
    BY UpdatesRange DEF DataInv
  <2>3. [dot |-> dot[r], steps |-> Len(x[r])] \in [dot : Row, steps : 0..Steps]
    BY <1>2, <2>2
  <2>. QED BY <1>2, <2>1, <2>3
<1>9. ASSUME NEW r \in Ranks, FinishEpoch(r)
      PROVE  /\ left' \in [Ranks -> Nat] /\ total' \in [Ranks -> SUBSET (Ranks \X Nat)]
             /\ UNCHANGED <<entered, sent, x, dot, dotSum, stat, gradient>>
  <2>1. /\ left' = [left EXCEPT ![r] = @ + 1]
        /\ total' = [total EXCEPT ![r] = {<<q, Given(q, r).steps>> : q \in Ranks}]
        /\ UNCHANGED <<entered, sent, x, dot, dotSum, stat, gradient>>
    BY <1>9 DEF FinishEpoch
  <2>2. ASSUME NEW q \in Ranks
        PROVE  Given(q, r).steps \in Nat
    <3>1. left[r] % 2 \in {0, 1}
      BY <1>2
    <3>2. sent[q][left[r] % 2] \in [dot : Row, steps : 0..Steps]
      BY <1>2, <3>1
    <3>. QED BY <1>0, <3>2 DEF Given
  <2>. QED BY <1>2, <2>1, <2>2
<1>. QED BY <1>2, <1>4, <1>5, <1>6, <1>7, <1>8, <1>9, Kinds

-------------------------------------------------------------------------------
(* The samples of a process, when they divide among its threads.           *)

LEMMA DivIs ==
  ASSUME NEW P \in Nat \ {0}, NEW a \in Nat, NEW d \in Nat, d < P
  PROVE  (P * a + d) \div P = a
<1>. DEFINE k == P * a + d
            c == k \div P
            e == k % P
<1>1. k \in Nat
  OBVIOUS
<1>2. c \in Nat /\ e \in Nat /\ e < P /\ k = P * c + e
  BY <1>1, DivFacts
<1>3. P * a + d = P * c + e
  BY <1>2
<1>. HIDE DEF c, e
<1>4. ASSUME NEW u \in Nat, NEW v \in Nat, u < v
      PROVE  P * u + P <= P * v
  <2>1. PICK w \in Nat : v = u + 1 + w
    <3>1. v - (u + 1) \in Nat /\ v = u + 1 + (v - (u + 1))
      BY <1>4
    <3>. QED BY <3>1
  <2>2. P * (u + 1 + w) = P * u + P + P * w /\ P * w \in Nat /\ P * u \in Nat
    OBVIOUS
  <2>. QED BY <2>1, <2>2
<1>5. P * a \in Nat /\ P * c \in Nat
  BY <1>2
<1>6. ~(a < c)
  BY <1>2, <1>3, <1>4, <1>5
<1>7. ~(c < a)
  BY <1>2, <1>3, <1>4, <1>5
<1>8. c = a
  BY <1>2, <1>6, <1>7
<1>. QED BY <1>8 DEF c

LEMMA RankTypes ==
  ASSUME PlaceTypes, NEW r \in Ranks
  PROVE  PerRank \in Nat /\ RankBias(r) \in Nat /\ PerThread \in Nat
         /\ RankBias(r) + PerRank <= MiniBatch /\ MiniBatch \in Nat
         /\ r \in Nat /\ NumThreads \in Nat \ {0}
<1>1. batch \in Nat /\ NumRanks \in Nat \ {0} /\ NumThreads \in Nat \ {0} /\ r \in Nat
      /\ r <= NumRanks - 1
  BY ConstFacts DEF PlaceTypes, Ranks
<1>2. ASSUME NEW a \in Nat, NEW n \in Nat \ {0}
      PROVE  (a \div n) \in Nat /\ (a \div n) * n \in Nat /\ (a \div n) * n <= a
  <2>1. (a \div n) \in Nat /\ a % n \in Nat /\ a = n * (a \div n) + (a % n)
    BY DivFacts
  <2>2. n * (a \div n) = (a \div n) * n /\ n * (a \div n) \in Nat
    BY <2>1
  <2>. QED BY <2>1, <2>2
<1>3. CASE mode = "data"
  <2>1. MiniBatch \in Nat
    BY <1>1, <1>2, <1>3 DEF MiniBatch
  <2>2. PerRank = MiniBatch \div NumRanks /\ RankBias(r) = r * PerRank
    BY <1>3 DEF PerRank, RankBias
  <2>3. PerRank \in Nat /\ PerRank * NumRanks \in Nat /\ PerRank * NumRanks <= MiniBatch
    BY <1>1, <1>2, <2>1, <2>2
  <2>4. PICK p \in Nat : p = PerRank
    BY <2>3
  <2>5. PICK w \in Nat : NumRanks = r + 1 + w
    <3>1. NumRanks - (r + 1) \in Nat /\ NumRanks = r + 1 + (NumRanks - (r + 1))
      BY <1>1
    <3>. QED BY <3>1
  <2>6. p * (r + 1 + w) = r * p + p + p * w /\ p * w \in Nat /\ r * p \in Nat
    BY <1>1, <2>4, <2>5
  <2>7. r * p + p <= MiniBatch
    BY <2>1, <2>3, <2>4, <2>5, <2>6
  <2>8. PerThread \in Nat
    BY <1>1, <1>2, <2>3 DEF PerThread
  <2>. QED BY <1>1, <2>1, <2>2, <2>4, <2>6, <2>7, <2>8
<1>4. CASE mode # "data"
  <2>1. MiniBatch \in Nat /\ PerRank = MiniBatch /\ RankBias(r) = 0
    BY <1>1, <1>4 DEF MiniBatch, PerRank, RankBias
  <2>2. PerThread \in Nat
    BY <1>1, <1>2, <2>1 DEF PerThread
  <2>. QED BY <1>1, <2>1, <2>2
<1>. QED BY <1>3, <1>4

LEMMA CoveredIsOwn ==
  ASSUME PlaceTypes, PerRank % NumThreads = 0, NEW r \in Ranks
  PROVE  Covered(r) = Own(r)
<1>1. PICK p \in Nat, z \in Nat, n \in Nat, T \in Nat \ {0} :
        p = PerRank /\ z = RankBias(r) /\ n = PerThread /\ T = NumThreads
  BY RankTypes
<1>2. z + p <= MiniBatch /\ MiniBatch \in Nat
  BY <1>1, RankTypes
<1>3. p = T * n
  <2>1. p % T = 0 /\ n = p \div T
    BY <1>1 DEF PerThread
  <2>2. p = T * (p \div T) + (p % T)
    BY DivFacts
  <2>. QED BY <2>1, <2>2
<1>4. Own(r) = z .. (z + p - 1) /\ Samples = 0 .. (MiniBatch - 1)
  BY <1>1 DEF Own, Samples
<1>5. ASSUME NEW t \in Threads
      PROVE  Slice(r, t) = (z + n * t) .. (z + n * t + n - 1) /\ n * t \in Nat /\ t \in Nat
             /\ n * t + n <= p
  <2>1. t \in Nat /\ t <= T - 1
    BY <1>1 DEF Threads
  <2>2. n * t \in Nat
    BY <2>1
  <2>3. PICK w \in Nat : T = t + 1 + w
    <3>1. T - (t + 1) \in Nat /\ T = t + 1 + (T - (t + 1))
      BY <2>1
    <3>. QED BY <3>1
  <2>4. (t + 1 + w) * n = n * t + n + n * w /\ n * w \in Nat
    BY <2>1
  <2>5. n * t + n <= p
    BY <1>3, <2>2, <2>3, <2>4
  <2>. QED BY <1>1, <2>1, <2>2, <2>5 DEF Slice
<1>6. ASSUME NEW s \in Own(r)
      PROVE  \E t \in Threads : s \in Slice(r, t)
  <2>1. PICK i \in Nat : s = z + i /\ i < p
    <3>1. s \in Int /\ z <= s /\ s <= z + p - 1
      BY <1>4
    <3>2. s - z \in Nat /\ s = z + (s - z) /\ s - z < p
      BY <3>1
    <3>. QED BY <3>2
  <2>2. n # 0
    <3>1. T * 0 = 0
      OBVIOUS
    <3>. QED BY <1>3, <2>1, <3>1
  <2>. DEFINE t == i \div n
              d == i % n
  <2>3. t \in Nat /\ d \in Nat /\ d < n /\ i = n * t + d
    BY <2>2, DivFacts
  <2>. HIDE DEF t, d
  <2>4. t < T
    <3>. SUFFICES ASSUME T <= t PROVE FALSE
      BY <2>3
    <3>1. PICK w \in Nat : t = T + w
      <4>1. t - T \in Nat /\ t = T + (t - T)
        BY <2>3
      <4>. QED BY <4>1
    <3>2. n * (T + w) = T * n + n * w /\ n * w \in Nat /\ T * n \in Nat
      OBVIOUS
    <3>. QED BY <1>3, <2>1, <2>3, <3>1, <3>2
  <2>5. t \in Threads
    BY <1>1, <2>3, <2>4 DEF Threads
  <2>6. n * t \in Nat
    BY <2>3
  <2>7. s \in Slice(r, t)
    BY <1>5, <2>1, <2>3, <2>5, <2>6
  <2>. QED BY <2>5, <2>7
<1>7. ASSUME NEW t \in Threads, NEW s \in Slice(r, t)
      PROVE  s \in Own(r)
  <2>1. PICK e \in Nat : e = n * t
    BY <1>5
  <2>2. s \in (z + e) .. (z + e + n - 1) /\ e + n <= p
    BY <1>5, <2>1
  <2>. QED BY <1>4, <2>2
<1>8. Own(r) \subseteq Samples
  BY <1>2, <1>4
<1>. QED BY <1>6, <1>7, <1>8 DEF Covered

\* The sum that every step uses of an own sample is its whole dot product.
LEMMA SummedIsWhole ==
  ASSUME PlaceTypes, PerRank % NumThreads = 0, NEW r \in Ranks, NEW s \in Own(r), NEW k
  PROVE  Summed(s, k) = WholeDot(s, k)
<1>1. Summed(s, k) = {<<q, k>> : q \in {q \in Ranks : s \in Own(q)}}
  <2>1. \A q \in Ranks : Covered(q) = Own(q)
    BY CoveredIsOwn
  <2>2. {q \in Ranks : s \in Covered(q)} = {q \in Ranks : s \in Own(q)}
    BY <2>1
  <2>. QED BY <2>2 DEF Summed
<1>2. CASE mode = "model"
  <2>1. \A q \in Ranks : Own(q) = Own(r)
    BY <1>2 DEF Own, RankBias
  <2>2. {q \in Ranks : s \in Own(q)} = Ranks
    BY <2>1
  <2>3. WholeDot(s, k) = {<<q, k>> : q \in Ranks}
    BY <1>2 DEF WholeDot
  <2>. QED BY <1>1, <2>2, <2>3
<1>3. CASE mode = "data"
  <2>1. PICK p \in Nat : p = PerRank
    BY RankTypes
  <2>2. ASSUME NEW q \in Ranks, s \in Own(q)
        PROVE  s \div p = q
    <3>1. q \in Nat /\ Own(q) = (q * p) .. (q * p + p - 1)
      BY <1>3, <2>1 DEF Own, RankBias, Ranks
    <3>2. q * p \in Nat /\ q * p = p * q
      BY <3>1
    <3>3. s \in Int /\ q * p <= s /\ s <= q * p + p - 1
      BY <2>2, <3>1, <3>2
    <3>4. PICK d \in Nat : s = p * q + d /\ d < p
      <4>1. s - q * p \in Nat /\ s = p * q + (s - q * p) /\ s - q * p < p
        BY <3>2, <3>3
      <4>. QED BY <4>1
    <3>. QED BY <3>1, <3>4, DivIs
  <2>3. {q \in Ranks : s \in Own(q)} = {r}
    BY <2>2
  <2>4. WholeDot(s, k) = {<<r, k>>}
    BY <1>3, <2>1, <2>2 DEF WholeDot
  <2>. QED BY <1>1, <2>3, <2>4
<1>. QED BY <1>2, <1>3 DEF PlaceTypes

-------------------------------------------------------------------------------

LEMMA DataInit == Init => DataInv
<1>. SUFFICES ASSUME Init PROVE DataInv
  OBVIOUS
<1>0. Main \in Members /\ Steps \in Nat \ {0} /\ \A t \in Threads : t \in Members
  BY ConstFacts
<1>1. \A r \in Ranks : \A p \in Members : pc[r][p] = 0 /\ step[r][p] = 0
  BY DEF Init, Unstarted
<1>2. DataTypes
  <2>1. {} \in Dots /\ {} \in Grads /\ <<>> \in Seq(Grads)
    BY DEF Dots, Grads
  <2>2. [s \in Samples |-> {}] \in Row
    BY <2>1 DEF Row
  <2>3. dot \in [Ranks -> Row] /\ dotSum \in [Ranks -> Row] /\ stat \in [Ranks -> Row]
    BY <2>2 DEF Init
  <2>4. gradient \in [Ranks -> [Threads -> Grads]] /\ x \in [Ranks -> Seq(Grads)]
    BY <2>1 DEF Init
  <2>5. sent \in [Ranks -> [{0, 1} -> [dot : Row, steps : 0..Steps]]]
    <3>1. [dot |-> [s \in Samples |-> {}], steps |-> 0] \in [dot : Row, steps : 0..Steps]
      BY <1>0, <2>2
    <3>. HIDE DEF Row
    <3>. QED BY <3>1 DEF Init
  <2>6. entered \in [Ranks -> Nat] /\ left \in [Ranks -> Nat]
        /\ total \in [Ranks -> SUBSET (Ranks \X Nat)]
    BY DEF Init
  <2>. QED BY <2>3, <2>4, <2>5, <2>6 DEF DataTypes
<1>3. \A r \in Ranks : entered[r] = 0 /\ left[r] = 0
  BY DEF Init
<1>4. CollectiveInv
  <2>1. Index(0) = 0
    <3>1. PerEpoch \in Nat \ {0} /\ 0 = PerEpoch * 0 + 0
      BY EpochFacts
    <3>2. (PerEpoch * 0 + 0) \div PerEpoch = 0
      BY <3>1, DivIs
    <3>. QED BY <3>1, <3>2 DEF Index
  <2>. QED BY <1>0, <1>1, <1>3, <2>1 DEF CollectiveInv, EpochEnd
<1>5. SentInv
  <2>. SUFFICES ASSUME NEW r \in Ranks, NEW k \in 0..Steps PROVE SentAt(r, k)
    BY DEF SentInv
  <2>0. k \in Nat
    BY <1>0
  <2>1. Index(k) \in Nat /\ k <= Index(k)
    BY <2>0, IndexNext
  <2>2. ~Recent(r, Index(k)) /\ (k > 0 => ~Recent(r, Index(k) - 1))
    BY <1>3, <2>0, <2>1 DEF Recent
  <2>. QED BY <2>2 DEF SentAt
<1>6. DotInv
  <2>1. \A r \in Ranks : \A s \in Samples : dot[r][s] = {}
    BY DEF Init
  <2>. QED BY <1>0, <1>1, <2>1 DEF DotInv
<1>7. SumInv /\ StatInv /\ GradInv
  BY <1>0, <1>1 DEF SumInv, StatInv, GradInv
<1>8. ModelInv
  <2>1. \A r \in Ranks : x[r] = <<>>
    BY DEF Init
  <2>. QED BY <1>0, <1>1, <2>1 DEF ModelInv
<1>9. TotalInv
  BY <1>0, <1>1 DEF TotalInv, Loop
<1>. QED BY <1>2, <1>4, <1>5, <1>6, <1>7, <1>8, <1>9 DEF DataInv

LEMMA DataInductive == IInv /\ DataInv /\ [Next]_vars => DataInv'
<1>. SUFFICES ASSUME IInv, DataInv, [Next]_vars PROVE DataInv'
  OBVIOUS
<1>1. CollectiveInv'
  BY CollectiveStep DEF DataInv, DataTypes
<1>. QED BY <1>1, TypesStep, SentStep, DotStep, SumStep, StatStep, GradStep, ModelStep, TotalStep
     DEF DataInv

LEMMA DataAlways == Spec => [](IInv /\ DataInv)
<1>1. Init => IInv /\ DataInv
  BY InitStep, DataInit
<1>2. IInv /\ DataInv /\ [Next]_vars => (IInv /\ DataInv)'
  BY IInvInductive, DataInductive
<1>. QED BY <1>1, <1>2, PTL DEF Spec

\* The variables keep their types, and no main makes more steps than its
\* epochs have.
THEOREM TypeCorrect == Spec => []TypeOK
<1>1. IInv /\ DataInv => TypeOK
  <2>. SUFFICES ASSUME IInv, DataInv PROVE TypeOK
    OBVIOUS
  <2>1. \A r \in Ranks : \A p \in Members : pc[r][p] \in Loop => step[r][p] < Steps
    BY DEF IInv, PlaceInv
  <2>2. \A r \in Ranks : \A k \in {0, 1} : sent[r][k].dot \in Row /\ sent[r][k].steps \in 0..Steps
    BY DEF DataInv, DataTypes
  <2>3. \A r \in Ranks : \A t \in Threads : \A g \in gradient[r][t] : g \in Samples \X Dots
    <3>1. \A r \in Ranks : \A t \in Threads : gradient[r][t] \in Grads
      BY DEF DataInv, DataTypes
    <3>. QED BY <3>1 DEF Grads
  <2>4. \A r \in Ranks : Len(x[r]) <= Steps
    <3>1. \A r \in Ranks : Len(x[r]) \in 0..Steps
      BY UpdatesRange DEF DataInv
    <3>. QED BY <3>1, EpochFacts
  <2>5. \A r \in Ranks : {dot[r], dotSum[r], stat[r]} \subseteq Row
    BY DEF DataInv, DataTypes
  <2>. QED BY <2>1, <2>2, <2>3, <2>4, <2>5 DEF TypeOK, IInv, PlaceTypes, DataInv, DataTypes
<1>. QED BY <1>1, DataAlways, PTL

\* Every step of every process adds the gradient of each of its samples once,
\* from whole dot products of the models of that very step, whichever way the
\* threads and processes interleave; and what a process gathers at the end of
\* an epoch is the model of every process after the same number of steps.
THEOREM StepsAreExact == Spec => []StepsExact
<1>1. IInv /\ DataInv => StepsExact
  <2>. SUFFICES ASSUME IInv, DataInv PROVE StepsExact
    OBVIOUS
  <2>1. ASSUME PerRank % NumThreads = 0, NEW r \in Ranks, NEW k \in 1..Len(x[r])
        PROVE  x[r][k] = {<<s, WholeDot(s, k - 1)>> : s \in Own(r)}
    <3>1. x[r][k] = Learned(Covered(r), k - 1) /\ Covered(r) = Own(r)
      BY <2>1, CoveredIsOwn DEF DataInv, ModelInv, IInv
    <3>2. \A s \in Own(r) : Summed(s, k - 1) = WholeDot(s, k - 1)
      BY <2>1, SummedIsWhole DEF IInv
    <3>. QED BY <3>1, <3>2 DEF Learned
  <2>2. TotalInv
    BY DEF DataInv
  <2>. QED BY <2>1, <2>2 DEF StepsExact, TotalInv
<1>. QED BY <1>1, DataAlways, PTL
-------------------------------------------------------------------------------
(* Nobody waits for ever at a barrier or in a collective operation: until  *)
(* all have come to their end, somebody can go on.  The guards are written *)
(* out.                                                                    *)

CanMove(r, p) ==
  \/ p = Main /\ pc[r][p] = Unstarted
  \/ \E op \in {"dot", "statistics", "gradient", "init", "update"} : At(r, p, op)
  \/ At(r, p, "barrier") /\ \A q \in Members : Arrived(r, q) >= Arrived(r, p)
  \/ p = Main /\ InCollective(r) /\ (entered[r] = left[r] \/ Complete(r))

\* The workers of a process whose arguments were refused are never started.
Ended(r, p) ==
  \/ pc[r][p] = End
  \/ p # Main /\ ~Accepted /\ pc[r][Main] = End /\ pc[r][p] = Unstarted

NeverStuck ==
  \/ \A r \in Ranks : \A p \in Members : Ended(r, p)
  \/ \E r \in Ranks : \E p \in Members : CanMove(r, p)

\* Workers are started together with main's loop, or not at all.
StartInv ==
  \A r \in Ranks :
    /\ Accepted /\ pc[r][Main] # Unstarted => \A t \in Threads : pc[r][t] # Unstarted
    /\ ~Accepted => pc[r][Main] \in {Unstarted, End}

LEMMA StartInit == Init => StartInv
<1>. SUFFICES ASSUME Init PROVE StartInv
  OBVIOUS
<1>1. \A r \in Ranks : pc[r][Main] = Unstarted
  BY ConstFacts DEF Init
<1>. QED BY <1>1 DEF StartInv

LEMMA StartKept ==
  ASSUME IInv, StartInv, [Next]_vars
  PROVE  StartInv'
<1>1. Accepted' = Accepted
  BY NoStepChangesMode DEF Accepted, MiniBatch
<1>. SUFFICES ASSUME NEW r \in Ranks
              PROVE  /\ Accepted /\ pc'[r][Main] # Unstarted =>
                          \A t \in Threads : pc'[r][t] # Unstarted
                     /\ ~Accepted => pc'[r][Main] \in {Unstarted, End}
  BY <1>1 DEF StartInv
<1>2. /\ Accepted /\ pc[r][Main] # Unstarted => \A t \in Threads : pc[r][t] # Unstarted
      /\ ~Accepted => pc[r][Main] \in {Unstarted, End}
  BY DEF StartInv
<1>3. CASE pc'[r] = pc[r]
  BY <1>2, <1>3
<1>4. \A t \in Threads : t \in Members /\ t # Main
  BY ConstFacts
<1>5. ASSUME NEW q \in Ranks, NEW t \in Threads, ThreadStep(q, t)
      PROVE  pc'[r][Main] = pc[r][Main] /\ \A u \in Threads : pc'[r][u] = pc[r][u] \/ pc'[r][u] # 0
  <2>1. pc[q][t] \in Loop /\ Advance(q, t)
    BY <1>5, WorkerActs
  <2>2. \A u \in Members : r # q \/ u # t => pc'[r][u] = pc[r][u]
    BY <1>4, <2>1, Advanced
  <2>3. pc'[q][t] # 0
    <3>1. pc[q][t] \in 1..7
      BY <2>1 DEF Loop
    <3>2. /\ pc[q][t] < 7 => pc'[q][t] = pc[q][t] + 1
          /\ pc[q][t] = 7 => pc'[q][t] \in {1, EpochEnd, End}
      BY <1>4, <2>1, Advanced
    <3>. QED BY <3>1, <3>2 DEF EpochEnd, End
  <2>. QED BY <1>4, <2>2, <2>3, ConstFacts
<1>6. ASSUME NEW q \in Ranks, MainTurn(q) \/ FinishEpoch(q), q = r
      PROVE  /\ pc[r][Main] \notin {Unstarted, End}
             /\ \A u \in Threads : pc'[r][u] = pc[r][u]
  <2>1. CASE MainTurn(q)
    <3>1. pc[q][Main] \in Loop /\ Advance(q, Main)
      BY <2>1, MainActs
    <3>2. \A u \in Members : u # Main => pc'[q][u] = pc[q][u]
      BY <3>1, Advanced, ConstFacts
    <3>. QED BY <1>4, <1>6, <3>1, <3>2 DEF Loop, Unstarted, End
  <2>2. CASE FinishEpoch(q)
    BY <1>4, <1>6, <2>2, FinishActs DEF EpochEnd, Unstarted, End
  <2>. QED BY <1>6, <2>1, <2>2
<1>7. ASSUME NEW q \in Ranks, MainTurn(q) \/ FinishEpoch(q), q # r
      PROVE  \A u \in Members : pc'[r][u] = pc[r][u]
  <2>1. CASE MainTurn(q)
    <3>1. pc[q][Main] \in Loop /\ Advance(q, Main)
      BY <2>1, MainActs
    <3>. QED BY <1>7, <3>1, Advanced, ConstFacts
  <2>2. CASE FinishEpoch(q)
    BY <1>7, <2>2, FinishActs
  <2>. QED BY <1>7, <2>1, <2>2
<1>8. ASSUME NEW q \in Ranks, Start(q)
      PROVE  \/ pc'[r] = pc[r]
             \/ Accepted /\ \A u \in Threads : pc'[r][u] # Unstarted
             \/ ~Accepted /\ pc'[r][Main] = End
  <2>1. pc \in [Ranks -> [Members -> 0..9]]
    BY DEF IInv, PlaceTypes
  <2>2. pc' = [pc EXCEPT ![q] = IF Accepted THEN [p \in Members |-> 1] ELSE [@ EXCEPT ![Main] = End]]
    BY <1>8 DEF Start
  <2>3. CASE q # r
    BY <2>1, <2>2, <2>3
  <2>4. CASE q = r /\ Accepted
    <3>1. pc'[r] = [p \in Members |-> 1]
      BY <2>1, <2>2, <2>4
    <3>. QED BY <1>4, <2>4, <3>1 DEF Unstarted
  <2>5. CASE q = r /\ ~Accepted
    <3>1. pc'[r] = [pc[r] EXCEPT ![Main] = End] /\ pc[r] \in [Members -> 0..9]
      BY <2>1, <2>2, <2>5
    <3>. QED BY <2>5, <3>1, ConstFacts
  <2>. QED BY <2>3, <2>4, <2>5
<1>9. CASE UNCHANGED vars \/ \E q \in Ranks : Enter(q)
  BY <1>3, <1>9 DEF vars, Enter, controlVars
<1>10. CASE \E q \in Ranks : \E t \in Threads : ThreadStep(q, t)
  BY <1>2, <1>5, <1>10 DEF Unstarted
<1>11. CASE \E q \in Ranks : MainTurn(q) \/ FinishEpoch(q)
  <2>1. PICK q \in Ranks : MainTurn(q) \/ FinishEpoch(q)
    BY <1>11
  <2>2. CASE q = r
    <3>1. Accepted /\ \A t \in Threads : pc'[r][t] # Unstarted
      BY <1>2, <1>6, <2>1, <2>2
    <3>. QED BY <3>1
  <2>3. CASE q # r
    BY <1>2, <1>4, <1>7, <2>1, <2>3, ConstFacts
  <2>. QED BY <2>2, <2>3
<1>12. CASE \E q \in Ranks : Start(q)
  BY <1>2, <1>8, <1>12
<1>. QED BY <1>9, <1>10, <1>11, <1>12, Kinds

LEMMA LeastNumber ==
  ASSUME NEW T \in SUBSET Nat, T # {}
  PROVE  \E n \in T : \A m \in T : ~(m < n)
<1>1. PICK n \in T : \A m \in T : ~(<<m, n>> \in OpToRel(<, Nat))
  BY NatLessThanWellFounded, WFMin
<1>2. ASSUME NEW m \in T PROVE ~(m < n)
  <2>1. <<m, n>> \in Nat \X Nat
    OBVIOUS
  <2>. QED BY <1>1, <2>1 DEF OpToRel
<1>. QED BY <1>2

\* Barriers a member has come to since the start.
LEMMA CameTo ==
  ASSUME IInv, NEW r \in Ranks, NEW p \in Members
  PROVE  /\ Arrived(r, p) = 4 * step[r][p] + Came(p, pc[r][p])
         /\ Arrived(r, p) \in Nat /\ step[r][p] \in Nat
         /\ Came(p, pc[r][p]) \in 0..4
<1>1. pc[r][p] \in 0..9 /\ step[r][p] \in Nat
  BY StepRange
<1>2. Arrived(r, p) = 4 * step[r][p] + Came(p, pc[r][p]) /\ Came(p, pc[r][p]) \in 0..4
  BY <1>1, ArrivedIs, Tables
<1>. QED BY <1>1, <1>2

\* A member in its loop can go on unless it is at a barrier or in the
\* collective operation.
LEMMA InLoop ==
  ASSUME NEW r \in Ranks, NEW p \in Members, pc[r][p] \in Loop, ~CanMove(r, p)
  PROVE  At(r, p, "barrier") \/ (p = Main /\ At(r, p, "allreduce"))
<1>1. CASE p = Main
  <2>1. MainProgram[pc[r][p]] \in {"barrier", "init", "allreduce", "update"}
    BY DEF Loop, MainProgram
  <2>. QED BY <1>1, <2>1 DEF At, Program, CanMove
<1>2. CASE p # Main
  <2>1. ThreadProgram[pc[r][p]] \in {"barrier", "dot", "statistics", "gradient"}
    BY DEF Loop, ThreadProgram
  <2>. QED BY <1>2, <2>1 DEF At, Program, CanMove
<1>. QED BY <1>1, <1>2

\* When main waits at a barrier, the member that has come to the fewest
\* barriers can go on.
LEMMA BarrierOpens ==
  ASSUME IInv, StartInv, NEW r \in Ranks, At(r, Main, "barrier")
  PROVE  \E p \in Members : CanMove(r, p)
<1>. SUFFICES ASSUME \A p \in Members : ~CanMove(r, p) PROVE FALSE
  OBVIOUS
<1>1. pc[r][Main] \in Loop /\ Main \in Members
  BY ConstFacts DEF At
<1>2. PICK p \in Members : \A q \in Members : Arrived(r, q) >= Arrived(r, p)
  <2>. DEFINE T == {Arrived(r, q) : q \in Members}
  <2>1. T \in SUBSET Nat
    BY CameTo
  <2>2. T # {}
    BY <1>1
  <2>. HIDE DEF T
  <2>3. PICK k \in T : \A m \in T : ~(m < k)
    BY <2>1, <2>2, LeastNumber
  <2>4. \A m \in T : m >= k
    BY <2>1, <2>3
  <2>. QED BY <2>4 DEF T
<1>3. pc[r][p] \notin Loop \/ Arrived(r, p) = Arrived(r, Main)
  <2>1. CASE pc[r][p] \in Loop /\ p # Main
    <3>1. At(r, p, "barrier")
      BY <2>1, InLoop
    <3>. QED BY <1>2, <3>1 DEF CanMove
  <2>. QED BY <2>1
<1>4. ~(Arrived(r, Main) = Arrived(r, p))
  BY <1>1, <1>2 DEF CanMove
<1>5. p # Main /\ pc[r][p] \notin Loop
  BY <1>3, <1>4
<1>6. pc[r][p] = End
  <2>1. Accepted
    BY <1>1 DEF StartInv, Loop, Unstarted, End
  <2>2. p \in Threads /\ pc[r][Main] # Unstarted
    BY <1>1, <1>5, ConstFacts DEF Loop, Unstarted
  <2>3. pc[r][p] # Unstarted
    BY <2>1, <2>2 DEF StartInv
  <2>4. pc[r][p] # EpochEnd
    BY <1>5 DEF IInv, PlaceInv
  <2>5. pc[r][p] \in 0..9
    BY StepRange
  <2>. QED BY <1>5, <2>3, <2>4, <2>5 DEF Loop, Unstarted, EpochEnd, End
<1>7. step[r][p] = Steps
  BY <1>5, <1>6 DEF IInv, PlaceInv
<1>8. step[r][Main] < Steps /\ Steps \in Nat
  BY <1>1, EpochFacts DEF IInv, PlaceInv
<1>9. Arrived(r, Main) = 4 * step[r][Main] + Came(Main, pc[r][Main])
      /\ step[r][Main] \in Nat /\ Came(Main, pc[r][Main]) \in 0..4
  BY <1>1, CameTo
<1>10. Arrived(r, p) = 4 * Steps + Came(p, pc[r][p]) /\ Came(p, pc[r][p]) \in 0..4
  BY <1>7, CameTo
<1>11. Arrived(r, Main) >= Arrived(r, p)
  BY <1>1, <1>2
<1>. QED BY <1>4, <1>8, <1>9, <1>10, <1>11

\* A process does not enter more collective operations than there are, and one
\* that is through has entered them all.
LEMMA EnteredRange ==
  ASSUME IInv, DataTypes, CollectiveInv, NEW r \in Ranks
  PROVE  /\ entered[r] \in Nat /\ Index(Steps) \in Nat
         /\ InCollective(r) => entered[r] <= Index(Steps)
         /\ step[r][Main] = Steps /\ pc[r][Main] = End => entered[r] >= Index(Steps)
<1>1. entered[r] \in Nat /\ left[r] \in Nat /\ Main \in Members
  BY ConstFacts DEF DataTypes
<1>2. PICK m \in Nat : m = step[r][Main]
  BY <1>1, StepRange
<1>3. /\ m <= Steps /\ Steps \in Nat
      /\ pc[r][Main] \in 1..7 => m < Steps
  BY <1>1, <1>2, StepRange, EpochFacts
<1>4. Index(m) \in Nat /\ Index(Steps) \in Nat /\ (m < Steps => Index(m) < Index(Steps))
  BY <1>3, IndexNext, IndexApart
<1>5. Index(m) <= Index(Steps)
  BY <1>3, <1>4
<1>6. /\ left[r] = Index(m) + (IF pc[r][Main] \in 5..7 THEN 1 ELSE 0)
                            - (IF pc[r][Main] = EpochEnd THEN 1 ELSE 0)
      /\ entered[r] = left[r] \/ entered[r] = left[r] + 1
  BY <1>2 DEF CollectiveInv
<1>7. ASSUME InCollective(r)
      PROVE  entered[r] <= Index(Steps)
  <2>1. pc[r][Main] = 4 \/ pc[r][Main] = 8
    <3>1. At(r, Main, "allreduce") => pc[r][Main] = 4
      <4>1. At(r, Main, "allreduce") =>
              pc[r][Main] \in 1..7 /\ MainProgram[pc[r][Main]] = "allreduce"
        BY DEF At, Program, Loop
      <4>2. \A k \in 1..7 : MainProgram[k] = "allreduce" => k = 4
        BY DEF MainProgram
      <4>. QED BY <4>1, <4>2
    <3>. QED BY <1>7, <3>1 DEF InCollective, EpochEnd
  <2>2. CASE pc[r][Main] = 4
    <3>1. left[r] = Index(m) /\ Index(m) < Index(Steps)
      BY <1>3, <1>4, <1>6, <2>2 DEF EpochEnd
    <3>. QED BY <1>1, <1>4, <1>6, <3>1
  <2>3. CASE pc[r][Main] = 8
    <3>1. left[r] = Index(m) - 1
      BY <1>4, <1>6, <2>3 DEF EpochEnd
    <3>. QED BY <1>1, <1>4, <1>5, <1>6, <3>1
  <2>. QED BY <2>1, <2>2, <2>3
<1>8. ASSUME step[r][Main] = Steps, pc[r][Main] = End
      PROVE  entered[r] >= Index(Steps)
  <2>1. m = Steps
    BY <1>2, <1>8
  <2>2. left[r] = Index(m)
    BY <1>4, <1>6, <1>8 DEF EpochEnd, End
  <2>. QED BY <1>1, <1>4, <1>6, <2>1, <2>2
<1>. QED BY <1>1, <1>4, <1>7, <1>8

\* While a main is under way, the process that has entered the fewest
\* collective operations has somebody who can go on.
LEMMA MainsGoOn ==
  ASSUME IInv, StartInv, DataTypes, CollectiveInv, NEW q \in Ranks, pc[q][Main] # End
  PROVE  \E r \in Ranks : \E p \in Members : CanMove(r, p)
<1>. SUFFICES ASSUME \A r \in Ranks : \A p \in Members : ~CanMove(r, p) PROVE FALSE
  OBVIOUS
<1>1. Main \in Members
  BY ConstFacts
<1>2. \A r \in Ranks : pc[r][Main] # Unstarted
  BY <1>1 DEF CanMove
<1>3. Accepted
  BY <1>2 DEF StartInv
<1>4. PICK r \in Ranks : /\ pc[r][Main] # End
                         /\ \A k \in Ranks : pc[k][Main] # End => entered[k] >= entered[r]
  <2>. DEFINE T == {entered[k] : k \in {k \in Ranks : pc[k][Main] # End}}
  <2>1. T \in SUBSET Nat
    BY DEF DataTypes
  <2>2. T # {}
    OBVIOUS
  <2>. HIDE DEF T
  <2>3. PICK n \in T : \A m \in T : ~(m < n)
    BY <2>1, <2>2, LeastNumber
  <2>4. \A m \in T : m >= n
    BY <2>1, <2>3
  <2>. QED BY <2>4 DEF T
<1>5. ~At(r, Main, "barrier")
  BY BarrierOpens
<1>6. InCollective(r)
  <2>1. CASE pc[r][Main] \in Loop
    BY <1>1, <1>5, <2>1, InLoop DEF InCollective
  <2>2. CASE pc[r][Main] \notin Loop
    <3>1. pc[r][Main] \in 0..9
      BY <1>1, StepRange
    <3>2. pc[r][Main] = EpochEnd
      BY <1>2, <1>4, <2>2, <3>1 DEF Loop, Unstarted, EpochEnd, End
    <3>. QED BY <3>2 DEF InCollective
  <2>. QED BY <2>1, <2>2
<1>7. ASSUME NEW k \in Ranks
      PROVE  entered[k] >= entered[r]
  <2>1. CASE pc[k][Main] # End
    BY <1>4, <2>1
  <2>2. CASE pc[k][Main] = End
    <3>1. 0 \in Threads
      BY ConstFacts DEF Threads
    <3>2. pc[k][0] # Unstarted
      BY <1>2, <1>3, <3>1 DEF StartInv
    <3>3. step[k][Main] = Steps
      <4>1. 0 \in Members /\ 0 # Main
        BY <3>1, ConstFacts
      <4>. QED BY <2>2, <3>2, <4>1 DEF IInv, PlaceInv
    <3>4. entered[r] <= Index(Steps) /\ entered[r] \in Nat
      BY <1>6, EnteredRange
    <3>5. entered[k] >= Index(Steps) /\ entered[k] \in Nat /\ Index(Steps) \in Nat
      BY <2>2, <3>3, EnteredRange
    <3>. QED BY <3>4, <3>5
  <2>. QED BY <2>1, <2>2
<1>8. entered[r] = left[r] \/ entered[r] > left[r]
  <2>1. left[r] \in Nat /\ (entered[r] = left[r] \/ entered[r] = left[r] + 1)
    BY DEF DataTypes, CollectiveInv
  <2>. QED BY <2>1
<1>9. entered[r] = left[r] \/ Complete(r)
  BY <1>7, <1>8 DEF Complete
<1>. QED BY <1>1, <1>6, <1>9 DEF CanMove

\* When all mains have come to their end, the workers that have not are at the
\* last barrier, to which all have come.
LEMMA WorkersEnd ==
  ASSUME IInv, StartInv, NEW r \in Ranks, pc[r][Main] = End,
         NEW p \in Members, ~Ended(r, p)
  PROVE  CanMove(r, p)
<1>1. p # Main /\ p \in Threads /\ Main \in Members
  BY ConstFacts DEF Ended
<1>2. pc[r][p] # Unstarted
  BY <1>1 DEF Ended, StartInv, End, Unstarted
<1>3. step[r][Main] = Steps
  BY <1>1, <1>2 DEF IInv, PlaceInv
<1>4. pc[r][p] \in Loop /\ step[r][p] < Steps
  <2>1. pc[r][p] \in 0..9 /\ pc[r][p] # End /\ pc[r][p] # EpochEnd
    BY <1>1, StepRange DEF Ended, IInv, PlaceInv
  <2>2. pc[r][p] \in Loop
    BY <1>2, <2>1 DEF Loop, Unstarted, EpochEnd, End
  <2>. QED BY <2>2 DEF IInv, PlaceInv
<1>5. ASSUME NEW q \in Members
      PROVE  4 * Steps <= Arrived(r, q)
  <2>1. Passed(r, Main) <= 4 * step[r][q] + Came(q, pc[r][q])
    BY <1>1 DEF IInv, BarrierInv
  <2>2. Gone(Main, pc[r][Main]) = 0
    BY <1>1, Tables DEF End
  <2>3. Passed(r, Main) = 4 * Steps
    BY <1>3, <2>2, EpochFacts DEF Passed
  <2>. QED BY <2>1, <2>3, CameTo
<1>6. /\ Arrived(r, p) = 4 * step[r][p] + Came(p, pc[r][p])
      /\ step[r][p] \in Nat /\ Came(p, pc[r][p]) \in 0..4
      /\ \A q \in Members : Arrived(r, q) \in Nat
  BY CameTo
<1>7. Steps \in Nat
  BY EpochFacts
<1>8. Came(p, pc[r][p]) = 4 /\ Arrived(r, p) = 4 * Steps
  <2>1. 4 * Steps <= 4 * step[r][p] + Came(p, pc[r][p])
    BY <1>5, <1>6
  <2>2. PICK m \in Nat, c \in 0..4 : m = step[r][p] /\ c = Came(p, pc[r][p])
    BY <1>6
  <2>3. m < Steps /\ 4 * Steps <= 4 * m + c
    BY <1>4, <2>1, <2>2
  <2>4. c = 4 /\ 4 * m + c = 4 * Steps
    BY <1>7, <2>3
  <2>. QED BY <1>6, <2>2, <2>4
<1>9. At(r, p, "barrier")
  <2>1. pc[r][p] \in 1..7 /\ ThreadCame[pc[r][p]] = 4
    BY <1>1, <1>4, <1>8 DEF Came, Loop
  <2>2. pc[r][p] = 7
    BY <2>1 DEF ThreadCame
  <2>. QED BY <1>1, <2>2 DEF At, Loop, Program, ThreadProgram
<1>. QED BY <1>5, <1>6, <1>8, <1>9 DEF CanMove

\* Main and its workers come to the same barriers, and the processes to the
\* same collective operations, in every minibatch and at the end of every
\* epoch, for all numbers of them: until every thread of every process is at
\* its end, one of them can go on.
THEOREM TrainingNeverStuck == Spec => []NeverStuck
<1>1. Init => StartInv
  BY StartInit
<1>2. IInv /\ StartInv /\ [Next]_vars => StartInv'
  BY StartKept
<1>3. IInv /\ DataInv /\ StartInv => NeverStuck
  <2>. SUFFICES ASSUME IInv, DataInv, StartInv, NEW r \in Ranks, NEW p \in Members, ~Ended(r, p)
                PROVE  \E q \in Ranks : \E m \in Members : CanMove(q, m)
    BY DEF NeverStuck
  <2>1. CASE pc[r][Main] = End
    BY <2>1, WorkersEnd
  <2>2. CASE pc[r][Main] # End
    BY <2>2, MainsGoOn DEF DataInv
  <2>. QED BY <2>1, <2>2
<1>. QED BY <1>1, <1>2, <1>3, DataAlways, PTL DEF Spec
===============================================================================
