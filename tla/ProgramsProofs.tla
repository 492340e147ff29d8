----------------------------- MODULE ProgramsProofs ---------------------------
(***************************************************************************)
(* Proofs about the programs of Programs, each with the inductive          *)
(* invariant of its own module: the bring-up of the SSD, the packet        *)
(* service, the TCP programs, the SSD benchmark, the tables and the        *)
(* multicast of the switch, the preparation of the training's data and     *)
(* where its bits are woven to; then, since a step of one program is no    *)
(* step of the others, of all; and at last where a program can come to a   *)
(* standstill and where not.                                               *)
(***************************************************************************)
EXTENDS Programs, FiniteSetTheorems, SequenceTheorems, WellFoundedInduction, TLAPS

-------------------------------------------------------------------------------
(* Numbers and pairs.                                                      *)

\* A set of numbers has a least one: what induction over the data is here.

LEMMA LeastNat ==
  ASSUME NEW T \in SUBSET Nat, T # {}
  PROVE  \E n \in T : \A m \in T : n <= m
<1>1. PICK n \in T : \A m \in T : ~(<<m, n>> \in OpToRel(<, Nat))
  BY NatLessThanWellFounded, WFMin
<1>2. ASSUME NEW m \in T
      PROVE  n <= m
  <2>1. <<m, n>> \in Nat \X Nat
    OBVIOUS
  <2>2. ~(m < n)
    BY <1>1, <2>1, Zenon DEF OpToRel
  <2> QED
    BY <2>2
<1> QED
  BY <1>2

LEMMA SameQuotient ==
  ASSUME NEW a \in Nat, NEW b \in Nat, NEW k \in Nat \ {0}, a * k = b * k
  PROVE  a = b
  OBVIOUS

LEMMA DivMod ==
  ASSUME NEW a \in Nat, NEW k \in Nat \ {0}
  PROVE  a \div k \in Nat /\ a % k \in 0..(k - 1) /\ a = (k * (a \div k)) + (a % k)
  OBVIOUS

LEMMA PairIn ==
  \A A, B, a, b : <<a, b>> \in A \X B <=> a \in A /\ b \in B
  OBVIOUS

LEMMA PairParts ==
  \A A, B, e : e \in A \X B => e[1] \in A /\ e[2] \in B /\ e = <<e[1], e[2]>>
  OBVIOUS

-------------------------------------------------------------------------------
(* Arithmetic of the queues.                                               *)

LEMMA SuccFacts ==
  ASSUME NEW i \in Slots
  PROVE  /\ (i + 1) % Depth \in Slots
         /\ (i + 1) % Depth = IF i + 1 = Depth THEN 0 ELSE i + 1
<1>1. CASE i + 1 = Depth
  BY <1>1, NvmeAssumption DEF Slots
<1>2. CASE i + 1 < Depth
  BY <1>2, NvmeAssumption DEF Slots
<1> QED
  BY <1>1, <1>2, NvmeAssumption DEF Slots

LEMMA SlotOf ==
  ASSUME NEW h \in Nat
  PROVE  h % Depth \in Slots
  BY NvmeAssumption DEF Slots

LEMMA HeadFacts ==
  ASSUME NEW a \in Nat, NEW b \in Nat
  PROVE  (a % 2) + 4 * ((b \div 4) % Depth) \in Nat
<1>1. b \div 4 \in Nat
  OBVIOUS
<1>2. (b \div 4) % Depth \in Nat
  BY <1>1, SlotOf DEF Slots
<1>3. a % 2 \in Nat
  OBVIOUS
<1> QED
  BY <1>2, <1>3

LEMMA CommandType ==
  ASSUME TypeOK
  PROVE  Command(step) \in [op : {"none", "features", "cq", "sq", "smart"}, qid : Nat,
                            start : 0..MaxStarts]
<1>1. Op(step) \in {"none", "features", "cq", "sq", "smart"}
  BY DEF Op
<1>2. step \div 2 \in Nat
  BY DEF TypeOK
<1> QED
  BY <1>1, <1>2 DEF TypeOK, Command

-------------------------------------------------------------------------------
(* Type correctness.                                                       *)

LEMMA AdminTypeInit == Init => TypeOK
<1> SUFFICES ASSUME Init
             PROVE  TypeOK
  OBVIOUS
<1>1. 0 \in Slots /\ 0 \in 0..MaxStarts
  BY NvmeAssumption DEF Slots
<1>2. seen \in [phase : 0..1, status : 0..1, start : 0..MaxStarts]
  BY <1>1 DEF Init, Empty
<1>3. cq \in [Slots -> [phase : 0..1, status : 0..1, start : 0..MaxStarts]]
  BY <1>1 DEF Init, Empty
<1>4. sq \in [Slots -> [op : {"none", "features", "cq", "sq", "smart"}, qid : Nat,
                       start : 0..MaxStarts]]
  BY <1>1 DEF Init, NoCommand
<1>5. /\ sqTail \in Slots /\ cqHead \in Nat /\ sqHead \in Slots /\ cqTail \in Slots
      /\ admin_sq_tl \in Slots /\ admin_cq_hd \in Nat /\ starts \in 0..MaxStarts
  BY <1>1 DEF Init
<1>6. phase \in 0..1 /\ step \in Nat \ {0}
  BY DEF Init
<1>7. enabled \in BOOLEAN /\ ready \in BOOLEAN
  BY DEF Init
<1> QED
  BY <1>2, <1>3, <1>4, <1>5, <1>6, <1>7 DEF Init, TypeOK

LEMMA AdminTypeStep == TypeOK /\ [Next]_vars => TypeOK'
<1> SUFFICES ASSUME TypeOK, [Next]_vars
             PROVE  TypeOK'
  OBVIOUS
<1> USE DEF TypeOK
<1>0. MaxStarts \in Nat /\ Depth \in Nat /\ Depth >= 2 /\ 0 \in Slots
  BY NvmeAssumption DEF Slots
<1>1. CASE Start
  BY <1>1, <1>0 DEF Start, ctlVars, Empty
<1>2. CASE Disable
  BY <1>2 DEF Disable, At, ctlVars
<1>3. CASE WaitReset
  BY <1>3 DEF WaitReset, At, ctlVars
<1>4. CASE Enable
  BY <1>4 DEF Enable, At, ctlVars
<1>5. CASE WaitReady
  BY <1>5 DEF WaitReady, At, ctlVars, Running
<1>6. CASE ClearQueue
  BY <1>6, <1>0 DEF ClearQueue, At, ctlVars, Running, Cleared, Empty
<1>7. CASE InsertAdminSq
  <2>1. NextTail \in Slots
    BY SuccFacts DEF NextTail
  <2>2. sq' \in [Slots -> [op : {"none", "features", "cq", "sq", "smart"}, qid : Nat,
                           start : 0..MaxStarts]]
    BY <1>7, CommandType DEF InsertAdminSq
  <2> QED
    BY <1>7, <2>1, <2>2 DEF InsertAdminSq, ctlVars, Running
<1>8. CASE WaitPhase
  BY <1>8 DEF WaitPhase, ctlVars, Running
<1>9. CASE ReadStatus
  <2>1. HeadEntry \in [phase : 0..1, status : 0..1, start : 0..MaxStarts]
    BY SlotOf DEF HeadEntry
  <2>2. NextHead \in Nat
    BY HeadFacts DEF NextHead
  <2>3. pc' \in Running \cup {"down"} /\ step' \in Nat \ {0}
    BY <1>9 DEF ReadStatus, Running
  <2>4. admin_cq_hd' \in Nat /\ cqHead' \in Nat
    BY <1>9, <2>2 DEF ReadStatus
  <2>5. seen' \in [phase : 0..1, status : 0..1, start : 0..MaxStarts]
    BY <1>9, <2>1 DEF ReadStatus
  <2> QED
    BY <1>9, <2>3, <2>4, <2>5 DEF ReadStatus, ctlVars
<1>10. CASE End
  BY <1>10 DEF End, ctlVars
<1>11. CASE Reset
  <2>1. /\ sqTail' \in Slots /\ cqHead' \in Nat /\ sqHead' \in Slots /\ cqTail' \in Slots
        /\ phase' \in 0..1
    BY <1>11, <1>0 DEF Reset
  <2>2. ready' \in BOOLEAN
    BY <1>11 DEF Reset
  <2> QED
    BY <1>11, <2>1, <2>2 DEF Reset, progVars
<1>12. CASE GetReady
  BY <1>12 DEF GetReady, progVars
<1>13. CASE Execute
  <2>1. Succ(sqHead) \in Slots /\ Succ(cqTail) \in Slots
    BY SuccFacts DEF Succ
  <2>2. PICK status \in Outcomes(sq[sqHead]) :
          cq' = [cq EXCEPT ![cqTail] =
                   [phase |-> phase, status |-> status, start |-> sq[sqHead].start]]
    BY <1>13 DEF Execute
  <2>3. status \in 0..1
    BY DEF Outcomes
  <2>4. cq' \in [Slots -> [phase : 0..1, status : 0..1, start : 0..MaxStarts]]
    BY <2>2, <2>3
  <2>5. phase' \in 0..1
    BY <1>13 DEF Execute
  <2> QED
    BY <1>13, <2>1, <2>4, <2>5 DEF Execute, progVars
<1>14. CASE UNCHANGED vars
  BY <1>14 DEF vars, progVars, ctlVars
<1> QED
  BY <1>1, <1>2, <1>3, <1>4, <1>5, <1>6, <1>7, <1>8, <1>9, <1>10, <1>11, <1>12, <1>13, <1>14
  DEF Next, Program, Controller

\* The program and the controller keep their variables' ranges: the tail stays
\* within the queue, the head after its mask within the numbers.
THEOREM AdminTypeCorrect == Spec => []TypeOK
  BY AdminTypeInit, AdminTypeStep, PTL DEF Spec

-------------------------------------------------------------------------------
(* Answers of this run.                                                    *)

AdminWorking == {"submit", "wait", "status", "up"}

\* The commands between the controller's head and the tail it was told
AdminPending(i) ==
  IF sqHead <= sqTail THEN sqHead <= i /\ i < sqTail ELSE sqHead <= i \/ i < sqTail

\* Where program and controller are with each other
AdminStages ==
  /\ pc \in {"wait_reset", "enable"} => ~enabled
  /\ pc = "enable" => ~ready
  /\ pc \in Running \cup {"wait_ready"} => enabled
  /\ pc \in Running => ready
  /\ ~ready => sqHead = 0 /\ sqTail = 0
  /\ pc \in {"enable", "wait_ready", "clear"} => sqHead = 0 /\ sqTail = 0
  /\ pc \in AdminWorking => sqTail = admin_sq_tl

\* What the controller may still fetch, and what the program may take for an
\* answer, comes from this run.
PendingOfThisRun == pc \in AdminWorking => \A i \in Slots : AdminPending(i) => sq[i].start = starts
PhaseOfThisRun == pc \in AdminWorking => \A i \in Slots : cq[i].phase = 1 => cq[i].start = starts
AnswerOfThisRun == pc = "status" => HeadEntry.start = starts

\* The mask keeps the head below the bit the phase is taken from.
HeadBound == admin_cq_hd < 4 * Depth

AdminInv ==
  /\ TypeOK /\ AdminStages /\ HeadBound
  /\ PendingOfThisRun /\ PhaseOfThisRun /\ AnswerOfThisRun /\ StatusOfThisRun

LEMMA NextHeadBound == TypeOK => NextHead < 4 * Depth
<1> SUFFICES ASSUME TypeOK
             PROVE  NextHead < 4 * Depth
  OBVIOUS
<1> DEFINE h == admin_cq_hd + 1
<1>1. h \in Nat
  BY DEF TypeOK
<1>2. h \div 4 \in Nat /\ h % 2 \in 0..1
  BY <1>1
<1>3. (h \div 4) % Depth \in 0..(Depth - 1)
  BY <1>2, SlotOf DEF Slots
<1> HIDE DEF h
<1>4. (h % 2) + 4 * ((h \div 4) % Depth) < 4 * Depth
  BY <1>2, <1>3, NvmeAssumption
<1> QED
  BY <1>4 DEF NextHead, h

LEMMA SmallDiv ==
  ASSUME NEW a \in Nat, NEW m \in Nat \ {0}, a < m
  PROVE  a \div m = 0
<1>1. a \div m \in Nat /\ m * (a \div m) <= a
  OBVIOUS
<1>2. ASSUME NEW k \in Nat, k # 0
      PROVE  m * k >= m
  BY <1>2
<1> QED
  BY <1>1, <1>2

LEMMA NoPhase == TypeOK /\ HeadBound => UnexpectedPhase = 0
<1> SUFFICES ASSUME TypeOK, HeadBound
             PROVE  UnexpectedPhase = 0
  OBVIOUS
<1>1. admin_cq_hd \in Nat /\ 4 * Depth \in Nat \ {0} /\ admin_cq_hd < 4 * Depth
  BY NvmeAssumption DEF TypeOK, HeadBound
<1>2. admin_cq_hd \div (4 * Depth) = 0
  BY <1>1, SmallDiv
<1> QED
  BY <1>2 DEF UnexpectedPhase

LEMMA AdminInitInv == Init => AdminInv
<1> SUFFICES ASSUME Init
             PROVE  AdminInv
  OBVIOUS
<1>1. TypeOK
  BY AdminTypeInit
<1>2. AdminStages
  BY DEF Init, AdminStages, Running, AdminWorking
<1>3. HeadBound
  BY NvmeAssumption DEF Init, HeadBound
<1>4. PendingOfThisRun /\ PhaseOfThisRun /\ AnswerOfThisRun /\ StatusOfThisRun
  BY DEF Init, PendingOfThisRun, PhaseOfThisRun, AnswerOfThisRun, StatusOfThisRun, AdminWorking
<1> QED
  BY <1>1, <1>2, <1>3, <1>4 DEF AdminInv

\* Steps that move the program without a look at the completion queue
LEMMA AdminQuiet ==
  ASSUME AdminInv, starts' = starts, seen' = seen, admin_cq_hd' = admin_cq_hd,
         pc' \notin AdminWorking
  PROVE  /\ HeadBound' /\ PendingOfThisRun' /\ PhaseOfThisRun'
         /\ AnswerOfThisRun' /\ StatusOfThisRun'
  BY DEF AdminInv, HeadBound, PendingOfThisRun, PhaseOfThisRun, AnswerOfThisRun,
         StatusOfThisRun, AdminWorking

LEMMA AdminStepInv == AdminInv /\ [Next]_vars => AdminInv'
<1> SUFFICES ASSUME AdminInv, [Next]_vars
             PROVE  AdminInv'
  OBVIOUS
<1>0. TypeOK /\ TypeOK'
  BY AdminTypeStep DEF AdminInv
<1> DEFINE Rest == /\ HeadBound' /\ PendingOfThisRun' /\ PhaseOfThisRun'
                   /\ AnswerOfThisRun' /\ StatusOfThisRun'
<1> SUFFICES AdminStages' /\ Rest
  BY <1>0 DEF AdminInv
<1>1. CASE Start
  <2>1. AdminStages'
    BY <1>1 DEF AdminInv, AdminStages, Start, ctlVars, Running, AdminWorking
  <2>2. Rest
    BY <1>1, NvmeAssumption DEF Start, HeadBound, PendingOfThisRun, PhaseOfThisRun,
       AnswerOfThisRun, StatusOfThisRun, AdminWorking
  <2> QED
    BY <2>1, <2>2
<1>2. CASE Disable
  <2>1. AdminStages'
    BY <1>2 DEF AdminInv, AdminStages, Disable, At, ctlVars, Running, AdminWorking
  <2> QED
    BY <1>2, <2>1, AdminQuiet DEF Disable, At, AdminWorking
<1>3. CASE WaitReset
  <2>1. AdminStages'
    BY <1>3 DEF AdminInv, AdminStages, WaitReset, At, ctlVars, Running, AdminWorking
  <2> QED
    BY <1>3, <2>1, AdminQuiet DEF WaitReset, At, AdminWorking
<1>4. CASE Enable
  <2>1. AdminStages'
    BY <1>4 DEF AdminInv, AdminStages, Enable, At, ctlVars, Running, AdminWorking
  <2> QED
    BY <1>4, <2>1, AdminQuiet DEF Enable, At, AdminWorking
<1>5. CASE WaitReady
  <2>1. AdminStages'
    BY <1>5 DEF AdminInv, AdminStages, WaitReady, At, ctlVars, Running, AdminWorking
  <2> QED
    BY <1>5, <2>1, AdminQuiet DEF WaitReady, At, AdminWorking
<1>6. CASE ClearQueue
  <2>1. AdminStages'
    BY <1>6 DEF AdminInv, AdminStages, ClearQueue, At, ctlVars, Running, AdminWorking
  <2>2. HeadBound' /\ AnswerOfThisRun' /\ StatusOfThisRun'
    BY <1>6, NvmeAssumption DEF AdminInv, ClearQueue, At, HeadBound, AnswerOfThisRun, StatusOfThisRun
  <2>3. sqHead' = 0 /\ sqTail' = 0
    BY <1>6 DEF AdminInv, AdminStages, ClearQueue, At, ctlVars
  <2>4. \A i \in Slots : ~AdminPending(i)'
    BY <2>3 DEF AdminPending, Slots
  <2>5. \A i \in Slots : cq'[i].phase = 0
    BY <1>6 DEF ClearQueue, Cleared, Empty
  <2> QED
    BY <2>1, <2>2, <2>4, <2>5 DEF PendingOfThisRun, PhaseOfThisRun
<1>7. CASE InsertAdminSq
  <2>1. AdminStages'
    BY <1>7 DEF AdminInv, AdminStages, InsertAdminSq, ctlVars, Running, AdminWorking
  <2>2. HeadBound' /\ AnswerOfThisRun' /\ StatusOfThisRun'
    BY <1>7 DEF AdminInv, InsertAdminSq, HeadBound, AnswerOfThisRun, StatusOfThisRun
  <2>3. PhaseOfThisRun'
    BY <1>7 DEF AdminInv, InsertAdminSq, PhaseOfThisRun, AdminWorking
  <2>4. sqTail' = (sqTail + 1) % Depth /\ sqTail = admin_sq_tl /\ sqHead' = sqHead
    BY <1>7 DEF AdminInv, AdminStages, InsertAdminSq, NextTail, AdminWorking, ctlVars
  <2>5. \A i \in Slots : AdminPending(i)' => AdminPending(i) \/ i = sqTail
    <3>1. sqTail \in Slots /\ sqHead \in Slots
      BY <1>0 DEF TypeOK
    <3>2. sqTail' = IF sqTail + 1 = Depth THEN 0 ELSE sqTail + 1
      BY <2>4, <3>1, SuccFacts
    <3>3. sqHead' = sqHead
      BY <2>4
    <3> QED
      BY <3>1, <3>2, <3>3, NvmeAssumption DEF AdminPending, Slots
  <2>6. \A i \in Slots : AdminPending(i) => sq[i].start = starts
    BY <1>7 DEF AdminInv, PendingOfThisRun, InsertAdminSq, AdminWorking
  <2>7. sq'[sqTail].start = starts /\ \A i \in Slots : i # sqTail => sq'[i] = sq[i]
    BY <1>7, <2>4, <1>0 DEF InsertAdminSq, TypeOK, Command
  <2>8. starts' = starts
    BY <1>7 DEF InsertAdminSq
  <2> QED
    BY <2>1, <2>2, <2>3, <2>5, <2>6, <2>7, <2>8 DEF PendingOfThisRun
<1>8. CASE WaitPhase
  <2>1. AdminStages'
    BY <1>8 DEF AdminInv, AdminStages, WaitPhase, ctlVars, Running, AdminWorking
  <2>2. HeadBound' /\ StatusOfThisRun' /\ PendingOfThisRun' /\ PhaseOfThisRun'
    BY <1>8 DEF AdminInv, WaitPhase, HeadBound, StatusOfThisRun, PendingOfThisRun, AdminPending,
       PhaseOfThisRun, AdminWorking, ctlVars
  <2>3. admin_cq_hd % Depth \in Slots
    BY <1>0, SlotOf DEF TypeOK
  <2>4. HeadEntry.phase = 1
    BY <1>8, <1>0, <2>3, NoPhase DEF AdminInv, WaitPhase, HeadEntry, TypeOK
  <2>5. HeadEntry.start = starts
    BY <1>8, <2>3, <2>4 DEF AdminInv, PhaseOfThisRun, WaitPhase, AdminWorking, HeadEntry
  <2>6. AnswerOfThisRun'
    BY <1>8, <2>5 DEF WaitPhase, AnswerOfThisRun, HeadEntry
  <2> QED
    BY <2>1, <2>2, <2>6
<1>9. CASE ReadStatus
  <2>1. AdminStages'
    BY <1>9 DEF AdminInv, AdminStages, ReadStatus, ctlVars, Running, AdminWorking
  <2>2. HeadBound'
    BY <1>9, <1>0, NextHeadBound DEF ReadStatus, HeadBound
  <2>3. PendingOfThisRun' /\ PhaseOfThisRun' /\ AnswerOfThisRun'
    BY <1>9 DEF AdminInv, ReadStatus, PendingOfThisRun, AdminPending, PhaseOfThisRun,
       AnswerOfThisRun, AdminWorking, ctlVars
  <2>4. StatusOfThisRun'
    BY <1>9 DEF AdminInv, ReadStatus, AnswerOfThisRun, StatusOfThisRun
  <2> QED
    BY <2>1, <2>2, <2>3, <2>4
<1>10. CASE End
  <2>1. AdminStages'
    BY <1>10 DEF AdminInv, AdminStages, End, ctlVars, Running, AdminWorking
  <2> QED
    BY <1>10, <2>1, AdminQuiet DEF End, AdminWorking
<1>11. CASE Reset
  <2>1. AdminStages'
    BY <1>11 DEF AdminInv, AdminStages, Reset, progVars, Running, AdminWorking
  <2>2. pc \notin AdminWorking
    BY <1>11 DEF AdminInv, AdminStages, Reset, Running, AdminWorking
  <2> QED
    BY <1>11, <2>1, <2>2, AdminQuiet DEF Reset, progVars
<1>12. CASE GetReady
  <2>1. AdminStages'
    BY <1>12 DEF AdminInv, AdminStages, GetReady, progVars, Running, AdminWorking
  <2>2. pc \notin AdminWorking
    BY <1>12 DEF AdminInv, AdminStages, GetReady, Running, AdminWorking
  <2> QED
    BY <1>12, <2>1, <2>2, AdminQuiet DEF GetReady, progVars
<1>13. CASE Execute
  <2>1. pc' = pc /\ starts' = starts /\ seen' = seen /\ admin_cq_hd' = admin_cq_hd
        /\ sq' = sq /\ sqTail' = sqTail /\ sqHead' = Succ(sqHead) /\ sqHead # sqTail
    BY <1>13 DEF Execute, progVars
  <2>2. AdminStages'
    BY <1>13 DEF AdminInv, AdminStages, Execute, progVars, Running, AdminWorking
  <2>3. CASE pc \notin AdminWorking
    BY <2>1, <2>2, <2>3, AdminQuiet
  <2>4. CASE pc \in AdminWorking
    <3>1. AdminPending(sqHead)
      BY <2>1, <1>0 DEF AdminPending, TypeOK, Slots
    <3>2. sq[sqHead].start = starts
      BY <2>4, <3>1, <1>0 DEF AdminInv, PendingOfThisRun, TypeOK
    <3>3. \A i \in Slots : AdminPending(i)' => AdminPending(i)
      <4>1. sqTail \in Slots /\ sqHead \in Slots
        BY <1>0 DEF TypeOK
      <4>2. sqHead' = IF sqHead + 1 = Depth THEN 0 ELSE sqHead + 1
        BY <2>1, <4>1, SuccFacts DEF Succ
      <4>3. sqTail' = sqTail /\ sqHead # sqTail
        BY <2>1
      <4> QED
        BY <4>1, <4>2, <4>3, NvmeAssumption DEF AdminPending, Slots
    <3>4. PendingOfThisRun'
      BY <2>1, <2>4, <3>3 DEF AdminInv, PendingOfThisRun
    <3>5. PICK status \in Outcomes(sq[sqHead]) :
            cq' = [cq EXCEPT ![cqTail] =
                     [phase |-> phase, status |-> status, start |-> sq[sqHead].start]]
      BY <1>13 DEF Execute
    <3>6. \A i \in Slots : cq'[i].start = starts \/ cq'[i] = cq[i]
      BY <3>2, <3>5, <1>0 DEF TypeOK
    <3>7. PhaseOfThisRun'
      BY <2>1, <2>4, <3>6 DEF AdminInv, PhaseOfThisRun
    <3>8. admin_cq_hd % Depth \in Slots
      BY <1>0, SlotOf DEF TypeOK
    <3>9. AnswerOfThisRun'
      BY <2>1, <3>6, <3>8 DEF AdminInv, AnswerOfThisRun, HeadEntry
    <3>10. HeadBound' /\ StatusOfThisRun'
      BY <2>1 DEF AdminInv, HeadBound, StatusOfThisRun
    <3> QED
      BY <2>2, <3>4, <3>7, <3>9, <3>10
  <2> QED
    BY <2>3, <2>4
<1>14. CASE UNCHANGED vars
  <2>1. AdminStages'
    BY <1>14 DEF AdminInv, AdminStages, vars, progVars, ctlVars
  <2> QED
    BY <1>14, <2>1 DEF AdminInv, HeadBound, PendingOfThisRun, AdminPending, PhaseOfThisRun,
       AnswerOfThisRun, HeadEntry, StatusOfThisRun, vars, progVars, ctlVars
<1> QED
  BY <1>1, <1>2, <1>3, <1>4, <1>5, <1>6, <1>7, <1>8, <1>9, <1>10, <1>11, <1>12, <1>13, <1>14
  DEF Next, Program, Controller

\* The program acts on answers to this run's commands only, whatever depth the
\* queues have, however many commands wrap them and wherever the runs before
\* were ended.
THEOREM AnswersOfThisRun == Spec => []StatusOfThisRun
<1>1. AdminInv => StatusOfThisRun
  BY DEF AdminInv
<1> QED
  BY AdminInitInv, AdminStepInv, <1>1, PTL DEF Spec

-------------------------------------------------------------------------------
(* The inductive invariant.                                                *)

RpsTypes ==
  /\ role \in {"bs", "dummy"}
  /\ rpc_pc \in {"alloc", "reset", "address", "threads", "join", "ended"}
  /\ DOMAIN ring = RingNames
  /\ \A r \in RingNames : DOMAIN ring[r] = 0..(Size(r) - 1)
  /\ credits \in {0, Credit}
  /\ cur \in [RingNames -> Nat] /\ issued \in 0..NumRpcs /\ csWritten \in Nat

\* The FPGA and the threads begin when the buffer has been filled.
BeginInv ==
  /\ rpc_pc \in {"alloc", "reset", "address"} => ~addressed
  /\ rpc_pc \in {"alloc", "reset", "address", "threads"} => onCore = {}
  /\ ~addressed => issued = 0

\* A word is the filling or the stamp of a request that came.
WordInv ==
  rpc_pc # "alloc" =>
    \A r \in RingNames : \A s \in 0..(Size(r) - 1) :
      ring[r][s] = Fill \/ \E n \in 0..(Came(r) - 1) : ring[r][s] = Stamp(r, n)

\* A request goes round: made, answered in one ring, written to the other,
\* answered there; and no more are on their way than there are credits.
CreditInv ==
  /\ cur["cs"] <= csWritten /\ csWritten <= cur["client"] /\ cur["client"] <= issued
  /\ issued - cur["cs"] <= Credit

RpsInv == RpsTypes /\ BeginInv /\ WordInv /\ CreditInv

-------------------------------------------------------------------------------

LEMMA RpsConstants ==
  /\ Credit \in Nat \ {0} /\ NumRpcs \in Nat \ {0} /\ CsOffset \in Nat
  /\ \A r \in RingNames : Size(r) \in Nat \ {0} /\ Credit <= Size(r)
  BY RingAssumption DEF RingNames, Size

\* A word that is the stamp a thread waits for is that request's.
LEMMA StampsDiffer ==
  ASSUME role \in {"bs", "dummy"}, NEW r \in RingNames, NEW n \in Nat
  PROVE  /\ Expected(r, n) # Fill
         /\ \A k \in Nat : Expected(r, n) = Stamp(r, k) => k = n
<1>. CsOffset \in Nat
  BY RpsConstants
<1>1. CASE r = "cs"
  <2>1. Expected(r, n) = n * 64 + CsOffset + 1 /\ \A k \in Nat : Stamp(r, k) = k * 64 + CsOffset + 1
    BY <1>1 DEF Expected, Stamp
  <2>2. Fill = 0 \/ Fill = -1
    BY DEF Fill, Ones
  <2>. QED BY <2>1, <2>2
<1>2. CASE r = "client" /\ role = "bs"
  BY <1>2 DEF Expected, Stamp, Fill
<1>3. CASE r = "client" /\ role = "dummy"
  BY <1>3 DEF Expected, Stamp, Fill, Ones
<1>. QED BY <1>1, <1>2, <1>3 DEF RingNames

LEMMA RpsInitInv == RpsInit => RpsInv
  BY RpsConstants DEF RpsInit, RpsInv, RpsTypes, BeginInv, WordInv, CreditInv, RingNames

LEMMA MainStep ==
  ASSUME RpsInv, ServerMain
  PROVE  RpsInv'
<1>1. CASE FillBuffer
  <2>1. RpsTypes' /\ BeginInv' /\ CreditInv'
    BY <1>1 DEF FillBuffer, Goto, fpgaVars, RpsInv, RpsTypes, BeginInv, CreditInv
  <2>2. \A r \in RingNames : \A s \in 0..(Size(r) - 1) : ring'[r][s] = Fill /\ Fill' = Fill
    BY <1>1 DEF FillBuffer, Goto, Fill
  <2>. QED BY <2>1, <2>2 DEF RpsInv, WordInv
<1>2. CASE ResetAndConnect \/ WriteAddress \/ StartThreads \/ Join
  <2>1. /\ UNCHANGED <<role, ring, onCore, cur, fpgaVars>>
        /\ rpc_pc # "alloc" /\ rpc_pc' # "alloc"
    BY <1>2 DEF ResetAndConnect, WriteAddress, StartThreads, Join, Goto
  <2>2. RpsTypes' /\ BeginInv'
    BY <1>2 DEF ResetAndConnect, WriteAddress, StartThreads, Join, Goto, fpgaVars, RpsInv,
                RpsTypes, BeginInv
  <2>3. WordInv' /\ CreditInv'
    BY <2>1 DEF fpgaVars, RpsInv, WordInv, CreditInv, Fill, Stamp, Came
  <2>. QED BY <2>2, <2>3 DEF RpsInv
<1>. QED BY <1>1, <1>2 DEF ServerMain

LEMMA PollStep ==
  ASSUME RpsInv, NEW r \in RingNames, Poll(r)
  PROVE  RpsInv'
<1>1. /\ rpc_pc # "alloc" /\ rpc_pc' = rpc_pc /\ role' = role /\ ring' = ring
      /\ credits' = credits /\ addressed' = addressed /\ onCore' = onCore
      /\ issued' = issued /\ csWritten' = csWritten
      /\ cur' = [cur EXCEPT ![r] = @ + 1]
      /\ ring[r][cur[r] % Size(r)] = Expected(r, cur[r])
  BY DEF Poll, fpgaVars, RpsInv, BeginInv
<1>2. cur[r] \in Nat /\ cur[r] % Size(r) \in 0..(Size(r) - 1)
  BY RpsConstants DEF RpsInv, RpsTypes
<1>3. cur[r] < Came(r)
  <2>1. PICK n \in 0..(Came(r) - 1) : ring[r][cur[r] % Size(r)] = Stamp(r, n)
    BY <1>1, <1>2, StampsDiffer DEF RpsInv, WordInv, RpsTypes
  <2>2. Came(r) \in Nat
    BY DEF Came, RpsInv, RpsTypes
  <2>3. n = cur[r]
    <3>1. n \in Nat /\ Expected(r, cur[r]) = Stamp(r, n) /\ role \in {"bs", "dummy"}
      BY <1>1, <2>1, <2>2 DEF RpsInv, RpsTypes
    <3>. QED BY <1>2, <3>1, StampsDiffer
  <2>. QED BY <2>1, <2>2, <2>3
<1>4. RpsTypes' /\ BeginInv'
  BY <1>1, <1>2 DEF RpsInv, RpsTypes, BeginInv
<1>5. WordInv'
  BY <1>1 DEF RpsInv, WordInv, Fill, Stamp, Came
<1>6. CreditInv'
  BY <1>1, <1>2, <1>3, RpsConstants DEF RpsInv, RpsTypes, CreditInv, Came, RingNames
<1>. QED BY <1>4, <1>5, <1>6 DEF RpsInv

\* The FPGA writes the next request of a ring.
LEMMA WordWritten ==
  ASSUME RpsInv, NEW r \in RingNames, NEW n \in Nat, n = Came(r), Write(r, n),
         UNCHANGED <<role, rpc_pc>>, Came(r)' = n + 1,
         \A q \in RingNames : q # r => Came(q)' = Came(q)
  PROVE  WordInv' /\ DOMAIN ring' = RingNames
         /\ \A q \in RingNames : DOMAIN ring'[q] = 0..(Size(q) - 1)
<1>1. n % Size(r) \in 0..(Size(r) - 1)
  BY RpsConstants
<1>2. /\ DOMAIN ring' = RingNames /\ DOMAIN ring'[r] = 0..(Size(r) - 1)
      /\ ring'[r] = [ring[r] EXCEPT ![n % Size(r)] = Stamp(r, n)]
      /\ \A q \in RingNames : q # r => ring'[q] = ring[q]
  BY DEF Write, RpsInv, RpsTypes
<1>3. Fill' = Fill /\ \A q \in RingNames : \A k \in Nat : Stamp(q, k)' = Stamp(q, k)
  BY DEF Fill, Stamp
<1>4. ASSUME rpc_pc # "alloc", NEW s \in 0..(Size(r) - 1)
      PROVE  ring'[r][s] = Fill \/ \E k \in 0..n : ring'[r][s] = Stamp(r, k)
  <2>1. CASE s = n % Size(r)
    BY <1>1, <1>2, <2>1 DEF RpsInv, RpsTypes
  <2>2. CASE s # n % Size(r)
    BY <1>2, <1>4, <2>2 DEF RpsInv, WordInv
  <2>. QED BY <2>1, <2>2
<1>5. WordInv'
  <2>. SUFFICES ASSUME rpc_pc # "alloc", NEW q \in RingNames, NEW s \in 0..(Size(q) - 1)
                PROVE  ring'[q][s] = Fill' \/ \E k \in 0..(Came(q)' - 1) : ring'[q][s] = Stamp(q, k)'
    BY DEF WordInv, Size
  <2>1. CASE q = r
    BY <1>3, <1>4, <2>1
  <2>2. CASE q # r
    BY <1>2, <1>3, <2>2 DEF RpsInv, WordInv, Came, RpsTypes
  <2>. QED BY <2>1, <2>2
<1>. QED BY <1>2, <1>5 DEF RpsInv, RpsTypes

LEMMA FpgaStep ==
  ASSUME RpsInv, Fpga
  PROVE  RpsInv'
<1>1. CASE Issue
  <2>1. WordInv' /\ DOMAIN ring' = RingNames
        /\ \A q \in RingNames : DOMAIN ring'[q] = 0..(Size(q) - 1)
    BY <1>1, WordWritten DEF Issue, RpsInv, RpsTypes, Came, RingNames
  <2>2. RpsTypes' /\ BeginInv' /\ CreditInv'
    BY <1>1, <2>1, RpsConstants DEF Issue, RpsInv, RpsTypes, BeginInv, CreditInv, Size, RingNames
  <2>. QED BY <2>1, <2>2 DEF RpsInv
<1>2. CASE WriteCs
  <2>1. WordInv' /\ DOMAIN ring' = RingNames
        /\ \A q \in RingNames : DOMAIN ring'[q] = 0..(Size(q) - 1)
    BY <1>2, WordWritten DEF WriteCs, RpsInv, RpsTypes, Came, RingNames
  <2>2. RpsTypes' /\ BeginInv' /\ CreditInv'
    BY <1>2, <2>1, RpsConstants DEF WriteCs, RpsInv, RpsTypes, BeginInv, CreditInv, Size, RingNames
  <2>. QED BY <2>1, <2>2 DEF RpsInv
<1>. QED BY <1>1, <1>2 DEF Fpga

\* The steps that touch neither the rings nor who is how far.
LEMMA OtherStep ==
  ASSUME RpsInv,
         \/ \E r \in RingNames : Moved(r)
         \/ ClientStart \/ ClientStop \/ UNCHANGED rpsVars
  PROVE  RpsInv'
<1>1. /\ UNCHANGED <<role, rpc_pc, ring, credits, addressed, cur, fpgaVars>>
      /\ onCore' = onCore \/ rpc_pc = "join"
  BY DEF Moved, ClientStart, ClientStop, rpsVars
<1>2. UNCHANGED <<issued, csWritten>>
  BY <1>1 DEF fpgaVars
<1>3. RpsTypes' /\ CreditInv'
  BY <1>1, <1>2 DEF RpsInv, RpsTypes, CreditInv
<1>4. BeginInv'
  BY <1>1, <1>2 DEF RpsInv, BeginInv
<1>5. WordInv'
  <2>1. Fill' = Fill /\ \A r \in RingNames : Came(r)' = Came(r) /\ \A k : Stamp(r, k)' = Stamp(r, k)
    BY <1>1, <1>2 DEF Fill, Came, Stamp
  <2>. QED BY <1>1, <2>1 DEF RpsInv, WordInv
<1>. QED BY <1>3, <1>4, <1>5 DEF RpsInv

LEMMA RpsStepInv == RpsInv /\ [RpsNext]_rpsVars => RpsInv'
  BY MainStep, PollStep, FpgaStep, OtherStep DEF RpsNext

LEMMA RpsInvSuffices == RpsInv => RpsTypeOK /\ OnlyWhatCame
<1> SUFFICES ASSUME RpsInv PROVE RpsTypeOK /\ OnlyWhatCame
  OBVIOUS
<1>1. OnlyWhatCame
  BY RpsConstants DEF RpsInv, RpsTypes, CreditInv, OnlyWhatCame, Came, RingNames
<1>2. cur["client"] \in 0..NumRpcs /\ cur["cs"] \in 0..NumRpcs /\ csWritten \in 0..NumRpcs
  BY RpsConstants DEF RpsInv, RpsTypes, CreditInv, RingNames
<1>3. \A r \in RingNames : cur[r] \in 0..NumRpcs
  BY <1>2 DEF RingNames
<1>. QED
  BY <1>1, <1>2, <1>3 DEF RpsInv, RpsTypes, RpsTypeOK

-------------------------------------------------------------------------------
(* FpgaTcp.                                                                *)

TcpOps == {"reset", "addresses", "listen", "await_listen", "settings", "key", "open",
           "await_open", "more", "session", "start", "keep", "open_off"}
TcpApps == {"tcp_benchmark", "tcp_latency", "hyperloglog", "allreduce"}

LEMMA TimesFacts ==
  ASSUME NEW s \in Seq(TcpOps), Len(s) \in {1, 2, 4}, NEW k \in Nat
  PROVE  /\ Times(s, k) \in Seq(TcpOps)
         /\ Len(Times(s, k)) = k * Len(s)
         /\ \A i \in 1..(k * Len(s)) : Times(s, k)[i] = s[((i - 1) % Len(s)) + 1]
<1>1. k * Len(s) \in Nat
  OBVIOUS
<1>2. \A i \in 1..(k * Len(s)) : ((i - 1) % Len(s)) + 1 \in 1..Len(s)
  OBVIOUS
<1>3. \A i \in 1..(k * Len(s)) : s[((i - 1) % Len(s)) + 1] \in TcpOps
  BY <1>2, ElementOfSeq
<1>4. Times(s, k) \in [1..(k * Len(s)) -> TcpOps]
  BY <1>3 DEF Times
<1>5. Times(s, k) \in Seq(TcpOps) /\ Len(Times(s, k)) = k * Len(s)
  BY <1>1, <1>4, SeqDef, LenProperties
<1> QED
  BY <1>5 DEF Times

LEMMA Joined ==
  ASSUME NEW A \in Seq(TcpOps), NEW B \in Seq(TcpOps)
  PROVE  /\ A \o B \in Seq(TcpOps) /\ Len(A \o B) = Len(A) + Len(B)
         /\ \A i \in 1..Len(A) : (A \o B)[i] = A[i]
         /\ \A i \in 1..Len(B) : (A \o B)[Len(A) + i] = B[i]
<1> DEFINE S == A \o B
<1>1. /\ S \in Seq(TcpOps) /\ Len(S) = Len(A) + Len(B)
      /\ \A i \in 1..(Len(A) + Len(B)) : S[i] = IF i <= Len(A) THEN A[i] ELSE B[i - Len(A)]
  BY ConcatProperties
<1> HIDE DEF S
<1>2. Len(A) \in Nat /\ Len(B) \in Nat
  BY LenProperties
<1>3. \A i \in 1..Len(A) : S[i] = A[i]
  BY <1>1, <1>2
<1>4. ASSUME NEW i \in 1..Len(B) PROVE S[Len(A) + i] = B[i]
  <2>1. /\ Len(A) + i \in 1..(Len(A) + Len(B)) /\ ~(Len(A) + i <= Len(A))
        /\ (Len(A) + i) - Len(A) = i
    BY <1>2
  <2> QED
    BY <1>1, <2>1
<1> QED
  BY <1>1, <1>3, <1>4 DEF S

\* A script that ends in a part that is repeated: where its first part and
\* the repeated part are.
LEMMA RepeatedEnd ==
  ASSUME NEW P \in Seq(TcpOps), NEW R \in Seq(TcpOps), Len(R) \in {1, 2, 4}, NEW k \in Nat,
         NEW i \in 1..Len(P \o Times(R, k))
  PROVE  \/ i <= Len(P) /\ (P \o Times(R, k))[i] = P[i]
         \/ /\ i > Len(P) /\ ((i - Len(P) - 1) % Len(R)) + 1 \in 1..Len(R)
            /\ (P \o Times(R, k))[i] = R[((i - Len(P) - 1) % Len(R)) + 1]
<1> DEFINE D == Times(R, k)
           S == P \o D
<1>1. /\ D \in Seq(TcpOps) /\ Len(D) = k * Len(R)
      /\ \A j \in 1..(k * Len(R)) : D[j] = R[((j - 1) % Len(R)) + 1]
  BY TimesFacts
<1> HIDE DEF D
<1>2. /\ Len(S) = Len(P) + Len(D)
      /\ \A j \in 1..Len(P) : S[j] = P[j]
      /\ \A j \in 1..Len(D) : S[Len(P) + j] = D[j]
  BY <1>1, Joined
<1>3. i \in 1..Len(S)
  BY DEF D
<1> HIDE DEF S
<1>4. Len(P) \in Nat /\ Len(R) \in Nat
  BY LenProperties
<1>5. CASE i <= Len(P)
  BY <1>2, <1>3, <1>4, <1>5 DEF S, D
<1>6. CASE i > Len(P)
  <2> DEFINE j == i - Len(P)
  <2>1. j \in 1..Len(D) /\ Len(P) + j = i
    BY <1>1, <1>2, <1>3, <1>4, <1>6
  <2>2. ((j - 1) % Len(R)) + 1 \in 1..Len(R)
    <3>1. j - 1 \in Nat
      BY <1>1, <1>4, <2>1
    <3> DEFINE m == j - 1
    <3>2. m % 1 = 0 /\ m % 2 \in 0..1 /\ m % 4 \in 0..3
      <4> HIDE DEF m
      <4> QED
        BY <3>1 DEF m
    <3> HIDE DEF m
    <3>3. CASE Len(R) = 1
      BY <3>2, <3>3
    <3>4. CASE Len(R) = 2
      BY <3>2, <3>4
    <3>5. CASE Len(R) = 4
      BY <3>2, <3>5
    <3> QED
      BY <3>3, <3>4, <3>5 DEF m
  <2> HIDE DEF j
  <2>3. S[i] = R[((j - 1) % Len(R)) + 1]
    BY <1>1, <1>2, <2>1
  <2> QED
    BY <1>6, <2>2, <2>3 DEF S, D, j
<1> QED
  BY <1>4, <1>5, <1>6

LEMMA latencyScript ==
  ASSUME NEW n
  PROVE  /\ tcp_latency(n) \in Seq(TcpOps)
         /\ \A i \in 1..Len(tcp_latency(n)) :
              LET op == tcp_latency(n)[i] IN
              /\ n = Server => op # "start"
              /\ n # Server =>
                   /\ op = "open" => i = 4
                   /\ i = 5 => op = "await_open"
                   /\ op = "keep" <=> i = 6
                   /\ op = "session" => i >= 9
                   /\ i = 9 => op = "session"
                   /\ op = "start" => i > 9
<1> DEFINE C == <<"open", "await_open", "keep", "open_off">>
           R == <<"reset", "session", "settings", "start">>
           V == <<"await_listen", "settings">>
           B == <<"reset", "addresses", "listen">>
           P == B \o C
           S == P \o Times(R, Lengths)
<1>1. /\ R \in Seq(TcpOps) /\ Len(R) = 4 /\ C \in Seq(TcpOps)
      /\ V \in Seq(TcpOps) /\ B \in Seq(TcpOps)
  BY DEF TcpOps
<1>2. Lengths \in Nat
  BY TcpAssumption
<1>3. Times(R, Lengths) \in Seq(TcpOps)
  BY <1>1, <1>2, TimesFacts
<1>4. tcp_latency(n) = IF n = Server THEN B \o V ELSE S
  <2> HIDE DEF R, C
  <2>1. B \o (C \o Times(R, Lengths)) = (B \o C) \o Times(R, Lengths)
    BY <1>1, <1>3, ConcatAssociative
  <2> QED
    BY <2>1, Zenon DEF tcp_latency, TcpBegin, R, C
<1>5. \A i \in 1..Len(B \o V) : (B \o V)[i] # "start"
  OBVIOUS
<1>6. /\ Len(P) = 7
      /\ \A i \in 1..7 :
           /\ P[i] = "open" => i = 4
           /\ i = 5 => P[i] = "await_open"
           /\ P[i] = "keep" <=> i = 6
           /\ P[i] # "session" /\ P[i] # "start"
  OBVIOUS
<1>7. /\ \A i \in 1..4 : R[i] \notin {"open", "keep"}
      /\ R[1] = "reset" /\ R[2] = "session" /\ R[3] = "settings" /\ R[4] = "start"
  OBVIOUS
<1>8. B \o V \in Seq(TcpOps) /\ P \in Seq(TcpOps)
  BY <1>1, ConcatProperties
<1>9. S \in Seq(TcpOps)
  BY <1>3, <1>8, ConcatProperties
<1> HIDE DEF R, C, V, B, P
<1>10. ASSUME NEW i \in 1..Len(S)
       PROVE  /\ S[i] = "open" => i = 4
              /\ i = 5 => S[i] = "await_open"
              /\ S[i] = "keep" <=> i = 6
              /\ S[i] = "session" => i >= 9
              /\ i = 9 => S[i] = "session"
              /\ S[i] = "start" => i > 9
  <2>1. \/ i <= Len(P) /\ S[i] = P[i]
        \/ /\ i > Len(P) /\ ((i - Len(P) - 1) % Len(R)) + 1 \in 1..Len(R)
           /\ S[i] = R[((i - Len(P) - 1) % Len(R)) + 1]
    BY <1>1, <1>2, <1>8, RepeatedEnd
  <2>2. i \in Nat \ {0}
    BY <1>9
  <2> HIDE DEF S
  <2>3. CASE i <= 7
    BY <1>6, <2>1, <2>2, <2>3
  <2>4. CASE i > 7
    <3>1. /\ ((i - 8) % 4) + 1 \in 1..4 /\ S[i] = R[((i - 8) % 4) + 1]
      BY <1>1, <1>6, <2>1, <2>2, <2>4
    <3>2. i = 8 => ((i - 8) % 4) + 1 = 1
      OBVIOUS
    <3>3. i = 9 => ((i - 8) % 4) + 1 = 2
      OBVIOUS
    <3>4. i = 8 \/ i = 9 \/ i > 9
      BY <2>2, <2>4
    <3> HIDE DEF R
    <3> QED
      BY <1>7, <2>2, <2>4, <3>1, <3>2, <3>3, <3>4
  <2> QED
    BY <2>2, <2>3, <2>4
<1> HIDE DEF S
<1> QED
  BY <1>4, <1>5, <1>8, <1>9, <1>10, Zenon

LEMMA hyperloglogScript ==
  ASSUME NEW n
  PROVE  /\ hyperloglog(n) \in Seq(TcpOps)
         /\ \A i \in 1..Len(hyperloglog(n)) :
              LET op == hyperloglog(n)[i] IN
              /\ n = Server => op # "start"
              /\ n # Server =>
                   /\ op = "open" => i = 4
                   /\ i = 5 => op = "await_open"
                   /\ op = "keep" <=> i = 6
                   /\ op = "session" => i >= 9
                   /\ i = 9 => op = "session"
                   /\ op = "start" => i > 9
<1>1. CASE n = Server
  <2> DEFINE S == <<"reset", "addresses", "listen">> \o <<"await_listen", "settings", "session", "key">>
  <2>1. hyperloglog(n) = S
    BY <1>1 DEF hyperloglog, TcpBegin
  <2>2. S \in Seq(TcpOps) /\ \A i \in 1..Len(S) : S[i] # "start"
    BY DEF TcpOps
  <2> HIDE DEF S
  <2> QED
    BY <1>1, <2>1, <2>2
<1>2. CASE n # Server
  <2> DEFINE S == <<"reset", "addresses", "listen">>
                  \o <<"open", "await_open", "keep", "open_off", "settings", "session", "start">>
  <2>1. hyperloglog(n) = S
    BY <1>2 DEF hyperloglog, TcpBegin
  <2>2. S \in Seq(TcpOps)
    BY DEF TcpOps
  <2>3. \A i \in 1..Len(S) :
          /\ S[i] = "open" => i = 4
          /\ i = 5 => S[i] = "await_open"
          /\ S[i] = "keep" <=> i = 6
          /\ S[i] = "session" => i >= 9
          /\ i = 9 => S[i] = "session"
          /\ S[i] = "start" => i > 9
    OBVIOUS
  <2> HIDE DEF S
  <2> QED
    BY <1>2, <2>1, <2>2, <2>3
<1> QED
  BY <1>1, <1>2

LEMMA allreduceScript ==
  ASSUME NEW n
  PROVE  /\ allreduce(n) \in Seq(TcpOps)
         /\ \A i \in 1..Len(allreduce(n)) :
              LET op == allreduce(n)[i] IN
              /\ op = "open" => i = 5
              /\ i = 6 => op = "await_open"
              /\ op = "keep" <=> i = 7
              /\ op = "session" => i >= 9
              /\ i = 9 => op = "session"
              /\ op = "start" => i > 9
<1> DEFINE C == <<"await_listen", "open", "await_open", "keep", "open_off", "session", "settings">>
           R == <<"key", "start">>
           B == <<"reset", "addresses", "listen">>
           P == B \o C
           S == P \o Times(R, Lengths)
<1>1. R \in Seq(TcpOps) /\ Len(R) = 2 /\ C \in Seq(TcpOps) /\ B \in Seq(TcpOps)
  BY DEF TcpOps
<1>2. Lengths \in Nat
  BY TcpAssumption
<1>3. Times(R, Lengths) \in Seq(TcpOps)
  BY <1>1, <1>2, TimesFacts
<1>4. allreduce(n) = S
  BY DEF allreduce, TcpBegin
<1>5. /\ Len(P) = 10
      /\ \A i \in 1..10 :
           /\ P[i] = "open" => i = 5
           /\ i = 6 => P[i] = "await_open"
           /\ P[i] = "keep" <=> i = 7
           /\ P[i] = "session" <=> i = 9
           /\ P[i] # "start"
  OBVIOUS
<1>6. \A i \in 1..2 : R[i] \notin {"open", "keep", "session"}
  OBVIOUS
<1>7. P \in Seq(TcpOps)
  BY <1>1, ConcatProperties
<1>8. S \in Seq(TcpOps)
  BY <1>3, <1>7, ConcatProperties
<1> HIDE DEF R, C, B, P
<1>9. ASSUME NEW i \in 1..Len(S)
      PROVE  /\ S[i] = "open" => i = 5
             /\ i = 6 => S[i] = "await_open"
             /\ S[i] = "keep" <=> i = 7
             /\ S[i] = "session" => i >= 9
             /\ i = 9 => S[i] = "session"
             /\ S[i] = "start" => i > 9
  <2>1. \/ i <= Len(P) /\ S[i] = P[i]
        \/ /\ i > Len(P) /\ ((i - Len(P) - 1) % Len(R)) + 1 \in 1..Len(R)
           /\ S[i] = R[((i - Len(P) - 1) % Len(R)) + 1]
    BY <1>1, <1>2, <1>7, RepeatedEnd
  <2>2. i \in Nat \ {0}
    BY <1>8
  <2> HIDE DEF S
  <2>3. CASE i <= 10
    BY <1>5, <2>1, <2>2, <2>3
  <2>4. CASE i > 10
    <3>1. S[i] \notin {"open", "keep", "session"}
      BY <1>1, <1>5, <1>6, <2>1, <2>4
    <3> QED
      BY <2>2, <2>4, <3>1
  <2> QED
    BY <2>2, <2>3, <2>4
<1> HIDE DEF S
<1> QED
  BY <1>4, <1>8, <1>9, Zenon

LEMMA benchmarkScript ==
  ASSUME NEW n
  PROVE  tcp_benchmark(n) \in Seq(TcpOps)
<1>1. session_num - 1 \in Nat
  BY TcpAssumption
<1>2. /\ <<"more">> \in Seq(TcpOps) /\ Len(<<"more">>) = 1
      /\ <<"open", "await_open">> \in Seq(TcpOps)
      /\ <<"session", "settings", "start">> \in Seq(TcpOps)
      /\ <<"await_listen", "reset", "settings", "key">> \in Seq(TcpOps)
      /\ TcpBegin \in Seq(TcpOps)
  BY DEF TcpOps, TcpBegin
<1>3. Times(<<"more">>, session_num - 1) \in Seq(TcpOps)
  BY <1>1, <1>2, TimesFacts
<1> QED
  BY <1>2, <1>3, ConcatProperties, Zenon DEF tcp_benchmark

\* Where open is in the script of a node that starts its FPGA.
OpenAt == IF tapp = "allreduce" THEN 5 ELSE 4
Opener(n) == tapp = "allreduce" \/ n = Client

LEMMA ScriptFacts ==
  ASSUME tapp \in TcpApps, NEW n \in TcpNodes
  PROVE  /\ Script(n) \in Seq(TcpOps)
         /\ tapp # "tcp_benchmark" => \A i \in 1..Len(Script(n)) :
              LET op == Script(n)[i] IN
              /\ ~Opener(n) => op # "start"
              /\ Opener(n) =>
                   /\ op = "open" => i = OpenAt
                   /\ i = OpenAt + 1 => op = "await_open"
                   /\ op = "keep" <=> i = OpenAt + 2
                   /\ op = "session" => i >= 9
                   /\ i = 9 => op = "session"
                   /\ op = "start" => i > 9
<1>0. Client # Server
  BY TcpAssumption
<1>1. CASE tapp = "tcp_benchmark"
  BY <1>1, benchmarkScript DEF Script
<1>2. CASE tapp = "tcp_latency"
  <2>1. Script(n) = tcp_latency(n) /\ n \in {Server, Client} /\ OpenAt = 4
    BY <1>2 DEF Script, TcpNodes, OpenAt
  <2>2. Opener(n) <=> n # Server
    BY <1>0, <1>2, <2>1 DEF Opener
  <2> QED
    BY <2>1, <2>2, latencyScript
<1>3. CASE tapp = "hyperloglog"
  <2>1. Script(n) = hyperloglog(n) /\ n \in {Server, Client} /\ OpenAt = 4
    BY <1>3 DEF Script, TcpNodes, OpenAt
  <2>2. Opener(n) <=> n # Server
    BY <1>0, <1>3, <2>1 DEF Opener
  <2> QED
    BY <2>1, <2>2, hyperloglogScript
<1>4. CASE tapp = "allreduce"
  <2>1. Script(n) = allreduce(n) /\ OpenAt = 5
    BY <1>4 DEF Script, OpenAt
  <2>2. Opener(n)
    BY <1>4 DEF Opener
  <2> QED
    BY <2>1, <2>2, allreduceScript
<1> QED
  BY <1>1, <1>2, <1>3, <1>4 DEF TcpApps

\* What a step of a node's program does, by the operation of its script.
LEMMA ProgramStep ==
  ASSUME NEW n \in TcpNodes, TcpProgram(n)
  PROVE  LET op == Script(n)[tstep[n]] IN
         /\ tstep[n] <= Len(Script(n)) /\ tstep' = [tstep EXCEPT ![n] = @ + 1]
         /\ tapp' = tapp /\ session' = session
         /\ listen' = listen \/ listen' = [listen EXCEPT ![n] = "asked"]
         /\ conn' = conn \/ (op = "open" /\ conn' = [conn EXCEPT ![n] = "asked"])
         /\ op = "await_open" => conn[n] = "open"
         /\ session_id' = IF op = "keep" THEN [session_id EXCEPT ![n] = session[n]] ELSE session_id
         /\ session_reg' = IF op = "session" THEN [session_reg EXCEPT ![n] = session_id[n]]
                           ELSE session_reg
         /\ running' \subseteq running \/ (op = "start" /\ running' = running \cup {n})
<1> DEFINE op == Script(n)[tstep[n]]
           Moves == /\ tstep[n] <= Len(Script(n)) /\ tstep' = [tstep EXCEPT ![n] = @ + 1]
                    /\ tapp' = tapp /\ session' = session
<1>0. ASSUME NEW o, Does(n, o) PROVE Moves /\ op = o
  BY <1>0, Zenon DEF Does
<1> HIDE DEF op, Moves
<1> SUFFICES
         /\ Moves
         /\ listen' = listen \/ listen' = [listen EXCEPT ![n] = "asked"]
         /\ conn' = conn \/ (op = "open" /\ conn' = [conn EXCEPT ![n] = "asked"])
         /\ op = "await_open" => conn[n] = "open"
         /\ session_id' = IF op = "keep" THEN [session_id EXCEPT ![n] = session[n]] ELSE session_id
         /\ session_reg' = IF op = "session" THEN [session_reg EXCEPT ![n] = session_id[n]]
                           ELSE session_reg
         /\ running' \subseteq running \/ (op = "start" /\ running' = running \cup {n})
  BY Zenon DEF op, Moves
<1>1. CASE UserReset(n)
  <2>1. Moves /\ op = "reset"
    BY <1>0, <1>1, Zenon DEF UserReset
  <2> QED
    BY <1>1, <2>1 DEF UserReset
<1>2. CASE WriteRegs(n)
  <2>0. PICK o \in {"addresses", "settings"} : Does(n, o)
    BY <1>2 DEF WriteRegs
  <2>1. Moves /\ op = o
    BY <1>0, <2>0
  <2>2. UNCHANGED <<session_id, session_reg, listen, conn, running>>
    BY <1>2 DEF WriteRegs
  <2> QED
    BY <2>1, <2>2
<1>3. CASE Listen(n)
  <2>1. Moves /\ op = "listen"
    BY <1>0, <1>3, Zenon DEF Listen
  <2> QED
    BY <1>3, <2>1 DEF Listen
<1>4. CASE AwaitListen(n)
  <2>1. Moves /\ op = "await_listen"
    BY <1>0, <1>4, Zenon DEF AwaitListen
  <2> QED
    BY <1>4, <2>1 DEF AwaitListen
<1>5. CASE Open(n)
  <2>1. Moves /\ op = "open"
    BY <1>0, <1>5, Zenon DEF Open
  <2> QED
    BY <1>5, <2>1 DEF Open
<1>6. CASE AwaitOpen(n)
  <2>1. Moves /\ op = "await_open"
    BY <1>0, <1>6, Zenon DEF AwaitOpen
  <2> QED
    BY <1>6, <2>1 DEF AwaitOpen
<1>7. CASE Keep641(n)
  <2>1. Moves /\ op = "keep"
    BY <1>0, <1>7, Zenon DEF Keep641
  <2> QED
    BY <1>7, <2>1 DEF Keep641
<1>8. CASE OpenOff(n)
  <2>1. Moves /\ op = "open_off"
    BY <1>0, <1>8, Zenon DEF OpenOff
  <2> QED
    BY <1>8, <2>1 DEF OpenOff
<1>9. CASE MoreSessions(n)
  <2>1. Moves /\ op = "more"
    BY <1>0, <1>9, Zenon DEF MoreSessions
  <2> QED
    BY <1>9, <2>1 DEF MoreSessions
<1>10. CASE TellSession(n)
  <2>1. Moves /\ op = "session"
    BY <1>0, <1>10, Zenon DEF TellSession
  <2> QED
    BY <1>10, <2>1 DEF TellSession
<1>11. CASE StartUser(n)
  <2>1. Moves /\ op = "start"
    BY <1>0, <1>11, Zenon DEF StartUser
  <2> QED
    BY <1>11, <2>1 DEF StartUser
<1>12. CASE PressKey(n)
  <2>1. Moves /\ op = "key"
    BY <1>0, <1>12, Zenon DEF PressKey
  <2> QED
    BY <1>12, <2>1 DEF PressKey
<1> QED
  BY <1>1, <1>2, <1>3, <1>4, <1>5, <1>6, <1>7, <1>8, <1>9, <1>10, <1>11, <1>12 DEF TcpProgram

TcpTypes ==
  /\ tapp \in TcpApps
  /\ tstep \in [TcpNodes -> Nat \ {0}]
  /\ \A n \in TcpNodes : tstep[n] <= Len(Script(n)) + 1
  /\ session_id \in [TcpNodes -> TcpNodes \cup {Nobody}]
  /\ session_reg \in [TcpNodes -> TcpNodes \cup {Nobody}]
  /\ session \in [TcpNodes -> TcpNodes \cup {Nobody}]
  /\ listen \in [TcpNodes -> {"closed", "asked", "open"}]
  /\ conn \in [TcpNodes -> {"idle", "asked", "refused", "open"}]
  /\ running \in SUBSET TcpNodes

\* How far a node is in its script says what it and its FPGA know: its
\* connection is open once it was waited for, the program has its session
\* from then on, the FPGA has it from the first time it is told, and an FPGA
\* only works behind that.
TcpOrder ==
  \A n \in TcpNodes :
    /\ conn[n] = "open" => session[n] = conn_ip(n)
    /\ Opener(n) =>
         /\ tstep[n] > OpenAt + 1 => conn[n] = "open"
         /\ tstep[n] > OpenAt + 2 => session_id[n] = session[n]
         /\ tstep[n] > 9 => session_reg[n] = session_id[n]
    /\ n \in running => Opener(n) /\ tstep[n] > 9

TcpInv == TcpTypes /\ (tapp # "tcp_benchmark" => TcpOrder)

LEMMA TcpFixed ==
  ASSUME tapp' = tapp
  PROVE  /\ TcpNodes' = TcpNodes /\ OpenAt' = OpenAt
         /\ \A n : Script(n)' = Script(n) /\ conn_ip(n)' = conn_ip(n) /\ (Opener(n)' <=> Opener(n))
<1>1. TcpNodes' = TcpNodes /\ OpenAt' = OpenAt
  BY DEF TcpNodes, OpenAt
<1>2. \A n : conn_ip(n)' = conn_ip(n) /\ (Opener(n)' <=> Opener(n))
  BY DEF conn_ip, Opener
<1>3. \A n : Script(n)' = Script(n)
  BY Zenon DEF Script
<1> QED
  BY <1>1, <1>2, <1>3

LEMMA TcpInitInv == TcpInit => TcpInv
<1> SUFFICES ASSUME TcpInit PROVE TcpInv
  OBVIOUS
<1>1. tapp \in TcpApps
  BY DEF TcpInit, TcpApps
<1>2. \A n \in TcpNodes : Len(Script(n)) \in Nat
  BY <1>1, ScriptFacts, LenProperties
<1>3. TcpTypes
  <2>1. tstep \in [TcpNodes -> Nat \ {0}]
    BY DEF TcpInit
  <2>2. \A n \in TcpNodes : tstep[n] <= Len(Script(n)) + 1
    BY <1>2 DEF TcpInit
  <2>3. /\ session_id \in [TcpNodes -> TcpNodes \cup {Nobody}]
        /\ session_reg \in [TcpNodes -> TcpNodes \cup {Nobody}]
        /\ session \in [TcpNodes -> TcpNodes \cup {Nobody}]
    BY DEF TcpInit
  <2>4. /\ listen \in [TcpNodes -> {"closed", "asked", "open"}]
        /\ conn \in [TcpNodes -> {"idle", "asked", "refused", "open"}]
        /\ running \in SUBSET TcpNodes
    BY DEF TcpInit
  <2> QED
    BY <1>1, <2>1, <2>2, <2>3, <2>4 DEF TcpTypes
<1>4. TcpOrder
  <2>1. OpenAt \in {4, 5}
    BY DEF OpenAt
  <2> SUFFICES ASSUME NEW n \in TcpNodes
               PROVE  conn[n] = "idle" /\ tstep[n] = 1 /\ n \notin running
    BY <2>1 DEF TcpOrder
  <2> QED
    BY DEF TcpInit
<1> QED
  BY <1>3, <1>4 DEF TcpInv

LEMMA TcpStepInv == TcpInv /\ [TcpNext]_tcpVars => TcpInv'
<1> SUFFICES ASSUME TcpInv, [TcpNext]_tcpVars PROVE TcpInv'
  OBVIOUS
<1>1. tapp' = tapp
  <2>1. ASSUME NEW n \in TcpNodes, TcpProgram(n) PROVE tapp' = tapp
    BY <2>1, ProgramStep
  <2>2. ASSUME NEW n \in TcpNodes, TcpFpga(n) PROVE tapp' = tapp
    BY <2>2 DEF TcpFpga, StartListening, Connects
  <2> QED
    BY <2>1, <2>2 DEF TcpNext, tcpVars
<1>2. /\ TcpNodes' = TcpNodes /\ OpenAt' = OpenAt
      /\ \A n : Script(n)' = Script(n) /\ conn_ip(n)' = conn_ip(n) /\ (Opener(n)' <=> Opener(n))
  BY <1>1, TcpFixed
<1>3. TcpTypes /\ (tapp # "tcp_benchmark" => TcpOrder)
  BY DEF TcpInv
<1>4. OpenAt \in {4, 5}
  BY DEF OpenAt
<1> DEFINE Nodes == TcpNodes
           S(n) == Script(n)
           ip(n) == conn_ip(n)
           Types(st, id, reg, ses, lis, con, run) ==
             /\ st \in [Nodes -> Nat \ {0}]
             /\ \A n \in Nodes : st[n] <= Len(S(n)) + 1
             /\ id \in [Nodes -> Nodes \cup {Nobody}]
             /\ reg \in [Nodes -> Nodes \cup {Nobody}]
             /\ ses \in [Nodes -> Nodes \cup {Nobody}]
             /\ lis \in [Nodes -> {"closed", "asked", "open"}]
             /\ con \in [Nodes -> {"idle", "asked", "refused", "open"}]
             /\ run \in SUBSET Nodes
           Order(st, id, reg, ses, con, run, n) ==
             /\ con[n] = "open" => ses[n] = ip(n)
             /\ Opener(n) =>
                  /\ st[n] > OpenAt + 1 => con[n] = "open"
                  /\ st[n] > OpenAt + 2 => id[n] = ses[n]
                  /\ st[n] > 9 => reg[n] = id[n]
             /\ n \in run => Opener(n) /\ st[n] > 9
<1>5. /\ Types(tstep, session_id, session_reg, session, listen, conn, running)
      /\ tapp # "tcp_benchmark" => \A n \in Nodes :
           Order(tstep, session_id, session_reg, session, conn, running, n)
  BY <1>3 DEF TcpTypes, TcpOrder
<1>6. SUFFICES /\ Types(tstep', session_id', session_reg', session', listen', conn', running')
               /\ tapp # "tcp_benchmark" => \A n \in Nodes :
                    Order(tstep', session_id', session_reg', session', conn', running', n)
  <2>1. TcpTypes'
    BY <1>1, <1>2, <1>3, <1>6 DEF TcpTypes
  <2>2. tapp # "tcp_benchmark" => TcpOrder'
    BY <1>2, <1>6 DEF TcpOrder
  <2> QED
    BY <1>1, <2>1, <2>2 DEF TcpInv
<1>7. ASSUME NEW n \in Nodes, TcpProgram(n)
      PROVE  /\ Types(tstep', session_id', session_reg', session', listen', conn', running')
             /\ tapp # "tcp_benchmark" => \A m \in Nodes :
                  Order(tstep', session_id', session_reg', session', conn', running', m)
  <2> DEFINE op == S(n)[tstep[n]]
  <2>1. /\ tstep[n] <= Len(S(n)) /\ tstep' = [tstep EXCEPT ![n] = @ + 1]
        /\ tapp' = tapp /\ session' = session
        /\ listen' = listen \/ listen' = [listen EXCEPT ![n] = "asked"]
        /\ conn' = conn \/ (op = "open" /\ conn' = [conn EXCEPT ![n] = "asked"])
        /\ op = "await_open" => conn[n] = "open"
        /\ session_id' = IF op = "keep" THEN [session_id EXCEPT ![n] = session[n]] ELSE session_id
        /\ session_reg' = IF op = "session" THEN [session_reg EXCEPT ![n] = session_id[n]]
                          ELSE session_reg
        /\ running' \subseteq running \/ (op = "start" /\ running' = running \cup {n})
    BY <1>7, ProgramStep
  <2>2. S(n) \in Seq(TcpOps) /\ Len(S(n)) \in Nat
    BY <1>3, ScriptFacts, LenProperties DEF TcpTypes
  <2>3. tstep[n] \in 1..Len(S(n))
    BY <1>5, <2>1, <2>2
  <2>4. tapp # "tcp_benchmark" =>
          /\ ~Opener(n) => op # "start"
          /\ Opener(n) =>
               /\ op = "open" => tstep[n] = OpenAt
               /\ tstep[n] = OpenAt + 1 => op = "await_open"
               /\ op = "keep" <=> tstep[n] = OpenAt + 2
               /\ op = "session" => tstep[n] >= 9
               /\ tstep[n] = 9 => op = "session"
               /\ op = "start" => tstep[n] > 9
    BY <1>3, <2>3, ScriptFacts DEF TcpTypes
  <2> HIDE DEF S, Nodes, ip, op
  <2>5. Types(tstep', session_id', session_reg', session', listen', conn', running')
    <3>1. tstep' \in [Nodes -> Nat \ {0}]
      BY <1>5, <2>1
    <3>2. ASSUME NEW m \in Nodes PROVE tstep'[m] <= Len(S(m)) + 1
      <4>1. tstep'[m] = IF m = n THEN tstep[n] + 1 ELSE tstep[m]
        BY <1>5, <2>1
      <4>2. tstep[m] <= Len(S(m)) + 1 /\ tstep[n] \in Nat
        BY <1>5
      <4> QED
        BY <2>1, <2>2, <4>1, <4>2
    <3>3. session_id' \in [Nodes -> Nodes \cup {Nobody}]
      BY <1>5, <2>1
    <3>4. session_reg' \in [Nodes -> Nodes \cup {Nobody}]
      BY <1>5, <2>1
    <3>5. session' \in [Nodes -> Nodes \cup {Nobody}]
      BY <1>5, <2>1
    <3>6. listen' \in [Nodes -> {"closed", "asked", "open"}]
      BY <1>5, <2>1
    <3>7. conn' \in [Nodes -> {"idle", "asked", "refused", "open"}]
      BY <1>5, <2>1
    <3>8. running' \in SUBSET Nodes
      BY <1>5, <2>1
    <3> QED
      BY <3>1, <3>2, <3>3, <3>4, <3>5, <3>6, <3>7, <3>8
  <2>6. ASSUME tapp # "tcp_benchmark", NEW m \in Nodes
        PROVE  Order(tstep', session_id', session_reg', session', conn', running', m)
    <3>1. Order(tstep, session_id, session_reg, session, conn, running, m)
      BY <1>5, <2>6
    <3>2. tstep[m] \in Nat /\ tstep[n] \in Nat
      BY <1>5
    <3>3. CASE m # n
      <4>1. /\ tstep'[m] = tstep[m] /\ session_id'[m] = session_id[m] /\ session'[m] = session[m]
            /\ session_reg'[m] = session_reg[m] /\ conn'[m] = conn[m]
            /\ m \in running' => m \in running
        BY <1>5, <2>1, <3>3
      <4> QED
        BY <3>1, <4>1
    <3>4. CASE m = n
      <4>1. tstep'[n] = tstep[n] + 1
        BY <1>5, <2>1
      <4>2. /\ conn'[n] = conn[n] \/ (op = "open" /\ conn'[n] = "asked")
            /\ session_id'[n] = IF op = "keep" THEN session[n] ELSE session_id[n]
            /\ session_reg'[n] = IF op = "session" THEN session_id[n] ELSE session_reg[n]
            /\ n \in running' => n \in running \/ op = "start"
        BY <1>5, <2>1
      <4>3. CASE ~Opener(n)
        BY <2>1, <2>4, <2>6, <3>1, <3>4, <4>1, <4>2, <4>3
      <4>4. CASE Opener(n)
        <5>1. conn'[n] = "open" => session'[n] = ip(n)
          BY <2>1, <3>1, <3>4, <4>2
        <5>2. tstep'[n] > OpenAt + 1 => conn'[n] = "open"
          BY <1>4, <2>1, <2>4, <2>6, <3>1, <3>2, <3>4, <4>1, <4>2, <4>4
        <5>3. tstep'[n] > OpenAt + 2 => session_id'[n] = session'[n]
          BY <1>4, <2>1, <2>4, <2>6, <3>1, <3>2, <3>4, <4>1, <4>2, <4>4
        <5>4. tstep'[n] > 9 => session_reg'[n] = session_id'[n]
          BY <1>4, <2>1, <2>4, <2>6, <3>1, <3>2, <3>4, <4>1, <4>2, <4>4
        <5>5. n \in running' => tstep'[n] > 9
          BY <1>4, <2>1, <2>4, <2>6, <3>1, <3>2, <3>4, <4>1, <4>2, <4>4
        <5> QED
          BY <3>4, <4>4, <5>1, <5>2, <5>3, <5>4, <5>5
      <4> QED
        BY <4>3, <4>4
    <3> QED
      BY <3>3, <3>4
  <2> QED
    BY <2>5, <2>6
<1>8. ASSUME NEW n \in Nodes, TcpFpga(n)
      PROVE  /\ Types(tstep', session_id', session_reg', session', listen', conn', running')
             /\ tapp # "tcp_benchmark" => \A m \in Nodes :
                  Order(tstep', session_id', session_reg', session', conn', running', m)
  <2>1. CASE StartListening(n)
    <3>1. /\ UNCHANGED <<tstep, session_id, session_reg, conn, session, running>>
          /\ listen' = [listen EXCEPT ![n] = "open"]
      BY <2>1 DEF StartListening
    <3> HIDE DEF S, Nodes, ip
    <3> QED
      BY <1>5, <3>1
  <2>2. CASE Connects(n)
    <3> DEFINE up == ip(n) \in Nodes /\ listen[ip(n)] = "open"
    <3>1. /\ UNCHANGED <<tstep, session_id, session_reg, listen, running>>
          /\ conn[n] = "asked"
          /\ conn' = [conn EXCEPT ![n] = IF up THEN "open" ELSE "refused"]
          /\ session' = [session EXCEPT ![n] = IF up THEN ip(n) ELSE Nobody]
      BY <2>2 DEF Connects
    <3>2. up => ip(n) \in Nodes
      OBVIOUS
    <3> HIDE DEF S, Nodes, ip, up
    <3>3. Types(tstep', session_id', session_reg', session', listen', conn', running')
      BY <1>5, <3>1, <3>2
    <3>4. ASSUME tapp # "tcp_benchmark", NEW m \in Nodes
          PROVE  Order(tstep', session_id', session_reg', session', conn', running', m)
      <4>1. Order(tstep, session_id, session_reg, session, conn, running, m)
        BY <1>5, <3>4
      <4>2. tstep[m] \in Nat
        BY <1>5
      <4>3. CASE m # n
        BY <1>5, <3>1, <4>1, <4>3
      <4>4. CASE m = n
        <5>1. ~(Opener(n) /\ tstep[n] > OpenAt + 1)
          BY <3>1, <4>1, <4>4
        <5>2. conn'[n] = "open" => session'[n] = ip(n)
          BY <1>5, <3>1
        <5> QED
          BY <1>4, <3>1, <4>1, <4>2, <4>4, <5>1, <5>2
      <4> QED
        BY <4>3, <4>4
    <3> QED
      BY <3>3, <3>4
  <2> QED
    BY <1>8, <2>1, <2>2 DEF TcpFpga
<1>9. CASE UNCHANGED tcpVars
  <2>1. UNCHANGED <<tstep, session_id, session_reg, session, listen, conn, running>>
    BY <1>9 DEF tcpVars
  <2> QED
    BY <1>5, <2>1
<1> QED
  BY <1>7, <1>8, <1>9 DEF TcpNext

\* A set of nodes that is closed under the sessions of the ring is all of them.
LEMMA RingClosed ==
  ASSUME NEW part \in SUBSET (0..node_num), part # {},
         \A n \in part : Successor(n) \in part
  PROVE  part = 0..node_num
<1>1. node_num \in Nat
  BY TcpAssumption DEF node_num
\* the last node is in it: else the distance to the last one has no least value
<1>2. node_num \in part
  <2> DEFINE T == {d \in 0..node_num : node_num - d \in part}
  <2>1. T \in SUBSET Nat /\ T # {}
    <3>1. PICK n \in part : TRUE
      OBVIOUS
    <3>2. node_num - n \in T
      BY <1>1, <3>1
    <3>3. T \in SUBSET Nat
      BY <1>1
    <3> HIDE DEF T
    <3> QED
      BY <3>2, <3>3
  <2>2. PICK d \in T : \A e \in T : d <= e
    BY <2>1, LeastNat
  <2>3. CASE d = 0
    BY <1>1, <2>2, <2>3
  <2>4. CASE d # 0
    <3>1. Successor(node_num - d) = node_num - (d - 1)
      BY <1>1, <2>2, <2>4 DEF Successor
    <3>2. d - 1 \in T
      BY <1>1, <2>2, <2>4, <3>1
    <3> QED
      BY <1>1, <2>2, <3>2
  <2> QED
    BY <2>3, <2>4
<1>3. 0 \in part
  BY <1>1, <1>2 DEF Successor
<1>4. SUFFICES ASSUME part # 0..node_num PROVE FALSE
  OBVIOUS
<1> DEFINE T == (0..node_num) \ part
<1>5. T \in SUBSET Nat /\ T # {}
  <2>1. T \in SUBSET Nat
    BY <1>1
  <2>2. T # {}
    BY <1>4
  <2> QED
    BY <2>1, <2>2
<1>6. PICK n \in T : \A m \in T : n <= m
  BY <1>5, LeastNat
<1>7. n - 1 \in part
  BY <1>1, <1>3, <1>6
<1>8. Successor(n - 1) = n
  BY <1>1, <1>6, <1>7 DEF Successor
<1> QED
  BY <1>6, <1>7, <1>8

LEMMA TcpInvSuffices == TcpInv => TcpTypeOK /\ StartedOnSession
<1> SUFFICES ASSUME TcpInv PROVE TcpTypeOK /\ StartedOnSession
  OBVIOUS
<1>1. TcpTypes /\ (tapp # "tcp_benchmark" => TcpOrder)
  BY DEF TcpInv
<1>2. TcpTypeOK
  <2>1. \A n \in TcpNodes : Len(Script(n)) \in Nat
    BY <1>1, ScriptFacts, LenProperties DEF TcpTypes
  <2> QED
    BY <1>1, <2>1 DEF TcpTypes, TcpTypeOK
<1>3. ASSUME tapp # "tcp_benchmark", NEW n \in running
      PROVE  session_reg[n] = session[n] /\ session[n] = conn_ip(n)
  <2>1. n \in TcpNodes /\ tstep[n] \in Nat /\ OpenAt \in {4, 5}
    BY <1>1, <1>3 DEF TcpTypes, OpenAt
  <2>2. Opener(n) /\ tstep[n] > 9
    BY <1>1, <1>3, <2>1 DEF TcpOrder
  <2>3. tstep[n] > OpenAt + 1 /\ tstep[n] > OpenAt + 2
    BY <2>1, <2>2
  <2> QED
    BY <1>1, <1>3, <2>1, <2>2, <2>3 DEF TcpOrder
<1>4. ASSUME tapp = "allreduce", running = TcpNodes,
             NEW part \in (SUBSET TcpNodes) \ {{}}, \A n \in part : session[n] \in part
      PROVE  part = TcpNodes
  <2>1. TcpNodes = 0..node_num
    BY <1>4 DEF TcpNodes
  <2>2. \A n \in part : Successor(n) \in part
    BY <1>3, <1>4 DEF conn_ip
  <2> QED
    BY <2>1, <2>2, RingClosed
<1> QED
  BY <1>2, <1>3, <1>4 DEF StartedOnSession

-------------------------------------------------------------------------------
(* SsdBench.                                                               *)

\* The command of the loop's i, and those made so far.
Cmd(i) == [place |-> getEmbedAddr(embed_id[i]), buf |-> i]
Made == 0..(nextEmbed - 1)
Cmds == submitted \cup done

SsdTypes ==
  /\ bpc \in {"env", "qpair", "submit_all", "submit", "drain", "cleanup", "ended", "stopped"}
  /\ namespaces \in Nat /\ qpairs \in Nat /\ qpairs <= namespaces
  /\ embed_id \in Shuffles /\ nextEmbed \in 0..EmbedNum
  /\ pollDev \in Devs
  /\ returned \in BOOLEAN

\* What the SSDs have or have done are commands the loop has made, none twice;
\* and what is stored is of such commands.
CmdsInv ==
  /\ submitted \cap done = {} /\ IsFiniteSet(Cmds)
  /\ \A c \in Cmds \cup stored : c.buf \in Made /\ c = Cmd(c.buf)
  /\ \A i \in Made : Cmd(i) \in submitted \cup stored

\* The counters count the commands that have not been polled for.
CountersInv ==
  /\ total_pending \in 0..nextEmbed /\ total_pending = Cardinality(Cmds)
  /\ pending_io_per_dev \in [Devs -> 0..nextEmbed]
  /\ \A d \in Devs : pending_io_per_dev[d] = Cardinality(OnDevice(d, Cmds))

BenchInv ==
  /\ bpc \in {"env", "qpair", "submit_all"} => nextEmbed = 0
  /\ bpc = "env" => qpairs = 0
  /\ bpc = "drain" \/ returned => nextEmbed = EmbedNum
  /\ bpc \in {"cleanup", "ended"} => Cmds = {}
  /\ returned => bpc \in {"cleanup", "ended"}

SsdInv == SsdTypes /\ CmdsInv /\ CountersInv /\ BenchInv

\* Two embeddings have places of their own.

LEMMA AddrsDiffer ==
  ASSUME NEW e \in Nat, NEW f \in Nat, getEmbedAddr(e) = getEmbedAddr(f)
  PROVE  e = f
<1>1. /\ DevNum \in Nat \ {0} /\ EntryLba \in Nat \ {0}
      /\ e % DevNum = f % DevNum /\ (e \div DevNum) * EntryLba = (f \div DevNum) * EntryLba
  BY SsdAssumption DEF getEmbedAddr
<1>2. /\ e \div DevNum \in Nat /\ f \div DevNum \in Nat
      /\ e = (DevNum * (e \div DevNum)) + (e % DevNum) /\ f = (DevNum * (f \div DevNum)) + (f % DevNum)
  BY <1>1, DivMod
<1>3. e \div DevNum = f \div DevNum
  BY <1>1, <1>2, SameQuotient
<1> QED
  BY <1>1, <1>2, <1>3, Zenon

LEMMA SsdConstants ==
  /\ EmbedNum \in Nat /\ DevNum \in Nat \ {0} /\ 0 \in Devs
  /\ \A e \in Embeds : e \in Nat /\ getEmbedAddr(e)[1] \in Devs
<1>1. EmbedNum \in Nat /\ DevNum \in Nat \ {0}
  BY SsdAssumption
<1>2. ASSUME NEW e \in Embeds PROVE e \in Nat /\ getEmbedAddr(e)[1] \in Devs
  <2>1. e \in Nat
    BY <1>1 DEF Embeds
  <2>2. e % DevNum \in 0..(DevNum - 1)
    BY <1>1, <2>1, DivMod
  <2> QED
    BY <2>1, <2>2 DEF getEmbedAddr, Devs
<1> QED
  BY <1>1, <1>2 DEF Devs

LEMMA SsdInitInv == SsdInit => SsdInv
<1> SUFFICES ASSUME SsdInit PROVE SsdInv
  OBVIOUS
<1> USE DEF SsdInit
<1>1. SsdTypes
  <2>1. embed_id \in Shuffles
    BY SsdConstants DEF Shuffles
  <2>2. nextEmbed \in 0..EmbedNum /\ pollDev \in Devs
    BY SsdConstants
  <2>3. returned \in BOOLEAN
    OBVIOUS
  <2> QED
    BY <2>1, <2>2, <2>3 DEF SsdTypes
<1>2. Cmds = {} /\ Made = {}
  BY DEF Cmds, Made
<1>3. CmdsInv
  BY <1>2, FS_EmptySet DEF CmdsInv
<1>4. \A d \in Devs : OnDevice(d, Cmds) = {}
  BY <1>2 DEF OnDevice
<1>5. CountersInv
  BY <1>2, <1>4, FS_EmptySet DEF CountersInv
<1>6. BenchInv
  BY <1>2 DEF BenchInv
<1> QED
  BY <1>1, <1>3, <1>5, <1>6 DEF SsdInv

\* The steps that leave the commands alone.
LEMMA SsdQuiet ==
  ASSUME SsdInv,
         UNCHANGED <<nextEmbed, total_pending, pending_io_per_dev, submitted, done, stored>>,
         embed_id' = embed_id \/ nextEmbed = 0
  PROVE  CmdsInv' /\ CountersInv'
<1>1. Cmds' = Cmds /\ Made' = Made
  BY DEF Cmds, Made
<1>2. CountersInv'
  <2>1. \A d : OnDevice(d, Cmds') = OnDevice(d, Cmds)
    BY <1>1
  <2> QED
    BY <1>1, <2>1 DEF SsdInv, CountersInv
<1>3. CASE embed_id' = embed_id
  <2>1. \A i : Cmd(i)' = Cmd(i)
    BY <1>3 DEF Cmd
  <2> QED
    BY <1>1, <1>2, <2>1 DEF SsdInv, CmdsInv
<1>4. CASE nextEmbed = 0
  <2>1. Made = {}
    BY <1>4 DEF Made
  <2>2. Cmds \cup stored = {}
    BY <2>1 DEF SsdInv, CmdsInv
  <2> QED
    BY <1>1, <1>2, <2>1, <2>2 DEF SsdInv, CmdsInv
<1> QED
  BY <1>3, <1>4

\* A command that is made is a new one.
LEMMA SubmitStep ==
  ASSUME SsdInv, TaskSubmit, bpc' = bpc
  PROVE  SsdInv'
<1>0. /\ nextEmbed \in Nat /\ nextEmbed < EmbedNum /\ nextEmbed \in Embeds
      /\ embed_id \in [Embeds -> Embeds] /\ EmbedNum \in Nat
  BY SsdConstants DEF SsdInv, SsdTypes, Embeds, Shuffles, TaskSubmit
<1> PICK k \in Nat : k = nextEmbed
  BY <1>0
<1> DEFINE new == Cmd(k)
           dev == getEmbedAddr(embed_id[k])[1]
<1>1. dev \in Devs
  BY <1>0, SsdConstants
<1>2. /\ submitted' = submitted \cup {new}
      /\ total_pending' = total_pending + 1 /\ nextEmbed' = nextEmbed + 1
      /\ pending_io_per_dev' = [pending_io_per_dev EXCEPT ![dev] = @ + 1]
      /\ UNCHANGED <<done, pollDev, stored, namespaces, qpairs, embed_id, returned>>
      /\ bpc = "submit"
  <2>1. CASE bpc = "stopped"
    BY <2>1 DEF TaskSubmit
  <2>2. CASE bpc # "stopped"
    BY <2>2, Zenon DEF TaskSubmit, Cmd, setVars
  <2> QED
    BY <2>1, <2>2
<1>3. Cmds' = Cmds \cup {new} /\ Made = 0..(k - 1) /\ Made' = 0..k
  BY <1>0, <1>2 DEF Cmds, Made
<1>4. new.buf = k /\ new.place[1] = dev
  BY DEF Cmd
<1>5. \A i : Cmd(i)' = Cmd(i)
  BY <1>2 DEF Cmd
<1>6. new \notin Cmds
  <2>1. k \notin Made
    BY <1>3
  <2> QED
    BY <1>4, <2>1 DEF SsdInv, CmdsInv
<1> DEFINE on(d) == OnDevice(d, Cmds)
<1>7. \A d : OnDevice(d, Cmds') = IF d = dev THEN on(d) \cup {new} ELSE on(d)
  BY <1>3, <1>4 DEF OnDevice
<1>8. \A d : on(d) \subseteq Cmds
  BY DEF OnDevice
<1> HIDE DEF new, dev, on
<1>9. SsdTypes'
  BY <1>0, <1>2 DEF SsdInv, SsdTypes
<1>10. CmdsInv'
  <2>1. submitted' \cap done' = {}
    BY <1>2, <1>6 DEF SsdInv, CmdsInv, Cmds
  <2>2. IsFiniteSet(Cmds')
    BY <1>3, FS_AddElement DEF SsdInv, CmdsInv
  <2>3. ASSUME NEW c \in Cmds' \cup stored' PROVE c.buf \in Made' /\ c = Cmd(c.buf)'
    <3>1. CASE c = new
      BY <1>3, <1>4, <1>5, <3>1 DEF new
    <3>2. CASE c \in Cmds \cup stored
      <4>1. c.buf \in Made /\ c = Cmd(c.buf)
        BY <3>2 DEF SsdInv, CmdsInv
      <4> QED
        BY <1>3, <1>5, <4>1
    <3> QED
      BY <1>2, <1>3, <3>1, <3>2
  <2>4. ASSUME NEW i \in Made' PROVE Cmd(i)' \in submitted' \cup stored'
    <3>1. CASE i = k
      <4>1. Cmd(i)' = new
        BY <1>5, <3>1 DEF new
      <4> QED
        BY <1>2, <4>1
    <3>2. CASE i \in Made
      <4>1. Cmd(i) \in submitted \cup stored /\ Cmd(i)' = Cmd(i)
        BY <1>5, <3>2 DEF SsdInv, CmdsInv
      <4> QED
        BY <1>2, <4>1
    <3> QED
      BY <1>3, <3>1, <3>2
  <2> QED
    BY <2>1, <2>2, <2>3, <2>4 DEF CmdsInv
<1>11. CountersInv'
  <2>1. total_pending \in 0..k /\ total_pending = Cardinality(Cmds) /\ IsFiniteSet(Cmds)
        /\ pending_io_per_dev \in [Devs -> 0..k]
        /\ \A d \in Devs : pending_io_per_dev[d] = Cardinality(on(d))
    BY DEF SsdInv, CountersInv, CmdsInv, on
  <2>2. total_pending' \in 0..(k + 1) /\ total_pending' = Cardinality(Cmds')
    <3>1. Cardinality(Cmds \cup {new}) = Cardinality(Cmds) + 1
      BY <1>6, <2>1, FS_AddElement
    <3>2. Cardinality(Cmds') = Cardinality(Cmds) + 1
      BY <1>3, <3>1
    <3>3. total_pending' = total_pending + 1
      BY <1>2
    <3> QED
      BY <2>1, <3>2, <3>3
  <2>3. pending_io_per_dev' \in [Devs -> 0..(k + 1)]
    <3>1. pending_io_per_dev[dev] \in 0..k
      BY <1>1, <2>1
    <3>2. pending_io_per_dev[dev] + 1 \in 0..(k + 1)
      BY <3>1
    <3>3. pending_io_per_dev \in [Devs -> 0..(k + 1)]
      BY <2>1
    <3>4. pending_io_per_dev' = [pending_io_per_dev EXCEPT ![dev] = @ + 1]
      BY <1>2
    <3> QED
      BY <3>2, <3>3, <3>4
  <2>4. ASSUME NEW d \in Devs PROVE pending_io_per_dev'[d] = Cardinality(OnDevice(d, Cmds'))
    <3>1. CASE d = dev
      <4>1. IsFiniteSet(on(d)) /\ new \notin on(d)
        BY <1>6, <1>8, <2>1, FS_Subset
      <4>2. Cardinality(OnDevice(d, Cmds')) = Cardinality(on(d)) + 1
        BY <1>7, <3>1, <4>1, FS_AddElement
      <4>3. pending_io_per_dev'[d] = pending_io_per_dev[d] + 1
        BY <1>1, <1>2, <2>1, <3>1
      <4> QED
        BY <2>1, <4>2, <4>3
    <3>2. CASE d # dev
      BY <1>2, <1>7, <2>1, <3>2
    <3> QED
      BY <3>1, <3>2
  <2>5. nextEmbed' = k + 1 /\ Devs' = Devs
    BY <1>2
  <2> QED
    BY <2>2, <2>3, <2>4, <2>5 DEF CountersInv
<1>12. BenchInv'
  BY <1>2 DEF SsdInv, BenchInv
<1> QED
  BY <1>9, <1>10, <1>11, <1>12 DEF SsdInv

\* A queue pair is polled: the commands it has done are counted off.
LEMMA PolledStep ==
  ASSUME SsdInv, PollQpair, bpc' = bpc
  PROVE  SsdInv'
<1> DEFINE polled == OnDevice(pollDev, done)
           on(d) == OnDevice(d, Cmds)
           n == Cardinality(polled)
<1>1. /\ done' = done \ polled /\ total_pending' = total_pending - n
      /\ pending_io_per_dev' = [pending_io_per_dev EXCEPT ![pollDev] = @ - n]
      /\ pollDev' = NextDev /\ bpc = "drain"
      /\ UNCHANGED <<setVars, nextEmbed, submitted, stored, bufferHeld, returned>>
  <2>1. bpc' # "stopped" /\ bpc = "drain"
    BY DEF PollQpair
  <2> QED
    BY <2>1, Zenon DEF PollQpair
<1>2. polled \subseteq done /\ polled \subseteq on(pollDev) /\ on(pollDev) \subseteq Cmds
      /\ \A d : on(d) \subseteq Cmds
  BY DEF OnDevice, Cmds
<1>3. /\ submitted \cap done = {} /\ IsFiniteSet(Cmds)
      /\ \A c \in Cmds \cup stored : c.buf \in Made /\ c = Cmd(c.buf)
      /\ \A i \in Made : Cmd(i) \in submitted \cup stored
  BY DEF SsdInv, CmdsInv
<1>4. Cmds' = Cmds \ polled
  BY <1>1, <1>2, <1>3 DEF Cmds
<1>5. \A d : OnDevice(d, Cmds') = IF d = pollDev THEN on(d) \ polled ELSE on(d)
  BY <1>4 DEF OnDevice
<1>6. pollDev \in Devs /\ nextEmbed \in Nat
  BY SsdConstants DEF SsdInv, SsdTypes
<1>7. \A i : Cmd(i)' = Cmd(i)
  BY <1>1 DEF Cmd, setVars
<1>8. Made' = Made
  BY <1>1 DEF Made
<1>9. /\ IsFiniteSet(polled) /\ n \in Nat /\ n <= Cardinality(on(pollDev))
      /\ IsFiniteSet(on(pollDev)) /\ Cardinality(on(pollDev)) <= Cardinality(Cmds)
      /\ Cardinality(on(pollDev)) \in Nat
  BY <1>2, <1>3, FS_Subset, FS_CardinalityType
<1>10. polled \cap Cmds = polled /\ polled \cap on(pollDev) = polled
       /\ Cmds \cap polled = polled /\ on(pollDev) \cap polled = polled
  BY <1>2
<1> HIDE DEF polled, on, n
<1>11. /\ Cardinality(Cmds \ polled) = Cardinality(Cmds) - n
       /\ Cardinality(on(pollDev) \ polled) = Cardinality(on(pollDev)) - n
       /\ IsFiniteSet(Cmds \ polled)
  <2>1. /\ IsFiniteSet(Cmds \ polled)
        /\ Cardinality(Cmds \ polled) = Cardinality(Cmds) - Cardinality(Cmds \cap polled)
    BY <1>3, FS_Difference
  <2>2. Cardinality(on(pollDev) \ polled)
        = Cardinality(on(pollDev)) - Cardinality(on(pollDev) \cap polled)
    BY <1>9, FS_Difference
  <2> QED
    BY <1>10, <2>1, <2>2 DEF n
<1>12. SsdTypes'
  <2>1. NextDev \in Devs
    <3>1. DevNum \in Nat \ {0} /\ pollDev + 1 \in Nat
      BY <1>6, SsdConstants DEF Devs
    <3> QED
      BY <3>1, DivMod DEF NextDev, Devs
  <2> QED
    BY <1>1, <2>1 DEF SsdInv, SsdTypes, setVars
<1>13. CmdsInv'
  <2>1. submitted' \cap done' = {} /\ IsFiniteSet(Cmds')
    BY <1>1, <1>3, <1>4, <1>11
  <2>2. \A c \in Cmds' \cup stored' : c.buf \in Made' /\ c = Cmd(c.buf)'
    BY <1>1, <1>3, <1>4, <1>7, <1>8
  <2>3. \A i \in Made' : Cmd(i)' \in submitted' \cup stored'
    BY <1>1, <1>3, <1>7, <1>8
  <2> QED
    BY <2>1, <2>2, <2>3 DEF CmdsInv
<1>14. CountersInv'
  <2>1. total_pending \in 0..nextEmbed /\ total_pending = Cardinality(Cmds)
        /\ pending_io_per_dev \in [Devs -> 0..nextEmbed]
        /\ \A d \in Devs : pending_io_per_dev[d] = Cardinality(on(d))
    BY DEF SsdInv, CountersInv, on
  <2>2. total_pending' \in 0..nextEmbed /\ total_pending' = Cardinality(Cmds')
    BY <1>1, <1>4, <1>6, <1>9, <1>11, <2>1
  <2>3. pending_io_per_dev[pollDev] - n \in 0..nextEmbed
    <3>1. pending_io_per_dev[pollDev] = Cardinality(on(pollDev))
      BY <1>6, <2>1
    <3>2. pending_io_per_dev[pollDev] \in 0..nextEmbed
      BY <1>6, <2>1
    <3> QED
      BY <1>6, <1>9, <3>1, <3>2
  <2>4. pending_io_per_dev' \in [Devs -> 0..nextEmbed]
    BY <1>1, <2>1, <2>3
  <2>5. ASSUME NEW d \in Devs PROVE pending_io_per_dev'[d] = Cardinality(OnDevice(d, Cmds'))
    <3>1. CASE d = pollDev
      <4>1. pending_io_per_dev'[d] = Cardinality(on(pollDev)) - n
        BY <1>1, <1>6, <2>1, <3>1
      <4> QED
        BY <1>5, <1>11, <3>1, <4>1
    <3>2. CASE d # pollDev
      BY <1>1, <1>5, <2>1, <3>2
    <3> QED
      BY <3>1, <3>2
  <2> QED
    BY <1>1, <2>2, <2>4, <2>5 DEF CountersInv
<1>15. BenchInv'
  BY <1>1 DEF SsdInv, BenchInv
<1> QED
  BY <1>12, <1>13, <1>14, <1>15 DEF SsdInv

\* An SSD stores what it was given where nobody else's is.
LEMMA CompleteStep ==
  ASSUME SsdInv, NEW c \in submitted, Complete(c)
  PROVE  SsdInv'
<1>1. /\ submitted' = submitted \ {c} /\ done' = done \cup {c}
      /\ stored' = {s \in stored : s.place # c.place} \cup {c}
      /\ UNCHANGED <<bpc, setVars, nextEmbed, total_pending, pending_io_per_dev, pollDev,
                     bufferHeld, returned>>
  BY DEF Complete
<1>2. Cmds' = Cmds /\ Made' = Made
  BY <1>1 DEF Cmds, Made
<1>3. \A i : Cmd(i)' = Cmd(i)
  BY <1>1 DEF Cmd, setVars
<1>4. /\ submitted \cap done = {} /\ IsFiniteSet(Cmds)
      /\ \A x \in Cmds \cup stored : x.buf \in Made /\ x = Cmd(x.buf)
      /\ \A i \in Made : Cmd(i) \in submitted \cup stored
  BY DEF SsdInv, CmdsInv
<1>5. c \in Cmds /\ c.buf \in Made /\ c = Cmd(c.buf)
  BY <1>4 DEF Cmds
<1>6. ASSUME NEW i \in Made, Cmd(i).place = c.place PROVE Cmd(i) = c
  <2>1. getEmbedAddr(embed_id[i]) = getEmbedAddr(embed_id[c.buf])
    <3>1. Cmd(i).place = getEmbedAddr(embed_id[i])
      BY DEF Cmd
    <3>2. Cmd(c.buf).place = getEmbedAddr(embed_id[c.buf])
      BY DEF Cmd
    <3> QED
      BY <1>5, <1>6, <3>1, <3>2
  <2>2. i \in Embeds /\ c.buf \in Embeds
    BY <1>5, SsdConstants DEF SsdInv, SsdTypes, Made, Embeds
  <2>3. embed_id \in Shuffles
    BY DEF SsdInv, SsdTypes
  <2>4. embed_id[i] \in Nat /\ embed_id[c.buf] \in Nat
    BY <2>2, <2>3, SsdConstants DEF Shuffles
  <2>5. embed_id[i] = embed_id[c.buf]
    BY <2>1, <2>4, AddrsDiffer
  <2>6. i = c.buf
    BY <2>2, <2>3, <2>5 DEF Shuffles
  <2> QED
    BY <1>5, <2>6
<1>7. CmdsInv'
  <2>1. submitted' \cap done' = {} /\ IsFiniteSet(Cmds')
    BY <1>1, <1>2, <1>4
  <2>2. \A x \in Cmds' \cup stored' : x.buf \in Made' /\ x = Cmd(x.buf)'
    BY <1>1, <1>2, <1>3, <1>4, <1>5
  <2>3. ASSUME NEW i \in Made PROVE Cmd(i) \in submitted' \cup stored'
    BY <1>1, <1>4, <1>6
  <2> QED
    BY <1>2, <1>3, <2>1, <2>2, <2>3 DEF CmdsInv
<1>8. CountersInv'
  <2>1. \A d : OnDevice(d, Cmds') = OnDevice(d, Cmds)
    BY <1>2
  <2> QED
    BY <1>1, <1>2, <2>1 DEF SsdInv, CountersInv
<1>9. SsdTypes' /\ BenchInv'
  BY <1>1, <1>2 DEF SsdInv, SsdTypes, BenchInv, setVars
<1> QED
  BY <1>7, <1>8, <1>9 DEF SsdInv

LEMMA SsdStepInv == SsdInv /\ [SsdNext]_ssdVars => SsdInv'
<1> SUFFICES ASSUME SsdInv, [SsdNext]_ssdVars PROVE SsdInv'
  OBVIOUS
<1>0. SsdTypes /\ BenchInv
  BY DEF SsdInv
<1>1. CASE SpdkInit
  <2>1. /\ UNCHANGED <<qpairs, embed_id, loopVars, returned>> /\ bpc = "env"
        /\ namespaces' \in Nat /\ bpc' \in {"cleanup", "qpair"}
    BY <1>1, SsdAssumption, <1>0 DEF SpdkInit, SsdTypes
  <2>2. nextEmbed = 0 /\ qpairs = 0 /\ ~returned
    BY <1>0, <2>1 DEF BenchInv
  <2>3. Cmds' = {}
    <3>1. Made = {}
      BY <2>2 DEF Made
    <3>2. Cmds = {}
      BY <3>1 DEF SsdInv, CmdsInv
    <3> QED
      BY <2>1, <3>2 DEF Cmds, loopVars
  <2>4. SsdTypes'
    BY <1>0, <2>1, <2>2 DEF SsdTypes, loopVars
  <2>5. BenchInv'
    BY <2>1, <2>2, <2>3 DEF BenchInv, loopVars
  <2>6. CmdsInv' /\ CountersInv'
    BY <2>1, SsdQuiet DEF loopVars
  <2> QED
    BY <2>4, <2>5, <2>6 DEF SsdInv
<1>2. CASE AllocQpair
  <2>1. /\ UNCHANGED <<namespaces, embed_id, loopVars, returned>>
        /\ bpc = "qpair" /\ bpc' = "submit_all" /\ qpairs' \in 0..namespaces
    BY <1>2 DEF AllocQpair
  <2>2. SsdTypes' /\ BenchInv'
    BY <1>0, <2>1 DEF SsdTypes, BenchInv, loopVars
  <2>3. CmdsInv' /\ CountersInv'
    BY <2>1, SsdQuiet DEF loopVars
  <2> QED
    BY <2>2, <2>3 DEF SsdInv
<1>3. CASE RunTask
  <2>1. /\ UNCHANGED <<loopVars, returned>> /\ embed_id' \in Shuffles
        /\ bpc = "submit_all" /\ bpc' = "submit"
    BY <1>3 DEF RunTask
  <2>2. namespaces' \in Nat /\ qpairs' \in Nat /\ qpairs' <= namespaces'
    BY <1>0, <1>3, SsdConstants DEF RunTask, SsdTypes
  <2>3. SsdTypes' /\ BenchInv'
    BY <1>0, <2>1, <2>2 DEF SsdTypes, BenchInv, loopVars
  <2>4. CmdsInv' /\ CountersInv'
    BY <1>0, <2>1, SsdQuiet DEF loopVars, BenchInv
  <2> QED
    BY <2>3, <2>4 DEF SsdInv
<1>4. CASE TaskSubmit
  <2>1. CASE bpc' = bpc
    BY <1>4, <2>1, SubmitStep
  <2>2. CASE bpc' # bpc
    <3>1. bpc = "submit" /\ bpc' = "stopped" /\ UNCHANGED <<loopVars, setVars, returned>>
      BY <1>4, <2>2 DEF TaskSubmit
    <3>2. SsdTypes' /\ BenchInv'
      BY <1>0, <3>1 DEF SsdTypes, BenchInv, loopVars, setVars
    <3>3. CmdsInv' /\ CountersInv'
      BY <3>1, SsdQuiet DEF loopVars, setVars
    <3> QED
      BY <3>2, <3>3 DEF SsdInv
  <2> QED
    BY <2>1, <2>2
<1>5. CASE SubmitEnds
  <2>1. /\ bpc = "submit" /\ bpc' = "drain" /\ nextEmbed = EmbedNum /\ pollDev' = 0
        /\ UNCHANGED <<setVars, nextEmbed, total_pending, pending_io_per_dev, submitted, done,
                       stored, returned>>
    BY <1>5 DEF SubmitEnds
  <2>2. SsdTypes' /\ BenchInv'
    BY <1>0, <2>1, SsdConstants DEF SsdTypes, BenchInv, setVars
  <2>3. CmdsInv' /\ CountersInv'
    BY <2>1, SsdQuiet DEF setVars
  <2> QED
    BY <2>2, <2>3 DEF SsdInv
<1>6. CASE PollQpair
  <2>1. CASE bpc' = bpc
    BY <1>6, <2>1, PolledStep
  <2>2. CASE bpc' # bpc
    <3>1. /\ bpc = "drain" /\ bpc' = "stopped"
          /\ UNCHANGED <<setVars, nextEmbed, total_pending, pending_io_per_dev, submitted, done,
                         pollDev, stored, returned>>
      BY <1>6, <2>2 DEF PollQpair
    <3>2. SsdTypes' /\ BenchInv'
      BY <1>0, <3>1 DEF SsdTypes, BenchInv, setVars
    <3>3. CmdsInv' /\ CountersInv'
      BY <3>1, SsdQuiet DEF setVars
    <3> QED
      BY <3>2, <3>3 DEF SsdInv
  <2> QED
    BY <2>1, <2>2
<1>7. CASE TaskEnds
  <2>1. /\ bpc = "drain" /\ bpc' = "cleanup" /\ returned' = TRUE /\ total_pending <= 0
        /\ UNCHANGED <<setVars, loopVars>>
    <3>1. total_pending \in Nat
      BY DEF SsdInv, CountersInv, SsdTypes
    <3> QED
      BY <1>7, <3>1 DEF TaskEnds, StillPending
  <2>2. Cmds = {} /\ Cmds' = {}
    <3>1. Cardinality(Cmds) = 0 /\ IsFiniteSet(Cmds)
      BY <2>1 DEF SsdInv, CountersInv, CmdsInv, SsdTypes
    <3> QED
      BY <2>1, <3>1, FS_EmptySet DEF Cmds, loopVars
  <2>3. returned' \in BOOLEAN
    BY <2>1
  <2>4. SsdTypes'
    BY <1>0, <2>1, <2>3 DEF SsdTypes, setVars, loopVars
  <2>5. BenchInv'
    BY <1>0, <2>1, <2>2 DEF BenchInv, loopVars
  <2>6. CmdsInv' /\ CountersInv'
    BY <2>1, SsdQuiet DEF loopVars, setVars
  <2> QED
    BY <2>4, <2>5, <2>6 DEF SsdInv
<1>8. CASE Cleanup
  <2>1. /\ bpc = "cleanup" /\ bpc' = "ended" /\ namespaces' = 0 /\ qpairs' = 0
        /\ UNCHANGED <<embed_id, loopVars, returned>>
    BY <1>8 DEF Cleanup
  <2>2. Cmds' = Cmds
    BY <2>1 DEF Cmds, loopVars
  <2>3. SsdTypes' /\ BenchInv'
    BY <1>0, <2>1, <2>2 DEF SsdTypes, BenchInv, loopVars
  <2>4. CmdsInv' /\ CountersInv'
    BY <2>1, SsdQuiet DEF loopVars
  <2> QED
    BY <2>3, <2>4 DEF SsdInv
<1>9. CASE Ssds
  BY <1>9, CompleteStep DEF Ssds
<1>10. CASE UNCHANGED ssdVars
  <2>1. UNCHANGED <<bpc, setVars, loopVars, returned>> /\ Cmds' = Cmds
    BY <1>10 DEF ssdVars, setVars, loopVars, Cmds
  <2>2. SsdTypes' /\ BenchInv'
    BY <1>0, <2>1 DEF SsdTypes, BenchInv, loopVars, setVars
  <2>3. CmdsInv' /\ CountersInv'
    BY <2>1, SsdQuiet DEF loopVars, setVars
  <2> QED
    BY <2>2, <2>3 DEF SsdInv
<1> QED
  BY <1>1, <1>2, <1>3, <1>4, <1>5, <1>6, <1>7, <1>8, <1>9, <1>10 DEF SsdNext, Bench

LEMMA SsdInvSuffices == SsdInv => SsdTypeOK /\ AllStored
<1> SUFFICES ASSUME SsdInv PROVE SsdTypeOK /\ AllStored
  OBVIOUS
<1>1. SsdTypes /\ CmdsInv /\ CountersInv /\ BenchInv /\ EmbedNum \in Nat
  BY SsdConstants DEF SsdInv
<1>2. SsdTypeOK
  <2>1. \A x \in 0..nextEmbed : x \in 0..EmbedNum
    BY <1>1 DEF SsdTypes
  <2>2. pending_io_per_dev \in [Devs -> 0..EmbedNum] /\ total_pending \in 0..EmbedNum
    BY <1>1, <2>1 DEF CountersInv
  <2> QED
    BY <1>1, <2>2 DEF SsdTypes, SsdTypeOK
<1>3. bpc \in {"cleanup", "ended"} => submitted \cup done = {}
  BY <1>1 DEF BenchInv, Cmds
<1>4. ASSUME returned, NEW i \in Embeds
      PROVE  \E s \in stored : s.buf = i /\ s.place = getEmbedAddr(embed_id[i])
  <2>1. i \in Made /\ submitted = {}
    BY <1>1, <1>4 DEF BenchInv, Made, Embeds, Cmds
  <2>2. Cmd(i) \in stored
    BY <1>1, <2>1 DEF CmdsInv
  <2> QED
    BY <2>2 DEF Cmd
<1> QED
  BY <1>2, <1>3, <1>4 DEF AllStored

-------------------------------------------------------------------------------
(* SwitchTables.                                                           *)

\* What the present table has for a field of an action, as RightIds says.
FieldIds(a, d) ==
  {FieldId(table, ActionId(table, a), d)} \cup (IF ActionId(table, a) = 0 THEN {0} ELSE {})

\* What the maps hold under a name asked of the present table is that table's.
\* A field under its action's name is never there without the action.
CurrentInv ==
  /\ \A a : <<"action", a>> \in current => a \in DOMAIN actions /\ actions[a] = ActionId(table, a)
  /\ \A k : <<"key", k>> \in current => k \in DOMAIN keys /\ keys[k] = KeyFieldId(table, k)
  /\ \A a \in ActionNames, d \in DataNames :
       <<a, d>> \in current /\ <<a, d>> \in DOMAIN data => data[<<a, d>>] \in FieldIds(a, d)
  /\ \A a \in ActionNames, d \in DataNames : <<a, d>> \in DOMAIN data => a \in DOMAIN actions
  /\ \A d \in DataNames : <<NoName, d>> \notin current

IdsInv ==
  /\ table \in Tables
  /\ \A a \in DOMAIN actions : actions[a] \in FieldOwners
  /\ \A k \in DOMAIN keys : keys[k] \in Nat
  /\ \A f \in DOMAIN data : data[f] \in Nat
  /\ CurrentInv

RowsInv ==
  /\ firstTable \in Tables /\ rowsOf \in Tables
  /\ pointers = <<>> \/ pointers \in [1..TableSize[firstTable] -> EntryKeys \cup {NoRow}]
  /\ inSwitch \in [Tables -> Seq(EntryKeys)]
  /\ \A t \in Tables : Len(inSwitch[t]) <= TableSize[t]

TablesInv == IdsInv /\ NamedIds /\ RowsInv /\ asserted \in BOOLEAN

LEMMA TablesConstants ==
  /\ TableSize \in [Tables -> Nat \ {0}]
  /\ \A t \in Tables, a \in ActionNames : ActionId(t, a) \in Nat /\ ActionId(t, a) \in FieldOwners
  /\ \A a \in ActionNames : a # "action" /\ a # "key" /\ a # NoName
  /\ \A t \in Tables, k \in KeyNames : KeyFieldId(t, k) \in Nat
  /\ \A t \in Tables, i \in FieldOwners, d \in DataNames : FieldId(t, i, d) \in Nat
  BY TablesAssumption DEF FieldOwners

\* Which names the ids that are handed out have, and which are right.
LEMMA HandedRight ==
  /\ \A a : RightIds(<<"action", a>>) = {ActionId(table, a)}
  /\ \A k : RightIds(<<"key", k>>) = {KeyFieldId(table, k)}
  /\ \A a \in ActionNames : \A d : RightIds(<<a, d>>) = FieldIds(a, d)
<1>1. \A a : RightIds(<<"action", a>>) = {ActionId(table, a)}
  BY DEF RightIds
<1>2. \A k : RightIds(<<"key", k>>) = {KeyFieldId(table, k)}
  BY DEF RightIds
<1>3. ASSUME NEW a \in ActionNames, NEW d
      PROVE  RightIds(<<a, d>>) = FieldIds(a, d)
  <2>1. a # "action" /\ a # "key" /\ <<a, d>>[1] = a /\ <<a, d>>[2] = d
    BY TablesConstants
  <2> QED
    BY <2>1, Zenon DEF RightIds, FieldIds
<1> QED
  BY <1>1, <1>2, <1>3

\* A look-up hands out nothing, or an id under a name that is not current, or
\* the present table's.
LEMMA NamedAfter ==
  ASSUME NEW name, NEW id, table' = table,
         \/ NoneHanded
         \/ Hands(name, id) /\ (name \in current' => id \in RightIds(name))
  PROVE  NamedIds'
<1>1. CASE NoneHanded
  BY <1>1 DEF NoneHanded, NamedIds
<1>2. CASE Hands(name, id) /\ (name \in current' => id \in RightIds(name))
  <2>1. gotId'.name = name /\ gotId'.id = id
    BY <1>2 DEF Hands
  <2>2. RightIds(name)' = RightIds(name)
    BY DEF RightIds
  <2> QED
    BY <1>2, <2>1, <2>2 DEF NamedIds
<1> QED
  BY <1>1, <1>2

LEMMA TablesInitInv == TablesInit => TablesInv
<1> SUFFICES ASSUME TablesInit PROVE TablesInv
  OBVIOUS
<1> USE DEF TablesInit
<1>1. IdsInv
  BY DEF IdsInv, CurrentInv
<1>2. NamedIds
  BY DEF NamedIds
<1>3. RowsInv
  <2>1. <<>> \in Seq(EntryKeys) /\ Len(<<>>) = 0
    BY EmptySeq
  <2> QED
    BY <2>1, TablesConstants DEF RowsInv
<1> QED
  BY <1>1, <1>2, <1>3 DEF TablesInv

\* Look-ups of actions and keys.
LEMMA ActionStep ==
  ASSUME IdsInv, NEW a \in ActionNames, SetAction(a) \/ GetAction(a), table' = table
  PROVE  IdsInv' /\ NamedIds'
<1>1. /\ keys' = keys /\ data' = data
      /\ \/ actions' = actions /\ current' = current
         \/ /\ actions' = Put(actions, a, ActionId(table, a))
            /\ current' = current \cup {<<"action", a>>}
  BY DEF SetAction, GetAction, Asks
<1>2. \/ NoneHanded
      \/ Hands(<<"action", a>>, ActionId(table, a))
      \/ Hands(<<"action", a>>, actions[a]) /\ current' = current
  BY DEF SetAction, GetAction
<1>3. <<"action", a>> \in current => actions[a] = ActionId(table, a)
  BY DEF IdsInv, CurrentInv
<1>4. NamedIds'
  BY <1>2, <1>3, HandedRight, NamedAfter
<1>5. \A b \in DOMAIN actions' : actions'[b] \in FieldOwners
  BY <1>1, TablesConstants DEF IdsInv, Put
<1>6. \A b \in DOMAIN actions : b \in DOMAIN actions'
  BY <1>1 DEF Put
<1>7. ASSUME NEW b, <<"action", b>> \in current'
      PROVE  b \in DOMAIN actions' /\ actions'[b] = ActionId(table, b)
  <2>1. b = a \/ <<"action", b>> \in current
    BY <1>1, <1>7
  <2> QED
    BY <1>1, <1>7, <2>1 DEF IdsInv, CurrentInv, Put
<1>8. \A n : n \in current' => n \in current \/ n = <<"action", a>>
  BY <1>1
<1>9. /\ \A k : <<"key", k>> \in current' => <<"key", k>> \in current
      /\ \A b \in ActionNames, d \in DataNames : <<b, d>> \in current' => <<b, d>> \in current
      /\ \A d \in DataNames : <<NoName, d>> \notin current'
  <2>1. \A k : <<"key", k>> # <<"action", a>> /\ <<NoName, k>> # <<"action", a>>
    BY DEF NoName
  <2>2. \A b \in ActionNames : \A d : <<b, d>> # <<"action", a>>
    BY TablesConstants
  <2> QED
    BY <1>8, <2>1, <2>2 DEF IdsInv, CurrentInv
<1> QED
  BY <1>1, <1>4, <1>5, <1>6, <1>7, <1>9 DEF IdsInv, CurrentInv, FieldIds

LEMMA KeyStep ==
  ASSUME IdsInv, NEW k \in KeyNames, SetKey(k) \/ GetKey(k), table' = table
  PROVE  IdsInv' /\ NamedIds'
<1>1. /\ actions' = actions /\ data' = data
      /\ \/ keys' = keys /\ current' = current
         \/ /\ keys' = Put(keys, k, KeyFieldId(table, k))
            /\ current' = current \cup {<<"key", k>>}
  BY DEF SetKey, GetKey, Asks
<1>2. \/ NoneHanded
      \/ Hands(<<"key", k>>, KeyFieldId(table, k))
      \/ Hands(<<"key", k>>, keys[k]) /\ current' = current
  BY DEF SetKey, GetKey
<1>3. <<"key", k>> \in current => keys[k] = KeyFieldId(table, k)
  BY DEF IdsInv, CurrentInv
<1>4. NamedIds'
  BY <1>2, <1>3, HandedRight, NamedAfter
<1>5. \A j \in DOMAIN keys' : keys'[j] \in Nat
  BY <1>1, TablesConstants DEF IdsInv, Put
<1>6. ASSUME NEW j, <<"key", j>> \in current'
      PROVE  j \in DOMAIN keys' /\ keys'[j] = KeyFieldId(table, j)
  <2>1. j = k \/ <<"key", j>> \in current
    BY <1>1, <1>6
  <2> QED
    BY <1>1, <1>6, <2>1 DEF IdsInv, CurrentInv, Put
<1>7. \A n : n \in current' => n \in current \/ n = <<"key", k>>
  BY <1>1
<1>8. /\ \A b : <<"action", b>> \in current' => <<"action", b>> \in current
      /\ \A b \in ActionNames, d \in DataNames : <<b, d>> \in current' => <<b, d>> \in current
      /\ \A d \in DataNames : <<NoName, d>> \notin current'
  <2>1. \A b : <<"action", b>> # <<"key", k>> /\ <<NoName, b>> # <<"key", k>>
    BY DEF NoName
  <2>2. \A b \in ActionNames : \A d : <<b, d>> # <<"key", k>>
    BY TablesConstants
  <2> QED
    BY <1>7, <2>1, <2>2 DEF IdsInv, CurrentInv
<1> QED
  BY <1>1, <1>4, <1>5, <1>6, <1>8 DEF IdsInv, CurrentInv, FieldIds

\* Look-ups of fields under their bare names, which are never current.
LEMMA BareStep ==
  ASSUME IdsInv, NEW d \in DataNames, NEW i \in FieldOwners,
         SetData(d, i) \/ GetData(d, i), table' = table
  PROVE  IdsInv' /\ NamedIds'
<1>1. /\ data' = data \/ data' = Put(data, <<NoName, d>>, FieldId(table, i, d))
      /\ actions' = actions /\ keys' = keys /\ current' = current
  BY DEF SetData, GetData, Bare
<1>2. \/ NoneHanded
      \/ Hands(<<NoName, d>>, data[<<NoName, d>>])
      \/ Hands(<<NoName, d>>, FieldId(table, i, d))
  BY DEF SetData, GetData, Bare
<1>3. <<NoName, d>> \notin current'
  BY <1>1 DEF IdsInv, CurrentInv
<1>4. NamedIds'
  BY <1>2, <1>3, NamedAfter
<1>5. \A f \in DOMAIN data' : data'[f] \in Nat
  BY <1>1, TablesConstants DEF IdsInv, Put
<1>6. ASSUME NEW a \in ActionNames, NEW e \in DataNames, <<a, e>> \in DOMAIN data'
      PROVE  <<a, e>> \in DOMAIN data /\ data'[<<a, e>>] = data[<<a, e>>]
  <2>1. <<a, e>> # <<NoName, d>>
    BY TablesConstants
  <2> QED
    BY <1>1, <1>6, <2>1 DEF Put
<1> QED
  BY <1>1, <1>4, <1>5, <1>6 DEF IdsInv, CurrentInv, FieldIds

\* Look-ups by the names of action and field.
LEMMA OfStep ==
  ASSUME IdsInv, NEW d \in DataNames, NEW a \in ActionNames,
         SetDataOf(a, d) \/ GetDataOf(a, d), table' = table
  PROVE  IdsInv' /\ NamedIds'
<1>1. CASE \E hand \in BOOLEAN : FetchOf(a, d, hand)
  <2> DEFINE field == FieldId(table, IdOf(a), d)
  <2>1. /\ actions' = Put(actions, a, IdOf(a)) /\ keys' = keys /\ AsksOf(a, d)
        /\ \/ NoSuchAction(a, d)
           \/ /\ data' = Put(data, <<a, d>>, field)
              /\ NoneHanded \/ Hands(<<a, d>>, field)
    BY <1>1 DEF FetchOf, Of
  <2>2. IdOf(a) \in FieldOwners
    BY TablesConstants DEF IdOf, IdsInv
  <2>3. \A b \in DOMAIN actions' : actions'[b] \in FieldOwners
    BY <2>1, <2>2 DEF IdsInv, Put
  <2>4. a \in DOMAIN actions' /\ \A b \in DOMAIN actions : b \in DOMAIN actions' /\ actions'[b] = actions[b]
    BY <2>1 DEF Put, IdOf
  <2>5. \/ data' = data /\ NoSuchAction(a, d)
        \/ data' = Put(data, <<a, d>>, 0) /\ NoSuchAction(a, d)
        \/ data' = Put(data, <<a, d>>, field)
    BY <2>1 DEF NoSuchAction, Of
  <2>6. \A f \in DOMAIN data' : data'[f] \in Nat
    <3>1. field \in Nat
      BY <2>2, TablesConstants DEF IdsInv
    <3> HIDE DEF field
    <3> QED
      BY <2>5, <3>1 DEF IdsInv, Put
  <2>7. /\ \A b : <<"action", b>> \in current' => <<"action", b>> \in current \/ (b = a /\ a \notin DOMAIN actions)
        /\ \A n : n \in current' => n \in current \/ n = <<"action", a>> \/ n = <<a, d>>
        /\ <<a, d>> \in current' => <<"action", a>> \in current \/ a \notin DOMAIN actions
    <3>1. \A b : <<"action", b>> # <<a, d>>
      BY TablesConstants
    <3> QED
      BY <2>1, <3>1 DEF AsksOf
  <2>8. \A b : <<"action", b>> \in current' => b \in DOMAIN actions' /\ actions'[b] = ActionId(table, b)
    BY <2>1, <2>4, <2>7 DEF IdsInv, CurrentInv, Put, IdOf
  <2>9. /\ \A k : <<"key", k>> \in current' => <<"key", k>> \in current
        /\ \A e \in DataNames : <<NoName, e>> \notin current'
    <3>1. ASSUME NEW k, <<"key", k>> \in current' PROVE <<"key", k>> \in current
      <4>1. <<"key", k>> # <<"action", a>> /\ <<"key", k>> # <<a, d>>
        BY TablesConstants
      <4> QED
        BY <2>7, <3>1, <4>1
    <3>2. ASSUME NEW e \in DataNames PROVE <<NoName, e>> \notin current'
      <4>0. NoName # "action"
        BY Zenon DEF NoName
      <4>1. <<NoName, e>> # <<"action", a>> /\ <<NoName, e>> # <<a, d>>
        BY <4>0, TablesConstants
      <4>2. <<NoName, e>> \notin current
        BY DEF IdsInv, CurrentInv
      <4> QED
        BY <2>7, <4>1, <4>2
    <3> QED
      BY <3>1, <3>2
  <2>10. <<a, d>> \in current' => IdOf(a) = ActionId(table, a)
    BY <2>7 DEF IdOf, IdsInv, CurrentInv
  <2>11. <<a, d>> \in current' => field \in FieldIds(a, d)
    BY <2>10 DEF FieldIds
  <2>12. ASSUME NEW b \in ActionNames, NEW e \in DataNames, <<b, e>> \in DOMAIN data'
         PROVE  /\ b \in DOMAIN actions'
                /\ <<b, e>> \in current' => data'[<<b, e>>] \in FieldIds(b, e)
    <3>1. CASE <<b, e>> = <<a, d>>
      <4>1. CASE data' = data /\ NoSuchAction(a, d)
        BY <2>12, <3>1, <4>1 DEF NoSuchAction, IdsInv, CurrentInv
      <4>2. CASE data' = Put(data, <<a, d>>, 0) /\ NoSuchAction(a, d)
        BY <2>4, <3>1, <4>2 DEF NoSuchAction, FieldIds, Put
      <4>3. CASE data' = Put(data, <<a, d>>, field)
        <5>1. data'[<<a, d>>] = field
          BY <4>3 DEF Put
        <5> HIDE DEF field
        <5> QED
          BY <2>4, <2>11, <3>1, <5>1
      <4> QED
        BY <2>5, <4>1, <4>2, <4>3
    <3>2. CASE <<b, e>> # <<a, d>>
      <4>1. <<b, e>> \in DOMAIN data /\ data'[<<b, e>>] = data[<<b, e>>]
        <5> HIDE DEF field
        <5> QED
          BY <2>5, <2>12, <3>2 DEF Put
      <4>2. <<b, e>> # <<"action", a>>
        BY TablesConstants
      <4> QED
        BY <2>4, <2>7, <3>2, <4>1, <4>2 DEF IdsInv, CurrentInv
    <3> QED
      BY <3>1, <3>2
  <2>13. CurrentInv'
    BY <2>1, <2>8, <2>9, <2>12 DEF IdsInv, CurrentInv, FieldIds
  <2>14. NamedIds'
    <3>1. NoneHanded \/ Hands(<<a, d>>, field)
      BY <2>1 DEF NoSuchAction
    <3>2. RightIds(<<a, d>>) = FieldIds(a, d)
      BY HandedRight
    <3> HIDE DEF field
    <3> QED
      BY <2>11, <3>1, <3>2, NamedAfter
  <2> QED
    BY <2>1, <2>3, <2>6, <2>13, <2>14 DEF IdsInv
<1>2. CASE Of(a, d) \in DOMAIN data /\ GetDataOf(a, d)
  <2>1. /\ Hands(<<a, d>>, data[<<a, d>>]) /\ UNCHANGED <<actions, keys, data, current>>
        /\ <<a, d>> \in DOMAIN data
    BY <1>2 DEF GetDataOf, Of
  <2>2. <<a, d>> \in current => data[<<a, d>>] \in RightIds(<<a, d>>)
    BY <2>1, HandedRight DEF IdsInv, CurrentInv
  <2>3. NamedIds'
    BY <2>1, <2>2, NamedAfter
  <2> QED
    BY <2>1, <2>3 DEF IdsInv, CurrentInv, FieldIds
<1> QED
  BY <1>1, <1>2 DEF SetDataOf, GetDataOf

\* The change of the table leaves no name current.
LEMMA SetTableStep ==
  ASSUME TablesInv, SetTable
  PROVE  TablesInv'
<1> USE DEF TablesInv
<1>1. /\ table' \in Tables /\ UNCHANGED <<actions, keys, data, asserted, firstTable, rowVars>>
      /\ current' = {} \/ (current' = current /\ table' = table)
  BY DEF SetTable, IdsInv
<1>2. NamedIds'
  BY DEF SetTable, NamedIds
<1>3. IdsInv'
  BY <1>1 DEF IdsInv, CurrentInv, FieldIds
<1>4. RowsInv'
  BY <1>1 DEF RowsInv, rowVars
<1> QED
  BY <1>1, <1>2, <1>3, <1>4

\* The entries, which no look-up touches.
LEMMA SwitchEntries ==
  ASSUME TablesInv, NEW k \in EntryKeys
  PROVE  /\ Append(Entered, k) \in Seq(EntryKeys) /\ Len(Append(Entered, k)) = Len(Entered) + 1
         /\ k \in Present =>
              /\ Without(k) \in Seq(EntryKeys) /\ Len(Without(k)) = Len(Entered) - 1
<1>1. Entered \in Seq(EntryKeys)
  BY DEF TablesInv, IdsInv, RowsInv, Entered
<1>2. Len(Entered) \in Nat /\ DOMAIN Entered = 1..Len(Entered)
  BY <1>1, LenProperties
<1>3. Append(Entered, k) \in Seq(EntryKeys) /\ Len(Append(Entered, k)) = Len(Entered) + 1
  BY <1>1, AppendProperties
<1>4. ASSUME k \in Present
      PROVE  Without(k) \in Seq(EntryKeys) /\ Len(Without(k)) = Len(Entered) - 1
  <2> DEFINE n == Len(Entered) - 1
             at == CHOOSE i \in DOMAIN Entered : Entered[i] = k
             S == [i \in 1..n |-> Entered[IF i < at THEN i ELSE i + 1]]
  <2>1. n \in Nat
    BY <1>2, <1>4 DEF Present
  <2>2. \A i \in 1..n : (IF i < at THEN i ELSE i + 1) \in 1..Len(Entered)
    <3> HIDE DEF at
    <3> QED
      BY <1>2
  <2>3. \A i \in 1..n : Entered[IF i < at THEN i ELSE i + 1] \in EntryKeys
    <3> HIDE DEF at
    <3> QED
      BY <1>1, <1>2, <2>2, ElementOfSeq
  <2>4. S \in [1..n -> EntryKeys]
    <3> HIDE DEF at
    <3> QED
      BY <2>3
  <2>5. Without(k) = S
    BY DEF Without
  <2> HIDE DEF S, n
  <2>6. S \in Seq(EntryKeys) /\ Len(S) = n
    BY <2>1, <2>4, SeqDef, LenProperties
  <2> QED
    BY <2>5, <2>6 DEF n
<1> QED
  BY <1>3, <1>4

LEMMA EntriesStep ==
  ASSUME TablesInv, Entries
  PROVE  TablesInv'
<1> USE DEF TablesInv
<1>0. /\ Entered \in Seq(EntryKeys) /\ Len(Entered) \in Nat /\ Len(Entered) <= TableSize[table]
      /\ table \in Tables /\ TableSize[table] \in Nat \ {0}
  <2>1. table \in Tables /\ Entered \in Seq(EntryKeys) /\ Len(Entered) <= TableSize[table]
    BY DEF IdsInv, RowsInv, Entered
  <2> QED
    BY <2>1, LenProperties, TablesConstants
<1>1. ASSUME NoIdAsked PROVE IdsInv' /\ NamedIds'
  BY <1>1 DEF NoIdAsked, NoneHanded, IdsInv, CurrentInv, FieldIds, NamedIds
<1>2. ASSUME NEW es \in Seq(EntryKeys), Len(es) <= TableSize[table], Becomes(es),
             NoIdAsked, UNCHANGED <<asserted, pointers, rowsOf>>
      PROVE  TablesInv'
  <2>1. /\ inSwitch' \in [Tables -> Seq(EntryKeys)]
        /\ \A t \in Tables : inSwitch'[t] = IF t = table THEN es ELSE inSwitch[t]
    BY <1>0, <1>2 DEF Becomes, RowsInv
  <2>2. RowsInv'
    BY <1>2, <2>1 DEF RowsInv, NoIdAsked
  <2> QED
    BY <1>1, <1>2, <2>2
<1>3. CASE InitEntries
  <2>1. /\ NoIdAsked /\ UNCHANGED <<asserted, inSwitch>> /\ rowsOf' = table
        /\ pointers' = [i \in 1..TableSize[firstTable] |-> NoRow]
    BY <1>3 DEF InitEntries
  <2>2. RowsInv'
    BY <1>0, <2>1 DEF RowsInv, NoIdAsked
  <2> QED
    BY <1>1, <2>1, <2>2
<1>4. CASE TableClear
  <2>1. PICK es \in Seq(EntryKeys) : es = <<>>
    BY EmptySeq
  <2>2. Len(es) <= TableSize[table]
    BY <1>0, <2>1, EmptySeq
  <2>3. Becomes(es) /\ NoIdAsked /\ UNCHANGED <<asserted, pointers, rowsOf>>
    BY <1>4, <2>1 DEF TableClear
  <2> QED
    BY <1>2, <2>2, <2>3
<1>5. CASE TableGet
  <2>1. /\ NoIdAsked /\ UNCHANGED <<rowsOf, inSwitch>> /\ pointers # <<>>
        /\ asserted' \in BOOLEAN
        /\ pointers' = pointers \/ (Entered # <<>> /\ pointers' = ReadOver)
    BY <1>5 DEF TableGet
  <2>2. Entered # <<>> => ReadOver \in [1..TableSize[firstTable] -> EntryKeys \cup {NoRow}]
    <3>1. \A i \in 1..Len(Entered) : Entered[i] \in EntryKeys
      BY <1>0, ElementOfSeq
    <3>2. Entered # <<>> => Len(Entered) >= 1
      BY <1>0, EmptySeq
    <3>3. pointers \in [1..TableSize[firstTable] -> EntryKeys \cup {NoRow}]
      BY <2>1 DEF RowsInv
    <3>4. TableSize[firstTable] \in Nat
      BY TablesConstants DEF RowsInv
    <3> QED
      BY <1>0, <3>1, <3>2, <3>3, <3>4 DEF ReadOver
  <2>3. RowsInv'
    BY <2>1, <2>2 DEF RowsInv, NoIdAsked
  <2> QED
    BY <1>1, <2>1, <2>3
<1>6. CASE EntryGet
  <2>1. /\ asserted' = TRUE /\ NoneHanded
        /\ UNCHANGED <<table, firstTable, actions, data, current, rowVars>>
        /\ keys' = keys \/ (NoName \notin DOMAIN keys /\ keys' = Put(keys, NoName, 0))
    BY <1>6 DEF EntryGet
  <2>2. /\ \A k \in DOMAIN keys' : keys'[k] \in Nat
        /\ \A k \in DOMAIN keys : k \in DOMAIN keys' /\ keys'[k] = keys[k]
    BY <2>1 DEF IdsInv, Put
  <2>3. IdsInv' /\ NamedIds'
    BY <2>1, <2>2 DEF IdsInv, CurrentInv, FieldIds, NamedIds, NoneHanded
  <2>4. RowsInv' /\ asserted' \in BOOLEAN
    BY <2>1 DEF RowsInv, rowVars
  <2> QED
    BY <2>3, <2>4
<1>7. ASSUME NEW k \in EntryKeys, AddEntry(k) \/ TableEntryDelete(k)
      PROVE  TablesInv'
  <2>1. CASE AddEntry(k)
    <3> DEFINE es == IF Accepts(k) THEN Append(Entered, k) ELSE Entered
    <3>1. es \in Seq(EntryKeys) /\ Len(es) <= TableSize[table]
      BY <1>0, SwitchEntries DEF Accepts
    <3>2. Becomes(es) /\ NoIdAsked /\ UNCHANGED <<asserted, pointers, rowsOf>>
      BY <2>1 DEF AddEntry
    <3> HIDE DEF es
    <3> QED
      BY <1>2, <3>1, <3>2
  <2>2. CASE TableEntryDelete(k)
    <3> DEFINE es == IF firstTable = table /\ k \in Present THEN Without(k) ELSE Entered
    <3>1. es \in Seq(EntryKeys) /\ Len(es) <= TableSize[table]
      BY <1>0, SwitchEntries
    <3>2. Becomes(es) /\ NoIdAsked /\ UNCHANGED <<asserted, pointers, rowsOf>>
      BY <2>2 DEF TableEntryDelete
    <3> HIDE DEF es
    <3> QED
      BY <1>2, <3>1, <3>2
  <2> QED
    BY <1>7, <2>1, <2>2
<1>8. ASSUME NEW k1 \in EntryKeys, NEW k2 \in EntryKeys, AddEntries(k1, k2)
      PROVE  TablesInv'
  <2> DEFINE one == IF Accepts(k1) THEN Append(Entered, k1) ELSE Entered
             both == IF k1 # k2 /\ Accepts(k2) /\ Len(one) < TableSize[table]
                     THEN Append(one, k2) ELSE one
  <2>1. one \in Seq(EntryKeys) /\ Len(one) <= TableSize[table] /\ Len(one) \in Nat
    BY <1>0, SwitchEntries, LenProperties DEF Accepts
  <2>2. Becomes(both) /\ NoIdAsked /\ UNCHANGED <<asserted, pointers, rowsOf>>
    BY <1>8 DEF AddEntries
  <2> HIDE DEF one
  <2>3. Append(one, k2) \in Seq(EntryKeys) /\ Len(Append(one, k2)) = Len(one) + 1
    BY <2>1, AppendProperties
  <2>4. both \in Seq(EntryKeys) /\ Len(both) <= TableSize[table]
    BY <1>0, <2>1, <2>3
  <2> HIDE DEF both
  <2> QED
    BY <1>2, <2>2, <2>4
<1> QED
  BY <1>3, <1>4, <1>5, <1>6, <1>7, <1>8 DEF Entries

LEMMA TablesStepInv == TablesInv /\ [TablesNext]_tableVars => TablesInv'
<1> SUFFICES ASSUME TablesInv, [TablesNext]_tableVars PROVE TablesInv'
  OBVIOUS
<1>1. CASE Ids
  <2>1. UNCHANGED <<table, firstTable, asserted, rowVars>>
    BY <1>1 DEF Ids
  <2>2. IdsInv' /\ NamedIds'
    <3>1. IdsInv
      BY DEF TablesInv
    <3> QED
      BY <1>1, <2>1, <3>1, ActionStep, KeyStep, BareStep, OfStep DEF Ids
  <2>3. RowsInv' /\ asserted' \in BOOLEAN
    BY <2>1 DEF TablesInv, RowsInv, rowVars
  <2> QED
    BY <2>2, <2>3 DEF TablesInv
<1>2. CASE Entries
  BY <1>2, EntriesStep
<1>3. CASE SetTable
  BY <1>3, SetTableStep
<1>4. CASE UNCHANGED tableVars
  <2>1. IdsInv' /\ NamedIds'
    BY <1>4 DEF TablesInv, tableVars, idVars, IdsInv, CurrentInv, FieldIds, NamedIds, RightIds
  <2>2. RowsInv' /\ asserted' \in BOOLEAN
    BY <1>4 DEF TablesInv, tableVars, rowVars, RowsInv
  <2> QED
    BY <2>1, <2>2 DEF TablesInv
<1> QED
  BY <1>1, <1>2, <1>3, <1>4 DEF TablesNext

LEMMA TablesInvSuffices == TablesInv => TablesTypeOK /\ NamedIds
  BY DEF TablesInv, IdsInv, RowsInv, TablesTypeOK

-------------------------------------------------------------------------------
(* SwitchProgram.                                                          *)

Made3 == [rid : Rids, ports : PortSets]
McFailures == {"group", "node", "edge"}

\* A handle that was kept is 0 or one of the switch's, that of a node the node
\* it was made for.
HandlesInv ==
  /\ DOMAIN multicast_group_hdl \subseteq Gids /\ DOMAIN multicast_node_hdl \subseteq Rids
  /\ \A g \in DOMAIN multicast_group_hdl : multicast_group_hdl[g] \in mgroups \cup {0}
  /\ mnodes \in Seq(Made3)
  /\ \A r \in DOMAIN multicast_node_hdl :
       LET n == multicast_node_hdl[r] IN
       n = 0 \/ (n \in 1..Len(mnodes) /\ mnodes[n].rid = r)

\* While nothing has failed no handle is 0, and the switch has the edges asked
\* for between the handles that are kept for their ends.
EdgesInv ==
  /\ multicast_edge \subseteq (DOMAIN multicast_group_hdl) \X (DOMAIN multicast_node_hdl)
  /\ medges \subseteq mgroups \X (1..Len(mnodes))
  /\ failures \cap McFailures = {} =>
       /\ \A g \in DOMAIN multicast_group_hdl : multicast_group_hdl[g] # 0
       /\ \A r \in DOMAIN multicast_node_hdl : multicast_node_hdl[r] # 0
       /\ medges = {<<multicast_group_hdl[e[1]], multicast_node_hdl[e[2]]>> : e \in multicast_edge}

StartInv ==
  /\ main \in {"test", "P4Program"}
  /\ sstep \in 1..(Len(Steps) + 1) /\ exitCode \in {Unset, 0, 1}
  /\ tables \subseteq SwitchTableNames

ControlInv == StartInv /\ HandlesInv /\ EdgesInv

LEMMA StepsFacts == /\ Len(TestSteps) = 12 /\ Len(ClassSteps) = 6
                    /\ \A i \in 1..12 : TestSteps[i] \notin McFailures
                    /\ \A i \in 1..6 : ClassSteps[i] \notin McFailures
  BY DEF TestSteps, ClassSteps, McFailures

LEMMA ControlInitInv == ProgramInit => ControlInv
<1> SUFFICES ASSUME ProgramInit PROVE ControlInv
  OBVIOUS
<1> USE DEF ProgramInit
<1>1. StartInv
  BY StepsFacts DEF StartInv, Steps
<1>2. HandlesInv
  BY EmptySeq DEF HandlesInv
<1>3. EdgesInv
  BY DEF EdgesInv
<1> QED
  BY <1>1, <1>2, <1>3 DEF ControlInv

\* The start touches no multicast state, and its failures are of other steps.
LEMMA StartingStep ==
  ASSUME ControlInv, Starting
  PROVE  ControlInv'
<1>1. UNCHANGED <<main, tables, multicast_group_hdl, multicast_node_hdl, multicast_edge,
                  mgroups, mnodes, medges>>
  BY DEF Starting, StepDone, StepFails, Goes, mcVars, switchVars
<1>2. /\ sstep \in 1..Len(Steps) /\ sstep' \in {sstep, sstep + 1} /\ Len(Steps) \in Nat
      /\ exitCode' \in {Unset, 0, 1}
      /\ failures' = failures \/ failures' = failures \cup {Steps[sstep]}
  BY StepsFacts DEF ControlInv, StartInv, Starting, StepDone, StepFails, Goes, Doing, Steps
<1>3. Steps[sstep] \notin McFailures
  BY <1>2, StepsFacts DEF Steps
<1>4. StartInv'
  <2>1. Steps' = Steps
    BY <1>1, Zenon DEF Steps
  <2> QED
    BY <1>1, <1>2, <2>1 DEF ControlInv, StartInv
<1>5. failures' \cap McFailures = failures \cap McFailures
  BY <1>2, <1>3
<1>6. HandlesInv'
  BY <1>1 DEF ControlInv, HandlesInv
<1>7. EdgesInv'
  BY <1>1, <1>5 DEF ControlInv, EdgesInv
<1> QED
  BY <1>4, <1>6, <1>7 DEF ControlInv

\* The calls that leave multicast alone.
LEMMA OtherCall ==
  ASSUME ControlInv,
         UNCHANGED <<main, sstep, failures, multicast_group_hdl, multicast_node_hdl,
                     multicast_edge, mgroups, mnodes, medges>>,
         exitCode' \in {Unset, 0, 1}, tables' \subseteq SwitchTableNames
  PROVE  ControlInv'
<1>1. StartInv'
  <2>1. Steps' = Steps
    BY Zenon DEF Steps
  <2> QED
    BY <2>1 DEF ControlInv, StartInv
<1>2. HandlesInv'
  BY DEF ControlInv, HandlesInv
<1>3. EdgesInv'
  <2>1. {<<multicast_group_hdl[e[1]], multicast_node_hdl[e[2]]>> : e \in multicast_edge}'
        = {<<multicast_group_hdl[e[1]], multicast_node_hdl[e[2]]>> : e \in multicast_edge}
    BY Zenon
  <2> QED
    BY <2>1 DEF ControlInv, EdgesInv
<1> QED
  BY <1>1, <1>2, <1>3 DEF ControlInv

LEMMA ConfigStep ==
  ASSUME ControlInv, NEW gid \in Gids, NEW rid \in Rids, NEW ports \in PortSets,
         NEW fails \in SUBSET McFailures, ConfigMulticast(gid, rid, ports, fails)
  PROVE  ControlInv'
<1> DEFINE G == multicast_group_hdl
           N == multicast_node_hdl
           E == multicast_edge
           newGroup == gid \notin DOMAIN G
           newNode == rid \notin DOMAIN N
<1>0. PICK g, n : g = GroupAfter(gid, "group" \in fails) /\ n = NodeAfter(rid, "node" \in fails)
  OBVIOUS
<1>1. /\ multicast_group_hdl' = Keep(G, gid, g)
      /\ multicast_node_hdl' = Keep(N, rid, n)
      /\ multicast_edge' = E \cup {<<gid, rid>>}
      /\ mgroups' = IF newGroup /\ g # 0 THEN mgroups \cup {g} ELSE mgroups
      /\ mnodes' = IF newNode /\ n # 0 THEN Append(mnodes, [rid |-> rid, ports |-> ports])
                   ELSE mnodes
      /\ failures' = failures \cup fails
      /\ UNCHANGED <<main, sstep, exitCode, tables>>
  BY <1>0, Zenon DEF ConfigMulticast, Call
<1>2. medges' = IF <<gid, rid>> \notin E /\ g # 0 /\ n # 0 /\ "edge" \notin fails
                THEN medges \cup {<<g, n>>} ELSE medges
  <2>1. EdgeAsked(gid, rid, g, n) = <<g, n>> /\ <<g, n>>[1] = g /\ <<g, n>>[2] = n
    BY DEF EdgeAsked
  <2>2. medges' = IF <<gid, rid>> \notin E /\ (EdgeAsked(gid, rid, g, n)[1] # 0
                     /\ EdgeAsked(gid, rid, g, n)[2] # 0 /\ "edge" \notin fails)
                  THEN medges \cup {EdgeAsked(gid, rid, g, n)} ELSE medges
    BY <1>0, Zenon DEF ConfigMulticast
  <2> QED
    BY <2>1, <2>2
<1>3. /\ \A i \in DOMAIN G : G[i] \in mgroups \cup {0}
      /\ mnodes \in Seq(Made3) /\ Len(mnodes) \in Nat
      /\ \A r \in DOMAIN N : N[r] = 0 \/ (N[r] \in 1..Len(mnodes) /\ mnodes[N[r]].rid = r)
      /\ DOMAIN G \subseteq Gids /\ DOMAIN N \subseteq Rids
  BY LenProperties DEF ControlInv, HandlesInv
<1>4. gid \in Nat
  BY ProgramAssumption
<1>5. /\ newGroup => g = 0 \/ g = gid + 1
      /\ ~newGroup => g = G[gid]
      /\ "group" \notin fails /\ newGroup => g # 0
      /\ g = 0 \/ g \in mgroups'
  BY <1>0, <1>1, <1>3, <1>4 DEF GroupAfter
<1>6. /\ newNode => n = 0 \/ n = Len(mnodes) + 1
      /\ ~newNode => n = N[rid]
      /\ "node" \notin fails /\ newNode => n # 0
  BY <1>0, <1>3 DEF NodeAfter
<1>7. /\ mnodes' \in Seq(Made3) /\ Len(mnodes) <= Len(mnodes') /\ Len(mnodes') \in Nat
      /\ \A i \in 1..Len(mnodes) : mnodes'[i] = mnodes[i]
      /\ n = 0 \/ (n \in 1..Len(mnodes') /\ mnodes'[n].rid = rid)
  <2> DEFINE new == [rid |-> rid, ports |-> ports]
             S == Append(mnodes, new)
  <2>1. new \in Made3 /\ new.rid = rid
    BY DEF Made3
  <2> HIDE DEF new
  <2>2. /\ S \in Seq(Made3) /\ Len(S) = Len(mnodes) + 1
        /\ \A i \in 1..Len(mnodes) : S[i] = mnodes[i]
        /\ S[Len(mnodes) + 1] = new
    BY <1>3, <2>1, AppendProperties
  <2>3. mnodes' = IF newNode /\ n # 0 THEN S ELSE mnodes
    BY <1>1 DEF new
  <2> HIDE DEF S
  <2>4. CASE newNode /\ n # 0
    BY <1>3, <1>6, <2>1, <2>2, <2>3, <2>4
  <2>5. CASE ~(newNode /\ n # 0)
    BY <1>3, <1>6, <2>3, <2>5
  <2> QED
    BY <2>4, <2>5
<1>8. /\ DOMAIN G' = DOMAIN G \cup {gid} /\ DOMAIN N' = DOMAIN N \cup {rid}
      /\ G'[gid] = g /\ N'[rid] = n
      /\ \A i \in DOMAIN G : G'[i] = G[i]
      /\ \A r \in DOMAIN N : N'[r] = N[r]
  BY <1>1, <1>5, <1>6 DEF Keep
<1>9. StartInv'
  <2>1. Steps' = Steps
    BY <1>1, Zenon DEF Steps
  <2> QED
    BY <1>1, <2>1 DEF ControlInv, StartInv
<1>10. HandlesInv'
  <2>1. \A i \in DOMAIN G' : G'[i] \in mgroups' \cup {0}
    <3>1. mgroups \subseteq mgroups'
      BY <1>1
    <3> QED
      BY <1>3, <1>5, <1>8, <3>1
  <2>2. ASSUME NEW r \in DOMAIN N'
        PROVE  N'[r] = 0 \/ (N'[r] \in 1..Len(mnodes') /\ mnodes'[N'[r]].rid = r)
    <3>1. CASE r = rid
      BY <1>7, <1>8, <3>1
    <3>2. CASE r \in DOMAIN N
      <4>1. N'[r] = N[r]
        BY <1>8, <3>2
      <4>2. CASE N[r] = 0
        BY <4>1, <4>2
      <4>3. CASE N[r] \in 1..Len(mnodes) /\ mnodes[N[r]].rid = r
        BY <1>3, <1>7, <4>1, <4>3
      <4> QED
        BY <1>3, <3>2, <4>2, <4>3
    <3> QED
      BY <1>8, <3>1, <3>2
  <2> QED
    BY <1>3, <1>7, <1>8, <2>1, <2>2 DEF HandlesInv
<1>11. EdgesInv'
  <2>1. multicast_edge' \subseteq (DOMAIN G') \X (DOMAIN N')
    <3>1. E \subseteq (DOMAIN G) \X (DOMAIN N)
      BY DEF ControlInv, EdgesInv
    <3>2. <<gid, rid>> \in (DOMAIN G') \X (DOMAIN N')
      <4>1. gid \in DOMAIN G' /\ rid \in DOMAIN N'
        BY <1>8
      <4> QED
        BY <4>1, PairIn, Zenon
    <3>3. E \subseteq (DOMAIN G') \X (DOMAIN N')
      <4> SUFFICES ASSUME NEW e \in E PROVE e \in (DOMAIN G') \X (DOMAIN N')
        OBVIOUS
      <4>1. e[1] \in DOMAIN G /\ e[2] \in DOMAIN N /\ e = <<e[1], e[2]>>
        BY <3>1, PairParts, Zenon
      <4>2. e[1] \in DOMAIN G' /\ e[2] \in DOMAIN N'
        BY <1>8, <4>1
      <4>3. <<e[1], e[2]>> \in (DOMAIN G') \X (DOMAIN N')
        BY <4>2, PairIn, Zenon
      <4> QED
        BY <4>1, <4>3, Zenon
    <3> QED
      BY <1>1, <3>2, <3>3
  <2>2. medges' \subseteq mgroups' \X (1..Len(mnodes'))
    <3>1. medges \subseteq mgroups' \X (1..Len(mnodes'))
      <4>1. mgroups \subseteq mgroups' /\ 1..Len(mnodes) \subseteq 1..Len(mnodes')
        BY <1>1, <1>3, <1>7
      <4>2. medges \subseteq mgroups \X (1..Len(mnodes))
        BY DEF ControlInv, EdgesInv
      <4> QED
        BY <4>1, <4>2
    <3>2. g # 0 /\ n # 0 => <<g, n>> \in mgroups' \X (1..Len(mnodes'))
      BY <1>5, <1>7
    <3> QED
      BY <1>2, <3>1, <3>2
  <2>3. ASSUME failures' \cap McFailures = {}
        PROVE  /\ \A i \in DOMAIN G' : G'[i] # 0
               /\ \A r \in DOMAIN N' : N'[r] # 0
               /\ medges' = {<<G'[e[1]], N'[e[2]]>> : e \in multicast_edge'}
    <3>1. failures \cap McFailures = {} /\ fails = {}
      BY <1>1, <2>3
    <3>2. /\ \A i \in DOMAIN G : G[i] # 0
          /\ \A r \in DOMAIN N : N[r] # 0
          /\ medges = {<<G[e[1]], N[e[2]]>> : e \in E}
          /\ E \subseteq (DOMAIN G) \X (DOMAIN N)
      BY <3>1 DEF ControlInv, EdgesInv
    <3>3. g # 0 /\ n # 0
      BY <1>5, <1>6, <3>1, <3>2
    <3>4. \A e \in E : <<G'[e[1]], N'[e[2]]>> = <<G[e[1]], N[e[2]]>>
      <4> TAKE e \in E
      <4>1. e \in (DOMAIN G) \X (DOMAIN N)
        BY <3>2
      <4>2. e[1] \in DOMAIN G /\ e[2] \in DOMAIN N
        BY <4>1, PairParts, Zenon
      <4> QED
        BY <1>8, <4>2
    <3>5. {<<G'[e[1]], N'[e[2]]>> : e \in multicast_edge'} = medges \cup {<<g, n>>}
      <4> DEFINE at(e) == <<G'[e[1]], N'[e[2]]>>
      <4>1. \A e \in E : at(e) \in medges
        BY <3>2, <3>4
      <4>2. \A m \in medges : \E e \in E : m = at(e)
        BY <3>2, <3>4
      <4>3. at(<<gid, rid>>) = <<g, n>>
        BY <1>8
      <4> HIDE DEF at
      <4>4. {at(e) : e \in multicast_edge'} = medges \cup {<<g, n>>}
        BY <1>1, <4>1, <4>2, <4>3
      <4> QED
        BY <4>4 DEF at
    <3>6. <<gid, rid>> \in E => <<g, n>> \in medges
      <4> HAVE <<gid, rid>> \in E
      <4>1. <<gid, rid>> \in (DOMAIN G) \X (DOMAIN N)
        BY <3>2
      <4>2. gid \in DOMAIN G /\ rid \in DOMAIN N
        BY <4>1, PairIn, Zenon
      <4>4. g = G[gid] /\ n = N[rid]
        BY <1>5, <1>6, <4>2
      <4>3. <<G[<<gid, rid>>[1]], N[<<gid, rid>>[2]]>> = <<g, n>>
        BY <4>4
      <4> QED
        BY <3>2, <4>3
    <3>7. medges' = medges \cup {<<g, n>>}
      BY <1>2, <3>1, <3>3, <3>6
    <3> QED
      BY <1>8, <3>2, <3>3, <3>5, <3>7
  <2> QED
    BY <2>1, <2>2, <2>3 DEF EdgesInv
<1> QED
  BY <1>9, <1>10, <1>11 DEF ControlInv

LEMMA ControlStepInv == ControlInv /\ [ProgramNext]_programVars => ControlInv'
<1> SUFFICES ASSUME ControlInv, [ProgramNext]_programVars PROVE ControlInv'
  OBVIOUS
<1>0. tables \subseteq SwitchTableNames /\ exitCode \in {Unset, 0, 1}
  BY DEF ControlInv, StartInv
<1>1. CASE Starting
  BY <1>1, StartingStep
<1>2. ASSUME NEW t \in TableNames, GetTable(t) PROVE ControlInv'
  <2>1. /\ UNCHANGED <<main, sstep, failures, exitCode, multicast_group_hdl, multicast_node_hdl,
                       multicast_edge, mgroups, mnodes, medges>>
        /\ tables' \subseteq SwitchTableNames
    BY <1>0, <1>2 DEF GetTable, Call, mcVars, switchVars
  <2> QED
    BY <1>0, <2>1, OtherCall
<1>3. CASE InitAllTables
  <2>1. /\ UNCHANGED <<main, sstep, failures, multicast_group_hdl, multicast_node_hdl,
                       multicast_edge, mgroups, mnodes, medges>>
        /\ tables' \subseteq SwitchTableNames /\ exitCode' \in {Unset, 0, 1}
    BY <1>0, <1>3 DEF InitAllTables, Call, mcVars, switchVars
  <2> QED
    BY <2>1, OtherCall
<1>4. CASE ConfigMirroring
  <2>1. /\ UNCHANGED <<main, sstep, failures, multicast_group_hdl, multicast_node_hdl,
                       multicast_edge, mgroups, mnodes, medges>>
        /\ tables' \subseteq SwitchTableNames /\ exitCode' \in {Unset, 0, 1}
    BY <1>0, <1>4 DEF ConfigMirroring, Call, mcVars, switchVars
  <2> QED
    BY <2>1, OtherCall
<1>5. CASE Destroy
  <2>1. /\ UNCHANGED <<main, sstep, failures, multicast_group_hdl, multicast_node_hdl,
                       multicast_edge, mgroups, mnodes, medges>>
        /\ tables' \subseteq SwitchTableNames /\ exitCode' \in {Unset, 0, 1}
    BY <1>0, <1>5 DEF Destroy, mcVars, switchVars
  <2> QED
    BY <2>1, OtherCall
<1>6. ASSUME NEW p, PortAdd(p) PROVE ControlInv'
  <2>1. /\ UNCHANGED <<main, sstep, failures, multicast_group_hdl, multicast_node_hdl,
                       multicast_edge, mgroups, mnodes, medges>>
        /\ tables' \subseteq SwitchTableNames /\ exitCode' \in {Unset, 0, 1}
    BY <1>0, <1>6 DEF PortAdd, Call, mcVars
  <2> QED
    BY <2>1, OtherCall
<1>7. CASE UNCHANGED programVars
  <2>1. /\ UNCHANGED <<main, sstep, failures, multicast_group_hdl, multicast_node_hdl,
                       multicast_edge, mgroups, mnodes, medges>>
        /\ tables' \subseteq SwitchTableNames /\ exitCode' \in {Unset, 0, 1}
    BY <1>0, <1>7 DEF programVars, startVars, mcVars, switchVars
  <2> QED
    BY <2>1, OtherCall
<1> QED
  BY <1>1, <1>2, <1>3, <1>4, <1>5, <1>6, <1>7, ConfigStep DEF ProgramNext, Calls, McFailures

LEMMA ControlInvSuffices == ControlInv => ProgramTypeOK /\ EdgesInSwitch
<1> SUFFICES ASSUME ControlInv PROVE ProgramTypeOK /\ EdgesInSwitch
  OBVIOUS
<1>1. mnodes \in Seq(Made3) /\ DOMAIN mnodes = 1..Len(mnodes)
  BY LenProperties DEF ControlInv, HandlesInv
<1>2. ProgramTypeOK
  BY <1>1 DEF ControlInv, StartInv, HandlesInv, EdgesInv, ProgramTypeOK
<1>3. ASSUME failures \cap McFailures = {}, NEW e \in medges, NEW r \in Rids,
             r \in DOMAIN multicast_node_hdl, multicast_node_hdl[r] = e[2]
      PROVE  mnodes[e[2]].rid = r
  BY <1>3 DEF ControlInv, HandlesInv, EdgesInv
<1>4. failures \cap McFailures = {} =>
        medges = {<<multicast_group_hdl[e[1]], multicast_node_hdl[e[2]]>> : e \in multicast_edge}
  BY DEF ControlInv, EdgesInv
<1> QED
  BY <1>2, <1>3, <1>4 DEF EdgesInSwitch, McFailures

-------------------------------------------------------------------------------
(* Division with remainder.                                                *)

LEMMA DivOf ==
  ASSUME NEW q \in Nat, NEW m \in Nat \ {0}, NEW r \in 0..(m - 1)
  PROVE  (m * q + r) \div m = q /\ (m * q + r) % m = r
<1> DEFINE n == m * q + r
<1>1. n \in Nat
  OBVIOUS
<1>2. n = m * q + r => n \div m = q /\ n % m = r
  <2> HIDE DEF n
  <2> QED
    BY <1>1
<1> QED
  BY <1>2

\* A number of two digits, of which the lower one is below a and the higher one
\* below b.
LEMMA TwoDigits ==
  ASSUME NEW a \in Nat \ {0}, NEW b \in Nat \ {0}, NEW x \in 0..(a - 1), NEW y \in 0..(b - 1)
  PROVE  a * y + x \in 0..(a * b - 1) /\ a * b \in Nat \ {0}
<1>1. a * (y + 1) <= a * b
  <2>1. PICK z \in Nat : b = (y + 1) + z
    <3>1. b - (y + 1) \in Nat /\ b = (y + 1) + (b - (y + 1))
      OBVIOUS
    <3> QED
      BY <3>1
  <2>2. a * b = a * (y + 1) + a * z /\ a * z \in Nat
    BY <2>1
  <2>3. a * (y + 1) \in Nat
    OBVIOUS
  <2> QED
    BY <2>2, <2>3
<1>2. a * (y + 1) = a * y + a /\ a * y \in Nat /\ a * b \in Nat
  OBVIOUS
<1> QED
  BY <1>1, <1>2

LEMMA Distributes ==
  ASSUME NEW a \in Nat, NEW x \in Nat, NEW y \in Nat
  PROVE  a * (x + y) = a * x + a * y /\ a * x \in Nat /\ a * y \in Nat
  OBVIOUS

LEMMA DivDiv ==
  ASSUME NEW n \in Nat, NEW a \in Nat \ {0}, NEW b \in Nat \ {0}
  PROVE  n \div (a * b) = (n \div a) \div b
<1> DEFINE q == n \div a
           r == n % a
           d == q \div b
           s == q % b
<1>1. q \in Nat /\ r \in 0..(a - 1) /\ n = a * q + r
  BY DivMod
<1>2. d \in Nat /\ s \in 0..(b - 1) /\ q = b * d + s
  BY <1>1, DivMod
<1> HIDE DEF q, r, d, s
<1>3. a * s + r \in 0..(a * b - 1) /\ a * b \in Nat \ {0}
  BY <1>1, <1>2, TwoDigits
<1>4. n = (a * b) * d + (a * s + r)
  <2>1. a * q = a * (b * d) + a * s
    <3>1. b * d \in Nat
      BY <1>2
    <3> QED
      BY <1>2, <3>1, Distributes
  <2>2. a * (b * d) = (a * b) * d
    BY <1>2
  <2>3. PICK x \in Nat, y \in Nat : x = a * (b * d) /\ y = a * s
    <3>1. b * d \in Nat /\ s \in Nat
      BY <1>2
    <3>2. a * (b * d) \in Nat /\ a * s \in Nat
      BY <3>1
    <3> QED
      BY <3>2
  <2>4. n = (x + y) + r
    BY <1>1, <2>1, <2>3
  <2>5. (x + y) + r = x + (y + r)
    BY <1>1, <2>3
  <2> QED
    BY <2>2, <2>3, <2>4, <2>5
<1>5. n \div (a * b) = d
  BY <1>2, <1>3, <1>4, DivOf
<1> QED
  BY <1>5 DEF d, q

-------------------------------------------------------------------------------
(* SgdWeave: sizes.                                                        *)

\* What the program was made for.
WeaveArgs ==
  /\ <<wnSamples, wnFeatures, wnBits>> \in Datasets
  /\ WORKER_NUM \in Workers /\ worker_index \in 0..(WORKER_NUM - 1)

PairsOfBits == wnBits \div 2

LEMMA RoundUpFacts ==
  ASSUME NEW n \in Nat \ {0}, NEW m \in Nat \ {0}
  PROVE  /\ RoundUp(n, m) \div m \in Nat \ {0}
         /\ RoundUp(n, m) = m * (RoundUp(n, m) \div m)
         /\ n <= RoundUp(n, m) /\ RoundUp(n, m) < n + m
<1> DEFINE q == (n + m - 1) \div m
<1>1. q \in Nat /\ (n + m - 1) % m \in 0..(m - 1) /\ n + m - 1 = m * q + ((n + m - 1) % m)
  <2>1. n + m - 1 \in Nat
    OBVIOUS
  <2> QED
    BY <2>1, DivMod
<1> HIDE DEF q
<1>2. RoundUp(n, m) = m * q + 0 /\ m * q \in Nat
  <2>1. q * m = m * q /\ m * q \in Nat
    BY <1>1
  <2> QED
    BY <2>1 DEF RoundUp, q
<1>3. RoundUp(n, m) \div m = q
  BY <1>1, <1>2, DivOf
<1>4. q # 0
  BY <1>1, <1>2
<1> QED
  BY <1>1, <1>2, <1>3, <1>4

LEMMA WeaveSizes ==
  ASSUME WeaveArgs
  PROVE  /\ wnSamples \in Nat \ {0} /\ wnFeatures \in Nat \ {0}
         /\ PairsOfBits \in 1..16 /\ wnBits = 2 * PairsOfBits
         /\ WORKER_NUM \in Nat \ {0} /\ worker_index \in 0..(WORKER_NUM - 1)
         /\ Groups \in Nat \ {0} /\ Chunks \in Nat \ {0} /\ dimension_num \in Nat \ {0}
         /\ Steps64 \in Nat \ {0}
         /\ numFeatures_algin = 64 * Chunks
         /\ \A c \in Nat : 64 * c < wnFeatures <=> c < Chunks
         /\ Chunks <= Steps64 * (8 * WORKER_NUM)
<1>1. <<wnSamples, wnFeatures, wnBits>> \in (Nat \ {0}) \X (Nat \ {0}) \X {2 * b : b \in 1..16}
  BY WeaveAssumption DEF WeaveArgs
<1>2. wnSamples \in Nat \ {0} /\ wnFeatures \in Nat \ {0} /\ wnBits \in {2 * b : b \in 1..16}
  BY <1>1
<1>3. PICK b \in 1..16 : wnBits = 2 * b
  BY <1>2
<1>4. PairsOfBits \in 1..16 /\ wnBits = 2 * PairsOfBits
  BY <1>3 DEF PairsOfBits
<1>5. WORKER_NUM \in Nat \ {0} /\ worker_index \in 0..(WORKER_NUM - 1)
  BY WeaveAssumption DEF WeaveArgs
<1>6. Groups \in Nat \ {0}
  <2>1. NUM_BANKS \in Nat \ {0}
    BY DEF NUM_BANKS
  <2> QED
    BY <1>2, <2>1, RoundUpFacts DEF Groups
<1>7. /\ Chunks \in Nat \ {0} /\ numFeatures_algin = 64 * Chunks
      /\ wnFeatures <= 64 * Chunks /\ 64 * Chunks < wnFeatures + 64
  <2>1. PICK t \in Nat \ {0} : t = 64
    OBVIOUS
  <2>2. /\ RoundUp(wnFeatures, t) \div t \in Nat \ {0}
        /\ RoundUp(wnFeatures, t) = t * (RoundUp(wnFeatures, t) \div t)
        /\ wnFeatures <= RoundUp(wnFeatures, t) /\ RoundUp(wnFeatures, t) < wnFeatures + t
    BY <1>2, RoundUpFacts
  <2>3. Chunks = RoundUp(wnFeatures, t) \div t /\ numFeatures_algin = RoundUp(wnFeatures, t)
    BY <2>1 DEF Chunks, numFeatures_algin, BITS_OF_BANK
  <2> QED
    BY <2>1, <2>2, <2>3
<1>8. \A c \in Nat : 64 * c < wnFeatures <=> c < Chunks
  BY <1>2, <1>7
<1>9. PICK w \in Nat \ {0} : /\ w = BITS_OF_BANK * ENGINE_NUM * WORKER_NUM * 2
                              /\ w = 1024 * WORKER_NUM
  BY <1>5 DEF BITS_OF_BANK, ENGINE_NUM
<1>10. dimension_num \in Nat \ {0} /\ wnFeatures <= w * dimension_num
  <2>1. dimension_num = RoundUp(wnFeatures, w) \div w
    BY <1>9 DEF dimension_num
  <2> QED
    BY <1>2, <2>1, RoundUpFacts
<1>11. Steps64 \in Nat \ {0} /\ Chunks <= Steps64 * (8 * WORKER_NUM)
  <2>1. PICK p \in Nat : p = WORKER_NUM * dimension_num
    BY <1>5, <1>10
  <2>2. w * dimension_num = 1024 * p
    BY <1>5, <1>9, <1>10, <2>1
  <2>3. Steps64 * (8 * WORKER_NUM) = 16 * p
    <3>1. (2 * dimension_num) * (8 * WORKER_NUM) = 16 * (WORKER_NUM * dimension_num)
      BY <1>5, <1>10
    <3> QED
      BY <2>1, <3>1 DEF Steps64
  <2>4. Chunks <= 16 * p
    BY <1>2, <1>7, <1>10, <2>2
  <2> QED
    BY <1>10, <2>3, <2>4 DEF Steps64
<1> QED
  BY <1>2, <1>4, <1>5, <1>6, <1>7, <1>8, <1>10, <1>11

-------------------------------------------------------------------------------
(* SgdWeave: the six digits of the number of a half line.                  *)

\* From the innermost loop to the outermost: which bit of the pair, step of the
\* engine, group, half, engine and pair of bits.
LowBit(n)   == n % 2
StepOf(n)   == (n \div 2) % Steps64
GroupOf(n)  == (n \div (2 * Steps64)) % Groups
HalfOf(n)   == (n \div (2 * Steps64 * Groups)) % 2
EngineOf(n) == (n \div (4 * Steps64 * Groups)) % ENGINE_NUM
PairNo(n)   == n \div (4 * Steps64 * Groups * ENGINE_NUM)

Number(e, c, k, h, j, p) ==
  2 * (Steps64 * (Groups * (2 * (8 * p + j) + h) + k) + c) + e

LEMMA QuotientChain ==
  ASSUME WeaveArgs, NEW n \in Nat
  PROVE  /\ n \div (2 * Steps64) = (n \div 2) \div Steps64
         /\ n \div (2 * Steps64 * Groups) = ((n \div 2) \div Steps64) \div Groups
         /\ n \div (4 * Steps64 * Groups) = (((n \div 2) \div Steps64) \div Groups) \div 2
         /\ n \div (4 * Steps64 * Groups * ENGINE_NUM)
              = ((((n \div 2) \div Steps64) \div Groups) \div 2) \div 8
<1>1. Steps64 \in Nat \ {0} /\ Groups \in Nat \ {0}
  BY WeaveSizes
<1>2. PICK a \in Nat \ {0} : a = 2 * Steps64
  BY <1>1
<1>3. PICK b \in Nat \ {0} : b = a * Groups
  BY <1>1, <1>2, TwoDigits
<1>4. 4 * Steps64 * Groups = b * 2
  <2>1. PICK x \in Nat : x = Steps64 * Groups
    BY <1>1
  <2>2. b = 2 * x
    BY <1>1, <1>2, <1>3, <2>1
  <2>3. 4 * Steps64 * Groups = 4 * x
    BY <1>1, <2>1
  <2> QED
    BY <2>1, <2>2, <2>3
<1>5. n \div a = (n \div 2) \div Steps64
  <2>1. PICK t \in Nat \ {0} : t = 2
    OBVIOUS
  <2>2. n \div (t * Steps64) = (n \div t) \div Steps64
    BY <1>1, DivDiv
  <2> QED
    BY <1>2, <2>1, <2>2
<1>6. n \div b = (n \div a) \div Groups
  <2>1. PICK t \in Nat \ {0} : t = Groups
    BY <1>1
  <2>2. n \div (a * t) = (n \div a) \div t
    BY DivDiv
  <2> QED
    BY <1>3, <2>1, <2>2
<1>7. n \div (b * 2) = (n \div b) \div 2
  BY <1>3, DivDiv
<1>8. PICK d \in Nat \ {0} : d = b * 2
  BY <1>3
<1>9. n \div (d * 8) = (n \div d) \div 8
  <2>1. PICK t \in Nat \ {0} : t = 8
    OBVIOUS
  <2>2. n \div (d * t) = (n \div d) \div t
    BY DivDiv
  <2> QED
    BY <2>1, <2>2
<1> QED
  BY <1>2, <1>3, <1>4, <1>5, <1>6, <1>7, <1>8, <1>9 DEF ENGINE_NUM

DigitsAre(n, e, c, k, h, j, p) ==
  /\ n \in Nat /\ LowBit(n) = e /\ StepOf(n) = c /\ GroupOf(n) = k /\ HalfOf(n) = h
  /\ EngineOf(n) = j /\ PairNo(n) = p

LEMMA DigitsOfNumber ==
  ASSUME WeaveArgs,
         NEW e \in Nat, NEW c \in Nat, NEW k \in Nat, NEW h \in Nat, NEW j \in Nat, NEW p \in Nat,
         e < 2, c < Steps64, k < Groups, h < 2, j < 8
  PROVE  DigitsAre(Number(e, c, k, h, j, p), e, c, k, h, j, p)
<1>1. Steps64 \in Nat \ {0} /\ Groups \in Nat \ {0}
  BY WeaveSizes
<1>2. PICK x \in Nat : x = 8 * p + j
  OBVIOUS
<1>3. PICK y \in Nat : y = 2 * x + h
  OBVIOUS
<1>4. PICK z \in Nat : z = Groups * y + k
  BY <1>1
<1>5. PICK u \in Nat : u = Steps64 * z + c
  BY <1>1
<1>6. PICK n \in Nat : n = 2 * u + e
  OBVIOUS
<1>7. n = Number(e, c, k, h, j, p)
  BY <1>2, <1>3, <1>4, <1>5, <1>6 DEF Number
<1>8. n \div 2 = u /\ n % 2 = e
  BY <1>6
<1>9. u \div Steps64 = z /\ u % Steps64 = c
  BY <1>1, <1>5, DivOf
<1>10. z \div Groups = y /\ z % Groups = k
  BY <1>1, <1>4, DivOf
<1>11. y \div 2 = x /\ y % 2 = h /\ x \div 8 = p /\ x % 8 = j
  BY <1>2, <1>3
<1>12. /\ LowBit(n) = e /\ StepOf(n) = c /\ GroupOf(n) = k /\ HalfOf(n) = h /\ EngineOf(n) = j
       /\ PairNo(n) = p
  BY <1>8, <1>9, <1>10, <1>11, QuotientChain
     DEF LowBit, StepOf, GroupOf, HalfOf, EngineOf, PairNo, ENGINE_NUM
<1> QED
  BY <1>7, <1>12 DEF DigitsAre

LEMMA NumberOfDigits ==
  ASSUME WeaveArgs, NEW n \in Nat
  PROVE  /\ LowBit(n) \in 0..1 /\ StepOf(n) \in 0..(Steps64 - 1) /\ GroupOf(n) \in 0..(Groups - 1)
         /\ HalfOf(n) \in 0..1 /\ EngineOf(n) \in 0..7 /\ PairNo(n) \in Nat
         /\ n = Number(LowBit(n), StepOf(n), GroupOf(n), HalfOf(n), EngineOf(n), PairNo(n))
<1>1. Steps64 \in Nat \ {0} /\ Groups \in Nat \ {0}
  BY WeaveSizes
<1>2. PICK u \in Nat : u = n \div 2 /\ n % 2 \in 0..1 /\ n = 2 * u + (n % 2)
  OBVIOUS
<1>3. PICK z \in Nat : z = u \div Steps64 /\ u % Steps64 \in 0..(Steps64 - 1)
                       /\ u = Steps64 * z + (u % Steps64)
  BY <1>1, DivMod
<1>4. PICK y \in Nat : y = z \div Groups /\ z % Groups \in 0..(Groups - 1)
                       /\ z = Groups * y + (z % Groups)
  BY <1>1, DivMod
<1>5. PICK x \in Nat : x = y \div 2 /\ y % 2 \in 0..1 /\ y = 2 * x + (y % 2)
  OBVIOUS
<1>6. PICK p \in Nat : p = x \div 8 /\ x % 8 \in 0..7 /\ x = 8 * p + (x % 8)
  OBVIOUS
<1>7. /\ LowBit(n) = n % 2 /\ StepOf(n) = u % Steps64 /\ GroupOf(n) = z % Groups
      /\ HalfOf(n) = y % 2 /\ EngineOf(n) = x % 8 /\ PairNo(n) = p
  BY <1>2, <1>3, <1>4, <1>5, <1>6, QuotientChain
     DEF LowBit, StepOf, GroupOf, HalfOf, EngineOf, PairNo, ENGINE_NUM
<1>8. n = Number(n % 2, u % Steps64, z % Groups, y % 2, x % 8, p)
  <2>1. PICK e \in Nat, c \in Nat, k \in Nat, h \in Nat, j \in Nat :
          e = n % 2 /\ c = u % Steps64 /\ k = z % Groups /\ h = y % 2 /\ j = x % 8
    <3>1. n % 2 \in Nat /\ y % 2 \in Nat /\ x % 8 \in Nat
      BY <1>2, <1>5, <1>6
    <3>2. u % Steps64 \in Nat
      BY <1>1, <1>3
    <3>3. z % Groups \in Nat
      BY <1>1, <1>4
    <3> QED
      BY <3>1, <3>2, <3>3
  <2>2. Number(e, c, k, h, j, p) = 2 * (Steps64 * (Groups * (2 * x + h) + k) + c) + e
    BY <1>6, <2>1 DEF Number
  <2>3. Number(e, c, k, h, j, p) = 2 * (Steps64 * (Groups * y + k) + c) + e
    BY <1>5, <2>1, <2>2
  <2>4. Number(e, c, k, h, j, p) = 2 * (Steps64 * z + c) + e
    BY <1>4, <2>1, <2>3
  <2>5. Number(e, c, k, h, j, p) = 2 * u + e
    BY <1>3, <2>1, <2>4
  <2> QED
    BY <1>2, <2>1, <2>5
<1> QED
  BY <1>2, <1>3, <1>4, <1>5, <1>6, <1>7, <1>8

\* The pairs of bits are those of the program just for the numbers below HalfLines.
LEMMA NumbersBelow ==
  ASSUME WeaveArgs, NEW n \in Nat
  PROVE  n \in 0..(HalfLines - 1) <=> PairNo(n) \in 0..(PairsOfBits - 1)
<1>1. Steps64 \in Nat \ {0} /\ Groups \in Nat \ {0} /\ PairsOfBits \in 1..16
  BY WeaveSizes
<1>2. PICK a \in Nat \ {0} : a = (4 * Steps64) * Groups
  <2>1. 4 * Steps64 \in Nat \ {0}
    BY <1>1
  <2> QED
    BY <1>1, <2>1, TwoDigits
<1>3. PICK m \in Nat \ {0} : m = 4 * Steps64 * Groups * ENGINE_NUM
  BY <1>2 DEF ENGINE_NUM
<1>4. HalfLines = m * PairsOfBits
  BY <1>3 DEF HalfLines, PairsOfBits
<1>5. PICK q \in Nat, r \in 0..(m - 1) : q = n \div m /\ n = m * q + r
  <2>1. n \div m \in Nat /\ n % m \in 0..(m - 1) /\ n = m * (n \div m) + (n % m)
    BY DivMod
  <2> QED
    BY <2>1
<1>6. PairNo(n) = q
  BY <1>3, <1>5 DEF PairNo
<1>7. q \in 0..(PairsOfBits - 1) => n \in 0..(m * PairsOfBits - 1)
  <2> SUFFICES ASSUME q \in 0..(PairsOfBits - 1)
               PROVE  n \in 0..(m * PairsOfBits - 1)
    OBVIOUS
  <2>1. PICK t \in Nat \ {0} : t = PairsOfBits
    BY <1>1
  <2>2. m * q + r \in 0..(m * t - 1)
    BY <1>5, <2>1, TwoDigits
  <2> QED
    BY <1>5, <2>1, <2>2
<1>8. ASSUME n < m * PairsOfBits, PairsOfBits <= q
      PROVE  FALSE
  <2>1. PICK d \in Nat : q = PairsOfBits + d
    <3>1. q - PairsOfBits \in Nat /\ q = PairsOfBits + (q - PairsOfBits)
      BY <1>1, <1>8
    <3> QED
      BY <3>1
  <2>2. m * q = m * PairsOfBits + m * d /\ m * PairsOfBits \in Nat /\ m * d \in Nat
    BY <1>1, <2>1, Distributes
  <2> QED
    BY <1>5, <1>8, <2>2
<1>9. m * PairsOfBits \in Nat
  BY <1>1
<1> QED
  BY <1>1, <1>4, <1>6, <1>7, <1>8, <1>9

-------------------------------------------------------------------------------
(* SgdWeave: what a half line holds.                                       *)

ChunkOf(n) == worker_index + WORKER_NUM * (8 * StepOf(n) + EngineOf(n))
BitOf(n) == 2 * PairNo(n) + (1 - LowBit(n))

\* Line 32 * (Chunks * g + c) + b of the source is bit b of chunk c of group g.
LEMMA SourceLine ==
  ASSUME WeaveArgs, NEW g \in 0..(Groups - 1), NEW c \in 0..(Chunks - 1), NEW b \in 0..31
  PROVE  /\ OnSample(32 * (Chunks * g + c) + b) = [group |-> g, chunk |-> c, bit |-> b]
         /\ 32 * (Chunks * g + c) + b < SourceLines
<1>1. Groups \in Nat \ {0} /\ Chunks \in Nat \ {0}
  BY WeaveSizes
<1>2. Chunks * g + c \in 0..(Chunks * Groups - 1) /\ Chunks * Groups \in Nat \ {0}
  BY <1>1, TwoDigits
<1>3. PICK m \in Nat : m = Chunks * g + c
  BY <1>2
<1>4. PICK n \in Nat : n = 32 * m + b
  BY <1>3
<1>5. n \div 32 = m /\ n % 32 = b
  BY <1>4
<1>6. m \div Chunks = g /\ m % Chunks = c
  BY <1>1, <1>3, DivOf
<1>7. n \div (32 * Chunks) = g
  <2>1. PICK t \in Nat \ {0} : t = 32
    OBVIOUS
  <2>2. n \div (t * Chunks) = (n \div t) \div Chunks
    BY <1>1, DivDiv
  <2> QED
    BY <1>5, <1>6, <2>1, <2>2
<1>8. n < SourceLines
  <2>1. PICK x \in Nat : x = Chunks * Groups
    BY <1>2
  <2>2. SourceLines = 32 * x
    BY <1>1, <2>1 DEF SourceLines
  <2>3. m <= x - 1
    BY <1>2, <1>3, <2>1
  <2> QED
    BY <1>4, <2>1, <2>2, <2>3
<1>9. OnSample(n) = [group |-> g, chunk |-> c, bit |-> b]
  BY <1>5, <1>6, <1>7 DEF OnSample
<1> QED
  BY <1>3, <1>4, <1>8, <1>9

LEMMA ChunkNat ==
  ASSUME WeaveArgs, NEW n \in Nat
  PROVE  ChunkOf(n) \in Nat
<1>1. WORKER_NUM \in Nat /\ worker_index \in Nat
  BY WeaveSizes
<1>2. 8 * StepOf(n) + EngineOf(n) \in Nat
  BY NumberOfDigits
<1>3. WORKER_NUM * (8 * StepOf(n) + EngineOf(n)) \in Nat
  BY <1>1, <1>2
<1> QED
  BY <1>1, <1>3 DEF ChunkOf

LEMMA HalfLineHolds ==
  ASSUME WeaveArgs, NEW n \in 0..(HalfLines - 1), n \in Nat
  PROVE  /\ HalfLine(n).zero <=> Chunks <= ChunkOf(n)
         /\ BitOf(n) \in 0..(wnBits - 1) /\ BitOf(n) \in 0..31
         /\ ChunkOf(n) < Chunks =>
              /\ Held2(n) = [group |-> GroupOf(n), chunk |-> ChunkOf(n), bit |-> BitOf(n),
                             half |-> HalfOf(n)]
              /\ HalfLine(n).line < SourceLines
<1>1. /\ Groups \in Nat \ {0} /\ Chunks \in Nat \ {0} /\ PairsOfBits \in 1..16
      /\ wnBits = 2 * PairsOfBits /\ WORKER_NUM \in Nat \ {0} /\ worker_index \in Nat
      /\ numFeatures_algin = 64 * Chunks /\ \A c \in Nat : 64 * c < wnFeatures <=> c < Chunks
  BY WeaveSizes
<1>2. /\ LowBit(n) \in 0..1 /\ StepOf(n) \in Nat /\ GroupOf(n) \in 0..(Groups - 1)
      /\ HalfOf(n) \in 0..1 /\ EngineOf(n) \in 0..7 /\ PairNo(n) \in 0..(PairsOfBits - 1)
      /\ ChunkOf(n) \in Nat
  BY NumberOfDigits, NumbersBelow, ChunkNat
<1>3. BitOf(n) \in 0..(wnBits - 1) /\ BitOf(n) \in 0..31
  BY <1>1, <1>2 DEF BitOf
<1>4. DEFINE j == worker_index + WORKER_NUM * EngineOf(n)
             l == (j + StepOf(n) * ENGINE_NUM * WORKER_NUM) * BITS_OF_BANK
<1>5. l = 64 * ChunkOf(n)
  <2>1. PICK x \in Nat, y \in Nat : x = WORKER_NUM * EngineOf(n) /\ y = WORKER_NUM * StepOf(n)
    BY <1>1, <1>2
  <2>2. StepOf(n) * ENGINE_NUM * WORKER_NUM = 8 * y
    BY <1>1, <1>2, <2>1 DEF ENGINE_NUM
  <2>3. WORKER_NUM * (8 * StepOf(n) + EngineOf(n)) = 8 * y + x
    BY <1>1, <1>2, <2>1
  <2> QED
    BY <1>1, <2>1, <2>2, <2>3 DEF ChunkOf, BITS_OF_BANK
<1> HIDE DEF j, l
<1>6. HalfLine(n) = IF l < wnFeatures
                    THEN [line |-> SourceOf(2 * PairNo(n) + 1 - LowBit(n), NUM_BANKS * GroupOf(n), l),
                          half |-> HalfOf(n), zero |-> FALSE]
                    ELSE Zeros
  BY DEF HalfLine, j, l, LowBit, StepOf, GroupOf, HalfOf, EngineOf, PairNo
<1>7. HalfLine(n).zero <=> Chunks <= ChunkOf(n)
  BY <1>1, <1>2, <1>5, <1>6 DEF Zeros
<1>8. ASSUME ChunkOf(n) < Chunks
      PROVE  /\ HalfLine(n).line = 32 * (Chunks * GroupOf(n) + ChunkOf(n)) + BitOf(n)
             /\ HalfLine(n).half = HalfOf(n)
  <2>1. l < wnFeatures
    BY <1>1, <1>2, <1>5, <1>8
  <2>2. PICK x \in Nat : x = Chunks * GroupOf(n)
    BY <1>1, <1>2
  <2>3. (numFeatures_algin * (NUM_BANKS * GroupOf(n))) \div 16 = 32 * x
    <3>1. numFeatures_algin * (NUM_BANKS * GroupOf(n)) = 512 * x
      BY <1>1, <1>2, <2>2 DEF NUM_BANKS
    <3> QED
      BY <2>2, <3>1
  <2>4. l \div 2 = 32 * ChunkOf(n)
    BY <1>2, <1>5
  <2>5. SourceOf(2 * PairNo(n) + 1 - LowBit(n), NUM_BANKS * GroupOf(n), l)
          = 32 * (x + ChunkOf(n)) + BitOf(n)
    BY <1>2, <2>2, <2>3, <2>4 DEF SourceOf, BitOf
  <2> QED
    BY <1>6, <2>1, <2>2, <2>5
<1>9. ASSUME ChunkOf(n) < Chunks
      PROVE  /\ Held2(n) = [group |-> GroupOf(n), chunk |-> ChunkOf(n), bit |-> BitOf(n),
                            half |-> HalfOf(n)]
             /\ HalfLine(n).line < SourceLines
  <2>1. ChunkOf(n) \in 0..(Chunks - 1)
    BY <1>1, <1>2, <1>9
  <2>2. /\ OnSample(HalfLine(n).line) = [group |-> GroupOf(n), chunk |-> ChunkOf(n), bit |-> BitOf(n)]
        /\ HalfLine(n).line < SourceLines
    BY <1>2, <1>3, <1>8, <1>9, <2>1, SourceLine
  <2> QED
    BY <1>8, <1>9, <2>2 DEF Held2
<1> QED
  BY <1>3, <1>7, <1>9

-------------------------------------------------------------------------------
(* SgdWeave: every bit is in one half line.                                *)

LEMMA DealtFacts ==
  ASSUME WeaveArgs
  PROVE  /\ HalfLines \in Nat
         /\ \A n \in Dealt : n \in 0..(HalfLines - 1) /\ n \in Nat /\ ChunkOf(n) < Chunks
         /\ \A n \in Nat : n \in 0..(HalfLines - 1) /\ ChunkOf(n) < Chunks => n \in Dealt
<1>1. HalfLines \in Nat
  <2>1. /\ Steps64 \in Nat /\ Groups \in Nat /\ PairsOfBits \in Nat
    BY WeaveSizes
  <2>2. Steps64 * Groups \in Nat /\ 4 * Steps64 * Groups = 4 * (Steps64 * Groups)
    BY <2>1
  <2>3. 4 * Steps64 * Groups * ENGINE_NUM \in Nat
    BY <2>2 DEF ENGINE_NUM
  <2> QED
    BY <2>1, <2>3 DEF HalfLines, PairsOfBits
<1>2. \A n \in Nat : n \in 0..(HalfLines - 1) => (HalfLine(n).zero <=> Chunks <= ChunkOf(n))
  BY HalfLineHolds
<1>3. Chunks \in Nat /\ \A n \in Nat : ChunkOf(n) \in Nat
  BY WeaveSizes, ChunkNat
<1>4. \A n \in 0..(HalfLines - 1) : n \in Nat
  BY <1>1
<1> QED
  BY <1>1, <1>2, <1>3, <1>4 DEF Dealt

LEMMA HeldIsWanted ==
  ASSUME WeaveArgs, NEW n \in Dealt
  PROVE  Held2(n) \in Wanted /\ HalfLine(n).line < SourceLines
<1>1. n \in 0..(HalfLines - 1) /\ n \in Nat /\ ChunkOf(n) < Chunks
  BY DealtFacts
<1>2. /\ Held2(n) = [group |-> GroupOf(n), chunk |-> ChunkOf(n), bit |-> BitOf(n), half |-> HalfOf(n)]
      /\ HalfLine(n).line < SourceLines /\ BitOf(n) \in 0..(wnBits - 1)
  BY <1>1, HalfLineHolds
<1>3. GroupOf(n) \in 0..(Groups - 1) /\ HalfOf(n) \in {0, 1}
  BY <1>1, NumberOfDigits
<1>4. ChunkOf(n) \in 0..(Chunks - 1) /\ ChunkOf(n) % WORKER_NUM = worker_index
  <2>1. WORKER_NUM \in Nat \ {0} /\ worker_index \in 0..(WORKER_NUM - 1) /\ Chunks \in Nat
    BY WeaveSizes
  <2>2. PICK q \in Nat : q = 8 * StepOf(n) + EngineOf(n)
    BY <1>1, NumberOfDigits
  <2>3. ChunkOf(n) = WORKER_NUM * q + worker_index /\ ChunkOf(n) \in Nat
    <3>1. WORKER_NUM * q \in Nat
      BY <2>1
    <3> QED
      BY <2>1, <2>2, <3>1 DEF ChunkOf
  <2> QED
    BY <1>1, <2>1, <2>2, <2>3, DivOf
<1> QED
  BY <1>2, <1>3, <1>4 DEF Wanted

\* The number of the half line that is to hold w.
NumberFor(w) ==
  LET q == w.chunk \div WORKER_NUM IN
  Number(1 - (w.bit % 2), q \div 8, w.group, w.half, q % 8, w.bit \div 2)

LEMMA WantedIsHeld ==
  ASSUME WeaveArgs, NEW w \in Wanted
  PROVE  NumberFor(w) \in Dealt /\ Held2(NumberFor(w)) = w
<1>1. /\ Groups \in Nat \ {0} /\ Chunks \in Nat \ {0} /\ PairsOfBits \in 1..16
      /\ wnBits = 2 * PairsOfBits /\ WORKER_NUM \in Nat \ {0} /\ worker_index \in 0..(WORKER_NUM - 1)
      /\ Steps64 \in Nat \ {0} /\ Chunks <= Steps64 * (8 * WORKER_NUM)
  BY WeaveSizes
<1>2. PICK g \in Nat, b \in Nat, h \in Nat, c \in Nat :
        /\ g < Groups /\ b < wnBits /\ h < 2 /\ c < Chunks /\ c % WORKER_NUM = worker_index
        /\ w = [group |-> g, chunk |-> c, bit |-> b, half |-> h]
  <2>1. PICK g \in 0..(Groups - 1), b \in 0..(wnBits - 1), h \in {0, 1}, c \in 0..(Chunks - 1) :
          /\ c % WORKER_NUM = worker_index
          /\ w = [group |-> g, chunk |-> c, bit |-> b, half |-> h]
    BY DEF Wanted
  <2>2. /\ g \in Nat /\ b \in Nat /\ h \in Nat /\ c \in Nat
        /\ g < Groups /\ b < wnBits /\ h < 2 /\ c < Chunks
    BY <1>1
  <2> QED
    BY <2>1, <2>2
<1>3. PICK q \in Nat : q = c \div WORKER_NUM /\ c = WORKER_NUM * q + worker_index
  <2>1. c \in Nat
    BY <1>1
  <2>2. c \div WORKER_NUM \in Nat /\ c = WORKER_NUM * (c \div WORKER_NUM) + worker_index
    BY <1>1, <1>2, <2>1, DivMod
  <2> QED
    BY <2>2
<1>4. PICK s \in Nat, j \in Nat : j < 8 /\ s = q \div 8 /\ j = q % 8 /\ q = 8 * s + j
  <2>1. q \div 8 \in Nat /\ q % 8 \in 0..7 /\ q = 8 * (q \div 8) + (q % 8)
    OBVIOUS
  <2> QED
    BY <2>1
<1>5. s < Steps64
  <2>1. ASSUME Steps64 <= s
        PROVE  FALSE
    <3>1. PICK d \in Nat : q = 8 * Steps64 + d
      <4>1. q - 8 * Steps64 \in Nat /\ q = 8 * Steps64 + (q - 8 * Steps64)
        BY <1>1, <1>4, <2>1
      <4> QED
        BY <4>1
    <3>2. WORKER_NUM * q = WORKER_NUM * (8 * Steps64) + WORKER_NUM * d
      <4>1. 8 * Steps64 \in Nat
        BY <1>1
      <4> QED
        BY <1>1, <3>1, <4>1, Distributes
    <3>3. PICK x \in Nat, y \in Nat : x = WORKER_NUM * Steps64 /\ y = WORKER_NUM * d
      BY <1>1
    <3>4. WORKER_NUM * (8 * Steps64) = 8 * x /\ Steps64 * (8 * WORKER_NUM) = 8 * x
      BY <1>1, <3>3
    <3> QED
      BY <1>1, <1>2, <1>3, <3>2, <3>3, <3>4
  <2> QED
    BY <1>1, <2>1
<1>6. PICK e \in Nat, p \in Nat :
        e < 2 /\ p < PairsOfBits /\ e = 1 - (b % 2) /\ p = b \div 2 /\ b = 2 * p + (1 - e)
  <2>1. b < 2 * PairsOfBits
    BY <1>1, <1>2
  <2>2. /\ b \div 2 \in Nat /\ b \div 2 < PairsOfBits
        /\ 1 - (b % 2) \in Nat /\ 1 - (b % 2) < 2 /\ b = 2 * (b \div 2) + (b % 2)
    BY <1>1, <2>1
  <2>3. 1 - (1 - (b % 2)) = b % 2
    BY <2>1
  <2> QED
    BY <2>2, <2>3
<1>7. PICK n : n = Number(e, s, g, h, j, p)
  OBVIOUS
<1>8. n = NumberFor(w)
  BY <1>2, <1>3, <1>4, <1>6, <1>7 DEF NumberFor
<1>9. /\ n \in Nat /\ LowBit(n) = e /\ StepOf(n) = s /\ GroupOf(n) = g /\ HalfOf(n) = h
      /\ EngineOf(n) = j /\ PairNo(n) = p
  <2>1. /\ Steps64 \in Nat /\ Groups \in Nat
        /\ e < 2 /\ s < Steps64 /\ g < Groups /\ h < 2 /\ j < 8
    BY <1>1, <1>2, <1>4, <1>5, <1>6
  <2>2. DigitsAre(Number(e, s, g, h, j, p), e, s, g, h, j, p)
    BY <2>1, DigitsOfNumber
  <2> QED
    BY <1>7, <2>2 DEF DigitsAre
<1>10. n \in 0..(HalfLines - 1)
  BY <1>1, <1>6, <1>9, NumbersBelow
<1>11. ChunkOf(n) = c /\ BitOf(n) = b
  <2>1. WORKER_NUM * q \in Nat /\ worker_index \in Nat
    BY <1>1
  <2>2. 8 * StepOf(n) + EngineOf(n) = q
    BY <1>4, <1>9
  <2>3. ChunkOf(n) = worker_index + WORKER_NUM * q
    BY <2>2 DEF ChunkOf
  <2>4. BitOf(n) = 2 * p + (1 - e)
    BY <1>9 DEF BitOf
  <2> QED
    BY <1>1, <1>3, <1>6, <2>1, <2>3, <2>4
<1>12. ChunkOf(n) < Chunks
  BY <1>2, <1>11
<1>13. n \in Dealt
  BY <1>9, <1>10, <1>12, DealtFacts
<1>14. Held2(n) = w
  BY <1>2, <1>9, <1>10, <1>11, <1>12, HalfLineHolds
<1> QED
  BY <1>8, <1>13, <1>14

\* Two half lines never hold the same.
LEMMA HeldApart ==
  ASSUME WeaveArgs, NEW m \in Dealt, NEW n \in Dealt, Held2(m) = Held2(n)
  PROVE  m = n
<1>1. ASSUME NEW x \in Dealt
      PROVE  x = NumberFor(Held2(x))
  <2>1. x \in 0..(HalfLines - 1) /\ x \in Nat /\ ChunkOf(x) < Chunks
    BY DealtFacts
  <2>2. Held2(x) = [group |-> GroupOf(x), chunk |-> ChunkOf(x), bit |-> BitOf(x), half |-> HalfOf(x)]
    BY <2>1, HalfLineHolds
  <2>3. /\ LowBit(x) \in 0..1 /\ StepOf(x) \in Nat /\ EngineOf(x) \in 0..7 /\ PairNo(x) \in Nat
        /\ x = Number(LowBit(x), StepOf(x), GroupOf(x), HalfOf(x), EngineOf(x), PairNo(x))
    BY <2>1, NumberOfDigits
  <2>4. ChunkOf(x) \div WORKER_NUM = 8 * StepOf(x) + EngineOf(x)
    <3>1. WORKER_NUM \in Nat \ {0} /\ worker_index \in 0..(WORKER_NUM - 1)
      BY WeaveSizes
    <3>2. PICK q \in Nat : q = 8 * StepOf(x) + EngineOf(x)
      BY <2>3
    <3>3. ChunkOf(x) = WORKER_NUM * q + worker_index
      <4>1. WORKER_NUM * q \in Nat
        BY <3>1
      <4> QED
        BY <3>1, <3>2, <4>1 DEF ChunkOf
    <3> QED
      BY <3>1, <3>2, <3>3, DivOf
  <2>5. (8 * StepOf(x) + EngineOf(x)) \div 8 = StepOf(x) /\ (8 * StepOf(x) + EngineOf(x)) % 8 = EngineOf(x)
    BY <2>3
  <2>6. BitOf(x) \div 2 = PairNo(x) /\ 1 - (BitOf(x) % 2) = LowBit(x)
    BY <2>3 DEF BitOf
  <2> QED
    BY <2>2, <2>3, <2>4, <2>5, <2>6 DEF NumberFor
<1> QED
  BY <1>1

LEMMA AllBitsPlaced ==
  ASSUME WeaveArgs
  PROVE  EveryBitPlaced
<1>1. {Held2(n) : n \in Dealt} = Wanted
  BY HeldIsWanted, WantedIsHeld
<1>2. IsFiniteSet(Dealt)
  <2>1. IsFiniteSet(0..(HalfLines - 1))
    BY DealtFacts, FS_Interval
  <2>2. Dealt \subseteq 0..(HalfLines - 1)
    BY DEF Dealt
  <2> QED
    BY <2>1, <2>2, FS_Subset
<1>3. ExistsBijection(Dealt, Wanted)
  <2> DEFINE f == [n \in Dealt |-> Held2(n)]
  <2>1. f \in [Dealt -> Wanted]
    BY <1>1
  <2>2. \A m, n \in Dealt : f[m] = f[n] => m = n
    BY HeldApart
  <2>3. \A w \in Wanted : \E n \in Dealt : f[n] = w
    BY <1>1
  <2> HIDE DEF f
  <2>4. f \in Bijection(Dealt, Wanted)
    BY <2>1, <2>2, <2>3 DEF Bijection, Injection, Surjection, IsInjective
  <2> QED
    BY <2>4 DEF ExistsBijection
<1>4. Cardinality(Dealt) = Cardinality(Wanted)
  BY <1>2, <1>3, FS_Bijection
<1>5. \A n \in Dealt : HalfLine(n).line < SourceLines
  BY HeldIsWanted
<1> QED
  BY <1>1, <1>4, <1>5 DEF EveryBitPlaced
-------------------------------------------------------------------------------
(* SgdWeave: the sizes, for one worker.                                    *)

\* The shapes for which the memory the program takes is enough: the size of the
\* source of the woven lines is below 2^32 bytes, the half lines go into the
\* FPGA's part, the labels before the model, and the models before the end.
FitsMemory(numSamples, numFeatures, numBits) ==
  /\ (RoundUp(numFeatures, 64) \div 16) * RoundUp(numSamples, 32) < 2^26
  /\ RoundUp(numFeatures, 1024) * RoundUp(numSamples, 8) * numBits <= 512 * DistributeAlloc
  /\ RoundUp(numSamples, 32) <= 16 * (ModelAt - LabelsAt)
  /\ (Iterations + 1) * numFeatures < 16 * (DmaLines - ModelAt)

DatasetsFit == \A d \in Datasets : FitsMemory(d[1], d[2], d[3])

Samples8 == RoundUp(wnSamples, 8)
Features1024 == RoundUp(wnFeatures, 1024)

\* Everything is counted in blocks of 32 samples and groups of 8.
LEMMA SampleBlocks ==
  ASSUME WeaveArgs
  PROVE  \E a \in Nat :
           /\ number_of_samples = 32 * a /\ Groups <= 4 * a
           /\ Samples8 = 8 * Groups
           /\ Samples8 = number_of_samples => 4 * a = Groups
<1>1. wnSamples \in Nat \ {0} /\ Groups \in Nat \ {0}
  BY WeaveSizes
<1>2. Samples8 = 8 * Groups /\ 8 * Groups < wnSamples + 8
  <2>1. NUM_BANKS \in Nat \ {0} /\ NUM_BANKS = 8
    BY DEF NUM_BANKS
  <2>2. /\ RoundUp(wnSamples, NUM_BANKS) = NUM_BANKS * (RoundUp(wnSamples, NUM_BANKS) \div NUM_BANKS)
        /\ RoundUp(wnSamples, NUM_BANKS) < wnSamples + NUM_BANKS
    BY <1>1, <2>1, RoundUpFacts
  <2> QED
    BY <2>1, <2>2 DEF Groups, Samples8
<1>3. PICK a \in Nat : number_of_samples = 32 * a /\ wnSamples <= 32 * a
  <2>1. PICK t \in Nat \ {0} : t = 32
    OBVIOUS
  <2>2. /\ RoundUp(wnSamples, t) \div t \in Nat
        /\ RoundUp(wnSamples, t) = t * (RoundUp(wnSamples, t) \div t)
        /\ wnSamples <= RoundUp(wnSamples, t)
    BY <1>1, RoundUpFacts
  <2> QED
    BY <2>1, <2>2 DEF number_of_samples
<1> QED
  BY <1>1, <1>2, <1>3

\* The register says as much as was written if the last block of samples is
\* full of groups, and never less.
LEMMA ToldLength ==
  ASSUME WeaveArgs, WORKER_NUM = 1
  PROVE  /\ data_a_length >= HalfLines \div 2
         /\ Samples8 = number_of_samples => data_a_length = HalfLines \div 2
         /\ SourceLines <= (numFeatures_algin \div 16) * number_of_samples
         /\ Features1024 * Samples8 * wnBits = 512 * (HalfLines \div 2)
         /\ HalfLines \div 2 \in Nat
<1>1. /\ Groups \in Nat \ {0} /\ Chunks \in Nat \ {0} /\ PairsOfBits \in Nat
      /\ wnBits = 2 * PairsOfBits /\ dimension_num \in Nat \ {0} /\ numFeatures_algin = 64 * Chunks
      /\ wnFeatures \in Nat \ {0}
  BY WeaveSizes
<1>2. PICK a \in Nat :
        /\ number_of_samples = 32 * a /\ Groups <= 4 * a
        /\ Samples8 = 8 * Groups
        /\ Samples8 = number_of_samples => 4 * a = Groups
  BY SampleBlocks
<1>3. PICK g \in Nat, d \in Nat : g = Groups /\ 4 * a = g + d
  <2>1. PICK g \in Nat : g = Groups
    BY <1>1
  <2>2. g <= 4 * a
    BY <1>2, <2>1
  <2>3. 4 * a - g \in Nat /\ 4 * a = g + (4 * a - g)
    BY <2>2
  <2> QED
    BY <2>1, <2>3
<1>4. /\ toldDimension = dimension_num
      /\ Features1024 = 1024 * dimension_num
  <2>1. wdimension = wnFeatures
    BY <1>1 DEF wdimension
  <2>2. BITS_OF_BANK * ENGINE_NUM * WORKER_NUM * 2 = 1024 /\ 64 * ENGINE_NUM * WORKER_NUM * 2 = 1024
    BY DEF BITS_OF_BANK, ENGINE_NUM
  <2>3. PICK t \in Nat \ {0} : t = 1024
    OBVIOUS
  <2>4. RoundUp(wnFeatures, t) = t * (RoundUp(wnFeatures, t) \div t)
    BY <1>1, RoundUpFacts
  <2> QED
    BY <2>1, <2>2, <2>3, <2>4 DEF toldDimension, dimension_num, Features1024
<1>5. PICK z \in Nat : z = dimension_num * PairsOfBits
  BY <1>1
<1>6. PICK x \in Nat, y \in Nat : x = Groups * z /\ y = d * z /\ (Groups + d) * z = x + y
  <2>1. Groups * z \in Nat /\ d * z \in Nat /\ (Groups + d) * z = Groups * z + d * z
    BY <1>1, <1>3, <1>5
  <2> QED
    BY <2>1
<1>7. HalfLines \div 2 = 32 * x
  <2>1. 4 * (2 * dimension_num) * Groups * 8 * PairsOfBits = 64 * (Groups * (dimension_num * PairsOfBits))
    BY <1>1
  <2>2. HalfLines = 64 * x
    BY <1>5, <1>6, <2>1 DEF HalfLines, Steps64, ENGINE_NUM, PairsOfBits
  <2> QED
    BY <2>2
<1>8. data_a_length = 32 * (x + y)
  <2>1. number_of_samples \div 8 = Groups + d
    <3>1. (32 * a) \div 8 = 4 * a
      OBVIOUS
    <3> QED
      BY <1>2, <1>3, <3>1
  <2>2. PICK k \in Nat : k = Groups + d
    BY <1>1, <1>3
  <2>3. k * dimension_num * PairsOfBits * 8 * 4 = 32 * (k * (dimension_num * PairsOfBits))
    BY <1>1
  <2>4. data_a_length = k * dimension_num * PairsOfBits * 8 * 4
    BY <1>4, <2>1, <2>2 DEF data_a_length, NUM_BANKS, ENGINE_NUM, PairsOfBits
  <2> QED
    BY <1>5, <1>6, <2>2, <2>3, <2>4
<1>9. Samples8 = number_of_samples => y = 0
  <2>1. 4 * a = Groups => d = 0
    <3>1. 4 * a = g => d = 0
      BY <1>3
    <3> QED
      BY <1>3, <3>1
  <2>2. d = 0 => y = 0
    BY <1>5, <1>6
  <2> QED
    BY <1>2, <2>1, <2>2
<1>10. SourceLines <= (numFeatures_algin \div 16) * number_of_samples
  <2>1. PICK u \in Nat, v \in Nat : u = Chunks * Groups /\ v = Chunks * d
    BY <1>1
  <2>2. Chunks * (Groups + d) = u + v
    BY <1>1, <2>1
  <2>3. numFeatures_algin \div 16 = 4 * Chunks
    BY <1>1
  <2>4. (4 * Chunks) * (32 * a) = 32 * (Chunks * (4 * a))
    BY <1>1
  <2>5. SourceLines = 32 * u
    BY <1>1, <2>1 DEF SourceLines
  <2>6. (4 * Chunks) * (32 * a) = 32 * (u + v)
    BY <1>3, <2>2, <2>4
  <2>7. 32 * u <= 32 * (u + v)
    BY <2>1
  <2>8. SourceLines <= (4 * Chunks) * (32 * a)
    BY <2>5, <2>6, <2>7
  <2> QED
    BY <1>2, <2>3, <2>8
<1>11. Features1024 * Samples8 * wnBits = 512 * (32 * x)
  <2>1. (1024 * dimension_num) * (8 * Groups) * (2 * PairsOfBits)
          = 16384 * (Groups * (dimension_num * PairsOfBits))
    BY <1>1
  <2>2. 16384 * (Groups * (dimension_num * PairsOfBits)) = 16384 * x
    BY <1>5, <1>6
  <2>3. 16384 * x = 512 * (32 * x)
    OBVIOUS
  <2>4. Features1024 * Samples8 * wnBits
          = (1024 * dimension_num) * (8 * Groups) * (2 * PairsOfBits)
    BY <1>1, <1>2, <1>4
  <2> QED
    BY <2>1, <2>2, <2>3, <2>4
<1> QED
  BY <1>6, <1>7, <1>8, <1>9, <1>10, <1>11

LEMMA SizesAgree ==
  ASSUME WeaveArgs, WORKER_NUM = 1, DatasetsFit
  PROVE  ToldCovers
<1>1. FitsMemory(wnSamples, wnFeatures, wnBits)
  BY DEF WeaveArgs, DatasetsFit
<1>2. /\ data_a_length >= HalfLines \div 2
      /\ Samples8 = number_of_samples => data_a_length = HalfLines \div 2
      /\ SourceLines <= (numFeatures_algin \div 16) * number_of_samples
      /\ Features1024 * Samples8 * wnBits = 512 * (HalfLines \div 2)
      /\ HalfLines \div 2 \in Nat
  BY ToldLength
<1>3. number_of_samples \in Nat /\ numFeatures_algin \div 16 \in Nat /\ SourceLines \in Nat
      /\ wnFeatures \in Nat /\ Iterations \in Nat
  <2>1. /\ numFeatures_algin = 64 * Chunks /\ Chunks \in Nat /\ Groups \in Nat
        /\ wnFeatures \in Nat
    BY WeaveSizes
  <2>2. number_of_samples \in Nat
    BY SampleBlocks
  <2>3. 32 * Chunks * Groups \in Nat
    BY <2>1
  <2> QED
    BY <2>1, <2>2, <2>3, WeaveAssumption DEF SourceLines
<1>4. SourceLines <= SourceAlloc
  <2>1. PICK m \in Nat : m = (numFeatures_algin \div 16) * number_of_samples
    BY <1>3
  <2>2. m < 2^26
    BY <1>1, <2>1 DEF FitsMemory, numFeatures_algin, number_of_samples
  <2>3. m % 2^26 = m
    BY <2>2
  <2>4. SourceAlloc = m
    BY <2>1, <2>3 DEF SourceAlloc, Wrapped, number_of_samples
  <2> QED
    BY <1>2, <2>1, <2>4
<1>5. HalfLines \div 2 <= DistributeAlloc /\ HalfLines \div 2 <= LabelsAt
  <2>1. 512 * (HalfLines \div 2) <= 512 * DistributeAlloc
    BY <1>1, <1>2 DEF FitsMemory, Samples8, Features1024
  <2> QED
    BY <1>2, <2>1 DEF DistributeAlloc, LabelsAt
<1>6. LabelsAt + number_of_samples \div 16 <= ModelAt
  <2>1. number_of_samples <= 16 * (ModelAt - LabelsAt)
    BY <1>1 DEF FitsMemory, number_of_samples
  <2> QED
    BY <1>3, <2>1 DEF ModelAt, LabelsAt
<1>7. ModelAt + ((Iterations + 1) * wnFeatures) \div 16 < DmaLines
  <2>1. PICK m \in Nat : m = (Iterations + 1) * wnFeatures
    BY <1>3
  <2>2. m < 16 * (DmaLines - ModelAt)
    BY <1>1, <2>1 DEF FitsMemory
  <2> QED
    BY <2>1, <2>2 DEF ModelAt, DmaLines
<1> QED
  BY <1>2, <1>4, <1>5, <1>6, <1>7 DEF ToldCovers, Samples8

-------------------------------------------------------------------------------
(* SgdWeave: the inductive invariant.                                      *)

WeaveStages == {"weave", "model", "labels", "reset", "await_listen", "open", "await_open",
                "tell", "sleep", "ended"}

\* The arguments stay what the program was made for: all there is to know for
\* where the bits go.
WeaveInv == WeaveTypeOK /\ WeaveArgs

LEMMA WeaveInitInv == WeaveInit => WeaveInv
<1>1. WeaveInit => WeaveTypeOK
  BY WeaveAssumption DEF WeaveInit, WeaveTypeOK, NotBegun
<1>2. WeaveInit => WeaveArgs
  <2> SUFFICES ASSUME WeaveInit PROVE WeaveArgs
    OBVIOUS
  <2>1. PICK d \in Datasets : wnSamples = d[1] /\ wnFeatures = d[2] /\ wnBits = d[3]
    BY DEF WeaveInit
  <2>2. d = <<d[1], d[2], d[3]>>
    BY WeaveAssumption
  <2> QED
    BY <2>1, <2>2 DEF WeaveInit, WeaveArgs
<1> QED
  BY <1>1, <1>2 DEF WeaveInv

LEMMA WeaveStepInv == WeaveInv /\ [WeaveNext]_weaveVars => WeaveInv'
<1> SUFFICES ASSUME WeaveInv, [WeaveNext]_weaveVars PROVE WeaveInv'
  OBVIOUS
<1>1. wpc' = wpc \/ wpc' \in WeaveStages
  BY DEF WeaveNext, WeaveProgram, WeaveFpga, Weave, AllocModel, PlaceLabels, Addresses, AwaitPort,
         OpenConn, AwaitConn, TellAndStart, ReadModel, Goes2, weaveVars, WeaveStages
<1>2. \/ epochs' = epochs \/ epochs' = 0
      \/ epochs \in 0..(EpochBound - 1) /\ epochs' = epochs + 1
  BY DEF WeaveNext, WeaveProgram, WeaveFpga, Weave, AllocModel, PlaceLabels, Addresses, AwaitPort,
         OpenConn, AwaitConn, TellAndStart, ReadModel, weaveVars
<1>3. seenEpochs' = seenEpochs \/ seenEpochs' = epochs
  BY DEF WeaveNext, WeaveProgram, WeaveFpga, Weave, AllocModel, PlaceLabels, Addresses, AwaitPort,
         OpenConn, AwaitConn, TellAndStart, ReadModel, weaveVars
<1>4. UNCHANGED weaveArgs
  BY DEF WeaveNext, WeaveProgram, WeaveFpga, Weave, AllocModel, PlaceLabels, Addresses, AwaitPort,
         OpenConn, AwaitConn, TellAndStart, ReadModel, Goes2, weaveVars
<1>5. WeaveTypeOK'
  BY <1>1, <1>2, <1>3, WeaveAssumption DEF WeaveInv, WeaveTypeOK, WeaveStages, NotBegun
<1>6. WeaveArgs'
  BY <1>4 DEF WeaveInv, WeaveArgs, weaveArgs
<1> QED
  BY <1>5, <1>6 DEF WeaveInv

LEMMA WeaveInvSuffices ==
  ASSUME WeaveInv
  PROVE  WeaveTypeOK /\ EveryBitPlaced /\ (DatasetsFit => LayoutRight)
<1>1. EveryBitPlaced
  BY AllBitsPlaced DEF WeaveInv
<1>2. DatasetsFit /\ WORKER_NUM = 1 => ToldCovers
  BY SizesAgree DEF WeaveInv
<1> QED
  BY <1>1, <1>2 DEF WeaveInv, LayoutRight

-------------------------------------------------------------------------------
(* SgdData.                                                                *)

LoadStages == {"getline", "parse", "normalize", "labels", "ready"}
Columns == 0..(dr_numFeatures - 1)
Cell(i, j) == i * dr_numFeatures + j

LineOK(l) ==
  /\ l \in [label : Int, pairs : Seq(Nat \X DataValues)]
  /\ \A k \in DOMAIN l.pairs : l.pairs[k][1] \in 1..dr_numFeatures

LoadedArrays == dr_a \in [Places -> DataValues] /\ dr_b \in [Samples -> Int]

DataTypes ==
  /\ dr_numSamples \in Nat \ {0} /\ dr_numFeatures \in Nat \ {0}
  /\ Len(file.lines) \in Nat /\ \A i \in 1..Len(file.lines) : LineOK(file.lines[i])
  /\ dpc \in {"alloc", "crashed"} \cup LoadStages
  /\ dindex \in 0..dr_numSamples /\ LineOK(line)
  /\ dpc = "alloc" => dindex = 0
  /\ dpc \in {"alloc", "crashed"} => (dr_a = <<>> /\ dr_b = <<>>) \/ LoadedArrays
  /\ dpc \in LoadStages => LoadedArrays

\* The lines that are done are in their places, the other places still clear,
\* and what was read is the line it is at.
LinesInv ==
  /\ dpc = "parse" => /\ dindex < dr_numSamples
                      /\ dindex < Len(file.lines) => line = file.lines[dindex + 1]
  /\ dpc \in LoadStages =>
       /\ \A i \in 0..(dindex - 1) : i < Len(file.lines) =>
            dr_b[i] = file.lines[i + 1].label /\ \A j \in Columns : dr_a[Cell(i, j)] = InFile(i, j)
       /\ \A i \in dindex..(dr_numSamples - 1) : \A j \in Columns : dr_a[Cell(i, j)] = 0

NormInv ==
  /\ dpc \in {"labels", "ready"} =>
       \A i \in Samples : \A j \in Columns :
         dr_a_norm[Cell(i, j)] = IF HasRange(j) THEN Between(dr_a[Cell(i, j)], j) ELSE Left
  /\ dpc = "ready" => bi_fpga = dr_b

DataInv == DataTypes /\ LinesInv /\ NormInv

\* Places in one array are of one sample and feature.
LEMMA CellFacts ==
  ASSUME NEW n \in Nat \ {0}, NEW i \in Nat, NEW j \in 0..(n - 1)
  PROVE  /\ (i * n + j) % n = j /\ (i * n + j) \div n = i
         /\ \A m \in Nat : i < m => i * n + j \in 0..(m * n - 1)
<1> DEFINE p == i * n + j
           q == p \div n
<1>1. p \in Nat
  OBVIOUS
<1>2. q \in Nat /\ p % n \in 0..(n - 1) /\ p = (n * q) + (p % n)
  BY <1>1, DivMod
<1> HIDE DEF q
<1>3. ASSUME NEW a \in Nat, NEW b \in Nat, a < b PROVE a * n + n <= b * n
  <2>1. b - a - 1 \in Nat
    BY <1>3
  <2>2. (b - a - 1) * n \in Nat
    BY <2>1
  <2>3. (b - a - 1) * n = (b * n) - (a * n) - n
    OBVIOUS
  <2>4. a * n \in Nat /\ b * n \in Nat
    OBVIOUS
  <2> QED
    BY <2>2, <2>3, <2>4
<1>4. q = i
  <2>1. n * q = q * n /\ q * n \in Nat /\ i * n \in Nat
    BY <1>2
  <2>2. ~(q < i)
    BY <1>2, <1>3, <2>1
  <2>3. ~(i < q)
    BY <1>2, <1>3, <2>1
  <2> QED
    BY <1>2, <2>2, <2>3
<1>5. p % n = j
  <2>1. n * q = i * n /\ i * n \in Nat
    BY <1>4
  <2> QED
    BY <1>2, <2>1
<1>6. ASSUME NEW m \in Nat, i < m PROVE p \in 0..(m * n - 1)
  <2>1. i * n + n <= m * n /\ i * n \in Nat /\ m * n \in Nat
    BY <1>3, <1>6
  <2> QED
    BY <2>1
<1> QED
  BY <1>4, <1>5, <1>6 DEF q

\* Of the places of a sequence some set names, there is a last.
LEMMA LastOf ==
  ASSUME NEW n \in Nat, NEW S \in SUBSET (1..n), S # {}
  PROVE  \E k \in S : \A l \in S : l <= k
<1> DEFINE U == {m \in Nat : \A l \in S : l <= m}
<1>1. n \in U
  OBVIOUS
<1>2. PICK u \in U : \A m \in U : u <= m
  BY <1>1, LeastNat
<1>3. u \in S
  <2>1. SUFFICES ASSUME u \notin S PROVE FALSE
    OBVIOUS
  <2>2. \A l \in S : l <= u - 1 /\ l \in Nat
    BY <2>1
  <2>3. u - 1 \in Nat
    <3>1. PICK l \in S : l \in 1..n
      OBVIOUS
    <3> QED
      BY <2>2, <3>1
  <2>4. u - 1 \in U
    BY <2>2, <2>3
  <2> QED
    BY <1>2, <2>3, <2>4
<1> QED
  BY <1>2, <1>3

\* Finitely many integers have a least and a greatest.
LEMMA ExtremesOf ==
  ASSUME NEW f, NEW n \in Nat \ {0}, \A i \in 0..(n - 1) : f[i] \in Int
  PROVE  /\ \E i \in 0..(n - 1) : \A k \in 0..(n - 1) : f[i] <= f[k]
         /\ \E i \in 0..(n - 1) : \A k \in 0..(n - 1) : f[k] <= f[i]
<1> DEFINE Has(m) == /\ \E i \in 0..(m - 1) : \A k \in 0..(m - 1) : f[i] <= f[k]
                     /\ \E i \in 0..(m - 1) : \A k \in 0..(m - 1) : f[k] <= f[i]
           Bad == {m \in 1..n : ~Has(m)}
<1>1. SUFFICES Bad = {}
  <2>1. n \in 1..n
    OBVIOUS
  <2>2. Has(n)
    BY <1>1, <2>1
  <2> QED
    BY <2>2
<1>2. SUFFICES ASSUME Bad # {} PROVE FALSE
  OBVIOUS
<1>9. Bad \subseteq 1..n /\ \A k \in 1..n : k \notin Bad => Has(k)
  OBVIOUS
<1>10. \A k \in Bad : ~Has(k)
  OBVIOUS
<1> HIDE DEF Bad
<1>3. PICK m \in Bad : \A k \in Bad : m <= k
  <2>1. Bad \in SUBSET Nat
    BY <1>9
  <2> QED
    BY <1>2, <2>1, LeastNat
<1>4. CASE m = 1
  <2>1. Has(1)
    OBVIOUS
  <2> QED
    BY <1>3, <1>4, <1>10, <2>1
<1>5. CASE m # 1
  <2>1. m - 1 \in 1..n /\ m - 1 \notin Bad /\ m \in 1..n
    BY <1>3, <1>5, <1>9
  <2>2. Has(m - 1)
    BY <1>9, <2>1
  <2>3. PICK lo \in 0..(m - 2) : \A k \in 0..(m - 2) : f[lo] <= f[k]
    BY <2>1, <2>2
  <2>4. PICK hi \in 0..(m - 2) : \A k \in 0..(m - 2) : f[k] <= f[hi]
    BY <2>1, <2>2
  <2>5. \E i \in 0..(m - 1) : \A k \in 0..(m - 1) : f[i] <= f[k]
    <3>1. CASE f[lo] <= f[m - 1]
      BY <2>1, <2>3, <3>1
    <3>2. CASE f[m - 1] < f[lo]
      BY <2>1, <2>3, <3>2
    <3> QED
      BY <2>1, <2>3, <3>1, <3>2
  <2>6. \E i \in 0..(m - 1) : \A k \in 0..(m - 1) : f[k] <= f[i]
    <3>1. CASE f[m - 1] <= f[hi]
      BY <2>1, <2>4, <3>1
    <3>2. CASE f[hi] < f[m - 1]
      BY <2>1, <2>4, <3>2
    <3> QED
      BY <2>1, <2>4, <3>1, <3>2
  <2> QED
    BY <1>3, <1>10, <2>5, <2>6
<1> QED
  BY <1>4, <1>5

LEMMA DataInitInv == DataInit => DataInv
<1> SUFFICES ASSUME DataInit PROVE DataInv
  OBVIOUS
<1>1. dr_numSamples \in Nat \ {0} /\ dr_numFeatures \in Nat \ {0} /\ file \in DataFiles
  BY DataAssumption DEF DataInit
<1>2. file.lines \in Seq([label : Int, pairs : Seq(Nat \X DataValues)])
  BY <1>1, DataAssumption
<1>3. Len(file.lines) \in Nat /\ \A i \in 1..Len(file.lines) : LineOK(file.lines[i])
  <2>1. DOMAIN file.lines = 1..Len(file.lines) /\ Len(file.lines) \in Nat
    BY <1>2, LenProperties
  <2>2. \A i \in 1..Len(file.lines) : file.lines[i] \in [label : Int, pairs : Seq(Nat \X DataValues)]
    BY <1>2, ElementOfSeq
  <2>3. FitsIn(file, dr_numFeatures)
    BY DEF DataInit
  <2> QED
    BY <2>1, <2>2, <2>3 DEF FitsIn, LineOK
<1>4. LineOK(line)
  <2>1. line.pairs = <<>> /\ line.label = NotSet /\ line = [label |-> line.label, pairs |-> line.pairs]
    BY DEF DataInit, NoLine
  <2>2. line.pairs \in Seq(Nat \X DataValues) /\ DOMAIN line.pairs = {} /\ line.label \in Int
    BY <2>1, EmptySeq, LenProperties DEF NotSet
  <2>3. line \in [label : Int, pairs : Seq(Nat \X DataValues)]
    BY <2>1, <2>2
  <2> QED
    BY <2>2, <2>3 DEF LineOK
<1> QED
  BY <1>1, <1>3, <1>4 DEF DataInit, DataInv, DataTypes, LinesInv, NormInv, LoadStages

\* What a line leaves in the array of features.
LEMMA ParseStep ==
  ASSUME DataInv, ParseLine
  PROVE  DataInv'
<1> DEFINE i == dindex
           pairs == line.pairs
           last(p) == {k \in DOMAIN pairs : Place(dindex, pairs[k][1]) = p}
           value(p) == pairs[CHOOSE k \in last(p) : \A l \in last(p) : l <= k][2]
<1>1. /\ dpc = "parse" /\ dpc' = "getline" /\ dindex' = i + 1
      /\ dr_b' = [dr_b EXCEPT ![i] = line.label]
      /\ dr_a' = [p \in Places |-> IF last(p) = {} THEN dr_a[p] ELSE value(p)]
      /\ UNCHANGED <<file, dr_numSamples, dr_numFeatures, line, dr_a_norm, bi_fpga>>
  BY DEF ParseLine, dataArgs
<1>2. /\ dr_numSamples \in Nat \ {0} /\ dr_numFeatures \in Nat \ {0}
      /\ i \in Nat /\ i < dr_numSamples /\ Len(file.lines) \in Nat
      /\ i < Len(file.lines) => line = file.lines[i + 1]
      /\ dr_a \in [Places -> DataValues] /\ dr_b \in [Samples -> Int] /\ LineOK(line)
  BY <1>1 DEF DataInv, DataTypes, LinesInv, LoadStages, LoadedArrays
<1>3. /\ pairs \in Seq(Nat \X DataValues) /\ DOMAIN pairs = 1..Len(pairs) /\ Len(pairs) \in Nat
      /\ \A k \in DOMAIN pairs : pairs[k][1] \in 1..dr_numFeatures /\ pairs[k][2] \in DataValues
      /\ line.label \in Int
  <2>1. pairs \in Seq(Nat \X DataValues) /\ line.label \in Int
    BY <1>2 DEF LineOK
  <2>2. DOMAIN pairs = 1..Len(pairs) /\ Len(pairs) \in Nat
    BY <2>1, LenProperties
  <2>3. \A k \in DOMAIN pairs : pairs[k] \in Nat \X DataValues
    BY <2>1, <2>2, ElementOfSeq
  <2>4. \A k \in DOMAIN pairs : pairs[k][2] \in DataValues
    BY <2>3
  <2> QED
    BY <1>2, <2>1, <2>2, <2>4 DEF LineOK
<1> HIDE DEF pairs
<1>4. ASSUME NEW p, last(p) # {} PROVE value(p) \in DataValues
  <2>1. last(p) \in SUBSET (1..Len(pairs))
    BY <1>3
  <2>2. \E k \in last(p) : \A l \in last(p) : l <= k
    BY <1>3, <1>4, <2>1, LastOf
  <2>3. PICK k \in last(p) : k = CHOOSE m \in last(p) : \A l \in last(p) : l <= m
    BY <2>2, Zenon
  <2> QED
    BY <1>3, <2>3
<1>5. ASSUME NEW k \in DOMAIN pairs, NEW r \in Nat, NEW j \in Columns
      PROVE  /\ r # i => Place(i, pairs[k][1]) # Cell(r, j)
             /\ Place(i, pairs[k][1]) = Cell(i, j) <=> pairs[k][1] = j + 1
  <2> DEFINE c == pairs[k][1] - 1
  <2>1. c \in 0..(dr_numFeatures - 1) /\ pairs[k][1] = c + 1
    BY <1>2, <1>3
  <2>2. Place(i, pairs[k][1]) = i * dr_numFeatures + c
    BY <1>2, <2>1 DEF Place
  <2> HIDE DEF c
  <2>3. (i * dr_numFeatures + c) % dr_numFeatures = c /\ (i * dr_numFeatures + c) \div dr_numFeatures = i
    BY <1>2, <2>1, CellFacts
  <2>4. /\ (r * dr_numFeatures + j) % dr_numFeatures = j
        /\ (r * dr_numFeatures + j) \div dr_numFeatures = r
    BY <1>2, CellFacts DEF Columns
  <2>5. r # i => Place(i, pairs[k][1]) # Cell(r, j)
    BY <2>2, <2>3, <2>4 DEF Cell
  <2>6. Place(i, pairs[k][1]) = Cell(i, j) => c = j
    <3>1. (i * dr_numFeatures + j) % dr_numFeatures = j
      BY <1>2, CellFacts DEF Columns
    <3> QED
      BY <2>2, <2>3, <3>1 DEF Cell
  <2>7. c = j => Place(i, pairs[k][1]) = Cell(i, j)
    BY <2>2 DEF Cell
  <2>8. j \in Int /\ c \in Int
    BY <1>2, <2>1 DEF Columns
  <2> QED
    BY <2>1, <2>5, <2>6, <2>7, <2>8
<1>6. ASSUME NEW r \in Samples, NEW j \in Columns PROVE Cell(r, j) \in Places /\ r \in Nat
  <2>1. r \in Nat /\ r < dr_numSamples /\ j \in 0..(dr_numFeatures - 1)
    BY <1>2 DEF Samples, Columns
  <2>2. r * dr_numFeatures + j \in 0..(dr_numSamples * dr_numFeatures - 1)
    BY <1>2, <2>1, CellFacts
  <2> QED
    BY <2>1, <2>2 DEF Cell, Places
<1>7. ASSUME NEW r \in Samples, NEW j \in Columns, r # i
      PROVE  dr_a'[Cell(r, j)] = dr_a[Cell(r, j)]
  <2>1. last(Cell(r, j)) = {}
    BY <1>5, <1>6, <1>7
  <2> QED
    BY <1>1, <1>6, <2>1
<1>8. ASSUME NEW j \in Columns, i < Len(file.lines)
      PROVE  dr_a'[Cell(i, j)] = InFile(i, j)
  <2> DEFINE here == {k \in DOMAIN pairs : pairs[k][1] = j + 1}
  <2>1. i \in Samples
    BY <1>2 DEF Samples
  <2>2. last(Cell(i, j)) = here
    BY <1>2, <1>5
  <2>3. pairs = file.lines[i + 1].pairs
    BY <1>2, <1>8 DEF pairs
  <2>4. InFile(i, j) = IF here = {} THEN 0
                       ELSE pairs[CHOOSE k \in here : \A l \in here : l <= k][2]
    BY <2>3 DEF InFile
  <2>5. dr_a[Cell(i, j)] = 0
    BY <1>1, <1>2 DEF DataInv, LinesInv, LoadStages
  <2>6. dr_a'[Cell(i, j)] = IF last(Cell(i, j)) = {} THEN dr_a[Cell(i, j)] ELSE value(Cell(i, j))
    BY <1>1, <1>6, <2>1
  <2> HIDE DEF last
  <2>7. value(Cell(i, j)) = pairs[CHOOSE k \in here : \A l \in here : l <= k][2]
    BY <2>2
  <2> HIDE DEF here
  <2> QED
    BY <2>2, <2>4, <2>5, <2>6, <2>7
<1>9. LoadedArrays'
  <2>1. \A p \in Places : (IF last(p) = {} THEN dr_a[p] ELSE value(p)) \in DataValues
    BY <1>2, <1>4
  <2> HIDE DEF last, value
  <2>2. dr_a' \in [Places -> DataValues]
    BY <1>1, <2>1
  <2>3. dr_b' \in [Samples -> Int]
    BY <1>1, <1>2, <1>3
  <2>4. Places' = Places /\ Samples' = Samples
    BY <1>1 DEF Places, Samples
  <2> QED
    BY <2>2, <2>3, <2>4 DEF LoadedArrays
<1>10. DataTypes'
  BY <1>1, <1>2, <1>9 DEF DataInv, DataTypes, LoadStages, LineOK
<1>11. LinesInv'
  <2>1. Columns' = Columns /\ \A r, j : InFile(r, j)' = InFile(r, j) /\ Cell(r, j)' = Cell(r, j)
    BY <1>1 DEF Columns, InFile, Cell
  <2>2. ASSUME NEW r \in 0..i, r < Len(file.lines)
        PROVE  dr_b'[r] = file.lines[r + 1].label /\ \A j \in Columns : dr_a'[Cell(r, j)] = InFile(r, j)
    <3>1. r \in Samples /\ i \in Samples
      BY <1>2 DEF Samples
    <3>2. CASE r = i
      BY <1>1, <1>2, <1>8, <2>2, <3>1, <3>2
    <3>3. CASE r # i
      <4>1. r \in 0..(i - 1) /\ dr_b'[r] = dr_b[r]
        BY <1>1, <1>2, <3>1, <3>3
      <4>2. dr_b[r] = file.lines[r + 1].label /\ \A j \in Columns : dr_a[Cell(r, j)] = InFile(r, j)
        BY <1>1, <2>2, <4>1 DEF DataInv, LinesInv, LoadStages
      <4> QED
        BY <1>7, <3>1, <3>3, <4>1, <4>2
    <3> QED
      BY <3>2, <3>3
  <2>3. ASSUME NEW r \in (i + 1)..(dr_numSamples - 1), NEW j \in Columns
        PROVE  dr_a'[Cell(r, j)] = 0
    <3>1. r \in Samples /\ r # i /\ r \in i..(dr_numSamples - 1)
      BY <1>2 DEF Samples
    <3>2. dr_a[Cell(r, j)] = 0
      BY <1>1, <3>1 DEF DataInv, LinesInv, LoadStages
    <3> QED
      BY <1>7, <3>1, <3>2
  <2>4. /\ 0..(dindex' - 1) = 0..i /\ dindex' = i + 1 /\ dpc' = "getline"
        /\ file' = file /\ dr_numSamples' = dr_numSamples
    BY <1>1, <1>2
  <2>5. \A r \in 0..(dindex' - 1) : r < Len(file'.lines) =>
          dr_b'[r] = file'.lines[r + 1].label
          /\ \A j \in Columns' : dr_a'[Cell(r, j)'] = InFile(r, j)'
    BY <2>1, <2>2, <2>4
  <2>6. \A r \in dindex'..(dr_numSamples' - 1) : \A j \in Columns' : dr_a'[Cell(r, j)'] = 0
    BY <2>1, <2>3, <2>4
  <2> QED
    BY <2>4, <2>5, <2>6 DEF LinesInv
<1>12. NormInv'
  BY <1>1 DEF NormInv
<1> QED
  BY <1>10, <1>11, <1>12 DEF DataInv

\* What is in the array stays there while nothing of it changes.
LEMMA RowsKept ==
  ASSUME LinesInv, UNCHANGED <<file, dr_numSamples, dr_numFeatures, dindex, dr_a, dr_b>>,
         dpc' \in LoadStages => dpc \in LoadStages,
         dpc' = "parse" => /\ dindex < dr_numSamples
                           /\ dindex < Len(file.lines) => line' = file.lines[dindex + 1]
  PROVE  LinesInv'
<1>1. Columns' = Columns /\ \A r, j : InFile(r, j)' = InFile(r, j) /\ Cell(r, j)' = Cell(r, j)
  BY DEF Columns, InFile, Cell
<1> QED
  BY <1>1 DEF LinesInv

LEMMA DataStepInv == DataInv /\ [DataNext]_dataVars => DataInv'
<1> SUFFICES ASSUME DataInv, [DataNext]_dataVars PROVE DataInv'
  OBVIOUS
<1>0. /\ dr_numSamples \in Nat \ {0} /\ dr_numFeatures \in Nat \ {0}
      /\ Len(file.lines) \in Nat /\ \A i \in 1..Len(file.lines) : LineOK(file.lines[i])
      /\ dindex \in 0..dr_numSamples
  BY DEF DataInv, DataTypes
<1>1. CASE AllocData
  <2>1. /\ dpc = "alloc" /\ UNCHANGED <<file, dr_numSamples, dr_numFeatures, dindex, line, dr_a_norm, bi_fpga>>
        /\ dindex = 0
    BY <1>1 DEF AllocData, dataArgs, DataInv, DataTypes
  <2>2. CASE dpc' = "crashed" /\ UNCHANGED <<dr_a, dr_b>>
    BY <2>1, <2>2 DEF DataInv, DataTypes, LinesInv, NormInv, LoadStages, LineOK, LoadedArrays,
                      Places, Samples
  <2>3. CASE /\ dpc' \in {"getline", "normalize"}
             /\ dr_a' = [p \in Places |-> 0] /\ dr_b' = [i \in Samples |-> NotSet]
    <3>1. LoadedArrays'
      BY <2>1, <2>3, DataAssumption DEF LoadedArrays, Places, Samples, NotSet
    <3>2. DataTypes'
      BY <2>1, <2>3, <3>1 DEF DataInv, DataTypes, LineOK, LoadStages
    <3>3. ASSUME NEW r \in Samples, NEW j \in Columns PROVE dr_a'[Cell(r, j)] = 0
      <4>1. r \in Nat /\ r < dr_numSamples /\ j \in 0..(dr_numFeatures - 1)
        BY <1>0, <3>3 DEF Samples, Columns
      <4>2. r * dr_numFeatures + j \in 0..(dr_numSamples * dr_numFeatures - 1)
        BY <1>0, <4>1, CellFacts
      <4> QED
        BY <2>3, <4>2 DEF Cell, Places
    <3>4. \A r, j : Cell(r, j)' = Cell(r, j)
      BY <2>1 DEF Cell
    <3>5. LinesInv'
      <4>1. Columns' = Columns /\ dindex' = 0 /\ dr_numSamples' = dr_numSamples
        BY <2>1 DEF Columns
      <4>2. \A r \in dindex'..(dr_numSamples' - 1) : \A j \in Columns' : dr_a'[Cell(r, j)'] = 0
        BY <3>3, <3>4, <4>1 DEF Samples
      <4>3. 0..(dindex' - 1) = {}
        BY <4>1
      <4>4. dpc' # "parse"
        BY <2>3
      <4> QED
        BY <4>2, <4>3, <4>4 DEF LinesInv
    <3>6. NormInv'
      BY <2>3 DEF NormInv
    <3> QED
      BY <3>2, <3>5, <3>6 DEF DataInv
  <2> QED
    BY <1>1, <2>2, <2>3 DEF AllocData
<1>2. CASE GetLine
  <2>1. /\ dpc = "getline" /\ dindex < dr_numSamples /\ line' = NextLine
        /\ dpc' = "crashed" \/ dpc' = "parse"
        /\ UNCHANGED <<file, dr_numSamples, dr_numFeatures, dindex, dr_a, dr_b, dr_a_norm, bi_fpga>>
    BY <1>2 DEF GetLine, dataArgs
  <2>2. LineOK(NoLine)
    <3>1. NoLine.pairs = <<>> /\ NoLine.label = NotSet
      BY DEF NoLine
    <3>2. NoLine.pairs \in Seq(Nat \X DataValues) /\ DOMAIN NoLine.pairs = {} /\ NoLine.label \in Int
      BY <3>1, EmptySeq, LenProperties DEF NotSet
    <3>3. NoLine \in [label : Int, pairs : Seq(Nat \X DataValues)]
      BY <3>1, <3>2 DEF NoLine
    <3> QED
      BY <3>2, <3>3 DEF LineOK
  <2>3. LineOK(NextLine) /\ (dindex < Len(file.lines) => NextLine = file.lines[dindex + 1])
    <3>1. dindex < Len(file.lines) => dindex + 1 \in 1..Len(file.lines)
      BY <1>0
    <3> QED
      BY <1>0, <2>2, <3>1, Zenon DEF NextLine, DataInv, DataTypes
  <2>4. LineOK(line)'
    BY <2>1, <2>3 DEF LineOK
  <2>5. LoadedArrays'
    BY <2>1 DEF DataInv, DataTypes, LoadStages, LoadedArrays, Places, Samples
  <2>6. DataTypes'
    BY <1>0, <2>1, <2>4, <2>5 DEF DataTypes, LineOK, LoadStages
  <2>7. LinesInv'
    BY <2>1, <2>3, RowsKept DEF DataInv, LoadStages
  <2>8. NormInv'
    BY <2>1 DEF NormInv
  <2> QED
    BY <2>6, <2>7, <2>8 DEF DataInv
<1>3. CASE ParseLine
  BY <1>3, ParseStep
<1>4. CASE LoadEnds
  <2>1. /\ dpc = "getline" /\ dpc' = "normalize"
        /\ UNCHANGED <<file, dr_numSamples, dr_numFeatures, dindex, line, dr_a, dr_b, dr_a_norm, bi_fpga>>
    BY <1>4 DEF LoadEnds, dataArgs
  <2>2. LoadedArrays'
    BY <2>1 DEF DataInv, DataTypes, LoadStages, LoadedArrays, Places, Samples
  <2>3. DataTypes'
    BY <1>0, <2>1, <2>2 DEF DataInv, DataTypes, LineOK, LoadStages
  <2>4. LinesInv'
    BY <2>1, RowsKept DEF DataInv, LoadStages
  <2>5. NormInv'
    BY <2>1 DEF NormInv
  <2> QED
    BY <2>3, <2>4, <2>5 DEF DataInv
<1>5. CASE Normalize
  <2>1. /\ dpc = "normalize" /\ dpc' = "labels"
        /\ UNCHANGED <<file, dr_numSamples, dr_numFeatures, dindex, line, dr_a, dr_b, bi_fpga>>
        /\ dr_a_norm' = [p \in Places |->
             IF HasRange(p % dr_numFeatures) THEN Between(dr_a[p], p % dr_numFeatures) ELSE Left]
    BY <1>5 DEF Normalize, dataArgs
  <2>2. LoadedArrays'
    BY <2>1 DEF DataInv, DataTypes, LoadStages, LoadedArrays, Places, Samples
  <2>3. DataTypes'
    BY <1>0, <2>1, <2>2 DEF DataInv, DataTypes, LineOK, LoadStages
  <2>4. LinesInv'
    BY <2>1, RowsKept DEF DataInv, LoadStages
  <2>5. ASSUME NEW r \in Samples, NEW j \in Columns
        PROVE  dr_a_norm'[Cell(r, j)] = IF HasRange(j) THEN Between(dr_a[Cell(r, j)], j) ELSE Left
    <3>1. r \in Nat /\ r < dr_numSamples /\ j \in 0..(dr_numFeatures - 1)
      BY <1>0, <2>5 DEF Samples, Columns
    <3>2. /\ r * dr_numFeatures + j \in 0..(dr_numSamples * dr_numFeatures - 1)
          /\ (r * dr_numFeatures + j) % dr_numFeatures = j
      BY <1>0, <3>1, CellFacts
    <3>3. Cell(r, j) \in Places /\ Cell(r, j) % dr_numFeatures = j
      BY <3>2 DEF Cell, Places
    <3> QED
      BY <2>1, <3>3
  <2>6. /\ Samples' = Samples /\ Columns' = Columns /\ dpc' = "labels"
        /\ \A r, j : Cell(r, j)' = Cell(r, j)
        /\ \A j : HasRange(j)' = HasRange(j)
        /\ \A v, j : Between(v, j)' = Between(v, j)
    BY <2>1 DEF Samples, Columns, Cell, HasRange, Between, Column
  <2>7. \A r \in Samples' : \A j \in Columns' :
          dr_a_norm'[Cell(r, j)'] = IF HasRange(j)' THEN Between(dr_a[Cell(r, j)], j)' ELSE Left
    BY <2>1, <2>5, <2>6
  <2>8. NormInv'
    BY <2>6, <2>7 DEF NormInv
  <2> QED
    BY <2>3, <2>4, <2>8 DEF DataInv
<1>6. CASE CopyLabels
  <2>1. /\ dpc = "labels" /\ dpc' = "ready" /\ bi_fpga' = dr_b
        /\ UNCHANGED <<file, dr_numSamples, dr_numFeatures, dindex, line, dr_a, dr_b, dr_a_norm>>
    BY <1>6 DEF CopyLabels, dataArgs
  <2>2. LoadedArrays'
    BY <2>1 DEF DataInv, DataTypes, LoadStages, LoadedArrays, Places, Samples
  <2>3. DataTypes'
    BY <1>0, <2>1, <2>2 DEF DataInv, DataTypes, LineOK, LoadStages
  <2>4. LinesInv'
    BY <2>1, RowsKept DEF DataInv, LoadStages
  <2>5. NormInv'
    BY <2>1 DEF DataInv, NormInv, Samples, Columns, Cell, HasRange, Between, Column
  <2> QED
    BY <2>3, <2>4, <2>5 DEF DataInv
<1>7. CASE UNCHANGED dataVars
  <2>1. UNCHANGED <<file, dr_numSamples, dr_numFeatures, dpc, dindex, line, dr_a, dr_b, dr_a_norm, bi_fpga>>
    BY <1>7 DEF dataVars
  <2>2. DataTypes'
    BY <2>1 DEF DataInv, DataTypes, LineOK, LoadedArrays, Places, Samples
  <2>3. LinesInv'
    BY <2>1, RowsKept DEF DataInv, LinesInv
  <2>4. NormInv'
    BY <2>1 DEF DataInv, NormInv, Samples, Columns, Cell, HasRange, Between, Column
  <2> QED
    BY <2>2, <2>3, <2>4 DEF DataInv
<1> QED
  BY <1>1, <1>2, <1>3, <1>4, <1>5, <1>6, <1>7 DEF DataNext

LEMMA LeastIs ==
  ASSUME NEW S \in SUBSET Int, NEW m \in S, \A y \in S : m <= y
  PROVE  Least(S) = m
<1> DEFINE Low(x) == \A y \in S : x <= y
<1>1. \E x \in S : Low(x)
  OBVIOUS
<1>2. \A x \in S : Low(x) => x = m
  OBVIOUS
<1> HIDE DEF Low
<1>3. (CHOOSE x \in S : Low(x)) = m
  BY <1>1, <1>2
<1> QED
  BY <1>3 DEF Least, Low

LEMMA GreatestIs ==
  ASSUME NEW S \in SUBSET Int, NEW m \in S, \A y \in S : y <= m
  PROVE  Greatest(S) = IF m < 0 THEN 0 ELSE m
<1> DEFINE T == S \cup {0}
           High(x) == \A y \in T : y <= x
           g == IF m < 0 THEN 0 ELSE m
<1>1. g \in T /\ High(g)
  OBVIOUS
<1>2. \A x \in T : High(x) => x = g
  OBVIOUS
<1> HIDE DEF High, T, g
<1>3. (CHOOSE x \in T : High(x)) = g
  BY <1>1, <1>2
<1> QED
  BY <1>3 DEF Greatest, High, T, g

LEMMA DataInvSuffices == DataInv => DataTypeOK /\ RowsExact
<1> SUFFICES ASSUME DataInv PROVE DataTypeOK /\ RowsExact
  OBVIOUS
<1>1. /\ dr_numSamples \in Nat \ {0} /\ dr_numFeatures \in Nat \ {0} /\ dindex \in 0..dr_numSamples
      /\ dpc \in {"alloc", "crashed"} \cup LoadStages
      /\ (dr_a = <<>> /\ dr_b = <<>>) \/ LoadedArrays
      /\ dpc = "ready" => LoadedArrays
  BY DEF DataInv, DataTypes, LoadStages
<1>2. DataTypeOK
  <2>1. LoadedArrays => dr_a \in [Places -> DataValues] /\ DOMAIN dr_b = Samples
    BY DEF LoadedArrays
  <2> QED
    BY <1>1, <2>1 DEF DataTypeOK, LoadStages
<1>3. RowsExact
  <2> SUFFICES ASSUME dpc = "ready", dindex = dr_numSamples, Len(file.lines) >= dr_numSamples,
                      NEW i \in Samples, NEW j \in Columns
               PROVE  LET column == {InFile(r, j) : r \in Samples}
                          norm == dr_a_norm[i * dr_numFeatures + j] IN
                      /\ bi_fpga[i] = file.lines[i + 1].label
                      /\ \/ \E v \in column : v > 0 /\ column = {v} /\ norm = Left
                         \/ /\ norm[1] \in 0..norm[2]
                            /\ norm[1] = InFile(i, j) - Least(column)
                            /\ norm[1] = norm[2] => \A v \in column : v <= InFile(i, j)
    <3>1. 0 \in Columns
      BY <1>1 DEF Columns
    <3> QED
      BY <3>1, Zenon DEF RowsExact, Columns
  <2> DEFINE column == {InFile(r, j) : r \in Samples}
             norm == dr_a_norm[i * dr_numFeatures + j]
             val(r) == InFile(r, j)
  <2>1. /\ dr_a \in [Places -> DataValues] /\ bi_fpga = dr_b
        /\ Len(file.lines) \in Nat
    BY <1>1 DEF LoadedArrays, DataInv, DataTypes, NormInv
  <2>2. ASSUME NEW r \in Samples
        PROVE  /\ dr_b[r] = file.lines[r + 1].label /\ dr_a[Cell(r, j)] = val(r)
               /\ val(r) \in Int
    <3>1. r \in 0..(dindex - 1) /\ r < Len(file.lines) /\ r \in Nat /\ r < dr_numSamples
      BY <1>1, <2>1, <2>2 DEF Samples
    <3>2. dr_b[r] = file.lines[r + 1].label /\ dr_a[Cell(r, j)] = val(r)
      BY <3>1 DEF DataInv, LinesInv, LoadStages
    <3>3. Cell(r, j) \in Places
      BY <1>1, <3>1, CellFacts DEF Cell, Places, Columns
    <3> QED
      BY <2>1, <3>2, <3>3, DataAssumption
  <2>3. Column(j) = column
    <3>1. \A r \in Samples : dr_a[r * dr_numFeatures + j] = val(r)
      BY <2>2 DEF Cell
    <3> HIDE DEF val
    <3>2. Column(j) = {val(r) : r \in Samples}
      BY <3>1 DEF Column
    <3> QED
      BY <3>2 DEF val
  <2>4. norm = IF HasRange(j) THEN Between(val(i), j) ELSE Left
    <3>1. norm = dr_a_norm[Cell(i, j)]
      BY DEF Cell
    <3> QED
      BY <2>2, <3>1 DEF DataInv, NormInv
  <2> HIDE DEF norm
  <2>5. \A r \in Samples : val(r) \in column
    OBVIOUS
  <2>6. \A v \in column : \E r \in Samples : v = val(r)
    OBVIOUS
  <2> HIDE DEF val, column
  <2>7. column \in SUBSET Int /\ Samples = 0..(dr_numSamples - 1)
    BY <2>2, <2>6 DEF Samples
  <2> DEFINE f == [r \in Samples |-> val(r)]
  <2>8. /\ \E k \in Samples : \A r \in Samples : f[k] <= f[r]
        /\ \E k \in Samples : \A r \in Samples : f[r] <= f[k]
    <3>1. \A r \in 0..(dr_numSamples - 1) : f[r] \in Int
      BY <2>2, <2>7
    <3> HIDE DEF f
    <3> QED
      BY <1>1, <2>7, <3>1, ExtremesOf
  <2>9. PICK lo \in column : \A v \in column : lo <= v
    BY <2>5, <2>6, <2>8
  <2>10. PICK hi \in column : \A v \in column : v <= hi
    BY <2>5, <2>6, <2>8
  <2>11. Least(column) = lo
    BY <2>7, <2>9, LeastIs
  <2>12. Greatest(column) = IF hi < 0 THEN 0 ELSE hi
    BY <2>7, <2>10, GreatestIs
  <2>13. lo \in Int /\ hi \in Int /\ lo <= hi /\ val(i) \in column /\ val(i) \in Int
         /\ lo <= val(i) /\ val(i) <= hi
    BY <2>5, <2>7, <2>9, <2>10
  <2>14. CASE HasRange(j)
    <3> DEFINE g == IF hi < 0 THEN 0 ELSE hi
    <3>1. norm = <<val(i) - lo, g - lo>>
      BY <2>3, <2>4, <2>11, <2>12, <2>14 DEF Between
    <3>2. g \in Int /\ hi <= g
      BY <2>13
    <3> HIDE DEF g
    <3>3. norm[1] = val(i) - lo /\ norm[2] = g - lo
      BY <3>1
    <3>4. norm[1] \in 0..norm[2]
      BY <2>13, <3>2, <3>3
    <3>5. norm[1] = norm[2] => \A v \in column : v <= val(i)
      <4> SUFFICES ASSUME norm[1] = norm[2], NEW v \in column PROVE v <= val(i)
        OBVIOUS
      <4>1. val(i) = g
        <5>1. \A a, b, c \in Int : a - c = b - c => a = b
          OBVIOUS
        <5>2. val(i) - lo = g - lo
          BY <3>3
        <5> QED
          BY <2>13, <3>2, <5>1, <5>2, Zenon
      <4>2. v \in Int /\ v <= hi
        BY <2>7, <2>10
      <4> QED
        BY <2>13, <3>2, <4>1, <4>2
    <3>6. norm[1] = val(i) - Least(column)
      BY <2>11, <3>3
    <3> QED
      BY <2>1, <2>2, <3>4, <3>5, <3>6 DEF val, column, norm
  <2>15. CASE ~HasRange(j)
    <3>1. ~(lo < IF hi < 0 THEN 0 ELSE hi) /\ ~(lo <= 0)
      BY <2>3, <2>11, <2>12, <2>15 DEF HasRange
    <3>2. lo > 0 /\ hi = lo
      BY <2>13, <3>1
    <3>3. column = {lo}
      <4>1. \A v \in column : v = lo
        <5> TAKE v \in column
        <5>1. v \in Int /\ lo <= v /\ v <= hi
          BY <2>7, <2>9, <2>10
        <5> QED
          BY <2>13, <3>2, <5>1
      <4> QED
        BY <4>1
    <3>4. norm = Left
      BY <2>4, <2>15
    <3>5. \E v \in column : v > 0 /\ column = {v} /\ norm = Left
      BY <3>2, <3>3, <3>4
    <3> QED
      BY <2>1, <2>2, <3>5 DEF val, column, norm
  <2> QED
    BY <2>14, <2>15
<1> QED
  BY <1>2, <1>3

-------------------------------------------------------------------------------
(* All programs.                                                           *)

\* The invariants of all of them, of which one program's can be disturbed.
ProgramsInv ==
  /\ program \in Names
  /\ AdminInv /\ RpsInv /\ TcpInv /\ SsdInv /\ TablesInv /\ ControlInv /\ DataInv /\ WeaveInv

\* A program of a module steps by its own next-state relation or not at all.
LEMMA OneRuns ==
  ASSUME [ProgramsNext]_programsVars
  PROVE  /\ program' = program
         /\ [Next]_vars /\ [RpsNext]_rpsVars /\ [TcpNext]_tcpVars /\ [SsdNext]_ssdVars
         /\ [TablesNext]_tableVars /\ [ProgramNext]_programVars /\ [DataNext]_dataVars
         /\ [WeaveNext]_weaveVars
<1>1. CASE UNCHANGED programsVars
  <2>1. program' = program /\ UNCHANGED allVars
    BY <1>1 DEF programsVars
  <2>2. /\ UNCHANGED vars /\ UNCHANGED rpsVars /\ UNCHANGED tcpVars /\ UNCHANGED ssdVars
        /\ UNCHANGED tableVars /\ UNCHANGED programVars /\ UNCHANGED dataVars /\ UNCHANGED weaveVars
    BY <2>1 DEF allVars
  <2> QED
    BY <2>1, <2>2
<1>2. CASE ProgramsNext
  <2>1. program' = program
    BY <1>2 DEF ProgramsNext, Runs
  <2>2. [Next]_vars
    BY <1>2, Zenon DEF ProgramsNext, NotTables, NotSwitch, NotSsd, NotRps, NotTcp, NotData, NotWeave
  <2>3. [RpsNext]_rpsVars
    BY <1>2, Zenon DEF ProgramsNext, NotNvme, NotTables, NotSwitch, NotSsd, NotTcp, NotData, NotWeave
  <2>4. [TcpNext]_tcpVars
    BY <1>2, Zenon DEF ProgramsNext, NotNvme, NotTables, NotSwitch, NotSsd, NotRps, NotData, NotWeave
  <2>5. [SsdNext]_ssdVars
    BY <1>2, Zenon DEF ProgramsNext, NotNvme, NotTables, NotSwitch, NotRps, NotTcp, NotData, NotWeave
  <2>6. [TablesNext]_tableVars
    BY <1>2, Zenon DEF ProgramsNext, NotNvme, NotSwitch, NotSsd, NotRps, NotTcp, NotData, NotWeave
  <2>7. [ProgramNext]_programVars
    BY <1>2, Zenon DEF ProgramsNext, NotNvme, NotTables, NotSsd, NotRps, NotTcp, NotData, NotWeave
  <2>8. [DataNext]_dataVars
    BY <1>2, Zenon DEF ProgramsNext, NotNvme, NotTables, NotSwitch, NotSsd, NotRps, NotTcp, NotWeave
  <2>9. [WeaveNext]_weaveVars
    BY <1>2, Zenon DEF ProgramsNext, NotNvme, NotTables, NotSwitch, NotSsd, NotRps, NotTcp, NotData
  <2> QED
    BY <2>1, <2>2, <2>3, <2>4, <2>5, <2>6, <2>7, <2>8, <2>9
<1> QED
  BY <1>1, <1>2

LEMMA ProgramsInitInv == ProgramsInit => ProgramsInv
  BY AdminInitInv, RpsInitInv, TcpInitInv, SsdInitInv, TablesInitInv, ControlInitInv, DataInitInv,
     WeaveInitInv DEF ProgramsInit, ProgramsInv

LEMMA ProgramsStepInv == ProgramsInv /\ [ProgramsNext]_programsVars => ProgramsInv'
  BY OneRuns, AdminStepInv, RpsStepInv, TcpStepInv, SsdStepInv, TablesStepInv, ControlStepInv,
     DataStepInv, WeaveStepInv DEF ProgramsInv

\* Of each program of Programs: every variable has its type, every index and
\* counter its range, whatever the constants are.
THEOREM ProgramsTypeCorrect == ProgramsSpec => []ProgramsTypeOK
<1>1. ProgramsInv => ProgramsTypeOK
  BY TablesInvSuffices, ControlInvSuffices, SsdInvSuffices, RpsInvSuffices, TcpInvSuffices,
     DataInvSuffices, WeaveInvSuffices DEF ProgramsInv, ProgramsTypeOK
<1> QED
  BY <1>1, ProgramsInitInv, ProgramsStepInv, PTL DEF ProgramsSpec

\* The same of the bring-up of the SSD (LatencyBenchmark.cpp).
THEOREM TypeCorrect == ProgramsSpec => []TypeOK
<1>1. ProgramsInv => TypeOK
  BY DEF ProgramsInv, AdminInv
<1> QED
  BY <1>1, ProgramsInitInv, ProgramsStepInv, PTL DEF ProgramsSpec

\* The bring-up acts on answers to this run's commands only.
THEOREM StatusAnswered == ProgramsSpec => []StatusOfThisRun
<1>1. ProgramsInv => StatusOfThisRun
  BY DEF ProgramsInv, AdminInv
<1> QED
  BY <1>1, ProgramsInitInv, ProgramsStepInv, PTL DEF ProgramsSpec

\* A thread of the packet service (rps.cpp) answers what came, and nothing is
\* written over what it has not answered.
THEOREM OnlyWhatCameAnswered == ProgramsSpec => []OnlyWhatCame
<1>1. ProgramsInv => OnlyWhatCame
  BY RpsInvSuffices DEF ProgramsInv
<1> QED
  BY <1>1, ProgramsInitInv, ProgramsStepInv, PTL DEF ProgramsSpec

\* An FPGA of tcp_latency, hyperloglog or allreduce (mpireduce.cpp) that is
\* started has been told the session it really has, to the node that was meant,
\* also after the resets in between; and the sessions of an allreduce are one
\* ring, for every number of nodes.  tcp_benchmark is not among them: its FPGA is
\* told session_id[0], which the program never sets (tcp_benchmark.cpp:194).
THEOREM SessionsStarted == ProgramsSpec => []StartedOnSession
<1>1. ProgramsInv => StartedOnSession
  BY TcpInvSuffices DEF ProgramsInv
<1> QED
  BY <1>1, ProgramsInitInv, ProgramsStepInv, PTL DEF ProgramsSpec

\* The SSD benchmark takes its buffer back only when no SSD has a command on it
\* any more, and has then stored every embedding in a place of its own,
\* whatever the number of devices and the order of completion.
THEOREM EverythingStored == ProgramsSpec => []AllStored
<1>1. ProgramsInv => AllStored
  BY SsdInvSuffices DEF ProgramsInv
<1> QED
  BY <1>1, ProgramsInitInv, ProgramsStepInv, PTL DEF ProgramsSpec

\* An id P4Table (p4_table.cpp:24-112) answers for a name that was asked since the
\* last setTable is the present table's for just that name, whatever calls came
\* before, failed ones and those of another table among them.
THEOREM TablesStayRight == ProgramsSpec => []TablesRight
<1>1. ProgramsInv => TablesRight
  BY TablesInvSuffices DEF ProgramsInv, TablesRight
<1> QED
  BY <1>1, ProgramsInitInv, ProgramsStepInv, PTL DEF ProgramsSpec

\* While no call of the switch fails it joins the groups and nodes that
\* P4Program (p4_program.cpp) was asked to join, and no others.
THEOREM EdgesMade == ProgramsSpec => []EdgesInSwitch
<1>1. ProgramsInv => EdgesInSwitch
  BY ControlInvSuffices DEF ProgramsInv
<1> QED
  BY <1>1, ProgramsInitInv, ProgramsStepInv, PTL DEF ProgramsSpec

\* What the training program (sgd_pm.cpp) makes ready of a file is the file's,
\* sample by sample and feature by feature, for every file and every size.
THEOREM RowsMadeExact == ProgramsSpec => []RowsExact
<1>1. ProgramsInv => RowsExact
  BY DataInvSuffices DEF ProgramsInv
<1> QED
  BY <1>1, ProgramsInitInv, ProgramsStepInv, PTL DEF ProgramsSpec

\* Of every dataset, whatever its shape and the number of workers, the lines
\* the training program weaves (sgd_pm.cpp) hold each bit of the worker's part
\* in one half line and in no other, and nothing else; and all of them are
\* read from within the source.
THEOREM BitsStayPlaced == ProgramsSpec => []EveryBitPlaced
<1>1. ProgramsInv => EveryBitPlaced
  BY WeaveInvSuffices DEF ProgramsInv
<1> QED
  BY <1>1, ProgramsInitInv, ProgramsStepInv, PTL DEF ProgramsSpec

\* With one worker, and datasets for which the memory the program takes is
\* enough, the FPGA is besides told to read just what was written, or the last
\* block of samples too, and neither lines, labels nor models are on top of
\* one another.
THEOREM LayoutStaysRight ==
  ASSUME DatasetsFit
  PROVE  ProgramsSpec => []LayoutRight
<1>1. ProgramsInv => LayoutRight
  BY WeaveInvSuffices DEF ProgramsInv
<1> QED
  BY <1>1, ProgramsInitInv, ProgramsStepInv, PTL DEF ProgramsSpec

-------------------------------------------------------------------------------
(* No program comes to a standstill: the bring-up of the SSD.              *)

\* Both of the controller's ends of the queues start where the program's do.
ControllerBegins ==
  /\ sqHead = cqTail
  /\ ~ready \/ pc \in {"enable", "wait_ready", "clear"} => sqHead = 0 /\ phase = 1 /\ cqHead = 0
  /\ pc \in {"begin", "wait_reset", "enable", "wait_ready", "clear"} => step = 1

\* Commands sent and answers taken in this run
Sent == IF pc = "submit" THEN step - 1 ELSE step
Answers == IF pc = "up" THEN step ELSE step - 1

\* A run whose commands fit the queue is at its e-th completion: all before it
\* carry the phase, and the head, which goes to and fro between two entries, is
\* at one of them.
RoundAt(e) ==
  /\ e \in 0..Sent /\ sqHead = e % Depth
  /\ e < Depth => phase = 1
  /\ \A i \in Slots : cq[i].phase = IF i < e THEN 1 ELSE 0
  /\ Answers <= e \/ 2 <= e
  /\ pc = "status" => Answers < e \/ 2 <= e
RoundInv ==
  pc \in AdminWorking /\ Count <= Depth =>
    /\ step \in 1..Count /\ admin_sq_tl = Sent % Depth
    /\ admin_cq_hd = Answers % 2 /\ cqHead = admin_cq_hd
    /\ \E e \in Nat : RoundAt(e)

BringUpInv == ControllerBegins /\ RoundInv

LEMMA BringUpInit == Init => BringUpInv
  BY DEF Init, BringUpInv, ControllerBegins, RoundInv, AdminWorking

LEMMA BeginsKept == AdminInv /\ ControllerBegins /\ [Next]_vars => ControllerBegins'
<1> SUFFICES ASSUME AdminInv, ControllerBegins, [Next]_vars PROVE ControllerBegins'
  OBVIOUS
<1>1. CASE Start \/ End
  BY <1>1 DEF Start, End, ctlVars, ControllerBegins
<1>2. CASE Disable \/ WaitReset \/ Enable \/ WaitReady \/ ClearQueue
  BY <1>2 DEF Disable, WaitReset, Enable, WaitReady, ClearQueue, At, ctlVars, ControllerBegins
<1>3. CASE InsertAdminSq \/ WaitPhase \/ ReadStatus
  <2>1. pc \in AdminWorking /\ ready
    BY <1>3 DEF InsertAdminSq, WaitPhase, ReadStatus, AdminWorking, AdminInv, AdminStages, Running
  <2> QED
    BY <1>3, <2>1 DEF InsertAdminSq, WaitPhase, ReadStatus, ctlVars, ControllerBegins
<1>4. CASE Reset \/ GetReady
  BY <1>4 DEF Reset, GetReady, progVars, ControllerBegins
<1>5. CASE Execute
  <2>1. sqHead # sqTail /\ ready /\ ready' = ready /\ sqHead' = Succ(sqHead)
        /\ cqTail' = Succ(cqTail) /\ UNCHANGED <<pc, step>>
    BY <1>5 DEF Execute, progVars
  <2>2. pc \notin {"enable", "wait_ready", "clear"}
    BY <2>1 DEF AdminInv, AdminStages
  <2> QED
    BY <2>1, <2>2 DEF ControllerBegins
<1>6. CASE UNCHANGED vars
  BY <1>6 DEF vars, progVars, ctlVars, ControllerBegins
<1> QED
  BY <1>1, <1>2, <1>3, <1>4, <1>5, <1>6 DEF Next, Program, Controller

LEMMA CountFacts ==
  ASSUME TypeOK
  PROVE  Count \in Nat /\ Count >= 4 /\ Count' = 2 * queue_num' + 2
<1>1. queue_num \in Nat \ {0}
  BY NvmeAssumption DEF TypeOK
<1> QED
  BY <1>1 DEF Count

LEMMA ModDepth ==
  ASSUME NEW e \in 0..Depth
  PROVE  e % Depth = IF e = Depth THEN 0 ELSE e
<1>1. CASE e = Depth
  BY <1>1, NvmeAssumption
<1>2. CASE e < Depth
  BY <1>2, NvmeAssumption
<1> QED
  BY <1>1, <1>2, NvmeAssumption

\* The head goes from one of two entries to the other.
LEMMA HeadTurns ==
  ASSUME NEW a \in Nat, admin_cq_hd = a % 2
  PROVE  NextHead = (a + 1) % 2
<1>1. a % 2 \in {0, 1} /\ (a + 1) % 2 = IF a % 2 = 0 THEN 1 ELSE 0
  OBVIOUS
<1>2. 0 % Depth = 0
  BY ModDepth, NvmeAssumption
<1>3. CASE a % 2 = 0
  <2>1. NextHead = (1 % 2) + 4 * ((1 \div 4) % Depth)
    BY <1>3 DEF NextHead
  <2>2. 1 % 2 = 1 /\ 1 \div 4 = 0
    OBVIOUS
  <2> QED
    BY <1>1, <1>2, <1>3, <2>1, <2>2
<1>4. CASE a % 2 = 1
  <2>1. NextHead = (2 % 2) + 4 * ((2 \div 4) % Depth)
    BY <1>4 DEF NextHead
  <2>2. 2 % 2 = 0 /\ 2 \div 4 = 0
    OBVIOUS
  <2> QED
    BY <1>1, <1>2, <1>4, <2>1, <2>2
<1> QED
  BY <1>1, <1>3, <1>4

LEMMA HeadIs ==
  ASSUME TypeOK, Count <= Depth, NEW a \in Nat, admin_cq_hd = a % 2
  PROVE  admin_cq_hd \in {0, 1} /\ admin_cq_hd \in Slots /\ HeadEntry = cq[admin_cq_hd]
<1>1. admin_cq_hd \in {0, 1} /\ Depth >= 4 /\ Depth \in Nat
  BY CountFacts, NvmeAssumption
<1>2. admin_cq_hd % Depth = admin_cq_hd
  BY <1>1, ModDepth
<1> QED
  BY <1>1, <1>2 DEF HeadEntry, Slots

LEMMA RoundKept == AdminInv /\ BringUpInv /\ [Next]_vars => RoundInv'
<1> SUFFICES ASSUME AdminInv, BringUpInv, [Next]_vars, pc' \in AdminWorking, (Count <= Depth)'
             PROVE  /\ step' \in 1..Count' /\ admin_sq_tl' = Sent' % Depth
                    /\ admin_cq_hd' = Answers' % 2 /\ cqHead' = admin_cq_hd'
                    /\ \E e \in Nat : RoundAt(e)'
  BY DEF RoundInv
<1>0. queue_num' = queue_num
  BY DEF Next, Program, Controller, Start, End, Disable, WaitReset, Enable, WaitReady, ClearQueue,
         At, InsertAdminSq, WaitPhase, ReadStatus, Reset, GetReady, Execute, vars
<1>1. Count' = Count /\ Count \in Nat /\ Count >= 4 /\ Count <= Depth /\ Depth \in Nat /\ TypeOK
  BY <1>0, CountFacts, NvmeAssumption DEF Count, AdminInv
<1>2. step \in Nat \ {0} /\ ControllerBegins /\ RoundInv
  BY <1>1 DEF BringUpInv, TypeOK
<1>3. CASE Start \/ End \/ Disable \/ WaitReset \/ Enable \/ WaitReady
  BY <1>3 DEF Start, End, Disable, WaitReset, Enable, WaitReady, At, AdminWorking
<1>4. CASE ClearQueue
  <2>1. /\ pc = "clear" /\ pc' = "submit" /\ step' = 1 /\ admin_sq_tl' = 0 /\ admin_cq_hd' = 0
        /\ cqHead' = 0 /\ sqHead' = 0 /\ phase' = 1
    BY <1>2, <1>4 DEF ClearQueue, At, ctlVars, ControllerBegins
  <2>2. Sent' = 0 /\ Answers' = 0 /\ 0 % Depth = 0 /\ 0 % 2 = 0
    BY <1>1, <2>1, ModDepth DEF Sent, Answers
  <2>3. \A i \in Slots : cq'[i].phase = 0
    BY <1>4 DEF ClearQueue, Cleared, Empty
  <2>4. RoundAt(0)'
    BY <2>1, <2>2, <2>3 DEF RoundAt, Slots
  <2> QED
    BY <1>1, <2>1, <2>2, <2>4
<1>5. CASE pc \in AdminWorking
  <2>1. /\ step \in 1..Count /\ admin_sq_tl = Sent % Depth
        /\ admin_cq_hd = Answers % 2 /\ cqHead = admin_cq_hd
    BY <1>1, <1>2, <1>5 DEF RoundInv
  <2>2. PICK e \in Nat : RoundAt(e)
    BY <1>1, <1>2, <1>5 DEF RoundInv
  <2>3. e \in 0..Sent /\ Sent \in 0..Count /\ Answers \in 0..Count
    BY <1>1, <2>1, <2>2 DEF RoundAt, Sent, Answers
  <2>4. CASE InsertAdminSq
    <3>1. /\ pc = "submit" /\ pc' = "wait" /\ step' = step /\ admin_sq_tl' = NextTail
          /\ UNCHANGED <<admin_cq_hd, cqHead, cq, sqHead, phase>>
      BY <2>4 DEF InsertAdminSq, ctlVars
    <3>2. Sent' = Sent + 1 /\ Answers' = Answers /\ Sent = step - 1
      BY <1>2, <3>1 DEF Sent, Answers
    <3>3. Sent \in 0..Depth /\ Sent + 1 \in 0..Depth /\ Sent # Depth
      BY <1>1, <2>1, <3>2
    <3>4. admin_sq_tl = Sent /\ admin_sq_tl' = (Sent + 1) % Depth
      BY <2>1, <3>1, <3>3, ModDepth DEF NextTail
    <3>5. RoundAt(e)'
      BY <2>2, <2>3, <3>1, <3>2, <3>3 DEF RoundAt
    <3> QED
      BY <1>1, <2>1, <3>1, <3>2, <3>4, <3>5
  <2>5. CASE WaitPhase
    <3>1. /\ pc = "wait" /\ pc' = "status" /\ HeadEntry.phase # UnexpectedPhase
          /\ UNCHANGED <<step, admin_sq_tl, admin_cq_hd, cqHead, cq, sqHead, phase>>
      BY <2>5 DEF WaitPhase, ctlVars
    <3>2. Sent' = Sent /\ Answers' = Answers
      BY <3>1 DEF Sent, Answers
    <3>3. Answers < e \/ 2 <= e
      <4>1. admin_cq_hd \in {0, 1} /\ admin_cq_hd \in Slots /\ HeadEntry = cq[admin_cq_hd]
        BY <1>1, <2>1, <2>3, HeadIs
      <4>2. HeadEntry.phase = 1
        BY <1>1, <2>2, <3>1, <4>1, NoPhase DEF RoundAt, AdminInv
      <4>3. admin_cq_hd < e
        BY <2>2, <4>1, <4>2 DEF RoundAt
      <4>4. Answers \in {0, 1} => admin_cq_hd = Answers
        BY <2>1
      <4> QED
        BY <2>2, <2>3, <4>3, <4>4 DEF RoundAt
    <3>4. RoundAt(e)'
      BY <2>2, <3>1, <3>2, <3>3 DEF RoundAt
    <3> QED
      BY <1>1, <2>1, <3>1, <3>2, <3>4
  <2>6. CASE ReadStatus
    <3>1. /\ pc = "status" /\ admin_cq_hd' = NextHead /\ cqHead' = NextHead
          /\ UNCHANGED <<admin_sq_tl, cq, sqHead, phase>>
          /\ \/ pc' = "submit" /\ step' = step + 1 /\ step < Count
             \/ pc' = "up" /\ step' = step
      BY <2>6 DEF ReadStatus, AdminWorking, ctlVars
    <3>2. Sent' = Sent /\ Answers' = Answers + 1
      BY <1>2, <3>1 DEF Sent, Answers
    <3>3. NextHead = Answers' % 2
      BY <2>1, <2>3, <3>2, HeadTurns
    <3>4. RoundAt(e)'
      BY <2>2, <2>3, <3>1, <3>2 DEF RoundAt
    <3> QED
      BY <1>1, <2>1, <3>1, <3>2, <3>3, <3>4
  <2>7. CASE Reset \/ GetReady
    BY <1>5, <2>7 DEF Reset, GetReady, AdminInv, AdminStages, AdminWorking, Running
  <2>8. CASE Execute
    <3>1. /\ UNCHANGED <<pc, step, admin_sq_tl, admin_cq_hd, cqHead>> /\ sqHead # sqTail
          /\ sqHead' = Succ(sqHead)
          /\ phase' = IF Succ(cqTail) = 0 THEN 1 - phase ELSE phase
          /\ \E status, start :
               cq' = [cq EXCEPT ![cqTail] = [phase |-> phase, status |-> status, start |-> start]]
      BY <2>8 DEF Execute, progVars
    <3>2. sqTail = admin_sq_tl /\ sqHead = cqTail
      BY <1>2, <1>5 DEF AdminInv, AdminStages, ControllerBegins
    <3>3. e # Sent /\ e < Depth
      BY <1>1, <2>1, <2>2, <2>3, <3>1, <3>2 DEF RoundAt
    <3>4. e \in Slots /\ sqHead = e /\ phase = 1
      BY <1>1, <2>2, <2>3, <3>3, ModDepth DEF RoundAt, Slots
    <3>5. Succ(e) = (e + 1) % Depth /\ Succ(e) = IF e + 1 = Depth THEN 0 ELSE e + 1
      BY <3>4, SuccFacts DEF Succ
    <3>6. \A i \in Slots : cq'[i].phase = IF i < e + 1 THEN 1 ELSE 0
      <4>1. cq'[e].phase = 1 /\ \A i \in Slots : i # e => cq'[i] = cq[i]
        BY <1>1, <3>1, <3>2, <3>4 DEF TypeOK
      <4> QED
        BY <1>1, <2>2, <3>4, <4>1 DEF RoundAt, Slots
    <3>7. e + 1 < Depth => phase' = 1
      BY <1>1, <3>1, <3>2, <3>4, <3>5
    <3>8. Sent' = Sent /\ Answers' = Answers
      BY <3>1 DEF Sent, Answers
    <3>9. RoundAt(e + 1)'
      BY <2>2, <2>3, <3>1, <3>3, <3>4, <3>5, <3>6, <3>7, <3>8 DEF RoundAt
    <3> QED
      BY <1>1, <2>1, <2>2, <3>1, <3>8, <3>9
  <2>9. CASE UNCHANGED vars
    <3>1. UNCHANGED <<pc, step, admin_sq_tl, admin_cq_hd, cqHead, cq, sqHead, phase>>
      BY <2>9 DEF vars, progVars, ctlVars
    <3>2. RoundAt(e)' /\ Sent' = Sent /\ Answers' = Answers
      BY <2>2, <3>1 DEF RoundAt, Sent, Answers
    <3> QED
      BY <1>1, <2>1, <3>1, <3>2
  <2>10. ~(Start \/ End \/ Disable \/ WaitReset \/ Enable \/ WaitReady \/ ClearQueue)
    BY <1>5 DEF Start, End, Disable, WaitReset, Enable, WaitReady, ClearQueue, At, AdminWorking
  <2> QED
    BY <2>4, <2>5, <2>6, <2>7, <2>8, <2>9, <2>10 DEF Next, Program, Controller
<1>6. CASE pc \notin AdminWorking
  <2>1. ~(InsertAdminSq \/ WaitPhase \/ ReadStatus)
    BY <1>6 DEF InsertAdminSq, WaitPhase, ReadStatus, AdminWorking
  <2>2. ~(Controller \/ UNCHANGED vars)
    BY <1>6 DEF Controller, Reset, GetReady, Execute, progVars, vars
  <2> QED
    BY <1>3, <1>4, <2>1, <2>2 DEF Next, Program
<1> QED
  BY <1>5, <1>6

\* The program or the controller can go on.
BringUpCanMove ==
  \/ pc \in {"begin", "enable", "clear", "submit"}
  \/ pc = "wait_reset" /\ ~ready
  \/ pc = "wait_ready" /\ ready
  \/ pc = "wait" /\ HeadEntry.phase # UnexpectedPhase
  \/ pc = "status" /\ HeadEntry.status \in {0, 1} /\ step <= Count
  \/ enabled # ready
  \/ ready /\ sqHead # sqTail /\ Succ(cqTail) # cqHead

\* A run whose commands fit the queue goes on until it is up or ended.
BringUpGoesOn == pc \in {"up", "down"} \/ BringUpCanMove \/ ~(Count <= Depth)

LEMMA BringUpNeverStuck == AdminInv /\ BringUpInv => BringUpGoesOn
<1> SUFFICES ASSUME AdminInv, BringUpInv, pc \notin {"up", "down"}, Count <= Depth, ~BringUpCanMove
             PROVE  FALSE
  BY DEF BringUpGoesOn
<1>1. TypeOK /\ AdminStages /\ enabled = ready
  BY DEF AdminInv, BringUpCanMove
<1>2. pc \in {"wait", "status"}
  BY <1>1 DEF TypeOK, AdminStages, Running, BringUpCanMove
<1>3. Count \in Nat /\ Count >= 4 /\ Depth \in Nat /\ Depth >= 4
  BY <1>1, CountFacts, NvmeAssumption
<1>4. /\ step \in 1..Count /\ admin_sq_tl = Sent % Depth /\ Sent = step /\ Answers = step - 1
      /\ admin_cq_hd = Answers % 2 /\ cqHead = admin_cq_hd
  BY <1>2 DEF BringUpInv, RoundInv, AdminWorking, Sent, Answers
<1>5. PICK e \in Nat : RoundAt(e)
  BY <1>2 DEF BringUpInv, RoundInv, AdminWorking
<1>6. admin_cq_hd \in {0, 1} /\ admin_cq_hd \in Slots /\ HeadEntry = cq[admin_cq_hd]
  BY <1>1, <1>3, <1>4, HeadIs
<1>7. pc = "wait"
  <2>1. HeadEntry.status \in {0, 1}
    BY <1>1, <1>6 DEF TypeOK
  <2> QED
    BY <1>2, <1>3, <1>4, <2>1 DEF BringUpCanMove
<1>8. ~(admin_cq_hd < e)
  <2> SUFFICES ASSUME admin_cq_hd < e PROVE FALSE
    OBVIOUS
  <2>1. HeadEntry.phase = 1
    BY <1>5, <1>6 DEF RoundAt
  <2> QED
    BY <1>1, <1>7, <2>1, NoPhase DEF AdminInv, BringUpCanMove
<1>9. e \in {0, 1} /\ e = Answers /\ admin_cq_hd = e
  <2>1. e \in {0, 1} /\ Answers <= e /\ e <= admin_cq_hd
    BY <1>4, <1>5, <1>6, <1>8 DEF RoundAt
  <2>2. Answers \in {0, 1}
    BY <1>3, <1>4, <2>1
  <2>3. admin_cq_hd = Answers
    BY <1>4, <2>2
  <2> QED
    BY <1>6, <2>1, <2>2, <2>3
<1>10. sqHead = e /\ admin_sq_tl = e + 1 /\ (e + 1) % Depth = e + 1
  <2>1. e % Depth = e /\ (e + 1) % Depth = e + 1
    BY <1>3, <1>9, ModDepth
  <2>2. sqHead = e % Depth
    BY <1>5 DEF RoundAt
  <2> QED
    BY <1>3, <1>4, <1>9, <2>1, <2>2
<1>11. ready /\ sqTail = admin_sq_tl /\ cqTail = sqHead
  BY <1>1, <1>7 DEF AdminStages, Running, AdminWorking, BringUpInv, ControllerBegins
<1>12. Succ(cqTail) # cqHead /\ sqHead # sqTail
  BY <1>4, <1>9, <1>10, <1>11 DEF Succ
<1> QED
  BY <1>11, <1>12 DEF BringUpCanMove

-------------------------------------------------------------------------------
(* No program comes to a standstill: the packet service.                   *)

\* What has come and was not answered lies in its slot; a thread is over when
\* it has answered all, and starts when the FPGA has its credits.
ServiceInv ==
  /\ rpc_pc # "alloc" =>
       \A r \in RingNames : \A n \in cur[r]..(Came(r) - 1) : ring[r][n % Size(r)] = Stamp(r, n)
  /\ over \subseteq RingNames /\ \A r \in RingNames : r \in over <=> cur[r] = NumRpcs
  /\ rpc_pc \in {"threads", "join"} => addressed
  /\ rpc_pc \in {"address", "threads", "join"} => credits = Credit
  /\ onCore \subseteq RingNames

LEMMA ServiceInit == RpsInit => ServiceInv
  BY RpsConstants DEF RpsInit, ServiceInv, RingNames

LEMMA SlotsDiffer ==
  ASSUME NEW m \in Nat \ {0}, NEW k \in Nat, NEW n \in Nat, k < n, n - k < m
  PROVE  k % m # n % m
<1> SUFFICES ASSUME k % m = n % m PROVE FALSE
  OBVIOUS
<1>0. /\ k \div m \in Nat /\ k % m \in 0..(m - 1) /\ k = (m * (k \div m)) + (k % m)
      /\ n \div m \in Nat /\ n = (m * (n \div m)) + (n % m)
  BY DivMod
<1> DEFINE a == k \div m
           b == n \div m
           d == k % m
<1>1. a \in Nat /\ b \in Nat /\ d \in Int /\ k = m * a + d /\ n = m * b + d
  BY <1>0
<1> HIDE DEF a, b, d
<1>2. n - k = m * b - m * a
  BY <1>1
<1>3. n - k = m * (b - a)
  BY <1>1, <1>2
<1>4. b - a >= 1
  BY <1>1, <1>3
<1>5. m * (b - a) >= m
  BY <1>1, <1>4
<1> QED
  BY <1>3, <1>5

\* The next word of a ring is written where none waits.
LEMMA PendingKept ==
  ASSUME RpsInv, ServiceInv, NEW r \in RingNames, NEW n \in Nat, n = Came(r), Write(r, n),
         n - cur[r] < Size(r), UNCHANGED <<role, rpc_pc, cur>>, Came(r)' = n + 1,
         \A q \in RingNames : q # r => Came(q)' = Came(q)
  PROVE  rpc_pc' # "alloc" =>
           \A q \in RingNames : \A k \in cur'[q]..(Came(q)' - 1) : ring'[q][k % Size(q)] = Stamp(q, k)'
<1> SUFFICES ASSUME rpc_pc # "alloc", NEW q \in RingNames, NEW k \in cur[q]..(Came(q)' - 1)
             PROVE  ring'[q][k % Size(q)] = Stamp(q, k)
  BY DEF Stamp
<1>1. Size(r) \in Nat \ {0} /\ n % Size(r) \in 0..(Size(r) - 1)
  BY RpsConstants
<1>2. /\ ring'[r] = [ring[r] EXCEPT ![n % Size(r)] = Stamp(r, n)]
      /\ \A p \in RingNames : p # r => ring'[p] = ring[p]
      /\ n % Size(r) \in DOMAIN ring[r]
  BY <1>1 DEF Write, RpsInv, RpsTypes
<1>3. CASE q # r
  BY <1>2, <1>3 DEF ServiceInv
<1>4. CASE q = r
  <2>1. cur[r] \in Nat /\ k \in Nat /\ k <= n /\ cur[r] <= k
    BY <1>4 DEF RpsInv, RpsTypes
  <2>2. CASE k = n
    BY <1>2, <1>4, <2>2
  <2>3. CASE k < n
    <3>1. k % Size(r) # n % Size(r)
      BY <1>1, <2>1, <2>3, SlotsDiffer
    <3>2. ring[r][k % Size(r)] = Stamp(r, k)
      BY <2>1, <2>3 DEF ServiceInv
    <3>3. k % Size(r) \in DOMAIN ring[r]
      BY <1>1, <2>1 DEF RpsInv, RpsTypes
    <3>4. ring'[r][k % Size(r)] = ring[r][k % Size(r)]
      BY <1>2, <3>1, <3>3
    <3> QED
      BY <1>4, <3>2, <3>4
  <2> QED
    BY <2>1, <2>2, <2>3
<1> QED
  BY <1>3, <1>4

LEMMA ServiceStep == RpsInv /\ ServiceInv /\ [RpsNext]_rpsVars => ServiceInv'
<1> SUFFICES ASSUME RpsInv, ServiceInv, [RpsNext]_rpsVars PROVE ServiceInv'
  OBVIOUS
<1>1. CASE FillBuffer
  <2>1. UNCHANGED <<cur, issued, csWritten, over, onCore, credits, addressed>> /\ rpc_pc = "alloc"
        /\ rpc_pc' = "reset"
    BY <1>1 DEF FillBuffer, Goto, fpgaVars
  <2>2. issued = 0
    BY <2>1 DEF RpsInv, BeginInv
  <2>3. \A r \in RingNames : cur[r] = 0 /\ Came(r) = 0
    BY <2>2 DEF RpsInv, RpsTypes, CreditInv, RingNames, Came
  <2>4. \A r \in RingNames : Came(r)' = Came(r)
    BY <2>1 DEF Came
  <2> QED
    BY <2>1, <2>3, <2>4 DEF ServiceInv
<1>2. CASE ResetAndConnect \/ WriteAddress \/ StartThreads \/ Join
  <2>1. UNCHANGED <<role, ring, cur, issued, csWritten, over, onCore>> /\ rpc_pc # "alloc"
    BY <1>2 DEF ResetAndConnect, WriteAddress, StartThreads, Join, Goto, fpgaVars
  <2>2. \A r \in RingNames : Came(r)' = Came(r) /\ \A n : Stamp(r, n)' = Stamp(r, n)
    BY <2>1 DEF Came, Stamp
  <2>3. /\ rpc_pc' \in {"threads", "join"} => addressed'
        /\ rpc_pc' \in {"address", "threads", "join"} => credits' = Credit
    BY <1>2 DEF ResetAndConnect, WriteAddress, StartThreads, Join, Goto, ServiceInv
  <2> QED
    BY <2>1, <2>2, <2>3 DEF ServiceInv
<1>3. ASSUME NEW r \in RingNames, Poll(r) PROVE ServiceInv'
  <2>1. /\ UNCHANGED <<role, rpc_pc, ring, credits, addressed, onCore, issued, csWritten>>
        /\ cur' = [cur EXCEPT ![r] = @ + 1] /\ r \notin over
        /\ over' = IF cur[r] + 1 = NumRpcs THEN over \cup {r} ELSE over
    BY <1>3 DEF Poll, fpgaVars
  <2>2. \A q \in RingNames : Came(q)' = Came(q) /\ \A n : Stamp(q, n)' = Stamp(q, n)
    BY <2>1 DEF Came, Stamp
  <2>3. cur[r] \in Nat /\ cur'[r] = cur[r] + 1 /\ \A q \in RingNames : q # r => cur'[q] = cur[q]
    BY <2>1 DEF RpsInv, RpsTypes
  <2>4. \A q \in RingNames : cur[q] \in Nat /\ cur'[q] \in Nat /\ cur'[q] >= cur[q] /\ Came(q) \in Nat
    BY <2>3 DEF RpsInv, RpsTypes, Came
  <2>5. rpc_pc' # "alloc" =>
          \A q \in RingNames : \A n \in cur'[q]..(Came(q)' - 1) : ring'[q][n % Size(q)] = Stamp(q, n)'
    <3> SUFFICES ASSUME rpc_pc # "alloc", NEW q \in RingNames, NEW n \in cur'[q]..(Came(q) - 1)
                 PROVE  ring[q][n % Size(q)] = Stamp(q, n)
      BY <2>1, <2>2
    <3>1. n \in cur[q]..(Came(q) - 1)
      BY <2>4
    <3> QED
      BY <3>1 DEF ServiceInv
  <2>6. over' \subseteq RingNames /\ \A q \in RingNames : q \in over' <=> cur'[q] = NumRpcs
    BY <2>1, <2>3 DEF ServiceInv
  <2> QED
    BY <2>1, <2>5, <2>6 DEF ServiceInv
<1>4. CASE Issue
  <2>1. /\ UNCHANGED <<role, rpc_pc, credits, addressed, onCore, cur, over, csWritten>>
        /\ Write("client", issued) /\ issued' = issued + 1 /\ issued - cur["cs"] < credits
    BY <1>4 DEF Issue
  <2>2. issued - cur["client"] < Size("client")
    BY <2>1, RpsConstants DEF RpsInv, RpsTypes, CreditInv, RingNames
  <2>3. /\ Came("client") = issued /\ Came("client")' = issued + 1
        /\ \A q \in RingNames : q # "client" => Came(q)' = Came(q)
    BY <2>1 DEF Came
  <2>4. rpc_pc' # "alloc" =>
          \A q \in RingNames : \A k \in cur'[q]..(Came(q)' - 1) : ring'[q][k % Size(q)] = Stamp(q, k)'
    BY <2>1, <2>2, <2>3, PendingKept DEF RpsInv, RpsTypes, RingNames
  <2> QED
    BY <2>1, <2>4 DEF ServiceInv
<1>5. CASE WriteCs
  <2>1. /\ UNCHANGED <<role, rpc_pc, credits, addressed, onCore, cur, over, issued>>
        /\ Write("cs", csWritten) /\ csWritten' = csWritten + 1 /\ csWritten < cur["client"]
    BY <1>5 DEF WriteCs
  <2>2. csWritten - cur["cs"] < Size("cs")
    BY <2>1, RpsConstants DEF RpsInv, RpsTypes, CreditInv, RingNames
  <2>3. /\ Came("cs") = csWritten /\ Came("cs")' = csWritten + 1
        /\ \A q \in RingNames : q # "cs" => Came(q)' = Came(q)
    BY <2>1 DEF Came, RingNames
  <2>4. rpc_pc' # "alloc" =>
          \A q \in RingNames : \A k \in cur'[q]..(Came(q)' - 1) : ring'[q][k % Size(q)] = Stamp(q, k)'
    BY <2>1, <2>2, <2>3, PendingKept DEF RpsInv, RpsTypes, RingNames
  <2> QED
    BY <2>1, <2>4 DEF ServiceInv
<1>6. CASE \/ \E r \in RingNames : Moved(r)
           \/ ClientStart \/ ClientStop \/ UNCHANGED rpsVars
  <2>1. /\ UNCHANGED <<role, rpc_pc, ring, credits, addressed, cur, over, issued, csWritten>>
        /\ onCore' = onCore \/ \E r \in RingNames : onCore' = onCore \cup {r}
    BY <1>6 DEF Moved, ClientStart, ClientStop, rpsVars, fpgaVars
  <2>2. \A q \in RingNames : Came(q)' = Came(q) /\ \A n : Stamp(q, n)' = Stamp(q, n)
    BY <2>1 DEF Came, Stamp
  <2> QED
    BY <2>1, <2>2 DEF ServiceInv
<1> QED
  BY <1>1, <1>2, <1>3, <1>4, <1>5, <1>6 DEF RpsNext, ServerMain, Fpga

\* Main, a thread or the FPGA can go on.
ServiceCanMove ==
  \/ rpc_pc \in {"alloc", "reset", "address", "threads"}
  \/ rpc_pc = "join" /\ (over = RingNames \/ onCore # RingNames)
  \/ \E r \in onCore \ over : ring[r][cur[r] % Size(r)] = Expected(r, cur[r])
  \/ addressed /\ issued < NumRpcs /\ issued - cur["cs"] < credits
     /\ (role = "bs" => client_pc = "started")
  \/ csWritten < cur["client"]

\* Until it is over the packet service goes on, unless the client host has yet
\* to start or has stopped before the last request.
ServiceGoesOn ==
  \/ rpc_pc = "ended" \/ ServiceCanMove
  \/ role = "bs" /\ client_pc # "started" /\ issued < NumRpcs

LEMMA ServiceNeverStuck == RpsInv /\ ServiceInv => ServiceGoesOn
<1> SUFFICES ASSUME RpsInv, ServiceInv, rpc_pc # "ended", ~ServiceCanMove
             PROVE  role = "bs" /\ client_pc # "started" /\ issued < NumRpcs
  BY DEF ServiceGoesOn
<1>1. rpc_pc = "join" /\ onCore = RingNames /\ over # RingNames
  BY DEF ServiceCanMove, RpsInv, RpsTypes
<1>2. addressed /\ credits = Credit
  BY <1>1 DEF ServiceInv
<1>3. /\ cur["client"] \in Nat /\ cur["cs"] \in Nat /\ csWritten \in Nat /\ issued \in 0..NumRpcs
      /\ cur["cs"] <= csWritten /\ csWritten <= cur["client"] /\ cur["client"] <= issued
  BY DEF RpsInv, RpsTypes, CreditInv, RingNames
<1>4. \A r \in RingNames : cur[r] \in Nat /\ Came(r) \in Nat /\ cur[r] <= Came(r)
  BY <1>3 DEF RingNames, Came
<1>5. ASSUME NEW r \in RingNames, r \notin over
      PROVE  cur[r] = Came(r)
  <2> SUFFICES ASSUME cur[r] < Came(r) PROVE FALSE
    BY <1>4
  <2>1. ring[r][cur[r] % Size(r)] = Stamp(r, cur[r])
    BY <1>1, <1>4 DEF ServiceInv
  <2>2. Stamp(r, cur[r]) = Expected(r, cur[r])
    BY DEF RpsInv, RpsTypes, RingNames, Stamp, Expected
  <2> QED
    BY <1>1, <1>5, <2>1, <2>2 DEF ServiceCanMove
<1>6. csWritten = cur["client"]
  BY <1>3 DEF ServiceCanMove
<1>7. \A r \in RingNames : r \in over <=> cur[r] = NumRpcs
  BY DEF ServiceInv
<1>8. "cs" \notin over
  <2> SUFFICES ASSUME "cs" \in over PROVE FALSE
    OBVIOUS
  <2>1. cur["cs"] = NumRpcs /\ cur["client"] = NumRpcs
    BY <1>3, <1>7, RpsConstants DEF RingNames
  <2>2. over = RingNames
    BY <1>7, <2>1 DEF RingNames, ServiceInv
  <2> QED
    BY <1>1, <2>2
<1>9. cur["cs"] = cur["client"]
  BY <1>5, <1>6, <1>8 DEF RingNames, Came
<1>10. "client" \notin over /\ cur["cs"] # NumRpcs
  BY <1>7, <1>8, <1>9 DEF RingNames
<1>11. cur["cs"] = issued /\ issued < NumRpcs
  BY <1>3, <1>5, <1>9, <1>10, RpsConstants DEF RingNames, Came
<1>12. issued - cur["cs"] < credits
  BY <1>2, <1>3, <1>11, RpsConstants
<1> QED
  BY <1>2, <1>11, <1>12 DEF ServiceCanMove, RpsInv, RpsTypes

-------------------------------------------------------------------------------
(* No program comes to a standstill: the TCP programs.                     *)

\* Where a script listens and opens, and what it waits for where.
ScriptWaits(n) ==
  LET S == Script(n) IN
  /\ Len(S) >= 3 /\ S[3] = "listen"
  /\ Opener(n) => Len(S) > OpenAt /\ S[OpenAt] = "open" /\ S[OpenAt + 1] = "await_open"
  /\ \A i \in 1..Len(S) :
       /\ S[i] = "open" => Opener(n) /\ i = OpenAt
       /\ S[i] = "await_listen" => i > 3
       /\ S[i] = "await_open" => Opener(n) /\ i > OpenAt
       /\ S[i] = "key" => tapp = "allreduce" \/ n = Server

LEMMA FromPart ==
  ASSUME NEW P \in Seq(TcpOps), NEW T \in Seq(TcpOps), NEW Q \in SUBSET TcpOps,
         \A j \in 1..Len(T) : T[j] \in Q
  PROVE  /\ P \o T \in Seq(TcpOps) /\ Len(P \o T) >= Len(P)
         /\ \A i \in 1..Len(P \o T) :
              IF i <= Len(P) THEN (P \o T)[i] = P[i] ELSE (P \o T)[i] \in Q
<1>1. Len(P) \in Nat /\ Len(T) \in Nat
  BY LenProperties
<1>2. /\ P \o T \in Seq(TcpOps) /\ Len(P \o T) = Len(P) + Len(T)
      /\ \A i \in 1..(Len(P) + Len(T)) : (P \o T)[i] = IF i <= Len(P) THEN P[i] ELSE T[i - Len(P)]
  BY ConcatProperties
<1>3. ASSUME NEW i \in 1..Len(P \o T), ~(i <= Len(P)) PROVE (P \o T)[i] \in Q
  <2>1. i - Len(P) \in 1..Len(T)
    BY <1>1, <1>2, <1>3
  <2> QED
    BY <1>2, <1>3, <2>1
<1> QED
  BY <1>1, <1>2, <1>3

LEMMA TimesFrom ==
  ASSUME NEW R \in Seq(TcpOps), Len(R) \in {1, 2, 4}, NEW k \in Nat, NEW Q,
         \A j \in 1..Len(R) : R[j] \in Q
  PROVE  Times(R, k) \in Seq(TcpOps) /\ \A j \in 1..Len(Times(R, k)) : Times(R, k)[j] \in Q
<1>1. /\ Times(R, k) \in Seq(TcpOps) /\ Len(Times(R, k)) = k * Len(R)
      /\ \A i \in 1..(k * Len(R)) : Times(R, k)[i] = R[((i - 1) % Len(R)) + 1]
  BY TimesFacts
<1>2. ASSUME NEW j \in 1..(k * Len(R)) PROVE ((j - 1) % Len(R)) + 1 \in 1..Len(R)
  <2>1. j - 1 \in Nat
    BY <1>2
  <2> DEFINE m == j - 1
  <2> HIDE DEF m
  <2>2. m \in Nat
    BY <2>1 DEF m
  <2>3. CASE Len(R) = 1
    BY <2>2, <2>3 DEF m
  <2>4. CASE Len(R) = 2
    BY <2>2, <2>4 DEF m
  <2>5. CASE Len(R) = 4
    BY <2>2, <2>5 DEF m
  <2> QED
    BY <2>3, <2>4, <2>5
<1> QED
  BY <1>1, <1>2

LEMMA Regroup ==
  ASSUME NEW a \in Seq(TcpOps), NEW b \in Seq(TcpOps), NEW c \in Seq(TcpOps)
  PROVE  a \o (b \o c) = (a \o b) \o c
  BY ConcatAssociative

LateOps == {"reset", "settings", "session", "start", "more"}

LEMMA ScriptsWait ==
  ASSUME tapp \in TcpApps, NEW n \in TcpNodes
  PROVE  ScriptWaits(n)
<1> DEFINE B == <<"reset", "addresses", "listen">>
<1>0. Client # Server /\ Lengths \in Nat /\ session_num - 1 \in Nat
  BY TcpAssumption
<1>5. LateOps \in SUBSET TcpOps /\ {"key", "start"} \in SUBSET TcpOps
  BY DEF LateOps, TcpOps
<1>1. CASE tapp = "tcp_benchmark"
  <2>1. Script(n) = tcp_benchmark(n) /\ n \in {Server, Client} /\ OpenAt = 4 /\ (Opener(n) <=> n = Client)
    BY <1>1 DEF Script, TcpNodes, OpenAt, Opener
  <2>2. CASE n = Server
    <3> DEFINE S == B \o <<"await_listen", "reset", "settings", "key">>
    <3>1. Script(n) = S
      BY <2>1, <2>2 DEF tcp_benchmark, TcpBegin
    <3>2. /\ Len(S) >= 3 /\ S[3] = "listen"
          /\ \A i \in 1..Len(S) : (S[i] = "await_listen" => i > 3) /\ S[i] \notin {"open", "await_open"}
      OBVIOUS
    <3> HIDE DEF S
    <3> QED
      BY <1>0, <2>1, <2>2, <3>1, <3>2 DEF ScriptWaits
  <2>3. CASE n = Client
    <3> DEFINE C == <<"open", "await_open">>
               M == Times(<<"more">>, session_num - 1)
               E == <<"session", "settings", "start">>
               P == B \o C
    <3>1. Script(n) = B \o ((C \o M) \o E)
      BY <1>0, <2>1, <2>3 DEF tcp_benchmark, TcpBegin
    <3>2. /\ B \in Seq(TcpOps) /\ C \in Seq(TcpOps) /\ E \in Seq(TcpOps)
          /\ <<"more">> \in Seq(TcpOps) /\ Len(<<"more">>) = 1
          /\ \A j \in 1..Len(<<"more">>) : <<"more">>[j] \in LateOps
          /\ Len(E) = 3 /\ \A j \in 1..Len(E) : E[j] \in LateOps
      BY DEF TcpOps, LateOps
    <3>3. M \in Seq(TcpOps) /\ \A j \in 1..Len(M) : M[j] \in LateOps
      BY <1>0, <3>2, TimesFrom
    <3>4. /\ Len(P) = 5 /\ P[3] = "listen" /\ P[4] = "open" /\ P[5] = "await_open" /\ P \in Seq(TcpOps)
          /\ \A i \in 1..5 : /\ P[i] # "await_listen" /\ P[i] # "key"
                             /\ (P[i] = "open" => i = 4) /\ (P[i] = "await_open" => i = 5)
      BY DEF TcpOps
    <3> HIDE DEF B, C, M, E
    <3>5. M \o E \in Seq(TcpOps) /\ \A j \in 1..Len(M \o E) : (M \o E)[j] \in LateOps
      <4>1. M \o E \in Seq(TcpOps) /\ \A j \in 1..Len(M \o E) :
              IF j <= Len(M) THEN (M \o E)[j] = M[j] ELSE (M \o E)[j] \in LateOps
        BY <1>5, <3>2, <3>3, FromPart
      <4>2. Len(M) \in Nat
        BY <3>3, LenProperties
      <4> QED
        BY <3>3, <4>1, <4>2
    <3>6. B \o ((C \o M) \o E) = P \o (M \o E)
      <4>1. (C \o M) \o E = C \o (M \o E)
        BY <3>2, <3>3, Regroup
      <4>2. ASSUME NEW T \in Seq(TcpOps) PROVE B \o (C \o T) = (B \o C) \o T
        BY <3>2, Regroup
      <4> QED
        BY <3>5, <4>1, <4>2 DEF P
    <3> HIDE DEF P
    <3> DEFINE S == P \o (M \o E)
    <3>7. Len(S) >= 5 /\ \A i \in 1..Len(S) : IF i <= 5 THEN S[i] = P[i] ELSE S[i] \in LateOps
      <4>1. Len(S) >= Len(P) /\ \A i \in 1..Len(S) :
              IF i <= Len(P) THEN S[i] = P[i] ELSE S[i] \in LateOps
        BY <1>5, <3>4, <3>5, FromPart
      <4> QED
        BY <3>4, <3>5, <4>1
    <3>8. Len(S) \in Nat
      BY <3>4, <3>5, ConcatProperties, LenProperties
    <3>9. Script(n) = S
      BY <3>1, <3>6
    <3> HIDE DEF S
    <3> QED
      BY <2>1, <2>3, <3>4, <3>7, <3>8, <3>9 DEF ScriptWaits, LateOps
  <2> QED
    BY <2>1, <2>2, <2>3
<1>2. CASE tapp = "tcp_latency"
  <2>1. Script(n) = tcp_latency(n) /\ n \in {Server, Client} /\ OpenAt = 4 /\ (Opener(n) <=> n = Client)
    BY <1>2 DEF Script, TcpNodes, OpenAt, Opener
  <2>2. CASE n = Server
    <3> DEFINE S == B \o <<"await_listen", "settings">>
    <3>1. Script(n) = S
      BY <2>1, <2>2 DEF tcp_latency, TcpBegin
    <3>2. /\ Len(S) >= 3 /\ S[3] = "listen"
          /\ \A i \in 1..Len(S) : (S[i] = "await_listen" => i > 3) /\ S[i] \notin {"open", "await_open"}
      OBVIOUS
    <3> HIDE DEF S
    <3> QED
      BY <1>0, <2>1, <2>2, <3>1, <3>2 DEF ScriptWaits
  <2>3. CASE n = Client
    <3> DEFINE C == <<"open", "await_open", "keep", "open_off">>
               R == <<"reset", "session", "settings", "start">>
               M == Times(R, Lengths)
               P == B \o C
    <3>1. Script(n) = B \o (C \o M)
      BY <1>0, <2>1, <2>3 DEF tcp_latency, TcpBegin
    <3>2. /\ B \in Seq(TcpOps) /\ C \in Seq(TcpOps) /\ R \in Seq(TcpOps) /\ Len(R) = 4
          /\ \A j \in 1..Len(R) : R[j] \in LateOps
      BY DEF TcpOps, LateOps
    <3> HIDE DEF R
    <3>3. M \in Seq(TcpOps) /\ \A j \in 1..Len(M) : M[j] \in LateOps
      BY <1>0, <3>2, TimesFrom
    <3>4. /\ Len(P) = 7 /\ P[3] = "listen" /\ P[4] = "open" /\ P[5] = "await_open" /\ P \in Seq(TcpOps)
          /\ \A i \in 1..7 : /\ P[i] # "await_listen" /\ P[i] # "key"
                             /\ (P[i] = "open" => i = 4) /\ (P[i] = "await_open" => i = 5)
      BY DEF TcpOps
    <3> HIDE DEF B, C, M
    <3>5. B \o (C \o M) = P \o M
      BY <3>2, <3>3, Regroup DEF P
    <3> HIDE DEF P
    <3> DEFINE S == P \o M
    <3>7. Len(S) >= 7 /\ \A i \in 1..Len(S) : IF i <= 7 THEN S[i] = P[i] ELSE S[i] \in LateOps
      <4>1. Len(S) >= Len(P) /\ \A i \in 1..Len(S) :
              IF i <= Len(P) THEN S[i] = P[i] ELSE S[i] \in LateOps
        BY <1>5, <3>3, <3>4, FromPart
      <4> QED
        BY <3>3, <3>4, <4>1
    <3>8. Len(S) \in Nat
      BY <3>3, <3>4, ConcatProperties, LenProperties
    <3>9. Script(n) = S
      BY <3>1, <3>5
    <3> HIDE DEF S
    <3> QED
      BY <2>1, <2>3, <3>4, <3>7, <3>8, <3>9 DEF ScriptWaits, LateOps
  <2> QED
    BY <2>1, <2>2, <2>3
<1>3. CASE tapp = "hyperloglog"
  <2>1. Script(n) = hyperloglog(n) /\ n \in {Server, Client} /\ OpenAt = 4 /\ (Opener(n) <=> n = Client)
    BY <1>3 DEF Script, TcpNodes, OpenAt, Opener
  <2>2. CASE n = Server
    <3> DEFINE S == B \o <<"await_listen", "settings", "session", "key">>
    <3>1. Script(n) = S
      BY <2>1, <2>2 DEF hyperloglog, TcpBegin
    <3>2. /\ Len(S) >= 3 /\ S[3] = "listen"
          /\ \A i \in 1..Len(S) : (S[i] = "await_listen" => i > 3) /\ S[i] \notin {"open", "await_open"}
      OBVIOUS
    <3> HIDE DEF S
    <3> QED
      BY <1>0, <2>1, <2>2, <3>1, <3>2 DEF ScriptWaits
  <2>3. CASE n = Client
    <3> DEFINE S == B \o <<"open", "await_open", "keep", "open_off", "settings", "session", "start">>
    <3>1. Script(n) = S
      BY <1>0, <2>1, <2>3 DEF hyperloglog, TcpBegin
    <3>2. /\ Len(S) >= 5 /\ S[3] = "listen" /\ S[4] = "open" /\ S[5] = "await_open"
          /\ \A i \in 1..Len(S) : /\ S[i] # "await_listen" /\ S[i] # "key"
                                  /\ (S[i] = "open" => i = 4) /\ (S[i] = "await_open" => i = 5)
      OBVIOUS
    <3> HIDE DEF S
    <3> QED
      BY <1>0, <2>1, <2>3, <3>1, <3>2 DEF ScriptWaits
  <2> QED
    BY <2>1, <2>2, <2>3
<1>4. CASE tapp = "allreduce"
  <2> DEFINE C == <<"await_listen", "open", "await_open", "keep", "open_off", "session", "settings">>
             R == <<"key", "start">>
             M == Times(R, Lengths)
             P == B \o C
  <2>1. Script(n) = P \o M /\ OpenAt = 5 /\ Opener(n)
    BY <1>4 DEF Script, allreduce, TcpBegin, OpenAt, Opener
  <2>2. R \in Seq(TcpOps) /\ Len(R) = 2 /\ \A j \in 1..Len(R) : R[j] \in {"key", "start"}
    BY DEF TcpOps
  <2> HIDE DEF R
  <2>3. M \in Seq(TcpOps) /\ \A j \in 1..Len(M) : M[j] \in {"key", "start"}
    BY <1>0, <2>2, TimesFrom
  <2>4. /\ Len(P) = 10 /\ P[3] = "listen" /\ P[5] = "open" /\ P[6] = "await_open" /\ P \in Seq(TcpOps)
        /\ \A i \in 1..10 : /\ P[i] = "await_listen" => i = 4
                            /\ (P[i] = "open" => i = 5) /\ (P[i] = "await_open" => i = 6)
    BY DEF TcpOps
  <2> HIDE DEF B, C, M, P
  <2> DEFINE S == P \o M
  <2>5. Len(S) >= 10 /\ \A i \in 1..Len(S) : IF i <= 10 THEN S[i] = P[i] ELSE S[i] \in {"key", "start"}
    <3>1. Len(S) >= Len(P) /\ \A i \in 1..Len(S) :
            IF i <= Len(P) THEN S[i] = P[i] ELSE S[i] \in {"key", "start"}
      BY <1>5, <2>3, <2>4, FromPart
    <3> QED
      BY <2>3, <2>4, <3>1
  <2>6. Len(S) \in Nat
    BY <2>3, <2>4, ConcatProperties, LenProperties
  <2>7. Script(n) = S
    BY <2>1
  <2> HIDE DEF S
  <2>8. ASSUME NEW i \in 1..Len(S)
        PROVE  /\ S[i] = "open" => i = 5
               /\ S[i] = "await_listen" => i = 4
               /\ S[i] = "await_open" => i = 6
    BY <2>4, <2>5, <2>6
  <2>9. Len(S) >= 10 /\ S[3] = "listen" /\ S[5] = "open" /\ S[6] = "await_open"
    BY <2>4, <2>5, <2>6
  <2> QED
    BY <1>4, <2>1, <2>6, <2>7, <2>8, <2>9 DEF ScriptWaits
<1> QED
  BY <1>1, <1>2, <1>3, <1>4 DEF TcpApps

\* Who is behind listening has asked for it; who is behind opening, and nobody
\* else, has asked for a connection, and has one if it is behind waiting for it.
Asked(n) ==
  /\ tstep[n] > 3 => listen[n] # "closed"
  /\ conn[n] # "idle" <=> Opener(n) /\ tstep[n] > OpenAt
  /\ Opener(n) /\ tstep[n] > OpenAt + 1 => conn[n] = "open"
AskedInv == \A n \in TcpNodes : Asked(n)

LEMMA AskedInit == TcpInit => AskedInv
<1> SUFFICES ASSUME TcpInit, NEW n \in TcpNodes PROVE tstep[n] = 1 /\ conn[n] = "idle"
  BY DEF AskedInv, Asked, OpenAt
<1> QED
  BY DEF TcpInit

\* What listen and open ask for is asked for.
LEMMA StepAsks ==
  ASSUME NEW n \in TcpNodes, TcpProgram(n)
  PROVE  LET op == Script(n)[tstep[n]] IN
         /\ listen' = IF op = "listen" THEN [listen EXCEPT ![n] = "asked"] ELSE listen
         /\ conn' = IF op = "open" THEN [conn EXCEPT ![n] = "asked"] ELSE conn
         /\ op = "await_open" => conn[n] = "open"
<1> DEFINE op == Script(n)[tstep[n]]
<1>0. ASSUME NEW o, Does(n, o) PROVE op = o
  BY <1>0, Zenon DEF Does
<1> HIDE DEF op
<1>1. CASE Listen(n)
  <2>1. op = "listen"
    BY <1>0, <1>1 DEF Listen
  <2> QED
    BY <1>1, <2>1 DEF Listen, op
<1>2. CASE Open(n)
  <2>1. op = "open"
    BY <1>0, <1>2 DEF Open
  <2> QED
    BY <1>2, <2>1 DEF Open, op
<1>3. CASE \/ UserReset(n) \/ WriteRegs(n) \/ AwaitListen(n) \/ AwaitOpen(n) \/ Keep641(n)
           \/ OpenOff(n) \/ MoreSessions(n) \/ TellSession(n) \/ StartUser(n) \/ PressKey(n)
  <2>1. listen' = listen /\ conn' = conn
    BY <1>3 DEF UserReset, WriteRegs, AwaitListen, AwaitOpen, Keep641, OpenOff, MoreSessions,
                TellSession, StartUser, PressKey
  <2>2. op \notin {"listen", "open"} /\ (op = "await_open" => conn[n] = "open")
    BY <1>0, <1>3 DEF UserReset, WriteRegs, AwaitListen, AwaitOpen, Keep641, OpenOff, MoreSessions,
                      TellSession, StartUser, PressKey
  <2> QED
    BY <2>1, <2>2 DEF op
<1> QED
  BY <1>1, <1>2, <1>3 DEF TcpProgram

LEMMA AskedStep == TcpInv /\ AskedInv /\ [TcpNext]_tcpVars => AskedInv'
<1> SUFFICES ASSUME TcpInv, AskedInv, [TcpNext]_tcpVars PROVE AskedInv'
  OBVIOUS
<1>0. TcpTypes
  BY DEF TcpInv
<1>1. tapp' = tapp
  BY ProgramStep DEF TcpNext, TcpFpga, StartListening, Connects, tcpVars
<1>2. TcpNodes' = TcpNodes /\ OpenAt' = OpenAt /\ \A n : Opener(n)' <=> Opener(n)
  BY <1>1, TcpFixed
<1>3. OpenAt \in {4, 5}
  BY DEF OpenAt
<1> DEFINE Kept(m) ==
      /\ tstep'[m] > 3 => listen'[m] # "closed"
      /\ conn'[m] # "idle" <=> Opener(m) /\ tstep'[m] > OpenAt
      /\ Opener(m) /\ tstep'[m] > OpenAt + 1 => conn'[m] = "open"
<1> SUFFICES ASSUME NEW m \in TcpNodes PROVE Kept(m)
  BY <1>2 DEF AskedInv, Asked
<1>4. /\ tstep[m] > 3 => listen[m] # "closed"
      /\ conn[m] # "idle" <=> Opener(m) /\ tstep[m] > OpenAt
      /\ Opener(m) /\ tstep[m] > OpenAt + 1 => conn[m] = "open"
      /\ tstep[m] \in Nat \ {0}
  BY <1>0 DEF AskedInv, Asked, TcpTypes
<1>5. ASSUME NEW n \in TcpNodes, TcpProgram(n)
      PROVE  Kept(m)
  <2> DEFINE op == Script(n)[tstep[n]]
  <2>1. /\ listen' = IF op = "listen" THEN [listen EXCEPT ![n] = "asked"] ELSE listen
        /\ conn' = IF op = "open" THEN [conn EXCEPT ![n] = "asked"] ELSE conn
        /\ op = "await_open" => conn[n] = "open"
    BY <1>5, StepAsks
  <2>2. tstep[n] <= Len(Script(n)) /\ tstep' = [tstep EXCEPT ![n] = @ + 1]
    BY <1>5, ProgramStep
  <2>3. ScriptWaits(n)
    BY <1>0, ScriptsWait DEF TcpTypes
  <2>4. tstep[n] = 3 => op = "listen"
    BY <2>3 DEF ScriptWaits
  <2>5. /\ Opener(n) /\ tstep[n] = OpenAt => op = "open"
        /\ Opener(n) /\ tstep[n] = OpenAt + 1 => op = "await_open"
        /\ op = "open" => Opener(n) /\ tstep[n] = OpenAt
    <3>1. tstep[n] \in 1..Len(Script(n))
      BY <1>0, <2>2, ScriptFacts, LenProperties DEF TcpTypes
    <3> QED
      BY <2>3, <3>1 DEF ScriptWaits, op
  <2> HIDE DEF op
  <2>6. m \in DOMAIN listen /\ m \in DOMAIN conn /\ m \in DOMAIN tstep
    BY <1>0 DEF TcpTypes
  <2>7. CASE m = n
    BY <1>3, <1>4, <2>1, <2>2, <2>4, <2>5, <2>6, <2>7
  <2>8. CASE m # n
    BY <1>4, <2>1, <2>2, <2>6, <2>8
  <2> QED
    BY <2>7, <2>8
<1>6. ASSUME NEW n \in TcpNodes, TcpFpga(n)
      PROVE  Kept(m)
  <2>1. /\ tstep' = tstep
        /\ listen' = listen \/ listen' = [listen EXCEPT ![n] = "open"]
        /\ \/ conn' = conn
           \/ /\ conn[n] = "asked"
              /\ conn' = [conn EXCEPT ![n] = "open"] \/ conn' = [conn EXCEPT ![n] = "refused"]
    BY <1>6 DEF TcpFpga, StartListening, Connects
  <2> QED
    BY <1>0, <1>4, <2>1 DEF TcpTypes
<1>7. CASE UNCHANGED tcpVars
  BY <1>4, <1>7 DEF tcpVars
<1> QED
  BY <1>5, <1>6, <1>7 DEF TcpNext

\* The program of a node, or its FPGA, can go on.
NodeCanMove(n) ==
  \/ listen[n] = "asked" \/ conn[n] = "asked"
  \/ /\ tstep[n] <= Len(Script(n))
     /\ LET op == Script(n)[tstep[n]] IN
        /\ op = "await_listen" => listen[n] = "open"
        /\ op = "await_open" => conn[n] = "open"
        /\ op = "key" => IF tapp = "allreduce" THEN \A m \in TcpNodes : tstep[m] >= tstep[n]
                         ELSE conn[Client] = "open"

\* Until all programs are at their end one goes on, unless a node polls for
\* ever for its refused connection and all that have not ended do the same or
\* are not given the key for it.
TcpGoesOn == TcpEnded \/ \E n \in TcpNodes : NodeCanMove(n)

LEMMA RefusedPolls ==
  ASSUME TcpInv, [TcpNext]_tcpVars
  PROVE  \A n \in TcpNodes : PollsForEver(n) => PollsForEver(n)'
<1>0. TcpTypes
  BY DEF TcpInv
<1>1. tapp' = tapp
  BY ProgramStep DEF TcpNext, TcpFpga, StartListening, Connects, tcpVars
<1> SUFFICES ASSUME NEW n \in TcpNodes, PollsForEver(n)
             PROVE  tstep'[n] = tstep[n] /\ conn'[n] = "refused"
  BY <1>1, TcpFixed DEF PollsForEver, AtOp
<1>2. n \in DOMAIN tstep /\ n \in DOMAIN conn
  BY <1>0 DEF TcpTypes
<1>3. ASSUME NEW m \in TcpNodes, TcpProgram(m)
      PROVE  tstep'[n] = tstep[n] /\ conn'[n] = "refused"
  <2>1. m # n
    BY <1>3, StepAsks DEF PollsForEver, AtOp
  <2>2. tstep' = [tstep EXCEPT ![m] = @ + 1]
    BY <1>3, ProgramStep
  <2>3. conn' = conn \/ conn' = [conn EXCEPT ![m] = "asked"]
    BY <1>3, StepAsks
  <2> QED
    BY <1>2, <2>1, <2>2, <2>3 DEF PollsForEver
<1>4. ASSUME NEW m \in TcpNodes, TcpFpga(m)
      PROVE  tstep'[n] = tstep[n] /\ conn'[n] = "refused"
  BY <1>2, <1>4 DEF TcpFpga, StartListening, Connects, PollsForEver
<1>5. CASE UNCHANGED tcpVars
  BY <1>5 DEF tcpVars, PollsForEver
<1> QED
  BY <1>3, <1>4, <1>5 DEF TcpNext

LEMMA TcpNeverStuck == TcpInv /\ AskedInv => TcpGoesOn
<1> SUFFICES ASSUME TcpInv, AskedInv, \E n \in TcpNodes : ~AtEnd(n),
                    \A n \in TcpNodes : ~NodeCanMove(n)
             PROVE  /\ \E n \in TcpNodes : PollsForEver(n)
                    /\ \A n \in TcpNodes : AtEnd(n) \/ PollsForEver(n) \/ AtOp(n, "key")
  BY DEF TcpGoesOn, TcpEnded, TcpHeldUp
<1>0. TcpTypes /\ OpenAt \in {4, 5}
  BY DEF TcpInv, OpenAt
<1>1. \A n \in TcpNodes : Script(n) \in Seq(TcpOps) /\ Len(Script(n)) \in Nat /\ ScriptWaits(n)
  BY <1>0, ScriptFacts, ScriptsWait, LenProperties DEF TcpTypes
<1>2. \A n \in TcpNodes : conn[n] # "asked" /\ listen[n] \in {"closed", "open"}
  BY <1>0 DEF NodeCanMove, TcpTypes
\* Only at a key press and at a refused connection can a node be held up.
<1>3. ASSUME NEW n \in TcpNodes, tstep[n] <= Len(Script(n))
      PROVE  AtOp(n, "key") \/ PollsForEver(n)
  <2> DEFINE op == Script(n)[tstep[n]]
  <2>1. tstep[n] \in 1..Len(Script(n))
    BY <1>0, <1>1, <1>3 DEF TcpTypes
  <2>2. /\ op = "await_listen" => tstep[n] > 3
        /\ op = "await_open" => Opener(n) /\ tstep[n] > OpenAt
    BY <1>1, <2>1 DEF ScriptWaits
  <2>3. /\ op = "await_listen" => listen[n] = "open"
        /\ op = "await_open" => conn[n] \in {"open", "refused"}
    BY <1>0, <1>2, <2>2 DEF AskedInv, Asked, TcpTypes
  <2> QED
    BY <1>3, <2>3 DEF NodeCanMove, AtOp, PollsForEver
<1>4. \A n \in TcpNodes : ~AtEnd(n) <=> tstep[n] <= Len(Script(n))
  BY <1>0, <1>1 DEF AtEnd, TcpTypes
<1>5. \A n \in TcpNodes : AtEnd(n) \/ PollsForEver(n) \/ AtOp(n, "key")
  BY <1>3, <1>4
<1> SUFFICES ASSUME \A n \in TcpNodes : ~PollsForEver(n) PROVE FALSE
  BY <1>5
<1>6. PICK n \in TcpNodes : tstep[n] <= Len(Script(n))
  BY <1>4
<1>7. tstep[n] \in 1..Len(Script(n)) /\ Script(n)[tstep[n]] = "key"
  BY <1>0, <1>1, <1>3, <1>6 DEF TcpTypes, AtOp
<1>8. CASE tapp # "allreduce"
  <2>1. n = Server /\ TcpNodes = {Server, Client} /\ OpenAt = 4 /\ Opener(Client)
    BY <1>1, <1>7, <1>8 DEF ScriptWaits, TcpNodes, OpenAt, Opener
  <2>2. conn[Client] # "open"
    BY <1>7, <1>8 DEF NodeCanMove
  <2>3. tstep[Client] \in 1..5 /\ Len(Script(Client)) >= 5
    BY <1>0, <1>1, <2>1, <2>2 DEF AskedInv, Asked, TcpTypes, ScriptWaits
  <2>4. tstep[Client] \in 1..Len(Script(Client))
    BY <1>1, <2>1, <2>3
  <2>5. Script(Client)[tstep[Client]] = "key"
    BY <1>1, <1>3, <2>1, <2>4 DEF AtOp
  <2>6. Client = Server
    BY <1>1, <1>8, <2>1, <2>4, <2>5 DEF ScriptWaits
  <2> QED
    BY <2>6, TcpAssumption
\* The one that is least far waits for nobody.
<1>9. CASE tapp = "allreduce"
  <2> DEFINE T == {tstep[m] : m \in TcpNodes}
  <2>1. T \in SUBSET Nat /\ T # {}
    BY <1>0 DEF TcpTypes
  <2>2. PICK t \in T : \A u \in T : t <= u
    BY <2>1, LeastNat
  <2>3. PICK m \in TcpNodes : tstep[m] = t
    BY <2>2
  <2>4. \A k \in TcpNodes : tstep[k] >= tstep[m]
    BY <1>0, <2>2, <2>3 DEF TcpTypes
  <2>5. Script(m) = Script(n)
    BY <1>9 DEF Script, allreduce
  <2>6. tstep[m] <= Len(Script(m))
    BY <1>0, <1>1, <1>6, <2>4, <2>5 DEF TcpTypes
  <2>7. Script(m)[tstep[m]] = "key"
    BY <1>3, <2>6 DEF AtOp
  <2> QED
    BY <1>9, <2>4, <2>6, <2>7 DEF NodeCanMove
<1> QED
  BY <1>8, <1>9

-------------------------------------------------------------------------------
(* No program comes to a standstill: the start of the training.            *)

\* What the program waits for it has asked for.
WeaveAsked ==
  /\ wlisten \in {"closed", "asked", "open"} /\ wconn \in {"closed", "asked", "open"}
  /\ wpc = "await_listen" => wlisten # "closed"
  /\ wpc = "await_open" => wconn # "closed"

LEMMA WeaveAskedInit == WeaveInit => WeaveAsked
  BY DEF WeaveInit, WeaveAsked

LEMMA WeaveAskedStep == WeaveAsked /\ [WeaveNext]_weaveVars => WeaveAsked'
  BY DEF WeaveNext, WeaveProgram, WeaveFpga, Weave, AllocModel, PlaceLabels, Addresses, AwaitPort,
         OpenConn, AwaitConn, TellAndStart, ReadModel, Goes2, weaveVars, fpgaRegs, WeaveAsked

\* The program or the FPGA can go on.
WeaveCanMove ==
  \/ wpc \in {"weave", "model", "labels", "reset", "open", "tell", "sleep"}
  \/ wpc = "await_listen" /\ wlisten = "open"
  \/ wpc = "await_open" /\ wconn = "open"
  \/ wlisten = "asked"
  \/ wconn = "asked" /\ addressesOk

\* Until it has ended it goes on, unless it polls for ever for a connection.
WeaveGoesOn == WeaveEnded \/ WeaveCanMove

LEMMA WeaveNeverStuck == WeaveInv /\ WeaveAsked => WeaveGoesOn
  BY DEF WeaveInv, WeaveTypeOK, WeaveAsked, WeaveGoesOn, WeaveCanMove,
         WeaveEnded, WeavePollsForEver

LEMMA UnansweredPolls == WeavePollsForEver /\ [WeaveNext]_weaveVars => WeavePollsForEver'
  BY DEF WeaveNext, WeaveProgram, WeaveFpga, Weave, AllocModel, PlaceLabels, Addresses, AwaitPort,
         OpenConn, AwaitConn, TellAndStart, ReadModel, Goes2, weaveVars, fpgaRegs, WeaveAsked,
         WeavePollsForEver

-------------------------------------------------------------------------------
(* All programs.                                                           *)

StandstillInv == ProgramsInv /\ BringUpInv /\ ServiceInv /\ AskedInv /\ WeaveAsked

ProgramsGoOn ==
  /\ program = "nvme" => BringUpGoesOn
  /\ program = "rps" => ServiceGoesOn
  /\ program = "tcp" => TcpGoesOn
  /\ program = "weave" => WeaveGoesOn

\* Every standstill of a program that has not ended is one of these: the bring-up
\* of an SSD has more commands than its queue entries; the packet service waits
\* for requests of a client host that was not started or has stopped; a node of
\* a TCP program polls for its refused connection, and the others that have not
\* ended do so, too, or wait for the key; the start of the training polls for a
\* connection to an address that is none of the network's.
THEOREM StandstillsKnown == ProgramsSpec => []ProgramsGoOn
<1>1. ProgramsInit => StandstillInv
  BY ProgramsInitInv, BringUpInit, ServiceInit, AskedInit, WeaveAskedInit
  DEF ProgramsInit, StandstillInv
<1>2. StandstillInv /\ [ProgramsNext]_programsVars => StandstillInv'
  <2> SUFFICES ASSUME StandstillInv, [ProgramsNext]_programsVars PROVE StandstillInv'
    OBVIOUS
  <2>1. AdminInv /\ RpsInv /\ TcpInv
    BY DEF StandstillInv, ProgramsInv
  <2>2. BringUpInv'
    BY <2>1, OneRuns, BeginsKept, RoundKept DEF StandstillInv, BringUpInv
  <2>3. ServiceInv'
    BY <2>1, OneRuns, ServiceStep DEF StandstillInv
  <2>4. AskedInv'
    BY <2>1, OneRuns, AskedStep DEF StandstillInv
  <2>5. WeaveAsked'
    BY OneRuns, WeaveAskedStep DEF StandstillInv
  <2> QED
    BY <2>2, <2>3, <2>4, <2>5, ProgramsStepInv DEF StandstillInv
<1>3. StandstillInv => ProgramsGoOn
  BY BringUpNeverStuck, ServiceNeverStuck, TcpNeverStuck, WeaveNeverStuck
  DEF StandstillInv, ProgramsInv, ProgramsGoOn
<1> QED
  BY <1>1, <1>2, <1>3, PTL DEF ProgramsSpec

\* And the polls among them never end: a node that was refused
\* (tcp_latency.cpp, hyperloglog.cpp, tcp_benchmark.cpp, mpireduce.cpp) and the
\* training's start (sgd_pm copy.cpp) ask nobody again.
RefusedStay ==
  /\ \A n \in TcpNodes : PollsForEver(n) => PollsForEver(n)'
  /\ WeavePollsForEver => WeavePollsForEver'

THEOREM RefusedPollOn == ProgramsSpec => [][RefusedStay]_programsVars
<1>1. ProgramsInv /\ [ProgramsNext]_programsVars => RefusedStay
  BY OneRuns, RefusedPolls, UnansweredPolls DEF ProgramsInv, RefusedStay
<1> QED
  BY <1>1, ProgramsInitInv, ProgramsStepInv, PTL DEF ProgramsSpec
===============================================================================
