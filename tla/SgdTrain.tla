------------------------------- MODULE SgdTrain -------------------------------
(***************************************************************************)
(* The CPU baseline of the distributed training (P4_FPGA/CPUBaseline):     *)
(* processes joined by MPI, each with a main thread and NumThreads workers *)
(* that meet at one pthread barrier, four times for every minibatch.       *)
(*                                                                         *)
(* my_communicator_modelpara.cpp splits the model: every process has all   *)
(* samples of a minibatch and a part of the features.  ..._datapara.cpp    *)
(* splits the samples: every process has a model of its own.               *)
(*                                                                         *)
(* Numbers are left out.  A dot product is named by the process and the    *)
(* step whose model it was computed from, a sum by what was summed.        *)
(***************************************************************************)
EXTENDS Integers, Sequences, FiniteSets

CONSTANTS
  NumRanks,    \* nRanks
  NumThreads,  \* threads
  Batches,     \* values of mini_batch_size on the command line
  PerEpoch,    \* bound: minibatches of an epoch
  Epochs       \* bound: numberOfIterations

ASSUME TrainAssumption ==
  /\ NumRanks \in Nat \ {0} /\ NumThreads \in Nat \ {0}
  /\ Batches \subseteq Nat /\ \A b \in Batches : b >= NumRanks
  /\ PerEpoch \in Nat \ {0} /\ Epochs \in Nat \ {0}

Ranks   == 0..(NumRanks - 1)
Threads == 0..(NumThreads - 1)
Main    == NumThreads
Members == Threads \cup {Main}
Steps   == PerEpoch * Epochs

VARIABLES
  mode,     \* "model" or "data": which of the two programs runs
  batch,    \* mini_batch_size; neither ever changes
  pc,       \* where each member of each process is in its program
  step,     \* minibatches it has finished
  entered,  \* collective operations each process has entered
  left,     \* and left
  sent,     \* what it gave to the last two
  x,        \* x_tmp: what each step added to the model
  dot,
  dotSum,   \* dot_sum
  stat,     \* statisitcs
  gradient, \* x_gradient of each thread: samples and the sums they came from
  total     \* total_x_tmp: the models of the last epoch

controlVars == <<mode, batch, pc, step>>
mpiVars  == <<entered, left, sent>>
dataVars == <<x, dot, dotSum, stat, gradient, total>>
vars == <<controlVars, mpiVars, dataVars>>

\* What the program makes of mini_batch_size, and the samples of a thread.
MiniBatch == IF mode = "data" THEN (batch \div NumRanks) * NumRanks ELSE batch
Samples   == 0..(MiniBatch - 1)
PerRank   == IF mode = "data" THEN MiniBatch \div NumRanks ELSE MiniBatch
RankBias(r) == IF mode = "data" THEN r * PerRank ELSE 0
PerThread == PerRank \div NumThreads
Slice(r, t) ==
  LET bias == RankBias(r) + PerThread * t IN bias .. (bias + PerThread - 1)

\* The program exits unless this holds; its other tests follow from it.
Accepted == MiniBatch % NumThreads = 0

\* The loop over the minibatches, the workers' and main's.
ThreadProgramShort ==
  <<"barrier", "dot", "barrier", "statistics", "gradient", "barrier", "none">>
ThreadProgram ==
  <<"barrier", "dot", "barrier", "barrier", "statistics", "gradient", "barrier">>
MainProgramLate ==
  <<"barrier", "barrier", "allreduce", "barrier", "init", "barrier", "update">>
MainProgram ==
  <<"barrier", "init", "barrier", "allreduce", "barrier", "barrier", "update">>

Unstarted == 0
Loop      == 1..7
EpochEnd  == 8
End       == 9
Program(p) == IF p = Main THEN MainProgram ELSE ThreadProgram
At(r, p, op) == pc[r][p] \in Loop /\ Program(p)[pc[r][p]] = op

Init ==
  /\ mode \in {"model", "data"} /\ batch \in Batches
  /\ pc = [r \in Ranks |-> [p \in Members |-> Unstarted]]
  /\ step = [r \in Ranks |-> [p \in Members |-> 0]]
  /\ entered = [r \in Ranks |-> 0] /\ left = [r \in Ranks |-> 0]
  /\ x = [r \in Ranks |-> <<>>]
  /\ dot = [r \in Ranks |-> [s \in Samples |-> {}]]
  /\ dotSum = [r \in Ranks |-> [s \in Samples |-> {}]]
  /\ stat = [r \in Ranks |-> [s \in Samples |-> {}]]
  /\ gradient = [r \in Ranks |-> [t \in Threads |-> {}]]
  /\ total = [r \in Ranks |-> {}]
  /\ sent = [r \in Ranks |->
       [k \in {0, 1} |-> [dot |-> [s \in Samples |-> {}], steps |-> 0]]]

\* main tests its arguments, sets the arrays to zero and starts the workers.
Start(r) ==
  /\ pc[r][Main] = Unstarted
  /\ pc' = [pc EXCEPT ![r] =
       IF Accepted THEN [p \in Members |-> 1]
       ELSE [@ EXCEPT ![Main] = End]]
  /\ UNCHANGED <<mode, batch, step, mpiVars, dataVars>>

\* The next step of the loop, the next minibatch or the end.
LastOfEpoch(k) == (k + 1) % PerEpoch = 0
NextPcOver(r, p) ==
  IF pc[r][p] < 7 THEN pc[r][p] + 1
  ELSE IF p = Main /\ LastOfEpoch(step[r][p]) THEN EpochEnd
  ELSE IF step[r][p] < Steps THEN 1 ELSE End
NextPc(r, p) ==
  IF pc[r][p] < 7 THEN pc[r][p] + 1
  ELSE IF p = Main /\ LastOfEpoch(step[r][p]) THEN EpochEnd
  ELSE IF step[r][p] + 1 < Steps THEN 1 ELSE End

Advance(r, p) ==
  /\ pc' = [pc EXCEPT ![r][p] = NextPc(r, p)]
  /\ step' = [step EXCEPT ![r][p] = @ + (IF pc[r][p] = 7 THEN 1 ELSE 0)]
  /\ UNCHANGED <<mode, batch>>

-------------------------------------------------------------------------------
(* pthread_barrier_wait (external): nobody passes the n-th time before all *)
(* have come the n-th time.                                                *)

Barriers(p, ks) == Cardinality({k \in ks : Program(p)[k] = "barrier"})
Arrived(r, p) ==
  Barriers(p, Loop) * step[r][p] + Barriers(p, {k \in Loop : pc[r][p] \in k..7})

Pass(r, p) ==
  /\ At(r, p, "barrier")
  /\ \A q \in Members : Arrived(r, q) >= Arrived(r, p)
  /\ Advance(r, p)
  /\ UNCHANGED <<mpiVars, dataVars>>

-------------------------------------------------------------------------------
(* The workers.                                                            *)

CalcDot(r, t) ==
  /\ At(r, t, "dot")
  /\ dot' = [dot EXCEPT ![r] =
       [s \in Samples |->
          IF s \in Slice(r, t) THEN {<<r, Len(x[r])>>} ELSE dot[r][s]]]
  /\ Advance(r, t)
  /\ UNCHANGED <<mpiVars, x, dotSum, stat, gradient, total>>

CalcStatistics(r, t) ==
  /\ At(r, t, "statistics")
  /\ stat' = [stat EXCEPT ![r] =
       [s \in Samples |->
          IF s \in Slice(r, t) THEN dotSum[r][s] ELSE stat[r][s]]]
  /\ Advance(r, t)
  /\ UNCHANGED <<mpiVars, x, dot, dotSum, gradient, total>>

\* Adds to what the thread's gradient holds.
CalcGradient(r, t) ==
  /\ At(r, t, "gradient")
  /\ gradient' = [gradient EXCEPT ![r][t] =
       @ \cup {<<s, stat[r][s]>> : s \in Slice(r, t)}]
  /\ Advance(r, t)
  /\ UNCHANGED <<mpiVars, x, dot, dotSum, stat, total>>

-------------------------------------------------------------------------------
(* main.                                                                   *)

\* Clears all gradients but the last thread's.
ClearedButLast(r) ==
  [t \in Threads |-> IF t + 1 < NumThreads THEN {} ELSE gradient[r][t]]
Cleared(r) == [t \in Threads |-> {}]

InitGradient(r) ==
  /\ At(r, Main, "init")
  /\ gradient' = [gradient EXCEPT ![r] = Cleared(r)]
  /\ Advance(r, Main)
  /\ UNCHANGED <<mpiVars, x, dot, dotSum, stat, total>>

UpdateX(r) ==
  /\ At(r, Main, "update")
  /\ x' = [x EXCEPT ![r] =
       Append(@, UNION {gradient[r][t] : t \in Threads})]
  /\ Advance(r, Main)
  /\ UNCHANGED <<mpiVars, dot, dotSum, stat, gradient, total>>

\* A collective operation (external): a process gives its data when it
\* enters, and leaves once all have entered.
InCollective(r) == At(r, Main, "allreduce") \/ pc[r][Main] = EpochEnd

Enter(r) ==
  /\ InCollective(r) /\ entered[r] = left[r]
  /\ entered' = [entered EXCEPT ![r] = @ + 1]
  /\ sent' = [sent EXCEPT ![r][entered[r] % 2] =
                [dot |-> dot[r], steps |-> Len(x[r])]]
  /\ UNCHANGED <<controlVars, left, dataVars>>

Complete(r) == entered[r] > left[r] /\ \A q \in Ranks : entered[q] >= entered[r]
Given(q, r) == sent[q][left[r] % 2]

AllReduceDot(r) ==
  /\ At(r, Main, "allreduce") /\ Complete(r)
  /\ dotSum' = [dotSum EXCEPT ![r] =
       [s \in Samples |-> UNION {Given(q, r).dot[s] : q \in Ranks}]]
  /\ left' = [left EXCEPT ![r] = @ + 1]
  /\ Advance(r, Main)
  /\ UNCHANGED <<entered, sent, x, dot, stat, gradient, total>>

\* MPI_Allgather of the parts, MPI_Allreduce of the models.
FinishEpoch(r) ==
  /\ pc[r][Main] = EpochEnd /\ Complete(r)
  /\ total' = [total EXCEPT ![r] = {<<q, Given(q, r).steps>> : q \in Ranks}]
  /\ left' = [left EXCEPT ![r] = @ + 1]
  /\ pc' = [pc EXCEPT ![r][Main] = IF step[r][Main] < Steps THEN 1 ELSE End]
  /\ UNCHANGED <<mode, batch, step, entered, sent, x, dot, dotSum,
                 stat, gradient>>

-------------------------------------------------------------------------------
ThreadStep(r, t) ==
  \/ Pass(r, t)
  \/ CalcDot(r, t) \/ CalcStatistics(r, t) \/ CalcGradient(r, t)

MainStep(r) ==
  \/ Start(r) \/ Pass(r, Main)
  \/ InitGradient(r) \/ UpdateX(r)
  \/ Enter(r) \/ AllReduceDot(r) \/ FinishEpoch(r)

Finished ==
  /\ \A r \in Ranks : pc[r][Main] = End
  /\ UNCHANGED vars

Next ==
  \/ \E r \in Ranks : MainStep(r) \/ \E t \in Threads : ThreadStep(r, t)
  \/ Finished

Spec == Init /\ [][Next]_vars

\* The operating system runs every thread.
FairSpec ==
  /\ Spec
  /\ \A r \in Ranks :
       WF_vars(MainStep(r)) /\ \A t \in Threads : WF_vars(ThreadStep(r, t))

-------------------------------------------------------------------------------
(* Properties.                                                             *)

Dots == SUBSET (Ranks \X (0..Steps))
Row  == [Samples -> Dots]

TypeOK ==
  /\ mode \in {"model", "data"} /\ batch \in Batches
  /\ pc \in [Ranks -> [Members -> 0..9]]
  /\ step \in [Ranks -> [Members -> 0..Steps]]
  /\ \A r \in Ranks : \A p \in Members :
       pc[r][p] \in Loop => step[r][p] < Steps
  /\ entered \in [Ranks -> Nat] /\ left \in [Ranks -> Nat]
  /\ \A r \in Ranks : \A k \in {0, 1} :
       sent[r][k].dot \in Row /\ sent[r][k].steps \in 0..Steps
  /\ \A r \in Ranks : {dot[r], dotSum[r], stat[r]} \subseteq Row
  /\ \A r \in Ranks : \A t \in Threads :
       \A g \in gradient[r][t] : g \in Samples \X Dots
  /\ \A r \in Ranks : Len(x[r]) <= Steps

\* The arrays a member reads and writes from where it is.
All(array) == {<<array, s>> : s \in Samples}
Part(array, r, t) == {<<array, s>> : s \in Slice(r, t)}
Gradients == {<<"x_gradient", t>> : t \in Threads}
Model == {<<"x_tmp", 0>>}

Reads(r, p) ==
  CASE At(r, p, "dot")        -> Model
    [] At(r, p, "statistics") -> Part("dot_sum", r, p)
    [] At(r, p, "gradient")   -> Part("statistics", r, p)
    [] At(r, p, "allreduce")  -> All("dot")
    [] At(r, p, "update")     -> Gradients
    [] p = Main /\ pc[r][p] = EpochEnd -> Model
    [] OTHER -> {}

\* At its end main frees the arrays (all but x_tmp).
Writes(r, p) ==
  CASE At(r, p, "dot")        -> Part("dot", r, p)
    [] At(r, p, "statistics") -> Part("statistics", r, p)
    [] At(r, p, "gradient")   -> {<<"x_gradient", p>>}
    [] At(r, p, "init")       -> Gradients
    [] At(r, p, "allreduce")  -> All("dot_sum")
    [] At(r, p, "update")     -> Model
    [] p = Main /\ pc[r][p] = End ->
         All("dot") \cup All("dot_sum") \cup All("statistics")
           \cup Gradients
    [] OTHER -> {}

\* The four barriers alone keep the members of a process from using an array
\* another one writes: no two that may run at once conflict, also where main
\* runs ahead into the next minibatch, the end of an epoch or the end.
NoRace ==
  \A r \in Ranks : \A p, q \in Members :
    p # q => Writes(r, p) \cap (Reads(r, q) \cup Writes(r, q)) = {}

\* The samples a process is to learn from, and the whole dot product of one
\* in step k.
Own(r) == RankBias(r) .. (RankBias(r) + PerRank - 1)
WholeDot(s, k) ==
  IF mode = "model" THEN {<<q, k>> : q \in Ranks}
  ELSE {<<s \div PerRank, k>>}

\* Every step adds to the model the gradient of every sample of the process
\* once, from dot products that are whole and of this step's model: no
\* gradient, sum or dot product of another minibatch slips in.  (data: when
\* the samples of a process divide among its threads, which only the whole
\* minibatch is tested for.)  And what a process has gathered at the end of
\* an epoch is the models of all of them after the same number of steps.
StepsExact ==
  /\ PerRank % NumThreads = 0 =>
       \A r \in Ranks : \A k \in 1..Len(x[r]) :
         x[r][k] = {<<s, WholeDot(s, k - 1)>> : s \in Own(r)}
  /\ \A r \in Ranks :
       pc[r][Main] \in Loop /\ step[r][Main] >= PerEpoch =>
         total[r] = Ranks \X {(step[r][Main] \div PerEpoch) * PerEpoch}

\* main and its workers come to the same barriers, and the processes to the
\* same collectives: nobody waits for ever.
TrainingEnds == <>(\A r \in Ranks : pc[r][Main] = End)
===============================================================================
