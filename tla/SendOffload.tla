----------------------------- MODULE SendOffload -----------------------------
(***************************************************************************)
(* Both forms of the send path: the one of GpuSend, in which the thread    *)
(* blocks post their commands themselves, and the one the repository       *)
(* compares it with (socket_sample_offload_control in cuda/interface.cu),  *)
(* in which the host posts.  There a kernel is launched for each round of  *)
(* the blocks; a block leaves its command in memory the host can read, and *)
(* the host posts the commands of a round when the kernel is over.  Plan,  *)
(* window, copy and turn are those of GpuSend.                             *)
(***************************************************************************)
EXTENDS GpuSend

VARIABLES
  poster,    \* who posts the commands of this process: "blocks" or "host"
  hostPc,    \* where the host is in its loop
  launches,  \* i of that loop, rounds launched and posted
  posted,    \* j of the inner loop, commands of the round posted
  ctrlData   \* ctrl_data, the command each block has left

hostVars == <<poster, hostPc, launches, posted, ctrlData>>
allVars == <<vars, hostVars>>

OffloadInit ==
  /\ Init
  /\ poster \in {"blocks", "host"}
  /\ hostPc = "idle" /\ launches = 0 /\ posted = 0
  /\ ctrlData = [b \in Blocks |-> [addr |-> 0, len |-> 0]]

ByBlocks(step) == poster = "blocks" /\ step /\ UNCHANGED hostVars

\* The kernels' own steps, which are the same when the host posts.
OnGpu(step) == poster = "host" /\ step /\ UNCHANGED hostVars

\* A process makes one such call.  Its loop leaves out what is no whole round,
\* so that the transfers of the README (128 MB in packages of 64 KB to 1 MB)
\* are the ones it sends in full.
HostCall(len) ==
  /\ rounds = 0 /\ len % (NumBlocks * MaxBlock) = 0
  /\ OnGpu(PreStart(len))

\* The kernels launched on the stream wait for socket_send_pre.
EnterLoop ==
  /\ poster = "host" /\ phase = "pre" /\ i >= length
  /\ phase' = "send" /\ hostPc' = "launch"
  /\ UNCHANGED <<rounds, length, base, planVars, mutexSender, writeCount,
                 readCount, blockVars, ring, fpgaVars, poster, launches,
                 posted, ctrlData>>

HostRounds == (length \div MaxBlock) \div NumBlocks

Launch ==
  /\ hostPc = "launch" /\ launches < HostRounds
  /\ pc' = [b \in Blocks |-> "flow"]
  /\ loopVar' = [b \in Blocks |-> launches * NumBlocks]
  /\ hostPc' = "sync"
  /\ UNCHANGED <<kernelVars, planVars, mutexSender, writeCount, readCount,
                 ring, fpgaVars, poster, launches, posted, ctrlData>>

\* Between taking the turn, as in GpuSend, and passing it on the block leaves
\* its command to the host; a block has one package of a round.
HandOver(b) ==
  /\ poster = "host" /\ pc[b] = "post"
  /\ ctrlData' = [ctrlData EXCEPT ![b] = [addr |-> pre[Pkg(b)].addr,
                                          len  |-> pre[Pkg(b)].len]]
  /\ mutexSender' = Pkg(b) + 1
  /\ Goto(b, "done")
  /\ UNCHANGED <<kernelVars, planVars, writeCount, readCount, loopVar, ring,
                 fpgaVars, poster, hostPc, launches, posted>>

\* cudaEventSynchronize returns when the kernel's blocks are done.
Sync ==
  /\ hostPc = "sync" /\ \A b \in Blocks : pc[b] = "done"
  /\ hostPc' = "post" /\ posted' = 0
  /\ UNCHANGED <<vars, poster, launches, ctrlData>>

HostPost ==
  /\ hostPc = "post" /\ posted < NumBlocks
  /\ cmds' = Append(cmds, ctrlData[posted])
  /\ posted' = posted + 1
  /\ UNCHANGED <<kernelVars, planVars, mutexSender, writeCount, readCount,
                 blockVars, ring, taken, infos, poster, hostPc, launches,
                 ctrlData>>

HostNextRound ==
  /\ hostPc = "post" /\ posted = NumBlocks
  /\ hostPc' = "launch" /\ launches' = launches + 1
  /\ UNCHANGED <<vars, poster, posted, ctrlData>>

HostDone ==
  /\ hostPc = "launch" /\ launches >= HostRounds
  /\ phase' = "idle" /\ hostPc' = "idle"
  /\ UNCHANGED <<rounds, length, base, planVars, mutexSender, writeCount,
                 readCount, blockVars, ring, fpgaVars, poster, launches,
                 posted, ctrlData>>

HostBlockStep(b) == OnGpu(FlowControl(b) \/ Copy(b) \/ TakeTurn(b)) \/ HandOver(b)

HostLoop == EnterLoop \/ Launch \/ Sync \/ HostPost \/ HostNextRound \/ HostDone

FpgaStep == Fetch \/ Report \/ ReadInfo

OffloadNext ==
  \/ ByBlocks(Next)
  \/ \E len \in Lengths : HostCall(len)
  \/ OnGpu(PrePlan)
  \/ HostLoop
  \/ \E b \in Blocks : HostBlockStep(b) \/ OnGpu(TurnTimeout(b))
  \/ OnGpu(FpgaStep)

OffloadSpec == OffloadInit /\ [][OffloadNext]_allVars

\* GpuSend's fairness, whoever posts, and a host that goes on with its loop.
OffloadFairness ==
  /\ WF_allVars(ByBlocks(PrePlan)) /\ WF_allVars(ByBlocks(SendStart))
  /\ WF_allVars(ByBlocks(SendEnd))
  /\ \A b \in Blocks : WF_allVars(ByBlocks(BlockStep(b)))
  /\ \A b \in Blocks : WF_allVars(HostBlockStep(b))
  /\ WF_allVars(OnGpu(PrePlan)) /\ WF_allVars(HostLoop)
  /\ WF_allVars(Fetch /\ UNCHANGED hostVars)
  /\ WF_allVars(Report /\ UNCHANGED hostVars)
  /\ WF_allVars(ReadInfo /\ UNCHANGED hostVars)

FairOffloadSpec == OffloadSpec /\ OffloadFairness
===============================================================================
