------------------------------- MODULE GpuSend -------------------------------
(***************************************************************************)
(* The send path of a GPU TCP connection (GPU_FPGA/sw/src/cuda).           *)
(*                                                                         *)
(* A call of the application runs two kernels, one after the other on its  *)
(* stream: socket_send_pre cuts the data into packages and gives each an   *)
(* address in the connection's ring, socket_send copies the packages with  *)
(* NumBlocks thread blocks at once and posts one command per package to    *)
(* the FPGA, in package order.  The FPGA reads the ring over PCIe behind   *)
(* the kernels' back and reports what it has read in info records, which   *)
(* the resident send_kernel turns into send_read_count.                    *)
(*                                                                         *)
(* Only thread 0 of a block takes control decisions and __syncthreads      *)
(* surrounds each of them, so a block is one process.  Lengths and         *)
(* addresses are in units; unit number u of the stream has the content u.  *)
(* The connection is the one in buffer 0, the one connect gives a client.  *)
(***************************************************************************)
EXTENDS Integers, Sequences, FiniteSets

CONSTANTS
  NumBlocks,     \* gridDim of socket_send (4)
  SingleBuffer,  \* SINGLE_BUFFER_LENGTH, the ring of one connection
  MaxPackage,    \* MAX_PACKAGE_LENGTH
  Overhead,      \* OVERHEAD
  MaxBlock,      \* max_block_size, the argument of socket_send_pre
  Lengths,       \* lengths the application may ask for
  MaxRounds,     \* bound: calls of the application
  PkgLimit,      \* entries of the pre_* arrays (8192)
  InfoBound,     \* bound: info records written and not yet polled
  TurnTimeouts   \* whether a block may wait five seconds for its turn

\* The settings the README documents: all blocks together fit in OVERHEAD,
\* and every transfer is a whole number of rounds of the blocks and fits
\* the arrays.
NumPackages(length) == (length + MaxBlock - 1) \div MaxBlock

ASSUME SendAssumption ==
  /\ NumBlocks \in Nat \ {0}
  /\ MaxBlock \in Nat \ {0}
  /\ MaxPackage \in Nat /\ Overhead \in Nat
  /\ SingleBuffer \in Nat
  /\ MaxBlock <= MaxPackage
  /\ MaxPackage + Overhead <= SingleBuffer
  /\ PkgLimit \in Nat
  /\ Lengths \subseteq Nat \ {0}
  /\ MaxRounds \in Nat /\ InfoBound \in Nat
  /\ TurnTimeouts \in BOOLEAN

ASSUME BlocksFitOverhead == NumBlocks * MaxBlock <= Overhead

ASSUME WholeRounds ==
  \A length \in Lengths : /\ NumPackages(length) % NumBlocks = 0
                          /\ NumPackages(length) <= PkgLimit

Blocks == 0..(NumBlocks - 1)
Units  == 0..(SingleBuffer - 1)
WrapAt == SingleBuffer - MaxPackage
Window == SingleBuffer - MaxPackage - Overhead

\* A piece of the connection's part of the send buffer.
InRing(p) == p.addr + p.len <= SingleBuffer
Package == {p \in [off : Nat, addr : Nat, len : Nat] : InRing(p)}
Command == {c \in [addr : Nat, len : Nat] : InRing(c)}
NoPackage == [off |-> 0, addr |-> 0, len |-> 0]

VARIABLES
  phase,         \* which kernel of the call runs: "idle", "pre", "send"
  rounds,        \* calls made so far
  length,        \* length of the call
  i,             \* loop variable of socket_send_pre
  pre,           \* pre_data_offset, pre_buffer_offset_bytes, pre_length
  preCnt,        \* pre_pkg_cnt
  bufOffset,     \* send_buffer_offset
  mutexSender,   \* mutex_sender, the package whose turn it is to be posted
  writeCount,    \* send_write_count
  readCount,     \* send_read_count, the GPU's copy
  base,          \* stream position of the call's first unit
  pc,            \* where each block is in the loop of socket_send
  loopVar,       \* i of each block in socket_send
  ring,          \* content of the connection's part of send_buffer
  cmds,          \* commands posted to the FPGA and not yet executed
  taken,         \* content the FPGA has read, in the order it read it
  infos          \* read counts in info records not yet polled

kernelVars == <<phase, rounds, length, base>>
planVars   == <<i, pre, preCnt, bufOffset>>
blockVars  == <<pc, loopVar>>
fpgaVars   == <<cmds, taken, infos>>
vars == <<kernelVars, planVars, mutexSender, writeCount, readCount,
          blockVars, ring, fpgaVars>>

\* The package block b works on in this iteration of its loop.
Pkg(b) == loopVar[b] + b

Region(p) == p.addr .. (p.addr + p.len - 1)
Smaller(x, y) == IF x <= y THEN x ELSE y

Init ==
  /\ phase = "idle" /\ rounds = 0 /\ length = 0 /\ base = 0
  /\ i = 0 /\ preCnt = 0 /\ bufOffset = 0
  /\ pre = [k \in 0..(PkgLimit - 1) |-> NoPackage]
  /\ mutexSender = 0 /\ writeCount = 0 /\ readCount = 0
  /\ pc = [b \in Blocks |-> "done"]
  /\ loopVar = [b \in Blocks |-> 0]
  /\ ring = [x \in Units |-> -1]
  /\ cmds = <<>> /\ taken = <<>> /\ infos = <<>>

-------------------------------------------------------------------------------
(* socket_send_pre: one thread plans the packages of the call.             *)

PreStart(len) ==
  /\ phase = "idle" /\ rounds < MaxRounds
  /\ phase' = "pre" /\ rounds' = rounds + 1 /\ length' = len
  /\ base' = writeCount
  /\ i' = 0 /\ preCnt' = 0 /\ mutexSender' = 0
  /\ UNCHANGED <<pre, bufOffset, writeCount, readCount, blockVars, ring,
                 fpgaVars>>

\* Mutant: the ring is never wrapped.
NextAddrNoWrap(addr) == addr

NextAddr(addr) == IF addr > WrapAt THEN 0 ELSE addr

\* Mutant: the last package is not shortened to what is left.
PrePlanFull ==
  /\ phase = "pre" /\ i < length
  /\ pre' = [pre EXCEPT ![preCnt] =
               [off |-> i, addr |-> bufOffset, len |-> MaxBlock]]
  /\ bufOffset' = NextAddr(bufOffset + MaxBlock)
  /\ preCnt' = preCnt + 1
  /\ i' = i + MaxBlock
  /\ UNCHANGED <<kernelVars, mutexSender, writeCount, readCount, blockVars,
                 ring, fpgaVars>>

PrePlan ==
  /\ phase = "pre" /\ i < length
  /\ LET n == Smaller(MaxBlock, length - i)
     IN  /\ pre' = [pre EXCEPT ![preCnt] =
                      [off |-> i, addr |-> bufOffset, len |-> n]]
         /\ bufOffset' = NextAddr(bufOffset + n)
  /\ preCnt' = preCnt + 1
  /\ i' = i + MaxBlock
  /\ UNCHANGED <<kernelVars, mutexSender, writeCount, readCount, blockVars,
                 ring, fpgaVars>>

\* The loop of socket_send_pre ends and the stream starts socket_send.
SendStart ==
  /\ phase = "pre" /\ i >= length
  /\ phase' = "send"
  /\ pc' = [b \in Blocks |-> "loop"]
  /\ loopVar' = [b \in Blocks |-> 0]
  /\ UNCHANGED <<rounds, length, base, planVars, mutexSender, writeCount,
                 readCount, ring, fpgaVars>>

-------------------------------------------------------------------------------
(* socket_send: the loop of a block.                                       *)

Goto(b, label) == pc' = [pc EXCEPT ![b] = label]

\* Mutant: off by one in the loop condition.
LoopTestLE(b) ==
  /\ pc[b] = "loop"
  /\ Goto(b, IF loopVar[b] <= preCnt THEN "flow" ELSE "done")
  /\ UNCHANGED <<kernelVars, planVars, mutexSender, writeCount, readCount,
                 loopVar, ring, fpgaVars>>

LoopTest(b) ==
  /\ pc[b] = "loop"
  /\ Goto(b, IF loopVar[b] < preCnt THEN "flow" ELSE "done")
  /\ UNCHANGED <<kernelVars, planVars, mutexSender, writeCount, readCount,
                 loopVar, ring, fpgaVars>>

\* Mutants: the window without the reserve for the other blocks, and no
\* flow control at all.
FlowControlNoReserve(b) ==
  /\ pc[b] = "flow"
  /\ writeCount <= readCount + Window + Overhead
  /\ Goto(b, "copy")
  /\ UNCHANGED <<kernelVars, planVars, mutexSender, writeCount, readCount,
                 loopVar, ring, fpgaVars>>

FlowControlNone(b) ==
  /\ pc[b] = "flow"
  /\ Goto(b, "copy")
  /\ UNCHANGED <<kernelVars, planVars, mutexSender, writeCount, readCount,
                 loopVar, ring, fpgaVars>>

\* The spin on the FPGA's progress, left once the window has room.  The
\* package itself is not counted, nor those the other blocks hold.
FlowControl(b) ==
  /\ pc[b] = "flow"
  /\ writeCount <= readCount + Window
  /\ Goto(b, "copy")
  /\ UNCHANGED <<kernelVars, planVars, mutexSender, writeCount, readCount,
                 loopVar, ring, fpgaVars>>

\* Mutant: the data is taken at the package's ring address.
CopyByAddr(b) ==
  /\ pc[b] = "copy"
  /\ LET p == pre[Pkg(b)]
     IN  ring' = [x \in Units |-> IF x \in Region(p) THEN base + x ELSE ring[x]]
  /\ Goto(b, "turn")
  /\ UNCHANGED <<kernelVars, planVars, mutexSender, writeCount, readCount,
                 loopVar, fpgaVars>>

Copy(b) ==
  /\ pc[b] = "copy"
  /\ LET p == pre[Pkg(b)]
     IN  ring' = [x \in Units |-> IF x \in Region(p)
                                  THEN base + p.off + (x - p.addr)
                                  ELSE ring[x]]
  /\ Goto(b, "turn")
  /\ UNCHANGED <<kernelVars, planVars, mutexSender, writeCount, readCount,
                 loopVar, fpgaVars>>

\* Mutant: the block does not wait for its turn.
TakeTurnNoWait(b) ==
  /\ pc[b] = "turn"
  /\ writeCount' = writeCount + pre[Pkg(b)].len
  /\ Goto(b, "post")
  /\ UNCHANGED <<kernelVars, planVars, mutexSender, readCount, loopVar,
                 ring, fpgaVars>>

TakeTurn(b) ==
  /\ pc[b] = "turn"
  /\ mutexSender = Pkg(b)
  /\ writeCount' = writeCount + pre[Pkg(b)].len
  /\ Goto(b, "post")
  /\ UNCHANGED <<kernelVars, planVars, mutexSender, readCount, loopVar,
                 ring, fpgaVars>>

\* After five seconds in the spin the block loops for ever, "while(1)".
TurnTimeout(b) ==
  /\ TurnTimeouts
  /\ pc[b] = "turn"
  /\ mutexSender # Pkg(b)
  /\ Goto(b, "hung")
  /\ UNCHANGED <<kernelVars, planVars, mutexSender, writeCount, readCount,
                 loopVar, ring, fpgaVars>>

Post(b) ==
  /\ pc[b] = "post"
  /\ cmds' = Append(cmds, [addr |-> pre[Pkg(b)].addr,
                           len  |-> pre[Pkg(b)].len])
  /\ Goto(b, "pass")
  /\ UNCHANGED <<kernelVars, planVars, mutexSender, writeCount, readCount,
                 loopVar, ring, taken, infos>>

PassTurn(b) ==
  /\ pc[b] = "pass"
  /\ mutexSender' = Pkg(b) + 1
  /\ loopVar' = [loopVar EXCEPT ![b] = @ + NumBlocks]
  /\ Goto(b, "loop")
  /\ UNCHANGED <<kernelVars, planVars, writeCount, readCount, ring, fpgaVars>>

\* The kernel ends when all its blocks have.
SendEnd ==
  /\ phase = "send"
  /\ \A b \in Blocks : pc[b] = "done"
  /\ phase' = "idle"
  /\ UNCHANGED <<rounds, length, base, planVars, mutexSender, writeCount,
                 readCount, blockVars, ring, fpgaVars>>

-------------------------------------------------------------------------------
(* The FPGA (external) and the poll of send_kernel.                        *)

Fetch ==
  /\ cmds # <<>>
  /\ LET c == Head(cmds)
     IN  taken' = taken \o [k \in 1..c.len |-> ring[c.addr + k - 1]]
  /\ cmds' = Tail(cmds)
  /\ UNCHANGED <<kernelVars, planVars, mutexSender, writeCount, readCount,
                 blockVars, ring, infos>>

LastReport == IF infos = <<>> THEN readCount ELSE infos[Len(infos)]

Report ==
  /\ Len(infos) < InfoBound
  /\ LastReport < Len(taken)
  /\ infos' = Append(infos, Len(taken))
  /\ UNCHANGED <<kernelVars, planVars, mutexSender, writeCount, readCount,
                 blockVars, ring, cmds, taken>>

\* Mutant: the record is consumed and the count not stored.
ReadInfoLost ==
  /\ infos # <<>>
  /\ infos' = Tail(infos)
  /\ UNCHANGED <<kernelVars, planVars, mutexSender, writeCount, readCount,
                 blockVars, ring, cmds, taken>>

ReadInfo ==
  /\ infos # <<>>
  /\ readCount' = Head(infos)
  /\ infos' = Tail(infos)
  /\ UNCHANGED <<kernelVars, planVars, mutexSender, writeCount, blockVars,
                 ring, cmds, taken>>

BlockStep(b) ==
  \/ LoopTest(b) \/ FlowControl(b) \/ Copy(b) \/ TakeTurn(b)
  \/ Post(b) \/ PassTurn(b)

Host == (\E len \in Lengths : PreStart(len)) \/ PrePlan \/ SendStart \/ SendEnd

\* All calls are made and everything has drained: the program exits.
Exit ==
  /\ phase = "idle" /\ rounds = MaxRounds
  /\ cmds = <<>> /\ infos = <<>> /\ readCount = Len(taken)
  /\ UNCHANGED vars

Next ==
  \/ Host
  \/ \E b \in Blocks : BlockStep(b) \/ TurnTimeout(b)
  \/ Fetch \/ Report \/ ReadInfo
  \/ Exit

Spec == Init /\ [][Next]_vars

\* A launched kernel runs, all its blocks are resident and their warps are
\* scheduled; the FPGA executes its commands and reports; send_kernel polls.
Fairness ==
  /\ WF_vars(PrePlan) /\ WF_vars(SendStart) /\ WF_vars(SendEnd)
  /\ \A b \in Blocks : WF_vars(BlockStep(b))
  /\ WF_vars(Fetch) /\ WF_vars(Report) /\ WF_vars(ReadInfo)

FairSpec == Spec /\ Fairness

-------------------------------------------------------------------------------
(* Properties.                                                             *)

TypeOK ==
  /\ phase \in {"idle", "pre", "send"}
  /\ rounds \in 0..MaxRounds /\ length \in Nat /\ base \in Nat /\ i \in Nat
  /\ pre \in [0..(PkgLimit - 1) -> Package]
  /\ preCnt \in 0..PkgLimit /\ bufOffset \in 0..WrapAt
  /\ mutexSender \in Nat /\ writeCount \in Nat /\ readCount \in Nat
  /\ pc \in [Blocks -> {"loop", "flow", "copy", "turn", "post", "pass",
                        "done", "hung"}]
  /\ loopVar \in [Blocks -> Nat]
  /\ ring \in [Units -> Int]
  /\ cmds \in Seq(Command)
  /\ taken \in Seq(Int) /\ infos \in Seq(Nat)

\* Blocks that hold a package: past flow control and not yet posted.
Holding == {b \in Blocks : pc[b] \in {"copy", "turn", "post"}}

\* The copy of a package never touches memory the FPGA has still to read,
\* nor memory another block is filling.  socket_send checks the window once,
\* before the copy and without counting the packages in the other blocks'
\* hands: OVERHEAD is what has to absorb them.
NoUnreadOverwritten ==
  \A b \in Holding :
    /\ \A k \in 1..Len(cmds) : Region(pre[Pkg(b)]) \cap Region(cmds[k]) = {}
    /\ \A c \in Holding \ {b} : Region(pre[Pkg(b)]) \cap Region(pre[Pkg(c)]) = {}

\* send_write_count is updated with a plain += by whichever block has the
\* turn: never two blocks between taking the turn and passing it on.
OneBlockHasTheTurn ==
  \A b, c \in Blocks :
    pc[b] \in {"post", "pass"} /\ pc[c] \in {"post", "pass"} => b = c

\* No block works on an entry of the pre_* arrays this call did not write:
\* the loop tests i, not i + block_index, against pre_pkg_cnt.
BlocksStayInPlan ==
  \A b \in Blocks :
    pc[b] \in {"flow", "copy", "turn", "post", "pass"} => Pkg(b) < preCnt

\* What is announced beyond the GPU's knowledge of the FPGA's progress is at
\* most the window and one package per block.
FlowBound == writeCount <= readCount + Window + NumBlocks * MaxBlock

\* When the kernels of a call have ended, exactly the call's units are
\* announced: no package lost, none posted twice.
CallComplete ==
  phase = "idle" /\ rounds > 0 => writeCount = base + length

\* The FPGA reads the caller's units in order and with the caller's content:
\* the send path implements the ordered, bounded stream.
Stream == INSTANCE SendStream
            WITH announced <- writeCount, Piece <- MaxBlock,
                 Capacity <- Window + NumBlocks * MaxBlock

ImplementsStream == Stream!StreamSpec

\* Unless a block runs into the five seconds, every call finishes and every
\* unit of it reaches the FPGA, though each block waits for its turn, for the
\* window, and so for the other blocks.
CallDelivered ==
  phase = "send" ~> \/ phase = "idle" /\ Len(taken) >= base + length
                    \/ \E b \in Blocks : pc[b] = "hung"
===============================================================================
