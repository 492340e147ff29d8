# FpgaHub: models, model checks and proofs

TLA+ models of the software and data-plane programs of FpgaHub, the
configurations that model-check them with TLC, and proofs that TLAPS checks.
Paths are relative to `src/src/` of this tree; `PROJECT.json` maps each
definition to the lines it models. In the tables a bare number is a count of
distinct states.

Contents: [the system](#the-system), [modules](#modules),
[runs](#runs), [fairness](#fairness), [proofs](#proofs),
[disagreements found](#disagreements-found),
[what is not modelled](#what-is-not-modelled), [plan](#plan).

## The system

FpgaHub puts FPGAs between GPUs, CPUs, SSDs and the network. The FPGA logic
itself is not in the repository (bitstreams and debug probes only); what is
there are the programs around it. They fall into families that share no code
at run time:

| family | directories | what it is |
|---|---|---|
| GPU networking | `GPU_FPGA/sw` | CUDA kernels that drive a TCP stack in the FPGA from GPU memory |
| host access | `GPU_FPGA/sw_dev` | the XDMA kernel driver, and the library that maps the card and shares a buffer with it |
| in-network training | `P4_FPGA` | a P4 program that reduces in the switch, its controller, data preparation for an SGD engine, and a CPU baseline with MPI |
| storage | `fpgaSsd` | an NVMe driver in user space for an FPGA-owned SSD, a CPU benchmark |
| packet service | `FPGA_CPU` | a CPU that serves RPCs from rings an FPGA writes |

### Components

| component | state | operations | talks to | hard |
|---|---|---|---|---|
| GPU TCP sender (`cuda/network_kernel.cu`) | the connection's ring in GPU memory, `pre_*` plan, `mutex_sender`, write and read counts | `socket_send_pre`, `socket_send`, poll of info records | the FPGA over PCIe reads and registers | blocks copy in parallel and must post in order; flow control is checked outside the turn; ring wraps at odd places |
| GPU TCP receiver | ring, length words, credit, FIFO between two kernels, per-block read pointers | `socket_recv_ctrl`, `socket_recv` | the FPGA writes packets behind the kernels' back | stale length words, credit before the copy, a FIFO with several readers, two kernels that count one stream |
| GPU TCP connections (`cuda/network.cu`) | buffer table, connection slots, three hand-over flags | listen, accept, connect, open requests | the polling kernel, peers | two kernels search and mark one table without a lock; flags reused by the next accept |
| host-posted sends (`cuda/interface.cu`, `socket_send_offload_control`) | as the sender, plus a command slot per block in memory the host reads | a kernel per round, then the host posts what the blocks left | the host's loop | a slot is written again by the next round; the write count is moved before the command is posted |
| GPU applications (`app.cu`, `kernel.cu`, `hll.cu`, `inference.cu`) | rings of an all-reduce, ring of pages | ring steps, page moves | the kernels above | not modelled: what would communicate is commented out, or nothing calls it |
| P4 reduction (`P4/p4src`) | bitmap, counter, registers for two slots per index | one pipeline pass per packet | workers that resend | a resend is told from a new packet by one bit; slots reused; counter wraps |
| switch controller (`P4/controller`) | ids kept by name, buffers of rows, handles of groups and nodes, edges | look-ups, entries, multicast, ports | the switch's runtime, each call of which may fail | a look-up that fails stays in the map; statuses nobody looks at |
| data preparation (`P4_FPGA/sw`) | training set, its normal form, its bits woven into lines in memory shared with the FPGA, registers | load, normalise, weave, deal out, start | a file, FPGA engines | sizes and addresses that three places work out for themselves; a file with fewer lines than asked for |
| CPU baseline (`P4_FPGA/CPUBaseline`) | model, dot products, statistics, gradients per process | dot product, all-reduce, gradient, update | threads by one barrier, processes by MPI | arrays shared without locks; two loops must meet at the same barriers |
| allocator (`fpga/MemoryManager.cpp`) | list of chunks | allocate, free | threads of a process | `free` runs without the mutex `allocate` holds |
| XDMA driver (`driver/xdma_driver.c`) | the device, its BARs, interrupts, nodes, pinned pages | probe, remove, mmap, ioctls | PCI core, processes | nine fallible steps over one ladder of labels; nodes outlive the device |
| XDMA start-up (`fpga/XDMA.cpp`) | mappings, page addresses, FPGA's TLB | initialise, clear | driver, FPGA | failed calls are printed and passed over |
| RDMA (`fpga/Roce.cpp`) | queue pairs, windows | exchange, put, get | nodes over TCP and the FPGA | in no build target and does not compile: not modelled |
| FPGA TCP programs (`tcp_benchmark`, `tcp_latency`, `hyperloglog`, `mpireduce`) | sessions, registers of each node's FPGA | reset, listen, open, start | the TCP stack in the FPGA, other nodes, an operator | nodes started by hand in any order, nobody asks twice; sessions outlive resets |
| NVMe (`fpgaSsd/fpgasw`) | admin queues, heads, phase | reset, enable, submit, wait | an SSD | queues and controller outlive the program; head and phase share one masked word |
| CPU SSD benchmark (`cpuBench`) | commands pending, in all and per device | submit, poll, drain | SSDs that complete in any order | buffer and queue pairs are given back on a counter's word. Its pool of threads is included and never created |
| packet service (`FPGA_CPU/sw/rps.cpp`) | two rings of stamps | poll, serve, return credit | FPGAs, another host | a word of memory is all that says a request is there |

What makes each modelled component correct is stated by the properties below;
`PROJECT.json` lists under `hazards` where each of them could go wrong.

## Modules

| module | models | state and actions |
|---|---|---|
| `SendStream` | abstract: the bounded, ordered stream a connection promises the FPGA | `announced`, `taken`; `Announce`, `Take` |
| `GpuSend` | `socket_send_pre`, `socket_send`, `read_info` type 2 | `writeCount`, `readCount`, `mutexSender`, `pre` are `send_write_count`, `send_read_count`, `mutex_sender`, `pre_*`; one action per stretch between two barriers of a block: `LoopTest`, `FlowControl`, `Copy`, `TakeTurn`, `Post`, `PassTurn`, `TurnTimeout` |
| `SendOffload` | extends `GpuSend` by the form in which the host posts | `poster` says who posts; `EnterLoop`, `Launch`, `Sync`, `HostPost`, `HostNextRound`, `HostDone` are the loop in `interface.cu`, `HandOver` a block leaving its command in `ctrlData` |
| `GpuSendProofs` | theorems about `GpuSend` | |
| `SendOffloadProofs` | theorems about both forms of the send path | |
| `GpuRecv` | `socket_recv_ctrl`, `socket_recv` | `Ctrl*` are the control kernel's waits and their outcomes, `Block*` the copying blocks, `Fpga*` the FPGA writing a packet, body first and tail last |
| `GpuRecvProofs` | theorems about `GpuRecv` | |
| `GpuConnect` | `socket_listen`, `accept`, `connect`, `get_empty_buffer`, open requests in `read_info` | one action per access to shared memory, so that the application's stream and the polling kernel interleave as they may |
| `GpuConnectProofs` | theorems about `GpuConnect` | |
| `RoundBarrier` | abstract: nobody leaves a round before all have arrived | `arrived`, `left`; `Arrive`, `Leave` |
| `SwitchReduce` | the P4 ingress pipeline for one index | `Switch` is a whole pass (bitmap, counter, reduce, forward); `Send`, `Receive`, `Lose` are the workers and links |
| `SwitchReduceProofs` | theorems about `SwitchReduce` | |
| `SgdTrain` | both CPU programs, `mode` says which | a member of a process walks its list of operations; `Enter`, `AllReduceDot`, `FinishEpoch` are the MPI collectives |
| `SgdTrainProofs` | theorems about `SgdTrain` | |
| `HostMemory` | `MemoryManager` | `allocate` step by step under its mutex, `free` step by step without |
| `XdmaDriver` | probe, remove, BARs, mmap, ioctls | `held` is what was taken and not given back; `ProbeStep`, `ProbeFails`, `Remove` |
| `XdmaHost` | composes driver, process and allocator | `initializeMemory` one call per action, crash and restart |
| `XdmaHostProofs` | theorems about `XdmaHost`, its driver and its allocator | |
| `NvmeAdmin` | bring-up of the SSD in `LatencyBenchmark.cpp` | `Program` is `main`, one action per register it writes or waits for; `Reset`, `GetReady`, `Execute` are the SSD; `End` ends the program anywhere |
| `SwitchTables` | `P4Table` | `actions`, `keys`, `data` are the maps of ids, `pointers` the buffers rows are read into; one action per method (`SetTable` too), all of a method that throws before it throws |
| `SwitchProgram` | the start of `main_test` and of `P4Program`, and its methods | `StepDone`, `StepFails` walk the start; `ConfigMulticast` is group, node and edge, each of which may fail; `mgroups`, `mnodes`, `medges` are the switch |
| `SsdBench` | `cpu_bench.cpp` | `Bench` is the thread (a submission, or a poll of one queue pair, per step), `Complete` an SSD |
| `PacketRings` | `rps.cpp` as `bs`, `dummy` and `client` | `ServerMain` is the main thread, `Poll` a turn of a ring's thread that finds its stamp, `Issue` and `WriteCs` the FPGAs |
| `FpgaTcp` | the four TCP programs | `Script` is a program of a node as the list of its steps, with an action per kind of step; `StartListening`, `Connects` are the FPGA |
| `SgdData` | `load_libsvm_data`, `a_normalize`, `b_copy_to_fpga` | a line read and a line parsed are steps; a value is kept with the range it is normalised by |
| `SgdWeave` | `a_perform_bitweaving_fpga`, `bitFSGD` | `OnSample`, `HalfLine` say where a bit is written, by the loops; `Weave` to `ReadModel` are the program |
| `Programs` | chooses one of the programs | `program`; see below |
| `ProgramsProofs` | theorems about `NvmeAdmin` and the programs of `Programs` | |
| `MC*` | the instances TLC checks | |

Some correspondences deserve a word.

*One program at a time.* The bring-up of the SSD and the seven modules after it
model programs that are started on their own and share nothing. `Programs` is
their disjoint union: the initial state says which one is run, and the others'
variables keep their first values. So each has its whole behaviour and TLC
explores the sum of their states, not the product.

*Processes on the GPU.* Only thread 0 of a block takes decisions in the send
path, with `__syncthreads` around each, so a block is one process and a
stretch between two barriers one step. In `GpuConnect` no barrier protects
anything, so every access to shared memory is a step.

*Data by identity.* Unit `u` of a stream has content `u`, a worker's value of
a round is a power of two no other value has, a dot product is named by the
process and step it was computed from. A wrong, stale or missing contribution
is then visible in the result, and no arithmetic is modelled.

*Settings taken as assumptions.* `BlocksFitOverhead` (all blocks' packages fit
in `OVERHEAD`) and `WholeRounds` (a transfer is a whole number of rounds of
the blocks) are what the default settings and the README's examples give;
without either, `GpuSend`'s properties are false. The model is of buffer 0:
for another buffer the wrap of `network_kernel.cu:121` goes to address 0.

*Host that posts.* A run of the sender is of one form throughout, since
`interface.cu` uses either. Plan, window, copy and turn are the actions of
`GpuSend`, which the host's loop starts anew for each round. That loop drops
what is no whole round of packages (`interface.cu:49` divides), so `HostCall`
takes the transfers it sends in full, which those of the README (128 MB in
packages of up to 1 MB) are. The repository's program makes one such call.

*Receiver.* The FPGA cuts a call into packets of `Payload` and a shorter last
one. Of a packet the control kernel clears the two length words only
(`network_kernel.cu:493`, 494), so what keeps it from reading payload as a
length is that every lap of the ring is cut like the one before: `LapsAlike`,
which all calls of whole packets fulfil (`WholePackets`), and calls with a short
packet if a lap is a number of whole calls. The properties but `TypeOK` claim
this case only. With other calls the kernel takes payload for a length and goes
on, and so does the model: `CtrlHead` takes any of `PayloadWords` for it. Then
the stream is not delivered in order, and `NoOverwriteInUse` and `CallsReturn`
do not hold either.

*Switch.* The pipeline is atomic per packet, as the hardware orders register
accesses. Indices share no state, so one is enough. Links keep order: there is
one path through one switch.

*Driver.* An unwinding and `remove` are one step each: the PCI core calls them
under the device's lock. The following are facts of the code and are part of
the model: MSI-X stays enabled after a failed probe, because `msi_enabled` is
only set for MSI; a probe that fails at the bypass node leaves the control
node registered; both make a later probe fail. With regions in use, the device
is left enabled. `huge_*` outlive `remove`, since the ioctls find their
instance from the character device and not from the card. The core clears
`drvdata` after a failed probe, not the driver.

*SSD.* The huge page file keeps the queues when the program ends, and the SSD
goes on with what it was told, so `End` changes `pc` only. `NextHead` keeps
the bits the code's mask keeps: bit 0 and those from bit 2 on. Reading the
phase and reading the status are two loads and two steps.

*Switch controller.* A map has a name before the switch is asked for its id,
with 0, because `map[name]` is an argument of the call that may fail; where the
language leaves open which of two arguments comes first (`setData` with an
action's name) both outcomes are there. Fields looked up without an action
share one key with those looked up by an action's id; `NamedIds` claims nothing
for them. `setTable` changes the table and leaves the three maps, the handlers and
the row buffers as the former table's; `current` is the set of names whose id was
asked of the present one, and `NamedIds` is about those: a name kept from before
still answers the former table's id. `tableGet` reads the entries after the first
one over the first one, and so does `ReadOver`. `initActions`, `initKeys` and
`initData` are private and nothing calls them.

*SSD benchmark.* A controller without an active namespace is one all the same:
the benchmark goes on with no device (`cpu_bench.cpp:376`).

*FPGA training.* `version` is the file: `built` is `sgd_pm.cpp`, where weaving,
labels and connection are commented out, `copy` is `sgd_pm copy.cpp`, which has
them and is in no target. `Addresses` may leave registers 128 to 133 wrong:
`worker_ip` has `WORKER_NUM` elements (1 as it is built), and eight are
written. The program waits ten seconds and reads the model, whatever epoch the
FPGA is in: `seenEpochs` keeps which, and no property says it was the last.

*TCP programs.* `tcp_benchmark` tells its FPGA `session_id[0]`, which is never
set as the assignment is commented out (`tcp_benchmark.cpp:194`); the model
has `Nobody` there and `StartedOnSession` excepts that program. The client of
`tcp_latency` waits three seconds for each answer, however long it takes: the
next reset stops what runs. An operator presses a key when all nodes have
printed that they are ready.

## Runs

Every passing run checks its module's `TypeOK`. For each property there is a
mutated definition, a plausible bug at the mapped lines, which makes TLC
report that property; these definitions stand beside the original in the
modules.

| run | states | properties |
|---|---|---|
| `gpusend` | 16089 | both forms of the send path. `NoUnreadOverwritten` no copy touches memory the FPGA has still to read; `OneBlockHasTheTurn` the plain `+=` on the write count has one writer; `BlocksStayInPlan` no stale entry of `pre_*` is used; `FlowBound`; `CallComplete` nothing lost or posted twice; `ImplementsStream` refinement of `SendStream`; `CallDelivered` liveness |
| `gpurecv` | 257468 | while laps are cut alike: `NoOverwriteInUse` the FPGA never writes over payload a block has yet to read; `DeliveredInOrder` no payload taken for a length, none lost or repeated, and two kernels that count alike (`CallsAgree`); `CallsReturn` liveness |
| `gpuconnect` | 2000 | `BuffersNotShared`, `AcceptedIsAnswered`, `StreamEnds` (liveness): hand-over between accept and the polling kernel, and answers that differ from peer to peer |
| `gpuconnect_full` | 284 | violated: `NoAnswerWithoutBuffer` |
| `switch` | 17439 | `TakenOnce`, `CompleteMeansAll`, `ImplementsBarrier` (refinement of `RoundBarrier`), `AllRoundsFinish` (liveness) |
| `switch_sum` | 181 | violated: `MulticastIsSum` |
| `switch_resend` | 31 | violated: `ResendIsSum` |
| `sgdtrain` | 73456 | `NoRace` the barriers alone keep the members apart; `StepsExact` every step learns every sample once, from sums of that step, and an epoch's total is its models'; `TrainingEnds` (liveness) |
| `host` | 499776 | `ProbeUnwinds`, `PinnedIsTranslated`, `ChunksKept`: a chunk in use stays in the list as it is, none gets lost between the two lists, and nothing fails while there is room |
| `host_mmap` | 6806 | violated: `MmapHasInstance` |
| `nvme` | 225395 | every program of `Programs`. SSD bring-up: `TypeOK`, `StatusOfThisRun` no answer of an earlier run is taken. Controller: `TablesRight` the id of a name asked of the present table is that name's in that table; `EdgesInSwitch` the switch joins what was asked for. `AllStored` nothing is in flight when the benchmark gives back its memory, and each place has its data. `OnlyWhatCame` a stamp left in a ring is never taken for a request. `StartedOnSession` the right session is used and an all-reduce is one ring. `RowsExact` the loaded dataset is the file's. `LayoutRight` the engines' parts hold every bit once, the addresses do not overlap, the register says as much as was written. `ProgramsTypeOK`; `ProgramsEnd` (liveness) |
| `nvme_status` | 92 | violated: `DoneMeansCreated` |

### Bounds, and why they are enough

- `gpusend`: 2 blocks of 2 units, a ring of 10 with `Overhead` 4 and
  `MaxPackage` 2, so a window of 4; calls of 7 or 12 units, two of them. A
  call of 7 ends in a package of 1, which moves the wrap of the next call;
  12 goes round the ring within a call. Two blocks are the least that race for
  the window and the turn; the theorems drop the bounds for all properties but
  `CallDelivered`, in both forms. The host posts one
  call of 12, three rounds, so that slots are used again and the window closes
  in the middle. One info record in flight, since records only carry a count.
- `gpurecv`: 2 blocks, a FIFO of 2, a ring of 30 in which packets of up to 5
  wrap about every sixth; 5 calls of length 6 (whole packets), 7 (a short
  packet; two calls make a lap) or 4 (each lap is cut anew, and payload is taken
  for a length from the second lap on), first record 0 or 1 (connect and
  accept), window 5, portion 2: the FIFO fills, its entries are reused, and
  credit is the limit, in each lap. `PayloadWords`: a packet without payload, a
  short one, a whole one, one of half the ring, one that ends past it.
- `gpuconnect`: listen, accept, connect, accept, connect by one stream, with 3
  buffers and 2 peers that may come at any time, once each is refused and
  tries again. `inTurn`, chosen at the start, says whether peers ask only
  once those before them are accepted; the claims that need it say so.
- `switch`: 2 workers, 4 rounds, links of 2, and a counter of 1 bit, so that
  each slot is used twice and the counter wraps twice. The code's counter has
  32 bits (`config.p4:15`); one bit is the narrowest that, as they do for
  `NODE_SIZE` 2, wraps at a multiple of `NODE_SIZE`.
- `switch_sum`, `switch_resend`: 8-bit counters, the shortest histories that
  show the disagreement.
- `sgdtrain`: 2 processes of 2 workers and main, 2 epochs of 2 minibatches of 3
  or 4 samples. Arrays live across minibatches and collectives across epochs;
  two of each show what could leak from one to the next.
- `host`: six cards (32- and 64-bit BARs, optional BARs missing, none with the
  configuration registers), three kinds of interrupts, regions free or not,
  two probes, two processes, buffer at one of two places, 2 huge pages of 2
  small ones pinned in any number. The allocator: 2 symmetric threads, region
  of 3 pages, sizes below and above a page, 3 allocations. Allocator and
  driver share nothing but the region, so the constraint `AllocatorApart`
  explores the former's interleavings over one history of the latter.
- `nvme`: a queue of 4 instead of 32 (masks scale with it), one pair of queues,
  whose 4 commands fit, or two, whose 6 wrap both queues; three runs of the
  program, so that a run finds what two others left. `ProgramsEnd` claims nothing
  for more commands than entries: there the entry the program looks at may be
  rewritten with the phase of the next lap, and it waits in vain.
- `nvme`, controller: two tables between which `setTable` goes back and forth.
  In one both actions have a field of the same name; the other has one of the
  actions, with another id, and no key. The tables have 2 and 1 rows, and there
  are 3 keys. The constraint `Apart` follows ids and rows
  separately, as no method uses both. `P4Program`: 2 groups, 2 nodes, 3 calls
  (`MaxCalls`), so that an edge joins what two earlier calls made.
- `nvme`, SSD benchmark: 4 embeddings in every order over 2 devices of 0 to 3
  namespaces, queue pairs of 2 requests (more is refused).
- `nvme`, packet service: 5 requests, credit 2, rings of 2 and 3 slots: each
  ring goes round at least once with every slot used again.
- `nvme`, TCP programs: 3 nodes of an all-reduce, the fewest among which a ring
  differs from pairs; 2 lengths and 2 sessions, so that a reset lies between
  two starts.
- `nvme`, loader: files of 1 or 2 lines with up to 2 pairs, with and without
  the last newline; 1 or 2 samples asked for; values below, at and above 0.
- `nvme`, weaving: datasets that fill their lines and that do not, one with
  more than 1024 features, and the one the program is made for (20242 × 47236);
  1 and 2 workers, each index. Up to `Enumerated` samples every half line is
  looked at; beyond it the sizes. `ToldCovers` is claimed for one worker, as it
  is built. `EpochBound` bounds the FPGA's epochs.

`gpusend`, `gpurecv`, `gpuconnect`, `host`, `nvme` and their violated runs are run without the
deadlock check: GPU programs end or hang in their own endless loops, and a
kernel that hit `BUG_ON` stops, and so do
the programs of `nvme` when they are over. `switch` and `sgdtrain` are checked for
deadlock.

## Fairness

- GPU kernels: weak fairness of each block and of the polling kernel. The
  kernels of a connection are launched on streams of their own with few
  blocks, so all are resident and the hardware schedules their warps. The
  application need not call again: `PreStart` is not fair. Time-outs
  (`TurnTimeout`, `CtrlTimeout`) are not fair; where one happens the code
  loops for ever and the liveness properties say so. A host that posts goes
  on with its loop.
- FPGA: weak fairness of executing a posted command, reporting, and writing a
  packet it has credit for. For the report: the FPGA reports some time after
  it has read.
- Peers: weak fairness of asking to be connected: a refused peer tries again.
- Switch: weak fairness of sending and receiving; strong fairness of a packet
  being answered: a link that is used again and again does not lose all. Under
  weak fairness every packet could be lost.
- CPU baseline: weak fairness of every thread.
- Host: none; its properties are safety.
- SSD: weak fairness of the program's steps (it spins) and of the controller's
  reset, readiness and completions. Ending the program is not fair.
- The other programs: weak fairness of each thread and each node's program, of
  the SSDs, and of the FPGAs (listening, connecting or refusing, writing what
  they have credit for). Calls of the controller's library are not fair, nor is
  the other host's start and stop of its client: `ProgramsEnd` assumes that all
  requests were made. A device that fails ends its program, and
  `Over` has that for an end.

## Proofs

`GpuSendProofs` proves, for any number of blocks, ring, package and block size
and any set of transfer lengths:

| theorem | property |
|---|---|
| `TypeCorrect` | `TypeOK`, which includes that no address leaves the ring and no index the `pre_*` arrays |
| `TurnExclusive` | `OneBlockHasTheTurn` |
| `NoStalePackage` | `BlocksStayInPlan`, for numbers of packages that are a multiple of the blocks |
| `AnnouncedBounded` | `FlowBound` |
| `CallsComplete` | `CallComplete` |
| `NothingUnreadLost` | `NoUnreadOverwritten` |
| `SendIsStream` | `ImplementsStream` |
| `SendNeverStuck` | no call comes to a standstill (`NeverStuck`) |

Assumptions: `SendAssumption` (the constants are numbers, blocks are no larger
than packages, window and reserve fit in the ring), `BlocksFitOverhead`,
`WholeRounds`. TLC evaluates them in the run `gpusend`. `WholeRounds` is what
`BlocksStayInPlan` lives by: with any other number of packages the code posts
stale entries (`network_kernel.cu:46`), and nothing is claimed.

None of them is inductive. `IInv` strengthens the first five:

- `PlanInv`: package `k` of the plan starts at `k * MaxBlock` and is full
  except for the last. Needed to know what a posted package adds.
- `TurnInv`: the packages in the blocks' hands are the next `NumBlocks` ones,
  and loop variables are multiples of the number of blocks. So package numbers
  differ from block to block, and equality with `mutexSender` singles one
  out: the turn is exclusive; and a loop variable below a `preCnt` that is a
  multiple too leaves room for the whole round: no stale package.
- `InfosAscend`: reports in flight are ascending and not below what the GPU
  knows, so the read count only grows and a window once open stays open.
- `CountInv`: the write count is the units before `mutexSender` (with the
  package being posted), and a block past flow control has room for its
  package, since at most `NumBlocks - 1` others lie before it.

There is a lemma per action (`InitStep`, `PreStartStep`, …, `ReadInfoStep`),
`IInvInductive` joins them, and the theorems follow. Arithmetic about
multiples and division is stated in lemmas of its own at the top. The other
modules of proofs are laid out alike.

The other two need `SInv` as well. What has to be known is where in the ring a
unit of the stream lies, and short packages move that from call to call. `QueueInv` says that a placement exists:
a set of pairs of a position in the stream and an address, such that any two
of them at most `WrapAt` units apart are either as far apart in the ring or,
when the ring has wrapped between them, by the gap that is left at its end
less (`Ahead`). Two pieces end to end within `WrapAt` then do not overlap
(`AheadDisjoint`), and what is posted, in hand or being copied lies within
one such span, because window and blocks together fit in it (`Spans`, from
`BlocksFitOverhead`). The commands are the stream from what the FPGA has taken
to what was posted; `HeldInv` says that a package that was copied is in the
ring until it is posted; `TakenInv` is the abstract stream.

`SendOffloadProofs` proves the same, under the same assumptions, of
`OffloadSpec`, the specification of the run `gpusend`, in which either the blocks
or the host post:

| theorem | property |
|---|---|
| `OffloadTypeCorrect` | `TypeOK` |
| `OffloadTurnExclusive` | `OneBlockHasTheTurn` |
| `OffloadInPlan` | `BlocksStayInPlan` |
| `OffloadBounded` | `FlowBound` |
| `OffloadComplete` | `CallComplete` |
| `OffloadNothingUnreadLost` | `NoUnreadOverwritten` |
| `OffloadIsStream` | `ImplementsStream` |
| `OffloadNeverStuck` | no call comes to a standstill (`NoneStuck`) |

Where the host posts, `HostInv` takes `IInv` and `SInv` of `GpuSend` with other
values for three variables (`V`, an instance of `GpuSendProofs`): a command that
a block has left and the host has not posted counts as posted (`cmdsOn`), and a
block that is done with a round counts as having gone on to the next (`pcOn`,
`loopOn`). Seen so, handing over is posting and passing the turn at once,
`Sync` and `HostPost` change nothing, launching a round and going on to the
next are the loop tests of all blocks, and the other steps are those of
`GpuSend`; so its lemmas, cited through `V`, keep the invariant. `PlanOfRounds`
says that the rounds the host works out by two divisions are those of the
plan; `PendingMore` and `PendingPost` that the slots from `posted` on hold the
commands in the order of the packages. The FPGA sees fewer commands than
`cmdsOn` has, and they are its first ones (`HeadOfConcat`).

`OffloadNeverStuck` has a hypothesis of its own, `RoundFitsWindow`. The host
posts when all blocks of a round are done, so what the others have copied must
fit the window; else a block waits for the window, the host for the block and
the FPGA for the host, a state TLC finds with a window of 1 unit and 2 blocks
of 2. The window of the code is 18 MB, a package 2 MB.

`GpuRecvProofs`, the first for calls of any length, the others for calls of whole
packets (the last three say `WholePackets`):

| theorem | property |
|---|---|
| `TypeCorrect` | `TypeOK`: also where payload is taken for a length, nothing that is queued leads out of the ring |
| `UnreadKept` | `NoOverwriteInUse` |
| `StreamDelivered` | `DeliveredInOrder` |
| `RecvNeverStuck` | no call comes to a standstill (`NeverStuck`) |

Assumptions: `RecvAssumption` and `WindowAssumption` (the FPGA's window and
what the FIFO holds fit in a lap). With packets of one size packet `k` of the
stream lies at `Addr(k)`, whatever call it is of, and packets less than a lap
apart do not touch (`AddrApart`). `FpgaInv` and `CtrlInv` tie every count of
the two sides to a number of packets; `Counts` concludes that the FPGA is less
than a lap ahead of the oldest packet in the FIFO. `HeadsInv` and `TailsInv`
say that a length word is there from when it is written to when it is seen and
zero for the rest of the lap, so no stale one is ever taken; `DataInv` that
the payload of the last lap is intact; `FifoInv` and `BlockInv` where each
block is, `GotInv` what it has. `WaitInv` bounds the credit that has not gone
back by a portion. It needs a record that starts at 0 or 1, as it does after
`accept`, or in fresh memory; `connect` sets none, and from 2 on the first
credit comes too late. Calls with short packets in laps cut alike are TLC's
alone.

`GpuConnectProofs`, for any number of peers and buffers and any program of the
application's stream:

| theorem | property |
|---|---|
| `TypeCorrect` | `TypeOK`, which includes that neither stream names a buffer past the table |
| `BuffersApart` | `BuffersNotShared` |
| `AnswersMatch` | `AcceptedIsAnswered` |
| `StreamNeverStuck`, `AcceptNeverStuck` | whoever waits for an answer gets one, and every accept is served |

Assumption: `ConnectAssumption`, that `Nobody` and `Server` are no peers. `PlaceInv`
says which kernel runs and whose connection is filled where the two streams
are; `InfoInv` that an open request is of a peer that waits, once; `AnswerInv`
that what the FPGA was told is marked and one peer's. `TurnInv`, `HandInv` and
`RecordInv` follow a connection from the polling kernel to `accept` when peers
come in turn: `accepted` is set only while the connection is whole, and taken
back before the next may begin. `BufferInv` joins the buffers of both streams.
Where two kernels search the table at once there is no such invariant, and the
properties claim nothing there.

`QueuedInv` says that a peer that waits is in the queue or with the polling
kernel, so that the stream stands still in `accept` only when every peer is
connected. When peers come in turn and are as many as the accepts, that cannot
be: connections that are recorded belong to different accepts, none to the
one that waits (`OpsInv`).

`SwitchReduceProofs`, for any number of workers and of rounds:

| theorem | property |
|---|---|
| `TypeCorrect` | `TypeOK` |
| `AddedOnce` | `TakenOnce` |
| `ResultsComplete` | `CompleteMeansAll` |
| `SwitchIsBarrier` | `ImplementsBarrier` |
| `ResendNeverInVain` | whoever waits gets its result by resending, or somebody's packet it waits for goes through (`NeverInVain`) |

Assumptions: `SwitchAssumption`, and `PowerAssumption`, facts about powers of
two which the provers do not know and TLC evaluates in the run `switch` (that
`NODE_SIZE` divides the range of the counter is an assumption on the code's
constants). `Last(w)` is the last round of which the switch has taken `w`'s
value. A worker's bit is set in the slot of that round and only there
(`BitInv`), packets on the way are of that round or the next, in order
(`UpInv`), workers are at most a round apart, and in the slot of the newest
round the counter modulo `NODE_SIZE` is the number of bits, in the other one 0
(`CountInv`). In the refinement a packet that is counted is an `Arrive`, an
answer received a `Leave`, and the rest are stutters. In `NeverInVain` the one
who goes through is the asker, a worker still in the round before, or one the
switch has no value of yet.

`SgdTrainProofs`, for any number of processes, threads, minibatches and epochs
and both programs (`TrainAssumption`):

| theorem | property |
|---|---|
| `TypeCorrect` | `TypeOK` |
| `BarriersSuffice` | `NoRace` |
| `StepsAreExact` | `StepsExact` |
| `TrainingNeverStuck` | until all are at their end somebody can go on (`NeverStuck`) |

For the second the invariant counts barriers: nobody has passed one that
another member of the process has not come to (`BarrierInv`). Two operations
that conflict lie on different sides of a barrier, which a case for each pair
of places in the programs shows. The third goes on from there: the collectives
a process has left are those of the place of its main thread, and none leaves
one that another has not entered (`CollectiveInv`); what a process has sent,
and what each array holds, is then said by place and step: the products of that
very step (`SentInv`,
`DotInv`, `SumInv`, `StatInv`), gradients empty or whole (`GradInv`), and a model
that has learned each step's samples once (`ModelInv`, `TotalInv`).
`TrainingNeverStuck` looks at the process that is least far, and in it at the
thread that has come to the fewest barriers: by `BarrierInv` and
`CollectiveInv` nobody it waits for is behind it.

`XdmaHostProofs`, in the specification of the run `host` and so over crashes and
restarts, removals and failed calls:

| theorem | property |
|---|---|
| `TypeCorrect` | `TypeOK` |
| `AllocatorKeepsChunks` | `ChunksKept` |
| `BufferTranslated` | `PinnedIsTranslated` |
| `ProbeLeavesNothing` | `ProbeUnwinds` |

The second is for any threads, region, page and requests (`MemoryAssumption`).
Chunks tile the region in whole pages (`TileInv`); each is free, in use, or in
the hands of one thread that frees or splits it (`OwnInv`), which is what makes
a `free` outside the mutex harmless; free ones are zero (`ClearInv`); and
chunks that have fitted since a call of `allocate` lie ahead of its walk
(`FitInv`), so it fails only when there is no room.

The third is for any number of huge pages and of small pages in one
(`DriverAssumption`). `Counted`, from a bijection between the huge pages and
the small ones they start with, says that the count of the driver's loop is the
number of huge pages that hold a pinned page, and that they are the first ones
of the buffer. Then the knowledge is followed from one to the next: the
driver's array (`DriverKnows`), the process's copy of it, if the driver has
answered (`ProcessKnows`), and as many entries of the TLB as the process has
come to (`FpgaKnows`).

`TypeCorrect` adds `HostTypes` to the two invariants (`HostInv`). That the BARs
`identify_bars` picks are of the card needs to know that the list of BARs has
every BAR once and in order: `PlaceIs` and `PlacesApart` say that the places of
the BARs present are a bijection to the list.

The fourth is for any set of cards, and has a hypothesis on the one at hand,
`WellLaid`: the rules in the comment above `identify_bars`, by which a user BAR
comes before the config BAR and a bypass BAR after it. `RulesSuffice` shows
that the positions `identify_bars` goes by are right for every such card; what
is held then follows from the step `probe` is at (`Probing`) and from what
earlier failures have left (`Leaks`). The cards of the run follow the rules.

`ProgramsProofs` proves, for each program `Programs` may choose:

| theorem | property | invariant |
|---|---|---|
| `ProgramsTypeCorrect` | `ProgramsTypeOK` | all below |
| `TypeCorrect`, `StatusAnswered` | `TypeOK`, `StatusOfThisRun` | `AdminInv` |
| `OnlyWhatCameAnswered` | `OnlyWhatCame` | `RpsInv` |
| `SessionsStarted` | `StartedOnSession`, of all TCP programs but `tcp_benchmark` | `TcpInv` |
| `EverythingStored` | `AllStored` | `SsdInv` |
| `TablesStayRight` | `TablesRight`, of names asked since the last `setTable` | `TablesInv` |
| `EdgesMade` | `EdgesInSwitch` | `ControlInv` |
| `RowsMadeExact` | `RowsExact` | `DataInv` |
| `BitsStayPlaced` | `EveryBitPlaced`, the larger part of `LayoutRight` | `WeaveInv` |
| `LayoutStaysRight` | `LayoutRight`, of datasets that fit | `WeaveInv` |
| `StandstillsKnown` | a program that is not over and cannot move is in one of four situations (`ProgramsGoOn`) | `StandstillInv` |
| `RefusedPollOn` | a poll for a refused or unanswered connection never ends (`RefusedStay`, an action property) | `ProgramsInv` |

All constants are free: depths of queues, numbers of runs, nodes, devices and
embeddings, credit and rings, names and ids of a switch, files and shapes of a
dataset. Assumptions are those of the modules (`NvmeAssumption`,
`RingAssumption`, `TcpAssumption`, `SsdAssumption`, `TablesAssumption`,
`ProgramAssumption`, `DataAssumption`, `WeaveAssumption`). Each program's
invariant is proved for its own next-state relation, and `OneRuns` says that a step
of `Programs` is one of those and leaves the other variables alone.

- *SSD.* `AdminStages`: from the wait for the reset to the enabling the
  controller is off, and from the clearing on it is ready with head and tail at
  0, so it has nothing of an earlier run to fetch; `PendingOfThisRun`: whatever
  lies between its head and the tail comes from this run, even when the tail
  has lapped the head; `PhaseOfThisRun`: an entry with phase 1 answers this run;
  `HeadBound`: the mask keeps the head below the bit the phase is taken from,
  so phase 1 is what the program waits for. The two theorems hold of
  `NvmeAdmin` alone too (`AdminTypeCorrect`, `AnswersOfThisRun`).
- *Packet service.* A word of a ring is its filling or the stamp of a request
  that came (`WordInv`), and credit bounds those on their way (`CreditInv`).
- *TCP programs.* How far a node is in its script says what it and its FPGA
  know (`TcpOrder`). That an all-reduce is one ring, of any number of nodes, is
  reachability along its sessions, and needs induction: `LeastNat`, that a set of
  numbers has a least one, stands in for it, by the well-foundedness the
  library proves. Scripts are sequences put together from parts, and a lemma
  per program says what stands where.
- *SSD benchmark.* The counters are the cardinalities of what was submitted and
  not polled for (`CountersInv`), so 0 is an empty set and the buffer may go
  (`BenchInv`); two embeddings have places of their own by division with
  remainder (`AddrsDiffer`).
- *Controller.* Every id in the maps is one that a table has for that name, or 0
  (`IdsInv`); those of names asked since `setTable` are the present table's, and
  the id of a field's action with it (`CurrentInv`); rows stay within the buffers
  and the tables (`RowsInv`). A
  handle the program keeps is 0 or the switch's of that very group or node
  (`HandlesInv`), and edges join what was asked for (`EdgesInv`).
- *Loader.* A line is in the arrays once it is parsed, and nothing is written
  over it (`LinesInv`); normalising maps every column by its own range (`NormInv`).
- *Weaving.* The arguments stay the program's (`WeaveInv`); the rest is
  arithmetic. The loops number the half lines with six digits (`NumberOfDigits`,
  `DigitsOfNumber`), which `QuotientChain` takes out one after the other; they
  give the group, chunk, bit and half that the source line has (`HalfLineHolds`).
  So what is wanted has one number (`WantedIsHeld`) and no two numbers hold the
  same (`HeldApart`): a bijection, and with it the count, for every number of
  workers and every shape, where TLC looks only below `Enumerated` samples. The
  length the FPGA is told comes out of other divisions; for one worker it is
  never less than what was written (`ToldLength`). That lines, labels and models
  stay apart needs datasets of which the memory holds as much (`DatasetsFit`,
  four bounds on the shape alone; those of the run are within them).
- *Standstill.* While the commands of a run fit the queue, the controller has
  answered what the program waits for, or still has it to fetch (`RoundInv`);
  requests that came and were not served lie in their slots and credit comes
  back (`ServiceInv`); who waits for a port or a connection has asked for it
  (`AskedInv`, `WeaveAsked`), and the node that is least far waits for no key. So
  these standstills are left, and `ProgramsGoOn` names them: more commands than
  entries; a client whose host was not started or was stopped before all
  requests were made; a TCP node that polls for its refused connection, while
  each other node is over, polls too, or waits for the key (`TcpHeldUp`); and the
  start of the training that polls for an address that is nobody's
  (`WeavePollsForEver`). The last two are endless loops of the code
  (`mpireduce.cpp:295`, `sgd_pm copy.cpp:1345`): `RefusedPollOn` proves that
  nothing ends them, and `ProgramsEnd` has `TcpEnded` and `WeaveEnded` for an end,
  so that every other node and program has to come to its own. The SSD
  benchmark and the loader wait for nobody but the device.

The theorems `…NeverStuck` and `ResendNeverInVain` are the safety half of the
liveness properties: somebody has a step to make. As ENABLED is out of the
prover's reach they write the guards out, and a kernel that has run into its
five seconds counts as an end. That the steps come to an end needs fairness and
stays with TLC: `CallDelivered`, `CallsReturn`, `StreamEnds`, `AllRoundsFinish`,
`TrainingEnds`, `ProgramsEnd`. Only model-checked, too: receiving calls with
short packets in laps that are cut alike.

## Disagreements found

| run | where | code | what the repository says |
|---|---|---|---|
| `gpuconnect_full` | `network.cu:370` | `buffer_used` is tested and never counted up; with all buffers taken the FPGA is told of success with buffer −1 | `network.cu:389` "accepting failed, no more buffer" |
| `switch_sum` | `reduce.p4:148` | the packet that completes slot 1 is added to slot 0 | `reduce.p4:146` "new pkt - reset & multicast"; the action for slot 1 is there and unused |
| `switch_resend` | `reduce.p4:150` | the shadow copy is commented out, a resend gets back its own value | `reduce.p4:149` "resend - shadow_copy & unicast" |
| `nvme_status` | `LatencyBenchmark.cpp:73` | the mask of the head drops bit 1: from the third command on the program takes an earlier command's status | `LatencyBenchmark.cpp:565` "queue initialization done." |
| `host_mmap` | `xdma_driver.c:273` | mmap comes when the instance is gone: nodes stay open over remove, or registered after a failed probe | the assertion `BUG_ON(!inst)` |

## What is not modelled

- The FPGA's logic: not in the repository. It appears as external actions, as
  the programs use it.
- Memory order of the GPU and of PCIe: memory is sequentially consistent in
  the models. Where the code relies on a fence it does not have
  (`network_kernel.cu:86`) no property says what happens.
- Hazards of the GPU code beyond the models' bounds: the info ring is overrun
  after 32768 records (`network.cu:351`); the control kernel waits for four
  blocks whatever the grid of `socket_recv` is, and `inference.cu:86` launches
  its own (`network_kernel.cu:499`); buffers other than 0
  (`network_kernel.cu:121`).
- A resend that the worker's packet of the next round overtakes
  (`bitmap.p4:94`): links keep their order here. Thread counts that do not
  divide a process's share (`my_communicator_datapara.cpp:533`): the program
  tests another quotient.
- `Roce.cpp`, which no target builds and which does not compile, and
  `P4_FPGA/sw/src/main.cpp`, which is of another engine and does not compile
  with this one.
- Numbers: rounding, quantisation and the loss of the training programs;
  their loaders of other formats, which nothing calls.
- GPU applications: the thread that would send in the all-reduce is commented
  out (`app.cu:27`), and so are the calls of the others (`main.cpp:203`,
  `main.cpp:209`); nothing calls `stream_transfer`, which would start the
  moving of pages (`kernel.cu`); the sample of HyperLogLog returns after a
  computation on the GPU's own data (`hll.cu:188`).
- Straight-line programs that set registers and print results, benchmarks,
  option parsing, logging; `kvs.cu`, whose kernels and whose only call are
  commented out; the packet formats of the switch, which are without state.

## Plan

Done, in this order:

1. GPU networking and in-network reduction: `GpuSend`, `GpuRecv`,
   `GpuConnect`, `SwitchReduce`; `SgdTrain`; `HostMemory`, `XdmaDriver`,
   `XdmaHost`; `NvmeAdmin`.
2. The programs on a host, one run for all: `SwitchTables`, `SwitchProgram`,
   `SsdBench`, `PacketRings`, `FpgaTcp`, `SgdData`, `SgdWeave`, `Programs`.
3. `SendOffload`: the form of the send path in which the host posts, with
   `GpuSend`'s plan and window, again an implementation of `SendStream`.
4. Proofs of the safety properties the passing runs check, and of the absence
   of standstill behind the liveness properties, with the exceptions
   named at the end of [proofs](#proofs).

The all-reduce ring of `app.cu` and the page ring of `kernel.cu` were to come
after `SendOffload`; they are left out, as neither runs (above).

Related small modules share a run where their questions are one (as driver,
process and allocator do in `host`).

Open: a proof of receiving for short packets in laps that are cut alike, where
the place of a packet depends on the calls of a lap.
