------------------------------- MODULE NvmeAdmin ------------------------------
(***************************************************************************)
(* How the SSD benchmark of the FPGA brings up an SSD                      *)
(* (fpgasw/LatencyBenchmark.cpp): it resets the controller, gives it the   *)
(* admin queues and creates the queues the FPGA will use.  The admin       *)
(* queues lie in a huge page file, which outlives the program, and the     *)
(* controller goes on with its commands when the program ends.             *)
(***************************************************************************)
EXTENDS Integers

CONSTANTS
  Depth,      \* ADMIN_QUEUE_DEPTH + 1
  QueueNums,  \* what the FPGA may report as queue_num
  MaxStarts   \* bound: runs of the program

ASSUME NvmeAssumption ==
  /\ Depth \in Nat /\ Depth >= 2
  /\ QueueNums \subseteq Nat \ {0}
  /\ MaxStarts \in Nat

VARIABLES
  queue_num,    \* register 580 of the FPGA
  pc, step,     \* the program: where it is, the command it is at
  admin_sq_tl, admin_cq_hd,
  seen,         \* history: the completion whose status was returned last
  starts,       \* runs of the program
  sq, cq,       \* the admin queues in memory
  enabled,      \* the controller's CC.EN
  ready,        \* CSTS.RDY
  sqTail,       \* tail doorbell of the submission queue
  cqHead,       \* head doorbell of the completion queue
  sqHead, cqTail, phase,
  created       \* the queues that exist

progVars == <<pc, step, admin_sq_tl, admin_cq_hd, seen, starts>>
ctlVars == <<ready, sqHead, cqTail, phase, created>>
vars == <<queue_num, progVars, sq, cq, enabled, sqTail, cqHead, ctlVars>>

Slots == 0..(Depth - 1)
Count == 2 * queue_num + 2   \* commands of one run

\* Set features, then completion and submission queue of each pair, and the
\* SMART page at last.
Op(s) == CASE s = 1 -> "features" [] s = Count -> "smart"
           [] s % 2 = 0 -> "cq" [] OTHER -> "sq"

\* A command: what it does, the pair it is about, the run it comes from.
Command(s) == [op |-> Op(s), qid |-> s \div 2, start |-> starts]
NoCommand == [op |-> "none", qid |-> 0, start |-> 0]
Empty == [phase |-> 0, status |-> 0, start |-> 0]

Init ==
  /\ queue_num \in QueueNums
  /\ pc = "down" /\ step = 1 /\ admin_sq_tl = 0 /\ admin_cq_hd = 0
  /\ seen = Empty /\ starts = 0
  /\ sq = [i \in Slots |-> NoCommand] /\ cq = [i \in Slots |-> Empty]
  /\ enabled = FALSE /\ ready = FALSE
  /\ sqTail = 0 /\ cqHead = 0 /\ sqHead = 0 /\ cqTail = 0 /\ phase = 1
  /\ created = {}

-------------------------------------------------------------------------------
(* The program.                                                            *)

Start ==
  /\ pc = "down" /\ starts < MaxStarts
  /\ pc' = "begin" /\ step' = 1 /\ starts' = starts + 1
  /\ admin_sq_tl' = 0 /\ admin_cq_hd' = 0 /\ seen' = Empty
  /\ UNCHANGED <<queue_num, sq, cq, enabled, sqTail, cqHead, ctlVars>>

At(here, next) ==
  /\ pc = here /\ pc' = next
  /\ UNCHANGED <<queue_num, step, seen, starts, sq, ctlVars>>

Disable ==
  /\ At("begin", "wait_reset")
  /\ enabled' = FALSE
  /\ UNCHANGED <<admin_sq_tl, admin_cq_hd, cq, sqTail, cqHead>>

\* mistake: the program does not wait
WaitResetNot ==
  /\ At("wait_reset", "enable")
  /\ UNCHANGED <<admin_sq_tl, admin_cq_hd, cq, enabled, sqTail, cqHead>>

WaitReset ==
  /\ At("wait_reset", "enable")
  /\ ~ready
  /\ UNCHANGED <<admin_sq_tl, admin_cq_hd, cq, enabled, sqTail, cqHead>>

\* The size and the place of the queues are the same in every run.
Enable ==
  /\ At("enable", "wait_ready")
  /\ enabled' = TRUE
  /\ UNCHANGED <<admin_sq_tl, admin_cq_hd, cq, sqTail, cqHead>>

WaitReady ==
  /\ At("wait_ready", "clear")
  /\ ready
  /\ UNCHANGED <<admin_sq_tl, admin_cq_hd, cq, enabled, sqTail, cqHead>>

\* mistake: 128 bytes are cleared
ClearedBytes == [i \in Slots |-> IF i < Depth \div 4 THEN Empty ELSE cq[i]]

\* 128 words of 4 bytes, 4 of them to a completion
Cleared == [i \in Slots |-> Empty]

ClearQueue ==
  /\ At("clear", "submit")
  /\ admin_sq_tl' = 0 /\ admin_cq_hd' = 0
  /\ cq' = Cleared
  /\ UNCHANGED <<enabled, sqTail, cqHead>>

\* mistake: the tail is not masked
NextTailUnmasked == admin_sq_tl + 1
NextTail == (admin_sq_tl + 1) % Depth

InsertAdminSq ==
  /\ pc = "submit" /\ pc' = "wait"
  /\ sq' = [sq EXCEPT ![admin_sq_tl] = Command(step)]
  /\ admin_sq_tl' = NextTail /\ sqTail' = NextTail
  /\ UNCHANGED <<queue_num, step, admin_cq_hd, seen, starts, cq, enabled, cqHead, ctlVars>>

\* & ((ADMIN_QUEUE_DEPTH << 2) + 1) keeps bit 0 and the bits from 2 on
NextHead ==
  LET h == admin_cq_hd + 1 IN (h % 2) + 4 * ((h \div 4) % Depth)

HeadEntry == cq[admin_cq_hd % Depth]
UnexpectedPhase == (admin_cq_hd \div (4 * Depth)) % 2

WaitPhase ==
  /\ pc = "wait" /\ HeadEntry.phase # UnexpectedPhase
  /\ pc' = "status"
  /\ UNCHANGED <<queue_num, step, admin_sq_tl, admin_cq_hd, seen, starts,
                 sq, cq, enabled, sqTail, cqHead, ctlVars>>

\* The entry is read once more for its status; any but 0 ends the program.
ReadStatus ==
  /\ pc = "status"
  /\ seen' = HeadEntry
  /\ admin_cq_hd' = NextHead /\ cqHead' = NextHead
  /\ \/ HeadEntry.status # 0 /\ pc' = "down" /\ step' = step
     \/ HeadEntry.status = 0 /\ step < Count /\ pc' = "submit" /\ step' = step + 1
     \/ HeadEntry.status = 0 /\ step = Count /\ pc' = "up" /\ step' = step
  /\ UNCHANGED <<queue_num, admin_sq_tl, starts, sq, cq, enabled, sqTail, ctlVars>>

\* The benchmarks end, or the program does, wherever it is.
End ==
  /\ pc # "down" /\ pc' = "down"
  /\ UNCHANGED <<queue_num, step, admin_sq_tl, admin_cq_hd, seen, starts,
                 sq, cq, enabled, sqTail, cqHead, ctlVars>>

Program ==
  \/ Disable \/ WaitReset \/ Enable \/ WaitReady \/ ClearQueue
  \/ InsertAdminSq \/ WaitPhase \/ ReadStatus

-------------------------------------------------------------------------------
(* The controller.                                                         *)

Reset ==
  /\ ~enabled /\ ready
  /\ ready' = FALSE
  /\ sqHead' = 0 /\ cqTail' = 0 /\ phase' = 1 /\ sqTail' = 0 /\ cqHead' = 0
  /\ created' = {}
  /\ UNCHANGED <<queue_num, progVars, sq, cq, enabled>>

GetReady ==
  /\ enabled /\ ~ready
  /\ ready' = TRUE
  /\ UNCHANGED <<queue_num, progVars, sq, cq, enabled, sqTail, cqHead,
                 sqHead, cqTail, phase, created>>

Succ(i) == (i + 1) % Depth

\* A command fails or succeeds; a submission queue needs its completion queue.
Outcomes(c) ==
  IF c.op = "sq" /\ <<"cq", c.qid>> \notin created THEN {1} ELSE {0, 1}

Execute ==
  /\ ready /\ sqHead # sqTail
  /\ Succ(cqTail) # cqHead
  /\ LET c == sq[sqHead] IN
     \E status \in Outcomes(c) :
       /\ cq' = [cq EXCEPT ![cqTail] = [phase |-> phase, status |-> status, start |-> c.start]]
       /\ created' = IF status = 0 /\ c.op \in {"cq", "sq"}
                     THEN created \cup {<<c.op, c.qid>>} ELSE created
  /\ sqHead' = Succ(sqHead) /\ cqTail' = Succ(cqTail)
  /\ phase' = IF Succ(cqTail) = 0 THEN 1 - phase ELSE phase
  /\ UNCHANGED <<queue_num, progVars, sq, enabled, ready, sqTail, cqHead>>

Controller == Reset \/ GetReady \/ Execute

Next == Start \/ Program \/ End \/ Controller
Spec == Init /\ [][Next]_vars

\* The program runs on while it is up, the controller answers.
FairSpec == Spec /\ WF_vars(Program) /\ WF_vars(Reset) /\ WF_vars(GetReady) /\ WF_vars(Execute)

-------------------------------------------------------------------------------
(* Properties.                                                             *)

Running == {"clear", "submit", "wait", "status", "up"}

TypeOK ==
  /\ queue_num \in QueueNums
  /\ pc \in Running \cup {"down", "begin", "wait_reset", "enable", "wait_ready"}
  /\ step \in Nat \ {0} /\ starts \in 0..MaxStarts
  /\ admin_sq_tl \in Slots /\ admin_cq_hd \in Nat
  /\ seen \in [phase : 0..1, status : 0..1, start : 0..MaxStarts]
  /\ cq \in [Slots -> [phase : 0..1, status : 0..1, start : 0..MaxStarts]]
  /\ sq \in [Slots -> [op : {"none", "features", "cq", "sq", "smart"}, qid : Nat,
                       start : 0..MaxStarts]]
  /\ enabled \in BOOLEAN /\ ready \in BOOLEAN
  /\ sqTail \in Slots /\ cqHead \in Nat
  /\ sqHead \in Slots /\ cqTail \in Slots /\ phase \in 0..1

\* A status the program acts on answers a command of this run: neither the
\* queue in the huge page file nor the controller, which still works on the
\* commands of a program that was ended, passes an earlier run's answer on.
StatusOfThisRun == seen # Empty => seen.start = starts

\* If the queue holds the commands of a run, a run that has begun comes up or
\* ends: the waits for reset, readiness and completions all end, whatever
\* state an earlier run left the controller and the queues in.
BeginsFitting == pc = "begin" /\ Count <= Depth
UpOrEnded == pc \in {"up", "down"}

\* When the program goes on to the SMART page it has reported that the queues
\* are initialised, and the FPGA may use them.
DoneMeansCreated ==
  step = Count /\ pc \in {"submit", "wait", "status", "up"} =>
    \A q \in 1..queue_num : {<<"cq", q>>, <<"sq", q>>} \subseteq created

===============================================================================
