------------------------------- MODULE SsdBench -------------------------------
(***************************************************************************)
(* The SSD benchmark of the CPU (fpgaSsd/cpuBench/cpu_bench.cpp): one      *)
(* thread finds the namespaces of the SSDs, gives each a queue pair,       *)
(* submits a write per embedding, striped over the devices, and polls the  *)
(* queue pairs until none is pending.  Commands complete in any order.     *)
(***************************************************************************)
EXTENDS Integers, FiniteSets

CONSTANTS
  EmbedNum,     \* embed_num
  DevNum,       \* dev_num, the devices it is written for
  Found,        \* numbers of namespaces there may be
  EntryLba,     \* embed_entry_lba
  Requests      \* io_queue_requests of a queue pair

ASSUME SsdAssumption ==
  /\ EmbedNum \in Nat /\ DevNum \in Nat \ {0} /\ EntryLba \in Nat \ {0}
  /\ Found \subseteq Nat /\ Requests \in Nat

VARIABLES
  bpc,           \* where the program is
  namespaces,    \* how many entries g_namespaces has that are not null
  qpairs,        \* entries with a queue pair, the first ones
  embed_id,      \* the order of the embeddings, shuffled
  nextEmbed,     \* the loop's i
  total_pending, pending_io_per_dev,
  submitted,     \* commands the SSDs have: device, place and index of the buffer
  done,          \* commands completed, not yet polled for
  pollDev,       \* the queue pair polled next
  stored,        \* places written, each with the index of the buffer it came from
  bufferHeld,    \* spdk_dma_malloc'ed and not yet freed
  returned       \* history: main has returned 0

ssdVars == <<bpc, namespaces, qpairs, embed_id, nextEmbed, total_pending,
             pending_io_per_dev, submitted, done, pollDev, stored, bufferHeld, returned>>

Embeds == 0..(EmbedNum - 1)
Devs == 0..(DevNum - 1)
Shuffles == {f \in [Embeds -> Embeds] : \A i, j \in Embeds : i # j => f[i] # f[j]}

SsdInit ==
  /\ bpc = "env" /\ namespaces = 0 /\ qpairs = 0
  /\ embed_id = [i \in Embeds |-> i] /\ nextEmbed = 0
  /\ total_pending = 0 /\ pending_io_per_dev = [d \in Devs |-> 0]
  /\ submitted = {} /\ done = {} /\ pollDev = 0 /\ stored = {}
  /\ bufferHeld = FALSE /\ returned = FALSE

loopVars == <<nextEmbed, total_pending, pending_io_per_dev, submitted, done, pollDev, stored>>
setVars == <<namespaces, qpairs, embed_id>>

\* rc4ml_spdk_init up to the probe; a failure, or no controller at all, goes to
\* the clean-up.  Controllers need not have a namespace.
SpdkInit ==
  /\ bpc = "env"
  /\ \/ bpc' = "cleanup" /\ UNCHANGED namespaces
     \/ namespaces' \in Found /\ bpc' = "qpair"
  /\ UNCHANGED <<qpairs, embed_id, loopVars, bufferHeld, returned>>

\* alloc_qpair stops at the first failure and nobody is told.
AllocQpair ==
  /\ bpc = "qpair" /\ bpc' = "submit_all"
  /\ qpairs' \in 0..namespaces
  /\ UNCHANGED <<namespaces, embed_id, loopVars, bufferHeld, returned>>

\* run_task: the buffer, the order, and as many entries as the benchmark is
\* written for: null ones if there are fewer namespaces, none of the others.
RunTask ==
  /\ bpc = "submit_all" /\ bpc' = "submit"
  /\ bufferHeld' = TRUE
  /\ namespaces' = IF namespaces < DevNum THEN namespaces ELSE DevNum
  /\ qpairs' = IF qpairs < DevNum THEN qpairs ELSE DevNum
  /\ embed_id' \in Shuffles
  /\ UNCHANGED <<loopVars, returned>>

\* Device and logical block of an embedding.
getEmbedAddr(e) == <<e % DevNum, (e \div DevNum) * EntryLba>>

OnDevice(d, cmds) == {c \in cmds : c.place[1] = d}

\* The program stops at a null entry or a queue pair it has not got.
TaskSubmit ==
  /\ bpc = "submit" /\ nextEmbed < EmbedNum
  /\ LET place == getEmbedAddr(embed_id[nextEmbed]) d == place[1] IN
     \/ /\ d < qpairs
        /\ Cardinality(OnDevice(d, submitted \cup done)) < Requests
        /\ submitted' = submitted \cup {[place |-> place, buf |-> nextEmbed]}
        /\ total_pending' = total_pending + 1
        /\ pending_io_per_dev' = [pending_io_per_dev EXCEPT ![d] = @ + 1]
        /\ nextEmbed' = nextEmbed + 1
        /\ UNCHANGED <<bpc, done, pollDev, stored>>
     \/ /\ d >= qpairs \/ Cardinality(OnDevice(d, submitted \cup done)) >= Requests
        /\ bpc' = "stopped"
        /\ UNCHANGED loopVars
  /\ UNCHANGED <<setVars, bufferHeld, returned>>

SubmitEnds ==
  /\ bpc = "submit" /\ nextEmbed = EmbedNum
  /\ bpc' = "drain" /\ pollDev' = 0
  /\ UNCHANGED <<setVars, nextEmbed, total_pending, pending_io_per_dev, submitted, done,
                 stored, bufferHeld, returned>>

\* mistake: it waits for the first device only
StillPendingFirst == pending_io_per_dev[0] > 0
StillPending == total_pending > 0

\* mistake: the pass goes one too far
NextDevOver == (pollDev + 1) % (DevNum + 1)
NextDev == (pollDev + 1) % DevNum

\* One pass polls every queue pair; the callback counts a command off, and one
\* that has failed ends the program.
PollQpair ==
  /\ bpc = "drain" /\ (pollDev > 0 \/ StillPending)
  /\ \/ LET polled == OnDevice(pollDev, done) IN
          /\ done' = done \ polled
          /\ total_pending' = total_pending - Cardinality(polled)
          /\ pending_io_per_dev' =
               [pending_io_per_dev EXCEPT ![pollDev] = @ - Cardinality(polled)]
          /\ pollDev' = NextDev
          /\ UNCHANGED bpc
     \/ /\ OnDevice(pollDev, done) # {} /\ bpc' = "stopped"
        /\ UNCHANGED <<done, total_pending, pending_io_per_dev, pollDev>>
  /\ UNCHANGED <<setVars, nextEmbed, submitted, stored, bufferHeld, returned>>

TaskEnds ==
  /\ bpc = "drain" /\ pollDev = 0 /\ ~StillPending
  /\ bpc' = "cleanup" /\ bufferHeld' = FALSE /\ returned' = TRUE
  /\ UNCHANGED <<setVars, loopVars>>

\* The queue pairs are freed and the controllers detached.
Cleanup ==
  /\ bpc = "cleanup" /\ bpc' = "ended"
  /\ namespaces' = 0 /\ qpairs' = 0
  /\ UNCHANGED <<embed_id, loopVars, bufferHeld, returned>>

\* An SSD does one of the commands it has.
Complete(c) ==
  /\ c \in submitted
  /\ submitted' = submitted \ {c} /\ done' = done \cup {c}
  /\ stored' = {s \in stored : s.place # c.place} \cup {c}
  /\ UNCHANGED <<bpc, setVars, nextEmbed, total_pending, pending_io_per_dev, pollDev,
                 bufferHeld, returned>>

Ssds == \E c \in submitted : Complete(c)
Bench == SpdkInit \/ AllocQpair \/ RunTask \/ TaskSubmit \/ SubmitEnds
         \/ PollQpair \/ TaskEnds \/ Cleanup

SsdNext == Bench \/ Ssds
SsdSpec == SsdInit /\ [][SsdNext]_ssdVars /\ WF_ssdVars(Bench) /\ WF_ssdVars(Ssds)

-------------------------------------------------------------------------------
(* Properties.                                                             *)

SsdTypeOK ==
  /\ bpc \in {"env", "qpair", "submit_all", "submit", "drain", "cleanup", "ended", "stopped"}
  /\ nextEmbed \in 0..EmbedNum /\ embed_id \in Shuffles
  /\ total_pending \in 0..EmbedNum /\ pending_io_per_dev \in [Devs -> 0..EmbedNum]
  /\ pollDev \in Devs /\ qpairs <= namespaces

\* When the program takes its buffer back and frees the queue pairs, no SSD
\* still has a command on them, every embedding is at a place of its own, and
\* each is the buffer that was meant for it: the counters that the callbacks
\* count down say so for all devices and orders of completion.
AllStored ==
  /\ bpc \in {"cleanup", "ended"} => submitted \cup done = {}
  /\ returned => \A i \in Embeds :
       \E s \in stored : s.buf = i /\ s.place = getEmbedAddr(embed_id[i])

\* It ends by its end, or because something failed.
AtWork == bpc \notin {"ended", "stopped"}
AtRest == bpc \in {"ended", "stopped"}

===============================================================================
