------------------------------ MODULE PacketRings -----------------------------
(***************************************************************************)
(* The packet service of a host with an FPGA (FPGA_CPU/sw/rps.cpp).  The   *)
(* FPGA writes requests into two rings of the host's memory; a thread per  *)
(* ring spins on the next slot until the stamp it expects is there and     *)
(* answers through the bridge.  The answer to a request of the client ring *)
(* lets the FPGA go on to the request of the cs ring, and the answer to    *)
(* that one returns a credit.  In the role "bs" the requests come from     *)
(* another host, which runs the program as "client"; in the role "dummy"   *)
(* the FPGA makes them itself and they are pages instead of words.         *)
(***************************************************************************)
EXTENDS Integers

CONSTANTS
  NumRpcs,      \* NUM_RPCS
  Credit,       \* CREDIT
  RingSlots,    \* requests the client ring has room for
  CsSlots,      \* words of the cs ring
  CsOffset      \* CS_HOST_MEM_OFFSET

\* The partitions hold more requests than there are credits.
ASSUME RingAssumption ==
  /\ NumRpcs \in Nat \ {0} /\ Credit \in Nat \ {0} /\ CsOffset \in Nat
  /\ RingSlots \in Nat /\ RingSlots >= Credit
  /\ CsSlots \in Nat /\ CsSlots >= Credit

VARIABLES
  role,       \* FLAGS_type of the server
  rpc_pc,     \* the server's main thread
  ring,       \* p: the two partitions, a stamp per slot
  credits,    \* bar[103]
  addressed,  \* bar[110] and bar[111] hold the buffer's address
  onCore,     \* threads that run on their core
  cur,        \* cur_word_client or cur_rpc, and cur_word_cs
  over,       \* threads that have left their loop
  client_pc,  \* the client host
  issued,     \* requests made, each written to the client ring
  csWritten   \* requests written to the cs ring

fpgaVars == <<issued, csWritten>>
rpsVars == <<role, rpc_pc, ring, credits, addressed, onCore, cur, over, client_pc, fpgaVars>>

RingNames == {"client", "cs"}
Ones == -1
Size(r) == IF r = "client" THEN RingSlots ELSE CsSlots

\* What the buffer holds before the first request.
Fill == IF role = "bs" THEN 0 ELSE Ones

\* mistake: the stamp of the slot and not of the request
StampOfSlot(r, n) ==
  IF r = "client" /\ role = "dummy" THEN n % Size(r) ELSE (n % Size(r)) * 64 + 1
\* The stamp a thread waits for.
Expected(r, n) ==
  CASE r = "client" /\ role = "bs" -> n * 64 + 1
    [] r = "client" /\ role = "dummy" -> n
    [] r = "cs" -> n * 64 + CsOffset + 1

\* What the FPGA writes as request n.
Stamp(r, n) ==
  IF r = "cs" THEN n * 64 + CsOffset + 1 ELSE IF role = "bs" THEN n * 64 + 1 ELSE n

RpsInit ==
  /\ role \in {"bs", "dummy"} /\ rpc_pc = "alloc"
  /\ ring = [r \in RingNames |-> [s \in 0..(Size(r) - 1) |-> 0]]
  /\ credits = 0 /\ addressed = FALSE
  /\ onCore = {} /\ cur = [r \in RingNames |-> 0] /\ over = {}
  /\ client_pc = "down" /\ issued = 0 /\ csWritten = 0

\* run_bs and run_dummy
Goto(here, next) == rpc_pc = here /\ rpc_pc' = next /\ UNCHANGED <<role, client_pc, fpgaVars>>

FillBuffer ==
  /\ Goto("alloc", "reset")
  /\ ring' = [r \in RingNames |-> [s \in 0..(Size(r) - 1) |-> Fill]]
  /\ UNCHANGED <<credits, addressed, onCore, cur, over>>

ResetAndConnect ==
  /\ Goto("reset", "address") /\ credits' = Credit
  /\ UNCHANGED <<ring, addressed, onCore, cur, over>>

WriteAddress ==
  /\ Goto("address", "threads") /\ addressed' = TRUE
  /\ UNCHANGED <<ring, credits, onCore, cur, over>>

StartThreads ==
  /\ Goto("threads", "join")
  /\ UNCHANGED <<ring, credits, addressed, onCore, cur, over>>

Join ==
  /\ Goto("join", "ended") /\ over = RingNames
  /\ UNCHANGED <<ring, credits, addressed, onCore, cur, over>>

ServerMain == FillBuffer \/ ResetAndConnect \/ WriteAddress \/ StartThreads \/ Join

\* A thread waits until it has been moved to its core.
Moved(r) ==
  /\ rpc_pc = "join" /\ r \notin onCore
  /\ onCore' = onCore \cup {r}
  /\ UNCHANGED <<role, rpc_pc, ring, credits, addressed, cur, over, client_pc, fpgaVars>>

\* One turn of the loop that finds its request.
Poll(r) ==
  /\ r \in onCore /\ r \notin over
  /\ ring[r][cur[r] % Size(r)] = Expected(r, cur[r])
  /\ cur' = [cur EXCEPT ![r] = @ + 1]
  /\ over' = IF cur[r] + 1 = NumRpcs THEN over \cup {r} ELSE over
  /\ UNCHANGED <<role, rpc_pc, ring, credits, addressed, onCore, client_pc, fpgaVars>>

\* run_client, on the other host: it starts its FPGA once the server is ready,
\* sleeps for the time the requests should take and stops it.
ClientStart ==
  /\ role = "bs" /\ client_pc = "down" /\ addressed
  /\ client_pc' = "started"
  /\ UNCHANGED <<role, rpc_pc, ring, credits, addressed, onCore, cur, over, fpgaVars>>

ClientStop ==
  /\ client_pc = "started" /\ client_pc' = "stopped"
  /\ UNCHANGED <<role, rpc_pc, ring, credits, addressed, onCore, cur, over, fpgaVars>>

-------------------------------------------------------------------------------
(* The FPGAs: a request per credit, and the second half of a request after *)
(* the first was answered.                                                 *)

Write(r, n) == ring' = [ring EXCEPT ![r][n % Size(r)] = Stamp(r, n)]

Issue ==
  /\ addressed /\ issued < NumRpcs /\ issued - cur["cs"] < credits
  /\ role = "bs" => client_pc = "started"
  /\ Write("client", issued) /\ issued' = issued + 1
  /\ UNCHANGED <<role, rpc_pc, credits, addressed, onCore, cur, over, client_pc, csWritten>>

WriteCs ==
  /\ csWritten < cur["client"]
  /\ Write("cs", csWritten) /\ csWritten' = csWritten + 1
  /\ UNCHANGED <<role, rpc_pc, credits, addressed, onCore, cur, over, client_pc, issued>>

Fpga == Issue \/ WriteCs

RpsNext ==
  \/ ServerMain \/ ClientStart \/ ClientStop \/ Fpga
  \/ \E r \in RingNames : Moved(r) \/ Poll(r)
RpsSpec ==
  /\ RpsInit /\ [][RpsNext]_rpsVars
  /\ WF_rpsVars(ServerMain) /\ WF_rpsVars(Issue) /\ WF_rpsVars(WriteCs)
  /\ \A r \in RingNames : WF_rpsVars(Moved(r)) /\ WF_rpsVars(Poll(r))

-------------------------------------------------------------------------------
(* Properties.                                                             *)

RpsTypeOK ==
  /\ rpc_pc \in {"alloc", "reset", "address", "threads", "join", "ended"}
  /\ \A r \in RingNames : DOMAIN ring[r] = 0..(Size(r) - 1) /\ cur[r] \in 0..NumRpcs
  /\ issued \in 0..NumRpcs /\ csWritten \in 0..NumRpcs /\ credits \in {0, Credit}

\* A thread answers a request only after the FPGA has written it, though all
\* it looks at is a word that an earlier lap of the ring, or the filling of
\* the buffer, has left there; and no request is written over one that has
\* not been answered.
Came(r) == IF r = "client" THEN issued ELSE csWritten
OnlyWhatCame == \A r \in RingNames : cur[r] <= Came(r) /\ Came(r) - cur[r] <= Size(r)

\* All requests have been made: the client's sleep was long enough for that.
AllIssued == issued = NumRpcs
\* Each was answered, and the server is over.
ServerEnded == rpc_pc = "ended"

===============================================================================
