------------------------------ MODULE HostMemory ------------------------------
(***************************************************************************)
(* MemoryManager: the allocator of the buffer a process shares with the    *)
(* FPGA (fpga/MemoryManager.cpp).  The region is a list of chunks in the   *)
(* order of their addresses, all of it one free chunk at first.  allocate  *)
(* walks the list under the mutex and splits the first chunk that fits;    *)
(* free walks it without the mutex, at the same time as allocate.          *)
(*                                                                         *)
(* The list is a function from the addresses of the chunks, so that the    *)
(* chunk after one is the one at the next address.  Chunks never go away.  *)
(***************************************************************************)
EXTENDS Integers, FiniteSets, FiniteSetsExt

CONSTANTS
  Threads,
  PageSize,   \* 4096
  Size,       \* size of the region
  Sizes,      \* sizes asked for
  MaxCalls    \* bound: chunks allocated in the life of a region

\* A size of 0 would give a chunk the address of the next one.
ASSUME MemoryAssumption ==
  /\ PageSize \in Nat \ {0} /\ Size \in Nat \ {0} /\ Size % PageSize = 0
  /\ Sizes \subseteq Nat \ {0} /\ MaxCalls \in Nat /\ "nobody" \notin Threads

States == {"out", "enter", "alloc", "take", "split", "free", "release"}

Units == 0..(Size - 1)
NoAddr == Size   \* nullptr, also the end of the list

VARIABLES
  chunks,   \* [size, free] of the chunk at each address
  mem,      \* contents of the region: 0 or who wrote it
  mutex,    \* who is in allocate, or "nobody"
  mpc,      \* where each thread is
  arg,      \* the size it asks for, or the address it frees
  current,  \* the chunk it looks at
  fit,      \* history: chunks that have fitted since its call
  failed,   \* history: nullptr was returned though a chunk fitted all along
  live,     \* allocations of the application: address, length, owner, written
  calls     \* chunks allocated

memVars == <<chunks, mem, mutex, mpc, arg, current, fit, failed, live, calls>>

\* The constructor: the region is cleared and one chunk.
OneChunk == [a \in {0} |-> [size |-> Size, free |-> TRUE]]
Construct ==
  /\ chunks' = OneChunk /\ mem' = [u \in Units |-> 0] /\ mutex' = "nobody"
  /\ mpc' = [t \in Threads |-> "out"] /\ arg' = [t \in Threads |-> 0]
  /\ current' = [t \in Threads |-> 0] /\ fit' = [t \in Threads |-> {}]
  /\ failed' = FALSE /\ live' = {} /\ calls' = 0

MemInit ==
  /\ chunks = OneChunk /\ mem = [u \in Units |-> 0] /\ mutex = "nobody"
  /\ mpc = [t \in Threads |-> "out"] /\ arg = [t \in Threads |-> 0]
  /\ current = [t \in Threads |-> 0] /\ fit = [t \in Threads |-> {}]
  /\ failed = FALSE /\ live = {} /\ calls = 0

After(a) == {c \in DOMAIN chunks : c > a}
NextChunk(a) == IF After(a) = {} THEN NoAddr ELSE Min(After(a))

\* ((allocSize + 4095) / 4096) * 4096
Rounded(n) == ((n + PageSize - 1) \div PageSize) * PageSize

Fits(c, n) == chunks[c].free /\ Rounded(n) <= chunks[c].size

\* The locals of t end with its call.
Return(t) ==
  /\ mpc' = [mpc EXCEPT ![t] = "out"]
  /\ arg' = [arg EXCEPT ![t] = 0]
  /\ current' = [current EXCEPT ![t] = 0]

-------------------------------------------------------------------------------
(* allocate.                                                               *)

AllocEnter(t, n) ==
  /\ mpc[t] = "out" /\ calls < MaxCalls
  /\ mpc' = [mpc EXCEPT ![t] = "enter"]
  /\ arg' = [arg EXCEPT ![t] = n]
  /\ fit' = [fit EXCEPT ![t] =
       {c \in DOMAIN chunks : chunks[c].free /\ n <= chunks[c].size}]
  /\ UNCHANGED <<chunks, mem, mutex, current, failed, live, calls>>

AllocLockless(t) ==
  /\ mpc[t] = "enter"
  /\ mutex' = t
  /\ mpc' = [mpc EXCEPT ![t] = "alloc"]
  /\ current' = [current EXCEPT ![t] = 0]
  /\ UNCHANGED <<chunks, mem, arg, fit, failed, live, calls>>

AllocLock(t) ==
  /\ mpc[t] = "enter" /\ mutex = "nobody"
  /\ mutex' = t
  /\ mpc' = [mpc EXCEPT ![t] = "alloc"]
  /\ current' = [current EXCEPT ![t] = 0]
  /\ UNCHANGED <<chunks, mem, arg, fit, failed, live, calls>>

AllocFit(t) ==
  /\ mpc[t] = "alloc" /\ current[t] # NoAddr /\ Fits(current[t], arg[t])
  /\ mpc' = [mpc EXCEPT ![t] = "take"]
  /\ UNCHANGED <<chunks, mem, mutex, arg, current, fit, failed, live, calls>>

\* The compare-and-swap of the flag.  Only free changes a flag while the
\* mutex is held, and it sets it, so the swap does not fail.
AllocTake(t) ==
  LET c == current[t] IN
  /\ mpc[t] = "take" /\ chunks[c].free
  /\ chunks' = [chunks EXCEPT ![c].free = FALSE]
  /\ fit' = [s \in Threads |-> IF s = t THEN {} ELSE fit[s] \ {c}]
  /\ mpc' = [mpc EXCEPT ![t] = "split"]
  /\ UNCHANGED <<mem, mutex, arg, current, failed, live, calls>>

\* The chunk cut to n, and the rest as a free chunk behind it.
Split(c, n) ==
  IF chunks[c].size = n THEN chunks
  ELSE [a \in DOMAIN chunks \cup {c + n} |->
          IF a = c + n THEN [size |-> chunks[c].size - n, free |-> TRUE]
          ELSE IF a = c THEN [chunks[c] EXCEPT !.size = n] ELSE chunks[a]]

AllocSplit(t) ==
  LET c == current[t] IN
  /\ mpc[t] = "split"
  /\ chunks' = Split(c, Rounded(arg[t]))
  /\ live' = live \cup
       {[addr |-> c, len |-> arg[t], owner |-> calls + 1, written |-> FALSE]}
  /\ calls' = calls + 1
  /\ mutex' = "nobody"
  /\ Return(t)
  /\ UNCHANGED <<mem, fit, failed>>

AllocPass(t) ==
  /\ mpc[t] = "alloc" /\ current[t] # NoAddr /\ ~Fits(current[t], arg[t])
  /\ current' = [current EXCEPT ![t] = NextChunk(current[t])]
  /\ UNCHANGED <<chunks, mem, mutex, mpc, arg, fit, failed, live, calls>>

AllocFail(t) ==
  /\ mpc[t] = "alloc" /\ current[t] = NoAddr
  /\ failed' = (failed \/ fit[t] # {})
  /\ fit' = [fit EXCEPT ![t] = {}]
  /\ mutex' = "nobody"
  /\ Return(t)
  /\ UNCHANGED <<chunks, mem, live, calls>>

-------------------------------------------------------------------------------
(* free, and the application's use of its memory.                          *)

FreeEnter(t, a) ==
  /\ mpc[t] = "out" /\ a \in live
  /\ live' = live \ {a}
  /\ mpc' = [mpc EXCEPT ![t] = "free"]
  /\ arg' = [arg EXCEPT ![t] = a.addr]
  /\ current' = [current EXCEPT ![t] = 0]
  /\ UNCHANGED <<chunks, mem, mutex, fit, failed, calls>>

\* Chunks are cleared before they become free.
Wiped(c) == [u \in Units |->
  IF u \in c .. (c + chunks[c].size - 1) THEN 0 ELSE mem[u]]

FreeVisit(t) ==
  LET c == current[t] IN
  /\ mpc[t] = "free" /\ c # NoAddr
  /\ IF c = arg[t]
     THEN /\ mem' = Wiped(c)
          /\ mpc' = [mpc EXCEPT ![t] = "release"]
          /\ UNCHANGED current
     ELSE /\ current' = [current EXCEPT ![t] = NextChunk(c)]
          /\ UNCHANGED <<mem, mpc>>
  /\ UNCHANGED <<chunks, mutex, arg, fit, failed, live, calls>>

FreeRelease(t) ==
  LET c == current[t] IN
  /\ mpc[t] = "release"
  /\ chunks' = [chunks EXCEPT ![c].free = TRUE]
  /\ mpc' = [mpc EXCEPT ![t] = "free"]
  /\ current' = [current EXCEPT ![t] = NextChunk(c)]
  /\ UNCHANGED <<mem, mutex, arg, fit, failed, live, calls>>

FreeEnd(t) ==
  /\ mpc[t] = "free" /\ current[t] = NoAddr
  /\ Return(t)
  /\ UNCHANGED <<chunks, mem, mutex, fit, failed, live, calls>>

Write(a) ==
  /\ a \in live /\ ~a.written
  /\ mem' = [u \in Units |->
       IF u \in a.addr .. (a.addr + a.len - 1) THEN a.owner ELSE mem[u]]
  /\ live' = (live \ {a}) \cup {[a EXCEPT !.written = TRUE]}
  /\ UNCHANGED <<chunks, mutex, mpc, arg, current, fit, failed, calls>>

ThreadStep(t) ==
  \/ \E n \in Sizes : AllocEnter(t, n)
  \/ AllocLock(t) \/ AllocPass(t) \/ AllocFit(t) \/ AllocTake(t)
  \/ AllocSplit(t) \/ AllocFail(t)
  \/ \E a \in live : FreeEnter(t, a)
  \/ FreeVisit(t) \/ FreeRelease(t) \/ FreeEnd(t)

MemNext == (\E t \in Threads : ThreadStep(t)) \/ \E a \in live : Write(a)

-------------------------------------------------------------------------------
(* Properties.                                                             *)

Allocation == [addr : Units, len : Sizes, owner : Nat, written : BOOLEAN]

MemTypeOK ==
  /\ DOMAIN chunks \subseteq Units
  /\ \A c \in DOMAIN chunks :
       chunks[c] \in [size : 1..Size, free : BOOLEAN] /\ c + chunks[c].size <= Size
  /\ mem \in [Units -> Nat]
  /\ mutex \in Threads \cup {"nobody"}
  /\ mpc \in [Threads -> States]
  /\ arg \in [Threads -> Sizes \cup Units] /\ current \in [Threads -> 0..Size]
  /\ live \subseteq Allocation

\* The memory of an allocation is its owner's from allocate to free: it is
\* handed out cleared, and neither another allocation nor a free that still
\* walks the list without the mutex touches what was written there.
LiveKept ==
  \A a \in live :
    \A u \in a.addr .. (a.addr + a.len - 1) :
      mem[u] = IF a.written THEN a.owner ELSE 0

\* The chunks cover the region without gap or overlap, and each one taken is
\* an allocation or has a free on its way: none is lost, however splits and
\* frees interleave.
NoChunkLost ==
  \A c \in DOMAIN chunks :
    /\ c + chunks[c].size = NextChunk(c)
    /\ \/ chunks[c].free
       \/ \E a \in live : a.addr = c
       \/ \E t \in Threads :
            \/ mpc[t] \in {"free", "release"} /\ arg[t] = c /\ current[t] <= c
            \/ mpc[t] = "split" /\ current[t] = c

\* allocate returns nullptr only when no chunk was free and large enough all
\* the time from the call to the return.
NoFalseFailure == ~failed

\* The allocator keeps its promise to every thread: all three.
ChunksKept == LiveKept /\ NoChunkLost /\ NoFalseFailure
===============================================================================
