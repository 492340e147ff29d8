---------------------------- MODULE XdmaHostProofs ----------------------------
(***************************************************************************)
(* Proofs about the processes that use the FPGA's memory, for any number   *)
(* of threads and huge pages and every size of region, page and request:   *)
(* the allocator keeps its promise although free does not take the mutex,  *)
(* the FPGA's TLB translates what the driver has pinned, and probe leaves  *)
(* no more behind than is known.                                           *)
(***************************************************************************)
EXTENDS XdmaHost, FiniteSetTheorems, TLAPS

-------------------------------------------------------------------------------
(* The allocator: the inductive invariant.                                 *)

MemTypes ==
  /\ DOMAIN chunks \subseteq Units /\ 0 \in DOMAIN chunks
  /\ chunks \in [DOMAIN chunks -> [size : Nat \ {0}, free : BOOLEAN]]
  /\ mem \in [Units -> Nat]
  /\ mpc \in [Threads -> States] /\ arg \in [Threads -> Nat]
  /\ current \in [Threads -> 0..Size]
  /\ fit \in [Threads -> SUBSET Units]
  /\ live \subseteq [addr : Nat, len : Sizes, owner : Nat, written : BOOLEAN] /\ calls \in Nat

Multiple(n) == \E q \in Nat : n = q * PageSize
Limit(c) == c + chunks[c].size
Extent(c) == c .. (Limit(c) - 1)
Bytes(a) == a.addr .. (a.addr + a.len - 1)

\* The chunks cover the region, each a number of pages.
TileInv ==
  \A c \in DOMAIN chunks :
    /\ Multiple(chunks[c].size)
    /\ Limit(c) \in DOMAIN chunks \cup {Size}
    /\ \A d \in DOMAIN chunks : c < d => Limit(c) <= d

\* Who answers for a chunk that is taken, besides the application.
Frees(t, c) == mpc[t] \in {"free", "release"} /\ arg[t] = c /\ current[t] <= c
Splits(t, c) == mpc[t] = "split" /\ current[t] = c
Releases(t, c) == mpc[t] = "release" /\ arg[t] = c
InUse(c) == \E a \in live : a.addr = c

\* A chunk is free or somebody's, and only one's.
OwnInv ==
  /\ \A a \in live :
       /\ a.addr \in DOMAIN chunks /\ ~chunks[a.addr].free
       /\ a.len <= chunks[a.addr].size
       /\ \A b \in live : a.addr = b.addr => a = b
  /\ \A t \in Threads : \A c \in Nat :
       Frees(t, c) \/ Splits(t, c) =>
         /\ c \in DOMAIN chunks /\ ~chunks[c].free /\ ~InUse(c)
         /\ \A u \in Threads \ {t} : ~Frees(u, c) /\ ~Splits(u, c)
  /\ \A c \in DOMAIN chunks :
       \/ chunks[c].free \/ InUse(c)
       \/ \E t \in Threads : Frees(t, c) \/ Splits(t, c)

\* Where the threads are in the list.
PlaceOf(t) ==
  /\ mpc[t] \in {"alloc", "take", "split"} => mutex = t
  /\ mpc[t] \in {"alloc", "free"} => current[t] \in DOMAIN chunks \cup {Size}
  /\ mpc[t] \in {"take", "split"} =>
       current[t] \in DOMAIN chunks /\ Rounded(arg[t]) <= chunks[current[t]].size
  /\ mpc[t] = "release" => current[t] = arg[t]
  /\ mpc[t] \in {"enter", "alloc", "take", "split"} => arg[t] \in Sizes
PlaceInv == \A t \in Threads : PlaceOf(t)

\* What is free, or about to be or no longer, is cleared; and LiveKept.
Idle(c) == chunks[c].free \/ \E t \in Threads : Splits(t, c) \/ Releases(t, c)
Contents(a) == IF a.written THEN a.owner ELSE 0
ClearInv ==
  /\ \A c \in DOMAIN chunks : Idle(c) => \A u \in Extent(c) : mem[u] = 0
  /\ \A a \in live : \A u \in Bytes(a) : mem[u] = Contents(a)

\* allocate has yet to come to the chunks that have fitted since its call.
FitOf(t) ==
  \A c \in fit[t] :
    /\ mpc[t] \in {"enter", "alloc", "take"}
    /\ c \in DOMAIN chunks /\ chunks[c].free /\ arg[t] <= chunks[c].size
    /\ mpc[t] # "enter" => current[t] <= c
FitInv == ~failed /\ \A t \in Threads : FitOf(t)

MemInv == MemTypes /\ TileInv /\ OwnInv /\ PlaceInv /\ ClearInv /\ FitInv

-------------------------------------------------------------------------------
(* Sizes.                                                                  *)

LEMMA Constants ==
  /\ PageSize \in Nat \ {0} /\ Size \in Nat \ {0} /\ Sizes \subseteq Nat \ {0}
  /\ "nobody" \notin Threads
  BY MemoryAssumption

LEMMA Times ==
  ASSUME NEW a \in Nat, NEW b \in Nat, NEW m \in Nat, a <= b
  PROVE  a * m <= b * m
<1>1. PICK d \in Nat : b = a + d
  <2>1. b - a \in Nat /\ b = a + (b - a)
    OBVIOUS
  <2>. QED BY <2>1
<1>2. (a + d) * m = a * m + d * m /\ d * m \in Nat /\ a * m \in Nat
  OBVIOUS
<1>. QED BY <1>1, <1>2

\* A request is rounded up to the next number of pages.
LEMMA Rounding ==
  ASSUME NEW n \in Nat \ {0}
  PROVE  /\ Rounded(n) \in Nat \ {0} /\ n <= Rounded(n) /\ Multiple(Rounded(n))
         /\ \A s \in Nat : Multiple(s) /\ n <= s => Rounded(n) <= s
<1>0. PICK p \in Nat \ {0} : p = PageSize
  BY Constants
<1>1. PICK m \in Nat : m = (n + p - 1) \div p
  BY <1>0
<1>2. m * p <= n + p - 1 /\ n + p - 1 < m * p + p /\ m * p \in Nat
  BY <1>0, <1>1
<1>3. Rounded(n) = m * p
  BY <1>0, <1>1 DEF Rounded
<1>4. ASSUME NEW q \in Nat, n <= q * p
      PROVE  m * p <= q * p
  <2>1. CASE m <= q
    BY <2>1, Times
  <2>2. CASE q + 1 <= m
    <3>1. (q + 1) * p <= m * p
      BY <2>2, Times
    <3>2. (q + 1) * p = q * p + p /\ q * p \in Nat
      OBVIOUS
    <3>. QED BY <1>2, <1>4, <3>1, <3>2
  <2>. QED BY <2>1, <2>2
<1>5. ASSUME NEW s \in Nat, Multiple(s), n <= s
      PROVE  Rounded(n) <= s
  <2>1. PICK q \in Nat : s = q * p
    BY <1>0, <1>5 DEF Multiple
  <2>. QED BY <1>3, <1>4, <1>5, <2>1
<1>6. Multiple(Rounded(n))
  BY <1>0, <1>3 DEF Multiple
<1>. QED BY <1>2, <1>3, <1>5, <1>6

LEMMA Remainder ==
  ASSUME NEW a \in Nat, NEW b \in Nat, Multiple(a), Multiple(b), b <= a
  PROVE  Multiple(a - b)
<1>0. PICK p \in Nat \ {0} : p = PageSize
  BY Constants
<1>1. PICK i \in Nat, j \in Nat : a = i * p /\ b = j * p
  BY <1>0 DEF Multiple
<1>2. CASE j <= i
  <2>1. i - j \in Nat /\ (i - j) * p = i * p - j * p
    BY <1>2
  <2>. QED BY <1>0, <1>1, <2>1 DEF Multiple
<1>3. CASE i < j
  <2>1. (i + 1) * p <= j * p /\ (i + 1) * p = i * p + p
    BY <1>3, Times
  <2>2. FALSE
    BY <1>1, <2>1
  <2>. QED BY <2>2
<1>. QED BY <1>2, <1>3

-------------------------------------------------------------------------------
(* The list.                                                               *)

LEMMA NextIs ==
  ASSUME MemTypes, TileInv, NEW c \in DOMAIN chunks
  PROVE  NextChunk(c) = Limit(c) /\ Limit(c) \in Nat /\ Limit(c) <= Size /\ c < Limit(c) /\ c \in Nat
<1>1. c \in Nat /\ chunks[c].size \in Nat \ {0} /\ DOMAIN chunks \subseteq Nat
  BY DEF MemTypes, Units
<1>2. PICK e \in Nat : e = Limit(c)
  BY <1>1 DEF Limit
<1>3. c < e /\ \A d \in DOMAIN chunks : c < d => e <= d
  BY <1>1, <1>2 DEF TileInv, Limit
<1>4. CASE e \in DOMAIN chunks
  <2>1. e \in After(c) /\ \A d \in After(c) : e <= d /\ d \in Nat
    BY <1>1, <1>3, <1>4 DEF After
  <2>2. Min(After(c)) = e
    <3>1. \E d \in After(c) : \A f \in After(c) : d <= f
      BY <2>1
    <3>2. Min(After(c)) \in After(c) /\ \A f \in After(c) : Min(After(c)) <= f
      BY <3>1, Zenon DEF Min
    <3>3. PICK m \in Nat : m = Min(After(c))
      BY <2>1, <3>2
    <3>4. m <= e /\ e <= m
      BY <2>1, <3>2, <3>3
    <3>. QED BY <1>2, <3>3, <3>4
  <2>. QED BY <1>1, <1>2, <1>3, <1>4, <2>1, <2>2, Constants DEF NextChunk, MemTypes, Units
<1>5. CASE e = Size
  <2>1. After(c) = {}
    BY <1>1, <1>3, <1>5, Constants DEF After, MemTypes, Units
  <2>. QED BY <1>1, <1>2, <1>3, <1>5, <2>1, Constants DEF NextChunk, NoAddr
<1>. QED BY <1>2, <1>4, <1>5 DEF TileInv

LEMMA Apart ==
  ASSUME MemTypes, TileInv, NEW c \in DOMAIN chunks, NEW d \in DOMAIN chunks, c # d
  PROVE  Extent(c) \cap Extent(d) = {}
<1>1. c \in Nat /\ d \in Nat /\ Limit(c) \in Nat /\ Limit(d) \in Nat
  BY NextIs
<1>2. Limit(c) <= d \/ Limit(d) <= c
  BY <1>1 DEF TileInv
<1>. QED BY <1>1, <1>2 DEF Extent

\* An allocation lies in its chunk.
LEMMA InChunk ==
  ASSUME MemTypes, TileInv, OwnInv, NEW a \in live
  PROVE  /\ Bytes(a) \subseteq Extent(a.addr) /\ a.addr \in DOMAIN chunks
         /\ a.addr \in Nat /\ a.len \in Nat
<1>1. a.addr \in DOMAIN chunks /\ a.len <= chunks[a.addr].size /\ a.len \in Nat
  BY Constants DEF MemTypes, OwnInv
<1>2. a.addr \in Nat /\ chunks[a.addr].size \in Nat
  BY <1>1 DEF MemTypes, Units
<1>. QED BY <1>1, <1>2 DEF Bytes, Extent, Limit

-------------------------------------------------------------------------------
(* Steps of a thread that change neither the list nor the memory.          *)

OthersStay(t) ==
  \A u \in Threads \ {t} :
    mpc'[u] = mpc[u] /\ arg'[u] = arg[u] /\ current'[u] = current[u]

\* It answers for the same chunks.
Keeps(t, c) ==
  /\ Frees(t, c)' <=> Frees(t, c)
  /\ Splits(t, c)' <=> Splits(t, c)
  /\ Releases(t, c)' <=> Releases(t, c)

Walks(t) ==
  UNCHANGED <<chunks, mem, live>> /\ OthersStay(t) /\ \A c \in Nat : Keeps(t, c)

LEMMA OthersKeep ==
  ASSUME NEW t \in Threads, OthersStay(t)
  PROVE  \A u \in Threads \ {t} : \A c : Keeps(u, c)
  BY DEF OthersStay, Keeps, Frees, Splits, Releases

LEMMA WalkStep ==
  ASSUME MemInv, MemTypes', NEW t \in Threads, Walks(t)
  PROVE  TileInv' /\ OwnInv' /\ ClearInv'
<1>1. /\ UNCHANGED <<chunks, mem, live>>
      /\ \A u \in Threads : \A c \in Nat :
           (Frees(u, c)' <=> Frees(u, c)) /\ (Splits(u, c)' <=> Splits(u, c))
             /\ (Releases(u, c)' <=> Releases(u, c))
  BY OthersKeep DEF Walks, Keeps
<1>2. TileInv'
  BY <1>1 DEF MemInv, TileInv, Limit
<1>3. \A c : InUse(c)' <=> InUse(c)
  BY <1>1 DEF InUse
<1>4. DOMAIN chunks \subseteq Nat
  BY DEF MemInv, MemTypes, Units
<1>5. OwnInv'
  BY <1>1, <1>3, <1>4 DEF MemInv, OwnInv
<1>6. \A c \in DOMAIN chunks : Idle(c)' => Idle(c)
  BY <1>1, <1>4 DEF Idle
<1>7. ClearInv'
  BY <1>1, <1>6 DEF MemInv, ClearInv, Extent, Limit, Bytes, Contents
<1>. QED BY <1>2, <1>5, <1>7

\* What the other threads know of the list stays true.
LEMMA OthersPlace ==
  ASSUME MemInv, NEW t \in Threads, OthersStay(t), UNCHANGED chunks,
         \A u \in Threads \ {t} : mutex = u => mutex' = u
  PROVE  \A u \in Threads \ {t} : PlaceOf(u)'
  BY DEF MemInv, PlaceInv, PlaceOf, OthersStay

LEMMA OthersFit ==
  ASSUME MemInv, NEW t \in Threads, OthersStay(t), UNCHANGED chunks,
         \A u \in Threads \ {t} : fit'[u] = fit[u]
  PROVE  \A u \in Threads \ {t} : FitOf(u)'
  BY DEF MemInv, FitInv, FitOf, OthersStay

LEMMA AllocEnterStep ==
  ASSUME MemInv, NEW t \in Threads, NEW n \in Sizes, AllocEnter(t, n)
  PROVE  MemInv'
<1>. n \in Nat
  BY Constants
<1>1. MemTypes' /\ mpc'[t] = "enter" /\ arg'[t] = n
  BY DEF AllocEnter, MemInv, MemTypes, States
<1>2. OthersStay(t) /\ UNCHANGED <<chunks, mem, live>>
  BY DEF AllocEnter, OthersStay, MemInv, MemTypes
<1>3. Walks(t)
  BY <1>1, <1>2 DEF Walks, Keeps, Frees, Splits, Releases, AllocEnter
<1>4. PlaceOf(t)'
  BY <1>1 DEF PlaceOf
<1>5. FitOf(t)'
  BY <1>1 DEF FitOf, AllocEnter, MemInv, MemTypes
<1>6. /\ \A u \in Threads \ {t} : mutex = u => mutex' = u
      /\ \A u \in Threads \ {t} : fit'[u] = fit[u]
      /\ failed' = failed
  BY DEF AllocEnter, MemInv, MemTypes
<1>7. PlaceInv' /\ FitInv'
  BY <1>2, <1>4, <1>5, <1>6, OthersPlace, OthersFit DEF PlaceInv, FitInv, MemInv
<1>. QED BY <1>1, <1>3, <1>7, WalkStep DEF MemInv

LEMMA AllocLockStep ==
  ASSUME MemInv, NEW t \in Threads, AllocLock(t)
  PROVE  MemInv'
<1>1. MemTypes' /\ mpc[t] = "enter" /\ mpc'[t] = "alloc" /\ current'[t] = 0
  BY Constants DEF AllocLock, MemInv, MemTypes, States
<1>2. OthersStay(t) /\ UNCHANGED <<chunks, mem, live, arg, fit>>
  BY DEF AllocLock, OthersStay, MemInv, MemTypes
<1>3. Walks(t)
  BY <1>1, <1>2 DEF Walks, Keeps, Frees, Splits, Releases
<1>4. PlaceOf(t)'
  BY <1>1, <1>2 DEF PlaceOf, AllocLock, MemInv, MemTypes, PlaceInv
<1>5. FitOf(t)'
  BY <1>1, <1>2 DEF FitOf, MemInv, FitInv, MemTypes, Units
<1>6. /\ \A u \in Threads \ {t} : mutex = u => mutex' = u
      /\ failed' = failed
  BY Constants DEF AllocLock
<1>7. PlaceInv' /\ FitInv'
  BY <1>2, <1>4, <1>5, <1>6, OthersPlace, OthersFit DEF PlaceInv, FitInv, MemInv
<1>. QED BY <1>1, <1>3, <1>7, WalkStep DEF MemInv

LEMMA AllocFitStep ==
  ASSUME MemInv, NEW t \in Threads, AllocFit(t)
  PROVE  MemInv'
<1>1. MemTypes' /\ mpc[t] = "alloc" /\ mpc'[t] = "take"
  BY DEF AllocFit, MemInv, MemTypes, States
<1>2. OthersStay(t) /\ UNCHANGED <<chunks, mem, live, arg, fit, current, mutex, failed>>
  BY DEF AllocFit, OthersStay, MemInv, MemTypes
<1>3. Walks(t)
  BY <1>1, <1>2 DEF Walks, Keeps, Frees, Splits, Releases
<1>4. PlaceOf(t)'
  BY <1>1, <1>2 DEF PlaceOf, AllocFit, Fits, NoAddr, MemInv, PlaceInv, Rounded
<1>5. FitOf(t)'
  BY <1>1, <1>2 DEF FitOf, MemInv, FitInv
<1>7. PlaceInv' /\ FitInv'
  BY <1>2, <1>4, <1>5, OthersPlace, OthersFit DEF PlaceInv, FitInv, MemInv
<1>. QED BY <1>1, <1>3, <1>7, WalkStep DEF MemInv

LEMMA AllocPassStep ==
  ASSUME MemInv, NEW t \in Threads, AllocPass(t)
  PROVE  MemInv'
<1>1. /\ mpc[t] = "alloc" /\ current[t] \in DOMAIN chunks /\ arg[t] \in Sizes
      /\ current' = [current EXCEPT ![t] = NextChunk(current[t])]
      /\ UNCHANGED <<chunks, mem, live, arg, fit, mpc, mutex, failed, calls>>
  BY DEF AllocPass, NoAddr, MemInv, PlaceInv, PlaceOf
<1>2. PICK c \in DOMAIN chunks : c = current[t]
  BY <1>1
<1>3. NextChunk(c) = Limit(c) /\ Limit(c) \in Nat /\ Limit(c) <= Size /\ c < Limit(c) /\ c \in Nat
  BY NextIs DEF MemInv
<1>4. MemTypes' /\ current'[t] = Limit(c)
  BY <1>1, <1>2, <1>3, Constants DEF MemInv, MemTypes
<1>5. OthersStay(t)
  BY <1>1 DEF OthersStay, MemInv, MemTypes
<1>6. Walks(t)
  BY <1>1, <1>5 DEF Walks, Keeps, Frees, Splits, Releases
<1>7. PlaceOf(t)'
  BY <1>1, <1>3, <1>4 DEF PlaceOf, MemInv, PlaceInv, TileInv
<1>8. FitOf(t)'
  <2>. SUFFICES ASSUME NEW d \in fit[t] PROVE Limit(c) <= d
    BY <1>1, <1>4 DEF FitOf, MemInv, FitInv
  <2>1. d \in DOMAIN chunks /\ chunks[d].free /\ arg[t] <= chunks[d].size /\ c <= d
    BY <1>1, <1>2 DEF MemInv, FitInv, FitOf
  <2>2. chunks[d].size \in Nat /\ Multiple(chunks[d].size) /\ d \in Nat
    BY <2>1 DEF MemInv, MemTypes, TileInv, Units
  <2>3. Fits(d, arg[t])
    BY <1>1, <2>1, <2>2, Rounding, Constants DEF Fits
  <2>4. d # c
    BY <1>2, <2>3 DEF AllocPass
  <2>. QED BY <1>3, <2>1, <2>2, <2>4 DEF MemInv, TileInv
<1>9. PlaceInv' /\ FitInv'
  BY <1>1, <1>5, <1>7, <1>8, OthersPlace, OthersFit DEF PlaceInv, FitInv, MemInv
<1>. QED BY <1>4, <1>6, <1>9, WalkStep DEF MemInv

LEMMA AllocFailStep ==
  ASSUME MemInv, NEW t \in Threads, AllocFail(t)
  PROVE  MemInv'
<1>1. /\ mpc[t] = "alloc" /\ current[t] = Size /\ mutex = t /\ mutex' = "nobody"
      /\ UNCHANGED <<chunks, mem, live>>
  BY DEF AllocFail, NoAddr, MemInv, PlaceInv, PlaceOf
<1>2. MemTypes' /\ mpc'[t] = "out" /\ fit'[t] = {}
  BY <1>1, Constants DEF AllocFail, Return, MemInv, MemTypes, States
<1>3. OthersStay(t) /\ \A u \in Threads \ {t} : fit'[u] = fit[u]
  BY DEF AllocFail, Return, OthersStay, MemInv, MemTypes
<1>4. fit[t] = {}
  <2>. SUFFICES ASSUME NEW c \in fit[t] PROVE FALSE
    OBVIOUS
  <2>1. c \in Units /\ Size <= c
    BY <1>1 DEF MemInv, FitInv, FitOf, MemTypes
  <2>. QED BY <2>1, Constants DEF Units
<1>5. ~failed'
  BY <1>4 DEF AllocFail, MemInv, FitInv
<1>6. Walks(t)
  BY <1>1, <1>2, <1>3 DEF Walks, Keeps, Frees, Splits, Releases
<1>7. PlaceOf(t)' /\ FitOf(t)'
  BY <1>2 DEF PlaceOf, FitOf
<1>8. \A u \in Threads \ {t} : mutex = u => mutex' = u
  BY <1>1
<1>9. PlaceInv' /\ FitInv'
  BY <1>1, <1>3, <1>5, <1>7, <1>8, OthersPlace, OthersFit DEF PlaceInv, FitInv
<1>. QED BY <1>2, <1>6, <1>9, WalkStep DEF MemInv

LEMMA FreeEndStep ==
  ASSUME MemInv, NEW t \in Threads, FreeEnd(t)
  PROVE  MemInv'
<1>1. /\ mpc[t] = "free" /\ current[t] = Size
      /\ UNCHANGED <<chunks, mem, live, mutex, fit, failed>>
  BY DEF FreeEnd, NoAddr
<1>2. MemTypes' /\ mpc'[t] = "out"
  BY <1>1, Constants DEF FreeEnd, Return, MemInv, MemTypes, States
<1>3. OthersStay(t)
  BY DEF FreeEnd, Return, OthersStay, MemInv, MemTypes
<1>4. \A c \in Nat : ~Frees(t, c)
  BY <1>1, Constants DEF Frees, MemInv, OwnInv, MemTypes, Units
<1>6. Walks(t)
  BY <1>1, <1>2, <1>3, <1>4 DEF Walks, Keeps, Frees, Splits, Releases
<1>7. PlaceOf(t)' /\ FitOf(t)'
  BY <1>1, <1>2 DEF PlaceOf, FitOf, MemInv, FitInv
<1>9. PlaceInv' /\ FitInv'
  BY <1>1, <1>3, <1>7, OthersPlace, OthersFit DEF PlaceInv, FitInv, MemInv
<1>. QED BY <1>2, <1>6, <1>9, WalkStep DEF MemInv

-------------------------------------------------------------------------------
(* Steps that change the list, the memory or the allocations.              *)

LEMMA FreeEnterStep ==
  ASSUME MemInv, NEW t \in Threads, NEW a \in live, FreeEnter(t, a)
  PROVE  MemInv'
<1>1. /\ a.addr \in DOMAIN chunks /\ a.addr \in Nat /\ ~chunks[a.addr].free
      /\ live' = live \ {a} /\ UNCHANGED <<chunks, mem, mutex, fit, failed, calls>>
      /\ mpc[t] = "out"
  BY InChunk DEF FreeEnter, MemInv, OwnInv
<1>2. MemTypes' /\ mpc'[t] = "free" /\ arg'[t] = a.addr /\ current'[t] = 0
  BY <1>1, Constants DEF FreeEnter, MemInv, MemTypes, States
<1>3. OthersStay(t)
  BY DEF FreeEnter, OthersStay, MemInv, MemTypes
<1>4. DOMAIN chunks \subseteq Nat
  BY DEF MemInv, MemTypes, Units
<1>5. /\ \A u \in Threads \ {t} : \A c \in Nat :
           (Frees(u, c)' <=> Frees(u, c)) /\ (Splits(u, c)' <=> Splits(u, c))
             /\ (Releases(u, c)' <=> Releases(u, c))
      /\ \A c \in Nat : ~Splits(t, c)' /\ ~Releases(t, c)' /\ (Frees(t, c)' <=> c = a.addr)
      /\ \A c \in Nat : ~Splits(t, c) /\ ~Releases(t, c) /\ ~Frees(t, c)
  <2>1. \A u \in Threads \ {t} : \A c \in Nat : Keeps(u, c)
    BY <1>3, OthersKeep
  <2>2. /\ \A c \in Nat : ~Splits(t, c)' /\ ~Releases(t, c)' /\ (Frees(t, c)' <=> c = a.addr)
        /\ \A c \in Nat : ~Splits(t, c) /\ ~Releases(t, c) /\ ~Frees(t, c)
    BY <1>1, <1>2 DEF Frees, Splits, Releases
  <2>. QED BY <2>1, <2>2 DEF Keeps
<1>6. InUse(a.addr) /\ ~InUse(a.addr)' /\ \A c : c # a.addr => (InUse(c)' <=> InUse(c))
  BY <1>1 DEF InUse, MemInv, OwnInv
<1>7. TileInv'
  BY <1>1 DEF MemInv, TileInv, Limit
<1>8. OwnInv'
  <2>1. \A b \in live' :
          /\ b.addr \in DOMAIN chunks /\ ~chunks[b.addr].free /\ b.len <= chunks[b.addr].size
          /\ \A d \in live' : b.addr = d.addr => b = d
    BY <1>1 DEF MemInv, OwnInv
  <2>2. ASSUME NEW u \in Threads, NEW c \in Nat, Frees(u, c)' \/ Splits(u, c)'
        PROVE  /\ c \in DOMAIN chunks /\ ~chunks[c].free /\ ~InUse(c)'
               /\ \A v \in Threads \ {u} : ~Frees(v, c)' /\ ~Splits(v, c)'
    <3>1. \A v \in Threads : ~Frees(v, a.addr) /\ ~Splits(v, a.addr)
      BY <1>1, <1>6 DEF MemInv, OwnInv
    <3>2. CASE u = t
      BY <1>1, <1>5, <1>6, <2>2, <3>1, <3>2
    <3>3. CASE u # t
      <4>1. Frees(u, c) \/ Splits(u, c)
        BY <1>5, <2>2, <3>3
      <4>2. c # a.addr
        BY <3>1, <4>1
      <4>3. /\ c \in DOMAIN chunks /\ ~chunks[c].free /\ ~InUse(c)
            /\ \A v \in Threads \ {u} : ~Frees(v, c) /\ ~Splits(v, c)
        BY <4>1 DEF MemInv, OwnInv
      <4>. QED BY <1>5, <1>6, <4>2, <4>3
    <3>. QED BY <3>2, <3>3
  <2>3. ASSUME NEW c \in DOMAIN chunks
        PROVE  chunks[c].free \/ InUse(c)' \/ \E u \in Threads : Frees(u, c)' \/ Splits(u, c)'
    <3>1. chunks[c].free \/ InUse(c) \/ \E u \in Threads : Frees(u, c) \/ Splits(u, c)
      BY DEF MemInv, OwnInv
    <3>2. CASE c = a.addr
      BY <1>1, <1>5, <3>2
    <3>3. CASE c # a.addr
      BY <1>4, <1>5, <1>6, <3>1, <3>3
    <3>. QED BY <3>2, <3>3
  <2>. QED BY <1>1, <2>1, <2>2, <2>3 DEF OwnInv
<1>9. ClearInv'
  <2>1. \A c \in DOMAIN chunks : Idle(c)' => Idle(c)
    BY <1>1, <1>4, <1>5 DEF Idle
  <2>. QED BY <1>1, <2>1 DEF MemInv, ClearInv, Extent, Limit, Bytes, Contents
<1>10. PlaceOf(t)' /\ FitOf(t)'
  BY <1>1, <1>2 DEF PlaceOf, FitOf, MemInv, FitInv, MemTypes
<1>11. PlaceInv' /\ FitInv'
  BY <1>1, <1>3, <1>10, OthersPlace, OthersFit DEF PlaceInv, FitInv, MemInv
<1>. QED BY <1>2, <1>7, <1>8, <1>9, <1>11 DEF MemInv

\* Another chunk, on the way to the one to be freed.
LEMMA FreePassStep ==
  ASSUME MemInv, NEW t \in Threads, FreeVisit(t), current[t] # arg[t]
  PROVE  MemInv'
<1>1. /\ mpc[t] = "free" /\ current[t] \in DOMAIN chunks
      /\ current' = [current EXCEPT ![t] = NextChunk(current[t])]
      /\ UNCHANGED <<chunks, mem, live, arg, fit, mpc, mutex, failed, calls>>
  BY DEF FreeVisit, NoAddr, MemInv, PlaceInv, PlaceOf
<1>2. PICK c \in DOMAIN chunks : c = current[t]
  BY <1>1
<1>3. NextChunk(c) = Limit(c) /\ Limit(c) \in Nat /\ Limit(c) <= Size /\ c < Limit(c) /\ c \in Nat
  BY NextIs DEF MemInv
<1>4. MemTypes' /\ current'[t] = Limit(c)
  BY <1>1, <1>2, <1>3, Constants DEF MemInv, MemTypes
<1>5. OthersStay(t)
  BY <1>1 DEF OthersStay, MemInv, MemTypes
<1>6. ASSUME NEW d \in Nat
      PROVE  Frees(t, d)' <=> Frees(t, d)
  <2>1. Frees(t, d)' => Frees(t, d)
    BY <1>1, <1>2, <1>3, <1>4 DEF Frees
  <2>2. ASSUME Frees(t, d)
        PROVE  Frees(t, d)'
    <3>1. d \in DOMAIN chunks /\ arg[t] = d /\ c <= d /\ c # d
      BY <1>2, <2>2 DEF Frees, MemInv, OwnInv
    <3>2. Limit(c) <= d
      BY <1>3, <3>1 DEF MemInv, TileInv
    <3>. QED BY <1>1, <1>4, <3>1, <3>2 DEF Frees
  <2>. QED BY <2>1, <2>2
<1>7. Walks(t)
  BY <1>1, <1>5, <1>6 DEF Walks, Keeps, Splits, Releases
<1>8. PlaceOf(t)' /\ FitOf(t)'
  BY <1>1, <1>3, <1>4 DEF PlaceOf, FitOf, MemInv, TileInv, FitInv
<1>9. PlaceInv' /\ FitInv'
  BY <1>1, <1>5, <1>8, OthersPlace, OthersFit DEF PlaceInv, FitInv, MemInv
<1>. QED BY <1>4, <1>7, <1>9, WalkStep DEF MemInv

\* The chunk to be freed is cleared, and nobody else's.
LEMMA FreeClearStep ==
  ASSUME MemInv, NEW t \in Threads, FreeVisit(t), current[t] = arg[t]
  PROVE  MemInv'
<1>1. /\ mpc[t] = "free" /\ current[t] \in DOMAIN chunks
      /\ mem' = Wiped(current[t]) /\ mpc' = [mpc EXCEPT ![t] = "release"]
      /\ UNCHANGED <<chunks, live, arg, fit, current, mutex, failed, calls>>
  BY DEF FreeVisit, NoAddr, MemInv, PlaceInv, PlaceOf
<1>2. PICK c \in DOMAIN chunks : c = current[t]
  BY <1>1
<1>3. c \in Nat /\ DOMAIN chunks \subseteq Nat
  BY DEF MemInv, MemTypes, Units
<1>4. MemTypes' /\ mpc'[t] = "release"
  BY <1>1 DEF MemInv, MemTypes, States, Wiped
<1>5. OthersStay(t)
  BY <1>1 DEF OthersStay, MemInv, MemTypes
<1>6. /\ \A u \in Threads : \A d \in Nat :
           (Frees(u, d)' <=> Frees(u, d)) /\ (Splits(u, d)' <=> Splits(u, d))
      /\ \A u \in Threads \ {t} : \A d \in Nat : Releases(u, d)' <=> Releases(u, d)
      /\ \A d \in Nat : Releases(t, d)' <=> d = c
      /\ Frees(t, c)
  <2>1. \A u \in Threads \ {t} : \A d \in Nat : Keeps(u, d)
    BY <1>5, OthersKeep
  <2>2. /\ \A d \in Nat : (Frees(t, d)' <=> Frees(t, d)) /\ (Splits(t, d)' <=> Splits(t, d))
        /\ \A d \in Nat : Releases(t, d)' <=> d = c
        /\ Frees(t, c)
    BY <1>1, <1>2, <1>3, <1>4 DEF Frees, Splits, Releases
  <2>. QED BY <2>1, <2>2 DEF Keeps
<1>7. \A d : InUse(d)' <=> InUse(d)
  BY <1>1 DEF InUse
<1>8. TileInv' /\ OwnInv'
  <2>1. TileInv'
    BY <1>1 DEF MemInv, TileInv, Limit
  <2>2. OwnInv'
    BY <1>1, <1>3, <1>6, <1>7 DEF MemInv, OwnInv
  <2>. QED BY <2>1, <2>2
<1>9. ClearInv'
  <2>1. \A d \in DOMAIN chunks : Extent(d) \subseteq Units
    <3>. SUFFICES ASSUME NEW d \in DOMAIN chunks PROVE Extent(d) \subseteq Units
      OBVIOUS
    <3>1. d \in Nat /\ Limit(d) \in Nat /\ Limit(d) <= Size
      BY NextIs DEF MemInv
    <3>. QED BY <3>1, Constants DEF Extent, Units
  <2>2. \A u \in Units : mem'[u] = IF u \in Extent(c) THEN 0 ELSE mem[u]
    <3>1. chunks[c].size \in Nat
      BY DEF MemInv, MemTypes
    <3>2. Extent(c) = c .. (c + chunks[c].size - 1)
      BY <1>3, <3>1 DEF Extent, Limit
    <3>. QED BY <1>1, <1>2, <3>2 DEF Wiped
  <2>3. ASSUME NEW d \in DOMAIN chunks, Idle(d)', NEW u \in Extent(d)
        PROVE  mem'[u] = 0
    <3>1. d = c \/ Idle(d)
      BY <1>1, <1>3, <1>6, <2>3 DEF Idle
    <3>. QED BY <2>1, <2>2, <2>3, <3>1 DEF MemInv, ClearInv
  <2>4. ASSUME NEW a \in live, NEW u \in Bytes(a)
        PROVE  mem'[u] = Contents(a)
    <3>1. u \in Extent(a.addr) /\ a.addr \in DOMAIN chunks
      BY InChunk DEF MemInv
    <3>2. a.addr # c
      BY <1>3, <1>6 DEF MemInv, OwnInv, InUse
    <3>3. u \notin Extent(c)
      BY <3>1, <3>2, Apart DEF MemInv
    <3>4. mem[u] = Contents(a)
      BY DEF MemInv, ClearInv
    <3>. QED BY <2>1, <2>2, <3>1, <3>3, <3>4
  <2>5. /\ \A d : Extent(d)' = Extent(d)
        /\ \A a : Bytes(a)' = Bytes(a) /\ Contents(a)' = Contents(a)
    BY <1>1 DEF Extent, Limit, Bytes, Contents
  <2>. QED BY <1>1, <2>3, <2>4, <2>5 DEF ClearInv
<1>10. PlaceOf(t)' /\ FitOf(t)'
  BY <1>1, <1>4 DEF PlaceOf, FitOf, MemInv, FitInv
<1>11. PlaceInv' /\ FitInv'
  BY <1>1, <1>5, <1>10, OthersPlace, OthersFit DEF PlaceInv, FitInv, MemInv
<1>. QED BY <1>4, <1>8, <1>9, <1>11 DEF MemInv

LEMMA FreeReleaseStep ==
  ASSUME MemInv, NEW t \in Threads, FreeRelease(t)
  PROVE  MemInv'
<1>1. /\ mpc[t] = "release" /\ current[t] = arg[t]
      /\ UNCHANGED <<mem, live, arg, fit, mutex, failed, calls>>
  BY DEF FreeRelease, MemInv, PlaceInv, PlaceOf
<1>2. PICK c \in Nat : c = current[t]
  BY DEF MemInv, MemTypes
<1>3. Frees(t, c) /\ Releases(t, c)
  BY <1>1, <1>2 DEF Frees, Releases
<1>4. /\ c \in DOMAIN chunks /\ ~chunks[c].free /\ ~InUse(c)
      /\ \A u \in Threads \ {t} : ~Frees(u, c) /\ ~Splits(u, c)
      /\ DOMAIN chunks \subseteq Nat
  BY <1>3 DEF MemInv, OwnInv, MemTypes, Units
<1>5. NextChunk(c) = Limit(c) /\ Limit(c) \in Nat /\ Limit(c) <= Size /\ c < Limit(c)
  BY <1>4, NextIs DEF MemInv
<1>6. /\ mpc' = [mpc EXCEPT ![t] = "free"] /\ current' = [current EXCEPT ![t] = Limit(c)]
      /\ chunks' = [chunks EXCEPT ![c].free = TRUE]
  BY <1>2, <1>5 DEF FreeRelease
<1>7. /\ DOMAIN chunks' = DOMAIN chunks
      /\ \A d \in DOMAIN chunks : chunks'[d].size = chunks[d].size
      /\ \A d \in DOMAIN chunks : chunks'[d].free <=> chunks[d].free \/ d = c
  BY <1>4, <1>6 DEF MemInv, MemTypes
<1>8. MemTypes' /\ mpc'[t] = "free" /\ current'[t] = Limit(c)
  <2>1. chunks' \in [DOMAIN chunks -> [size : Nat \ {0}, free : BOOLEAN]]
    BY <1>4, <1>6 DEF MemInv, MemTypes
  <2>. QED BY <1>1, <1>5, <1>6, <1>7, <2>1, Constants DEF MemInv, MemTypes, States
<1>9. OthersStay(t) /\ \A u \in Threads \ {t} : \A d : Keeps(u, d)
  <2>1. OthersStay(t)
    BY <1>1, <1>6 DEF OthersStay, MemInv, MemTypes
  <2>. QED BY <2>1, OthersKeep
<1>10. \A d \in DOMAIN chunks : ~Frees(t, d)' /\ ~Splits(t, d)' /\ ~Releases(t, d)'
  <2>. SUFFICES ASSUME NEW d \in DOMAIN chunks, Frees(t, d)' PROVE FALSE
    BY <1>8 DEF Splits, Releases
  <2>1. d = c
    BY <1>1, <1>2 DEF Frees
  <2>. QED BY <1>4, <1>5, <1>8, <2>1 DEF Frees
<1>11. \A d \in Nat : ~Frees(t, d)' /\ ~Splits(t, d)' /\ ~Releases(t, d)'
  <2>. SUFFICES ASSUME NEW d \in Nat, Frees(t, d)' PROVE FALSE
    BY <1>8 DEF Splits, Releases
  <2>. QED BY <1>1, <1>2, <1>4, <1>10 DEF Frees
<1>12. \A d \in DOMAIN chunks : Limit(d)' = Limit(d) /\ Extent(d)' = Extent(d)
  BY <1>7 DEF Limit, Extent
<1>13. TileInv'
  BY <1>7, <1>12 DEF MemInv, TileInv
<1>14. \A d : InUse(d)' <=> InUse(d)
  BY <1>1 DEF InUse
<1>15. OwnInv'
  <2>1. \A a \in live : a.addr # c
    BY <1>4 DEF InUse
  <2>2. \A a \in live' :
          /\ a.addr \in DOMAIN chunks' /\ ~chunks'[a.addr].free /\ a.len <= chunks'[a.addr].size
          /\ \A b \in live' : a.addr = b.addr => a = b
    BY <1>1, <1>7, <2>1 DEF MemInv, OwnInv
  <2>3. ASSUME NEW u \in Threads, NEW d \in Nat, Frees(u, d)' \/ Splits(u, d)'
        PROVE  /\ d \in DOMAIN chunks' /\ ~chunks'[d].free /\ ~InUse(d)'
               /\ \A v \in Threads \ {u} : ~Frees(v, d)' /\ ~Splits(v, d)'
    <3>1. u # t
      BY <1>11, <2>3
    <3>2. Frees(u, d) \/ Splits(u, d)
      BY <1>9, <2>3, <3>1 DEF Keeps
    <3>3. d # c
      BY <1>4, <3>1, <3>2
    <3>4. /\ d \in DOMAIN chunks /\ ~chunks[d].free /\ ~InUse(d)
          /\ \A v \in Threads \ {u} : ~Frees(v, d) /\ ~Splits(v, d)
      BY <3>2 DEF MemInv, OwnInv
    <3>. QED BY <1>7, <1>9, <1>11, <1>14, <3>3, <3>4 DEF Keeps
  <2>4. ASSUME NEW d \in DOMAIN chunks'
        PROVE  chunks'[d].free \/ InUse(d)' \/ \E u \in Threads : Frees(u, d)' \/ Splits(u, d)'
    <3>1. d \in DOMAIN chunks /\ d \in Nat
      BY <1>4, <1>7
    <3>2. chunks[d].free \/ InUse(d) \/ \E u \in Threads : Frees(u, d) \/ Splits(u, d)
      BY <3>1 DEF MemInv, OwnInv
    <3>3. Frees(t, d) \/ Splits(t, d) => d = c
      BY <1>1, <1>2 DEF Frees, Splits
    <3>. QED BY <1>7, <1>9, <1>14, <3>1, <3>2, <3>3 DEF Keeps
  <2>. QED BY <2>2, <2>3, <2>4 DEF OwnInv
<1>16. ClearInv'
  <2>1. \A d \in DOMAIN chunks : Idle(d)' => Idle(d)
    <3>. SUFFICES ASSUME NEW d \in DOMAIN chunks, Idle(d)' PROVE Idle(d)
      OBVIOUS
    <3>1. Idle(c)
      BY <1>3 DEF Idle
    <3>. QED BY <1>7, <1>9, <1>10, <3>1 DEF Idle, Keeps
  <2>2. \A d \in DOMAIN chunks' : Idle(d)' => \A u \in Extent(d)' : mem'[u] = 0
    BY <1>1, <1>7, <1>12, <2>1 DEF MemInv, ClearInv
  <2>3. \A a \in live' : \A u \in Bytes(a)' : mem'[u] = Contents(a)'
    BY <1>1 DEF MemInv, ClearInv, Bytes, Contents
  <2>. QED BY <2>2, <2>3 DEF ClearInv
<1>17. PlaceInv'
  <2>1. \A u \in Threads \ {t} : PlaceOf(u)'
    BY <1>1, <1>7, <1>9 DEF MemInv, PlaceInv, PlaceOf, OthersStay, Rounded
  <2>2. PlaceOf(t)'
    BY <1>4, <1>7, <1>8 DEF PlaceOf, MemInv, TileInv
  <2>. QED BY <2>1, <2>2 DEF PlaceInv
<1>18. FitInv'
  <2>1. fit[t] = {}
    BY <1>1 DEF MemInv, FitInv, FitOf
  <2>2. \A u \in Threads \ {t} : FitOf(u)'
    BY <1>1, <1>7, <1>9 DEF MemInv, FitInv, FitOf, OthersStay
  <2>3. FitOf(t)' /\ ~failed'
    BY <1>1, <2>1 DEF FitOf, MemInv, FitInv
  <2>. QED BY <2>2, <2>3 DEF FitInv
<1>. QED BY <1>8, <1>13, <1>15, <1>16, <1>17, <1>18 DEF MemInv

LEMMA AllocTakeStep ==
  ASSUME MemInv, NEW t \in Threads, AllocTake(t)
  PROVE  MemInv'
<1>1. /\ mpc[t] = "take" /\ mutex = t /\ chunks[current[t]].free
      /\ current[t] \in DOMAIN chunks /\ Rounded(arg[t]) <= chunks[current[t]].size
      /\ arg[t] \in Sizes
      /\ UNCHANGED <<mem, live, arg, current, mutex, failed, calls>>
  BY DEF AllocTake, MemInv, PlaceInv, PlaceOf
<1>2. PICK c \in DOMAIN chunks : c = current[t]
  BY <1>1
<1>3. c \in Nat /\ DOMAIN chunks \subseteq Nat
  BY DEF MemInv, MemTypes, Units
<1>4. /\ mpc' = [mpc EXCEPT ![t] = "split"]
      /\ chunks' = [chunks EXCEPT ![c].free = FALSE]
      /\ fit' = [s \in Threads |-> IF s = t THEN {} ELSE fit[s] \ {c}]
  BY <1>2 DEF AllocTake
<1>5. /\ DOMAIN chunks' = DOMAIN chunks
      /\ \A d \in DOMAIN chunks : chunks'[d].size = chunks[d].size
      /\ \A d \in DOMAIN chunks : chunks'[d].free <=> chunks[d].free /\ d # c
  BY <1>3, <1>4 DEF MemInv, MemTypes
<1>6. MemTypes' /\ mpc'[t] = "split"
  <2>1. chunks' \in [DOMAIN chunks -> [size : Nat \ {0}, free : BOOLEAN]]
    BY <1>3, <1>4 DEF MemInv, MemTypes
  <2>2. fit' \in [Threads -> SUBSET Units]
    BY <1>4 DEF MemInv, MemTypes
  <2>. QED BY <1>1, <1>4, <1>5, <2>1, <2>2 DEF MemInv, MemTypes, States
<1>7. OthersStay(t) /\ \A u \in Threads \ {t} : \A d : Keeps(u, d)
  <2>1. OthersStay(t)
    BY <1>1, <1>4 DEF OthersStay, MemInv, MemTypes
  <2>. QED BY <2>1, OthersKeep
<1>8. \A d : ~Frees(t, d)' /\ ~Releases(t, d)' /\ (Splits(t, d)' <=> d = c)
  BY <1>1, <1>2, <1>6 DEF Frees, Splits, Releases
<1>9. \A d : ~Frees(t, d) /\ ~Releases(t, d) /\ ~Splits(t, d)
  BY <1>1 DEF Frees, Splits, Releases
<1>10. \A d \in DOMAIN chunks : Limit(d)' = Limit(d) /\ Extent(d)' = Extent(d)
  BY <1>5 DEF Limit, Extent
<1>11. TileInv'
  BY <1>5, <1>10 DEF MemInv, TileInv
<1>12. \A d : InUse(d)' <=> InUse(d)
  BY <1>1 DEF InUse
<1>13. ~InUse(c) /\ \A u \in Threads : ~Frees(u, c) /\ ~Splits(u, c)
  BY <1>1, <1>2, <1>3 DEF MemInv, OwnInv, InUse
<1>14. OwnInv'
  <2>2. \A a \in live' :
          /\ a.addr \in DOMAIN chunks' /\ ~chunks'[a.addr].free /\ a.len <= chunks'[a.addr].size
          /\ \A b \in live' : a.addr = b.addr => a = b
    BY <1>1, <1>5 DEF MemInv, OwnInv
  <2>3. ASSUME NEW u \in Threads, NEW d \in Nat, Frees(u, d)' \/ Splits(u, d)'
        PROVE  /\ d \in DOMAIN chunks' /\ ~chunks'[d].free /\ ~InUse(d)'
               /\ \A v \in Threads \ {u} : ~Frees(v, d)' /\ ~Splits(v, d)'
    <3>1. CASE u = t
      BY <1>5, <1>7, <1>8, <1>12, <1>13, <2>3, <3>1 DEF Keeps
    <3>2. CASE u # t
      <4>1. Frees(u, d) \/ Splits(u, d)
        BY <1>7, <2>3, <3>2 DEF Keeps
      <4>2. d # c
        BY <1>13, <4>1
      <4>3. /\ d \in DOMAIN chunks /\ ~chunks[d].free /\ ~InUse(d)
            /\ \A v \in Threads \ {u} : ~Frees(v, d) /\ ~Splits(v, d)
        BY <4>1 DEF MemInv, OwnInv
      <4>. QED BY <1>5, <1>7, <1>8, <1>12, <4>2, <4>3 DEF Keeps
    <3>. QED BY <3>1, <3>2
  <2>4. ASSUME NEW d \in DOMAIN chunks'
        PROVE  chunks'[d].free \/ InUse(d)' \/ \E u \in Threads : Frees(u, d)' \/ Splits(u, d)'
    <3>1. d \in DOMAIN chunks
      BY <1>5
    <3>2. chunks[d].free \/ InUse(d) \/ \E u \in Threads : Frees(u, d) \/ Splits(u, d)
      BY <3>1 DEF MemInv, OwnInv
    <3>. QED BY <1>5, <1>7, <1>8, <1>9, <1>12, <3>1, <3>2 DEF Keeps
  <2>. QED BY <2>2, <2>3, <2>4 DEF OwnInv
<1>15. ClearInv'
  <2>1. \A d \in DOMAIN chunks : Idle(d)' => Idle(d)
    <3>. SUFFICES ASSUME NEW d \in DOMAIN chunks, Idle(d)' PROVE Idle(d)
      OBVIOUS
    <3>1. Idle(c)
      BY <1>1, <1>2 DEF Idle
    <3>. QED BY <1>5, <1>7, <1>8, <3>1 DEF Idle, Keeps
  <2>2. \A d \in DOMAIN chunks' : Idle(d)' => \A u \in Extent(d)' : mem'[u] = 0
    BY <1>1, <1>5, <1>10, <2>1 DEF MemInv, ClearInv
  <2>3. \A a \in live' : \A u \in Bytes(a)' : mem'[u] = Contents(a)'
    BY <1>1 DEF MemInv, ClearInv, Bytes, Contents
  <2>. QED BY <2>2, <2>3 DEF ClearInv
<1>16. PlaceInv'
  <2>1. \A u \in Threads \ {t} : PlaceOf(u)'
    BY <1>1, <1>5, <1>7 DEF MemInv, PlaceInv, PlaceOf, OthersStay, Rounded
  <2>2. PlaceOf(t)'
    BY <1>1, <1>2, <1>5, <1>6 DEF PlaceOf, Rounded
  <2>. QED BY <2>1, <2>2 DEF PlaceInv
<1>17. FitInv'
  <2>2. \A u \in Threads \ {t} : FitOf(u)'
    BY <1>1, <1>4, <1>5, <1>7 DEF MemInv, FitInv, FitOf, OthersStay
  <2>3. FitOf(t)' /\ ~failed'
    BY <1>1, <1>4 DEF FitOf, MemInv, FitInv
  <2>. QED BY <2>2, <2>3 DEF FitInv
<1>. QED BY <1>6, <1>11, <1>14, <1>15, <1>16, <1>17 DEF MemInv

\* What a split does to the list: the chunk is cut to n, and a free chunk
\* comes after it if anything is left.
SplitAt(c, n) ==
  /\ DOMAIN chunks \subseteq DOMAIN chunks' /\ DOMAIN chunks' \subseteq Units
  /\ \A d \in DOMAIN chunks \ {c} : chunks'[d] = chunks[d]
  /\ chunks'[c].size = n /\ ~chunks'[c].free
  /\ n < chunks[c].size => c + n \in DOMAIN chunks'
  /\ \A d \in DOMAIN chunks' \ DOMAIN chunks :
       /\ d = c + n /\ n < chunks[c].size
       /\ chunks'[d].size = chunks[c].size - n /\ chunks'[d].free

LEMMA SplitIs ==
  ASSUME MemTypes, TileInv, NEW c \in DOMAIN chunks, ~chunks[c].free,
         NEW n \in Nat \ {0}, n <= chunks[c].size, chunks' = Split(c, n)
  PROVE  /\ SplitAt(c, n)
         /\ chunks' \in [DOMAIN chunks' -> [size : Nat \ {0}, free : BOOLEAN]]
<1>1. c \in Nat /\ DOMAIN chunks \subseteq Units /\ Limit(c) <= Size
  BY NextIs DEF MemTypes
<1>2. PICK s \in Nat \ {0} : s = chunks[c].size
  BY DEF MemTypes
<1>3. chunks \in [DOMAIN chunks -> [size : Nat \ {0}, free : BOOLEAN]]
  BY DEF MemTypes
<1>4. CASE s = n
  <2>1. chunks' = chunks
    BY <1>2, <1>4 DEF Split
  <2>2. chunks'[c].size = n /\ ~chunks'[c].free
    BY <1>2, <1>4, <2>1
  <2>3. SplitAt(c, n)
    BY <1>1, <1>2, <1>4, <2>1, <2>2 DEF SplitAt
  <2>. QED BY <1>3, <2>1, <2>3
<1>5. CASE n < s
  <2>1. c + n \notin DOMAIN chunks
    BY <1>1, <1>2, <1>5 DEF TileInv, Limit
  <2>2. c + n \in Units /\ c + n # c /\ s - n \in Nat \ {0}
    BY <1>1, <1>2, <1>5, Constants DEF Units, Limit
  <2>3. chunks' = [a \in DOMAIN chunks \cup {c + n} |->
          IF a = c + n THEN [size |-> s - n, free |-> TRUE]
          ELSE IF a = c THEN [chunks[c] EXCEPT !.size = n] ELSE chunks[a]]
    BY <1>2, <1>5 DEF Split
  <2>4. DOMAIN chunks' = DOMAIN chunks \cup {c + n}
    BY <2>3
  <2>5. chunks'[c + n] = [size |-> s - n, free |-> TRUE]
    BY <2>3
  <2>6. chunks'[c] = [chunks[c] EXCEPT !.size = n]
    BY <2>2, <2>3
  <2>7. \A d \in DOMAIN chunks \ {c} : chunks'[d] = chunks[d]
    BY <2>1, <2>3
  <2>8. chunks[c] \in [size : Nat \ {0}, free : BOOLEAN]
    BY <1>3
  <2>9. chunks'[c].size = n /\ ~chunks'[c].free /\ chunks'[c] \in [size : Nat \ {0}, free : BOOLEAN]
    BY <2>6, <2>8
  <2>10. SplitAt(c, n)
    BY <1>1, <1>2, <1>5, <2>2, <2>4, <2>5, <2>7, <2>9 DEF SplitAt
  <2>11. ASSUME NEW d \in DOMAIN chunks'
         PROVE  chunks'[d] \in [size : Nat \ {0}, free : BOOLEAN]
    <3>1. CASE d = c + n
      <4>1. PICK r \in Nat \ {0} : r = s - n
        BY <2>2
      <4>2. [size |-> r, free |-> TRUE] \in [size : Nat \ {0}, free : BOOLEAN]
        OBVIOUS
      <4>. QED BY <2>5, <3>1, <4>1, <4>2
    <3>2. CASE d = c
      BY <2>9, <3>2
    <3>3. CASE d \in DOMAIN chunks \ {c}
      BY <1>3, <2>7, <3>3
    <3>. QED BY <2>4, <3>1, <3>2, <3>3
  <2>12. chunks' = [d \in DOMAIN chunks' |-> chunks'[d]]
    BY <2>3
  <2>. QED BY <2>10, <2>11, <2>12
<1>. QED BY <1>2, <1>4, <1>5

LEMMA SplitTiles ==
  ASSUME MemTypes, TileInv, NEW c \in DOMAIN chunks, NEW n \in Nat \ {0},
         n <= chunks[c].size, Multiple(n), SplitAt(c, n)
  PROVE  TileInv'
<1>1. /\ \A d \in DOMAIN chunks : d \in Nat /\ chunks[d].size \in Nat \ {0}
      /\ \A d \in DOMAIN chunks' : d \in Nat
  BY DEF MemTypes, SplitAt, Units
<1>2. PICK s \in Nat \ {0} : s = chunks[c].size
  BY <1>1
<1>3. /\ Multiple(s) /\ c + s \in DOMAIN chunks \cup {Size}
      /\ \A d \in DOMAIN chunks : c < d => c + s <= d
      /\ c \in Nat
  BY <1>1, <1>2 DEF TileInv, Limit
<1>4. \A d \in DOMAIN chunks' \ DOMAIN chunks :
        d = c + n /\ n < s /\ chunks'[d].size = s - n
  BY <1>2 DEF SplitAt
<1>. SUFFICES ASSUME NEW d \in DOMAIN chunks'
     PROVE  /\ Multiple(chunks'[d].size)
            /\ d + chunks'[d].size \in DOMAIN chunks' \cup {Size}
            /\ \A f \in DOMAIN chunks' : d < f => d + chunks'[d].size <= f
  BY DEF TileInv, Limit, Multiple
<1>5. CASE d = c
  <2>1. chunks'[d].size = n
    BY <1>5 DEF SplitAt
  <2>2. c + n \in DOMAIN chunks' \cup {Size}
    BY <1>2, <1>3 DEF SplitAt
  <2>3. ASSUME NEW f \in DOMAIN chunks', c < f
        PROVE  c + n <= f
    BY <1>1, <1>2, <1>3, <1>4, <2>3
  <2>. QED BY <1>5, <2>1, <2>2, <2>3
<1>6. CASE d \in DOMAIN chunks \ {c}
  <2>1. chunks'[d].size = chunks[d].size
    BY <1>6 DEF SplitAt
  <2>2. PICK e \in Nat : e = d + chunks[d].size
    BY <1>1, <1>6
  <2>3. /\ Multiple(chunks[d].size) /\ e \in DOMAIN chunks \cup {Size}
        /\ \A f \in DOMAIN chunks : d < f => e <= f
    BY <1>6, <2>2 DEF TileInv, Limit
  <2>4. ASSUME NEW f \in DOMAIN chunks', d < f
        PROVE  e <= f
    <3>1. CASE f \in DOMAIN chunks
      BY <2>3, <2>4, <3>1
    <3>2. CASE f \notin DOMAIN chunks
      <4>1. f = c + n /\ n < s /\ d \in Nat /\ d # c
        BY <1>1, <1>4, <1>6, <3>2
      <4>2. d < c
        BY <1>3, <1>6, <2>4, <4>1
      <4>3. e <= c
        BY <2>3, <4>2
      <4>. QED BY <1>3, <4>1, <4>3
    <3>. QED BY <3>1, <3>2
  <2>5. e \in DOMAIN chunks' \cup {Size}
    BY <2>3 DEF SplitAt
  <2>. QED BY <2>1, <2>2, <2>3, <2>4, <2>5
<1>7. CASE d \notin DOMAIN chunks
  <2>1. d = c + n /\ n < s /\ chunks'[d].size = s - n
    BY <1>4, <1>7
  <2>2. d + chunks'[d].size = c + s
    BY <1>3, <2>1
  <2>3. Multiple(s - n)
    BY <1>2, <1>3, Remainder
  <2>4. c + s \in DOMAIN chunks' \cup {Size}
    BY <1>3 DEF SplitAt
  <2>5. ASSUME NEW f \in DOMAIN chunks', d < f
        PROVE  c + s <= f
    <3>1. f \in DOMAIN chunks
      BY <1>3, <1>4, <2>1, <2>5
    <3>. QED BY <1>1, <1>3, <2>1, <2>5, <3>1
  <2>. QED BY <2>1, <2>2, <2>3, <2>4, <2>5
<1>. QED BY <1>5, <1>6, <1>7

LEMMA AllocSplitStep ==
  ASSUME MemInv, NEW t \in Threads, AllocSplit(t)
  PROVE  MemInv'
<1>1. /\ mpc[t] = "split" /\ mutex = t /\ current[t] \in DOMAIN chunks
      /\ Rounded(arg[t]) <= chunks[current[t]].size /\ arg[t] \in Sizes
      /\ UNCHANGED <<mem, fit, failed>> /\ mutex' = "nobody"
  BY DEF AllocSplit, MemInv, PlaceInv, PlaceOf
<1>2. PICK c \in DOMAIN chunks, len \in Sizes, n \in Nat \ {0} :
        c = current[t] /\ len = arg[t] /\ n = Rounded(arg[t])
  BY <1>1, Constants, Rounding
<1>3. c \in Nat /\ DOMAIN chunks \subseteq Nat /\ len \in Nat \ {0} /\ len <= n /\ Multiple(n)
      /\ n <= chunks[c].size
  BY <1>1, <1>2, Constants, Rounding DEF MemInv, MemTypes, Units
<1>4. PICK new : new = [addr |-> c, len |-> len, owner |-> calls + 1, written |-> FALSE]
  OBVIOUS
<1>5. /\ chunks' = Split(c, n) /\ live' = live \cup {new} /\ calls' = calls + 1
      /\ mpc' = [mpc EXCEPT ![t] = "out"] /\ arg' = [arg EXCEPT ![t] = 0]
      /\ current' = [current EXCEPT ![t] = 0]
  BY <1>2, <1>4 DEF AllocSplit, Return
<1>6. Splits(t, c)
  BY <1>1, <1>2 DEF Splits
<1>7. /\ ~chunks[c].free /\ ~InUse(c)
      /\ \A u \in Threads \ {t} : ~Frees(u, c) /\ ~Splits(u, c)
  BY <1>3, <1>6 DEF MemInv, OwnInv
<1>8. /\ SplitAt(c, n)
      /\ chunks' \in [DOMAIN chunks' -> [size : Nat \ {0}, free : BOOLEAN]]
  BY <1>3, <1>5, <1>7, SplitIs DEF MemInv
<1>9. MemTypes' /\ mpc'[t] = "out"
  <2>1. new \in [addr : Nat, len : Sizes, owner : Nat, written : BOOLEAN] /\ calls' \in Nat
    BY <1>3, <1>4, <1>5 DEF MemInv, MemTypes
  <2>2. live' \subseteq [addr : Nat, len : Sizes, owner : Nat, written : BOOLEAN]
    BY <1>5, <2>1 DEF MemInv, MemTypes
  <2>3. DOMAIN chunks' \subseteq Units /\ 0 \in DOMAIN chunks'
    BY <1>8 DEF SplitAt, MemInv, MemTypes
  <2>4. mpc' \in [Threads -> States] /\ mpc'[t] = "out"
    BY <1>5 DEF MemInv, MemTypes, States
  <2>5. arg' \in [Threads -> Nat] /\ current' \in [Threads -> 0..Size]
    BY <1>5, Constants DEF MemInv, MemTypes
  <2>. QED BY <1>1, <1>8, <2>1, <2>2, <2>3, <2>4, <2>5 DEF MemInv, MemTypes
<1>10. OthersStay(t) /\ \A u \in Threads \ {t} : \A d : Keeps(u, d)
  <2>1. OthersStay(t)
    BY <1>5 DEF OthersStay, MemInv, MemTypes
  <2>. QED BY <2>1, OthersKeep
<1>11. /\ \A d : ~Frees(t, d)' /\ ~Releases(t, d)' /\ ~Splits(t, d)'
       /\ \A d : ~Frees(t, d) /\ ~Releases(t, d) /\ (Splits(t, d) <=> d = c)
  BY <1>1, <1>2, <1>9 DEF Frees, Splits, Releases
<1>12. TileInv'
  BY <1>3, <1>8, SplitTiles DEF MemInv
<1>13. \A d : InUse(d)' <=> InUse(d) \/ d = c
  BY <1>4, <1>5 DEF InUse
<1>14. /\ \A d \in DOMAIN chunks \ {c} : d \in DOMAIN chunks' /\ chunks'[d] = chunks[d]
       /\ c \in DOMAIN chunks' /\ chunks'[c].size = n /\ ~chunks'[c].free
       /\ \A d \in DOMAIN chunks' \ DOMAIN chunks :
            d = c + n /\ n < chunks[c].size /\ chunks'[d].size = chunks[c].size - n
              /\ chunks'[d].free
  BY <1>8 DEF SplitAt
<1>15. OwnInv'
  <2>1. ASSUME NEW a \in live'
        PROVE  /\ a.addr \in DOMAIN chunks' /\ ~chunks'[a.addr].free
               /\ a.len <= chunks'[a.addr].size
               /\ \A b \in live' : a.addr = b.addr => a = b
    <3>0. \A b \in live : b.addr # c
      BY <1>7 DEF InUse
    <3>1. CASE a = new
      BY <1>3, <1>4, <1>5, <1>14, <3>0, <3>1
    <3>2. CASE a \in live
      <4>1. /\ a.addr \in DOMAIN chunks \ {c} /\ ~chunks[a.addr].free
            /\ a.len <= chunks[a.addr].size
            /\ \A b \in live : a.addr = b.addr => a = b
        BY <3>0, <3>2 DEF MemInv, OwnInv
      <4>. QED BY <1>4, <1>5, <1>14, <4>1
    <3>. QED BY <1>5, <3>1, <3>2
  <2>3. ASSUME NEW u \in Threads, NEW d \in Nat, Frees(u, d)' \/ Splits(u, d)'
        PROVE  /\ d \in DOMAIN chunks' /\ ~chunks'[d].free /\ ~InUse(d)'
               /\ \A v \in Threads \ {u} : ~Frees(v, d)' /\ ~Splits(v, d)'
    <3>1. u # t
      BY <1>11, <2>3
    <3>2. Frees(u, d) \/ Splits(u, d)
      BY <1>10, <2>3, <3>1 DEF Keeps
    <3>3. d # c
      BY <1>7, <3>1, <3>2
    <3>4. /\ d \in DOMAIN chunks /\ ~chunks[d].free /\ ~InUse(d)
          /\ \A v \in Threads \ {u} : ~Frees(v, d) /\ ~Splits(v, d)
      BY <3>2 DEF MemInv, OwnInv
    <3>. QED BY <1>10, <1>11, <1>13, <1>14, <3>3, <3>4 DEF Keeps
  <2>4. ASSUME NEW d \in DOMAIN chunks'
        PROVE  chunks'[d].free \/ InUse(d)' \/ \E u \in Threads : Frees(u, d)' \/ Splits(u, d)'
    <3>1. CASE d = c
      BY <1>13, <3>1
    <3>2. CASE d \notin DOMAIN chunks
      BY <1>14, <3>2
    <3>3. CASE d \in DOMAIN chunks \ {c}
      <4>1. chunks[d].free \/ InUse(d) \/ \E u \in Threads : Frees(u, d) \/ Splits(u, d)
        BY <3>3 DEF MemInv, OwnInv
      <4>. QED BY <1>10, <1>11, <1>13, <1>14, <3>3, <4>1 DEF Keeps
    <3>. QED BY <3>1, <3>2, <3>3
  <2>. QED BY <2>1, <2>3, <2>4 DEF OwnInv
<1>16. ClearInv'
  <2>1. Idle(c)
    BY <1>6 DEF Idle
  <2>2. ASSUME NEW d \in DOMAIN chunks', Idle(d)'
        PROVE  \A u \in Extent(d)' : mem'[u] = 0
    <3>1. CASE d = c
      <4>1. PICK u \in Threads \ {t} : Splits(u, c)' \/ Releases(u, c)'
        BY <1>11, <1>14, <2>2, <3>1 DEF Idle
      <4>2. Splits(u, c) \/ Releases(u, c)
        BY <1>10, <4>1 DEF Keeps
      <4>3. Releases(u, c) => Frees(u, c)
        BY <1>3 DEF Releases, Frees, MemInv, PlaceInv, PlaceOf, MemTypes
      <4>. QED BY <1>7, <4>2, <4>3
    <3>2. CASE d \notin DOMAIN chunks
      <4>1. d = c + n /\ chunks'[d].size = chunks[c].size - n
        BY <1>14, <3>2
      <4>2. PICK s \in Nat : s = chunks[c].size
        BY DEF MemInv, MemTypes
      <4>3. Extent(d)' = (c + n) .. (c + s - 1) /\ Extent(c) = c .. (c + s - 1)
        BY <1>3, <4>1, <4>2 DEF Extent, Limit
      <4>4. Extent(d)' \subseteq Extent(c)
        BY <1>3, <4>2, <4>3
      <4>. QED BY <1>1, <2>1, <4>4 DEF MemInv, ClearInv
    <3>3. CASE d \in DOMAIN chunks \ {c}
      <4>1. Extent(d)' = Extent(d)
        BY <1>14, <3>3 DEF Extent, Limit
      <4>2. Idle(d)
        BY <1>10, <1>11, <1>14, <2>2, <3>3 DEF Idle, Keeps
      <4>. QED BY <1>1, <3>3, <4>1, <4>2 DEF MemInv, ClearInv
    <3>. QED BY <3>1, <3>2, <3>3
  <2>3. ASSUME NEW a \in live'
        PROVE  \A u \in Bytes(a) : mem'[u] = Contents(a)
    <3>1. CASE a = new
      <4>1. chunks[c].size \in Nat
        BY DEF MemInv, MemTypes
      <4>2. Bytes(a) \subseteq Extent(c)
        BY <1>3, <1>4, <3>1, <4>1 DEF Bytes, Extent, Limit
      <4>3. Contents(a) = 0
        BY <1>4, <3>1 DEF Contents
      <4>. QED BY <1>1, <2>1, <4>2, <4>3 DEF MemInv, ClearInv
    <3>2. CASE a \in live
      BY <1>1, <3>2 DEF MemInv, ClearInv
    <3>. QED BY <1>5, <3>1, <3>2
  <2>. QED BY <2>2, <2>3 DEF ClearInv, Bytes, Contents
<1>17. PlaceInv'
  <2>1. ASSUME NEW u \in Threads \ {t}
        PROVE  PlaceOf(u)'
    <3>1. PlaceOf(u) /\ mpc[u] \notin {"alloc", "take", "split"}
      BY <1>1 DEF MemInv, PlaceInv, PlaceOf
    <3>2. DOMAIN chunks \subseteq DOMAIN chunks'
      BY <1>8 DEF SplitAt
    <3>. QED BY <1>10, <3>1, <3>2 DEF PlaceOf, OthersStay
  <2>2. PlaceOf(t)'
    BY <1>9 DEF PlaceOf
  <2>. QED BY <2>1, <2>2 DEF PlaceInv
<1>18. FitInv'
  <2>1. ASSUME NEW u \in Threads
        PROVE  FitOf(u)'
    <3>1. CASE u = t
      BY <1>1, <3>1 DEF FitOf, MemInv, FitInv
    <3>2. CASE u # t
      <4>1. \A d \in fit[u] : d \in DOMAIN chunks \ {c}
        BY <1>7 DEF MemInv, FitInv, FitOf
      <4>. QED BY <1>1, <1>10, <1>14, <3>2, <4>1 DEF FitOf, OthersStay, MemInv, FitInv
    <3>. QED BY <3>1, <3>2
  <2>. QED BY <1>1, <2>1 DEF FitInv, MemInv
<1>. QED BY <1>9, <1>12, <1>15, <1>16, <1>17, <1>18 DEF MemInv

\* The application writes in its memory.
LEMMA WriteStep ==
  ASSUME MemInv, NEW a \in live, Write(a)
  PROVE  MemInv'
<1>1. PICK new : new = [a EXCEPT !.written = TRUE]
  OBVIOUS
<1>2. /\ live' = (live \ {a}) \cup {new} /\ ~a.written
      /\ UNCHANGED <<chunks, mutex, mpc, arg, current, fit, failed, calls>>
  BY <1>1 DEF Write
<1>3. a \in [addr : Nat, len : Sizes, owner : Nat, written : BOOLEAN]
  BY DEF MemInv, MemTypes
<1>4. /\ new \in [addr : Nat, len : Sizes, owner : Nat, written : BOOLEAN]
      /\ new.addr = a.addr /\ new.len = a.len /\ new.owner = a.owner /\ new.written
  BY <1>1, <1>3
<1>5. /\ Bytes(a) \subseteq Extent(a.addr) /\ a.addr \in DOMAIN chunks
      /\ a.addr \in Nat /\ a.len \in Nat
  BY InChunk DEF MemInv
<1>6. \A u \in Units : mem'[u] = IF u \in Bytes(a) THEN a.owner ELSE mem[u]
  BY DEF Write, Bytes
<1>7. MemTypes'
  <2>1. mem' \in [Units -> Nat]
    BY <1>3 DEF Write, MemInv, MemTypes
  <2>2. live' \subseteq [addr : Nat, len : Sizes, owner : Nat, written : BOOLEAN]
    BY <1>2, <1>4 DEF MemInv, MemTypes
  <2>. QED BY <1>2, <2>1, <2>2 DEF MemInv, MemTypes
<1>8. \A d : InUse(d)' <=> InUse(d)
  BY <1>2, <1>4 DEF InUse
<1>9. \A u \in Threads : \A d : (Frees(u, d)' <=> Frees(u, d)) /\ (Splits(u, d)' <=> Splits(u, d))
        /\ (Releases(u, d)' <=> Releases(u, d))
  BY <1>2 DEF Frees, Splits, Releases
<1>10. TileInv'
  BY <1>2 DEF MemInv, TileInv, Limit
<1>11. OwnInv'
  <2>1. ASSUME NEW b \in live'
        PROVE  /\ b.addr \in DOMAIN chunks' /\ ~chunks'[b.addr].free
               /\ b.len <= chunks'[b.addr].size
               /\ \A e \in live' : b.addr = e.addr => b = e
    <3>1. /\ \A e \in live : /\ e.addr \in DOMAIN chunks /\ ~chunks[e.addr].free
                            /\ e.len <= chunks[e.addr].size
          /\ \A e, f \in live : e.addr = f.addr => e = f
      BY DEF MemInv, OwnInv
    <3>2. CASE b = new
      BY <1>2, <1>4, <3>1, <3>2
    <3>3. CASE b \in live \ {a}
      BY <1>2, <1>4, <3>1, <3>3
    <3>. QED BY <1>2, <3>2, <3>3
  <2>2. \A u \in Threads : \A d \in Nat : Frees(u, d) \/ Splits(u, d) =>
          /\ d \in DOMAIN chunks /\ ~chunks[d].free /\ ~InUse(d)
          /\ \A v \in Threads \ {u} : ~Frees(v, d) /\ ~Splits(v, d)
    BY DEF MemInv, OwnInv
  <2>3. \A d \in DOMAIN chunks :
          chunks[d].free \/ InUse(d) \/ \E u \in Threads : Frees(u, d) \/ Splits(u, d)
    BY DEF MemInv, OwnInv
  <2>. QED BY <1>2, <1>8, <1>9, <2>1, <2>2, <2>3 DEF OwnInv
<1>12. ASSUME NEW d \in DOMAIN chunks, d # a.addr
       PROVE  Extent(d) \cap Bytes(a) = {} /\ Extent(d) \subseteq Units
  <2>1. Extent(d) \cap Extent(a.addr) = {}
    BY <1>5, <1>12, Apart DEF MemInv
  <2>2. Extent(d) \subseteq Units
    <3>1. d \in Nat /\ Limit(d) \in Nat /\ Limit(d) <= Size
      BY NextIs DEF MemInv
    <3>. QED BY <3>1, Constants DEF Extent, Units
  <2>. QED BY <1>5, <2>1, <2>2
<1>13. Bytes(a) \subseteq Units
  <2>1. a.addr \in Nat /\ Limit(a.addr) \in Nat /\ Limit(a.addr) <= Size
    BY <1>5, NextIs DEF MemInv
  <2>. QED BY <1>5, <2>1, Constants DEF Extent, Units
<1>14. ClearInv'
  <2>1. ASSUME NEW d \in DOMAIN chunks, Idle(d)
        PROVE  \A u \in Extent(d) : mem'[u] = 0
    <3>1. d # a.addr
      <4>. SUFFICES ASSUME d = a.addr PROVE FALSE
        OBVIOUS
      <4>1. ~chunks[d].free /\ InUse(d)
        BY DEF MemInv, OwnInv, InUse
      <4>2. PICK u \in Threads : Splits(u, d) \/ Releases(u, d)
        BY <2>1, <4>1 DEF Idle
      <4>3. Splits(u, d) \/ Frees(u, d)
        BY <1>5, <4>2 DEF Releases, Frees, MemInv, PlaceInv, PlaceOf, MemTypes
      <4>. QED BY <1>5, <4>1, <4>3 DEF MemInv, OwnInv
    <3>2. \A u \in Extent(d) : mem[u] = 0
      BY <2>1 DEF MemInv, ClearInv
    <3>. QED BY <1>6, <1>12, <3>1, <3>2
  <2>2. ASSUME NEW b \in live'
        PROVE  \A u \in Bytes(b) : mem'[u] = Contents(b)
    <3>1. CASE b = new
      BY <1>4, <1>6, <1>13, <3>1 DEF Bytes, Contents
    <3>2. CASE b \in live \ {a}
      <4>1. b.addr \in DOMAIN chunks /\ Bytes(b) \subseteq Extent(b.addr) /\ b.addr # a.addr
        BY <3>2, InChunk DEF MemInv, OwnInv
      <4>2. \A u \in Bytes(b) : mem[u] = Contents(b)
        BY <3>2 DEF MemInv, ClearInv
      <4>. QED BY <1>6, <1>12, <4>1, <4>2
    <3>. QED BY <1>2, <3>1, <3>2
  <2>3. \A d \in DOMAIN chunks : (Idle(d)' <=> Idle(d)) /\ Extent(d)' = Extent(d)
    BY <1>2, <1>9 DEF Idle, Extent, Limit
  <2>. QED BY <1>2, <2>1, <2>2, <2>3 DEF ClearInv, Bytes, Contents
<1>15. PlaceInv' /\ FitInv'
  BY <1>2 DEF MemInv, PlaceInv, PlaceOf, FitInv, FitOf, Rounded
<1>. QED BY <1>7, <1>10, <1>11, <1>14, <1>15 DEF MemInv

-------------------------------------------------------------------------------
(* The process.                                                            *)

\* One chunk, all of it cleared, and nobody in the allocator.
Fresh ==
  /\ chunks = OneChunk /\ mem = [u \in Units |-> 0] /\ mutex = "nobody"
  /\ mpc = [t \in Threads |-> "out"] /\ arg = [t \in Threads |-> 0]
  /\ current = [t \in Threads |-> 0] /\ fit = [t \in Threads |-> {}]
  /\ ~failed /\ live = {} /\ calls = 0

LEMMA FreshInv == Fresh => MemInv
<1>. SUFFICES ASSUME Fresh PROVE MemInv
  OBVIOUS
<1>1. DOMAIN chunks = {0} /\ chunks[0].size = Size /\ chunks[0].free
  BY DEF Fresh, OneChunk
<1>2. MemTypes
  BY <1>1, Constants DEF Fresh, OneChunk, MemTypes, Units, States
<1>3. Multiple(Size)
  <2>1. PICK p \in Nat \ {0}, z \in Nat : p = PageSize /\ z = Size /\ z % p = 0
    BY MemoryAssumption
  <2>2. z = p * (z \div p) + (z % p) /\ z \div p \in Nat
    BY <2>1
  <2>3. z = (z \div p) * p
    BY <2>1, <2>2
  <2>. QED BY <2>1, <2>2, <2>3 DEF Multiple
<1>4. TileInv
  BY <1>1, <1>3, Constants DEF TileInv, Limit
<1>5. \A t \in Threads : \A c : ~Frees(t, c) /\ ~Splits(t, c) /\ ~Releases(t, c)
  BY DEF Fresh, Frees, Splits, Releases
<1>6. OwnInv
  BY <1>1, <1>5 DEF Fresh, OwnInv
<1>7. ClearInv
  BY <1>1, Constants DEF Fresh, ClearInv, Extent, Limit, Units
<1>8. PlaceInv /\ FitInv
  BY DEF Fresh, PlaceInv, PlaceOf, FitInv, FitOf
<1>. QED BY <1>2, <1>4, <1>6, <1>7, <1>8 DEF MemInv

LEMMA ThreadKeeps ==
  ASSUME MemInv, NEW t \in Threads, ThreadStep(t)
  PROVE  MemInv'
<1>1. CASE \E n \in Sizes : AllocEnter(t, n)
  BY <1>1, AllocEnterStep
<1>2. CASE AllocLock(t) \/ AllocPass(t) \/ AllocFit(t) \/ AllocTake(t)
  BY <1>2, AllocLockStep, AllocPassStep, AllocFitStep, AllocTakeStep
<1>3. CASE AllocSplit(t) \/ AllocFail(t)
  BY <1>3, AllocSplitStep, AllocFailStep
<1>4. CASE \E a \in live : FreeEnter(t, a)
  BY <1>4, FreeEnterStep
<1>5. CASE FreeVisit(t)
  BY <1>5, FreePassStep, FreeClearStep
<1>6. CASE FreeRelease(t) \/ FreeEnd(t)
  BY <1>6, FreeReleaseStep, FreeEndStep
<1>. QED BY <1>1, <1>2, <1>3, <1>4, <1>5, <1>6 DEF ThreadStep

LEMMA IdleKeeps ==
  ASSUME MemInv, UNCHANGED memVars
  PROVE  MemInv'
<1>1. UNCHANGED <<chunks, mem, mutex, mpc, arg, current, fit, failed, live, calls>>
  BY DEF memVars
<1>2. MemTypes' /\ PlaceInv' /\ FitInv'
  BY <1>1 DEF MemInv, MemTypes, PlaceInv, PlaceOf, FitInv, FitOf
<1>3. TileInv'
  BY <1>1 DEF MemInv, TileInv, Limit
<1>4. OwnInv'
  BY <1>1 DEF MemInv, OwnInv, Frees, Splits, InUse
<1>5. ClearInv'
  BY <1>1 DEF MemInv, ClearInv, Idle, Extent, Limit, Bytes, Contents, Splits, Releases
<1>. QED BY <1>2, <1>3, <1>4, <1>5 DEF MemInv

LEMMA MemKeeps ==
  ASSUME MemInv, [HostNext]_hostVars
  PROVE  MemInv'
<1>1. CASE UNCHANGED memVars
  BY <1>1, IdleKeeps
<1>2. CASE Construct
  <2>1. Fresh'
    BY <1>2 DEF Construct, Fresh, OneChunk, Units
  <2>. QED BY <2>1, FreshInv, PTL
<1>3. CASE MemNext
  BY <1>3, ThreadKeeps, WriteStep DEF MemNext
<1>4. ProcNext => UNCHANGED memVars \/ Construct
  BY DEF ProcNext, Start, OpenControl, OpenBypass, Open, MapControl, MapBypass,
         SetBuffer, GetMapping, WriteTlb, TlbDone, End
<1>. QED BY <1>1, <1>2, <1>3, <1>4 DEF HostNext, hostVars

LEMMA InvKeepsChunks == MemInv => ChunksKept
<1>. SUFFICES ASSUME MemInv PROVE ChunksKept
  OBVIOUS
<1>1. LiveKept
  BY DEF MemInv, ClearInv, LiveKept, Bytes, Contents
<1>2. NoChunkLost
  <2>. SUFFICES ASSUME NEW c \in DOMAIN chunks
       PROVE  /\ c + chunks[c].size = NextChunk(c)
              /\ \/ chunks[c].free
                 \/ \E a \in live : a.addr = c
                 \/ \E t \in Threads :
                      \/ mpc[t] \in {"free", "release"} /\ arg[t] = c /\ current[t] <= c
                      \/ mpc[t] = "split" /\ current[t] = c
    BY DEF NoChunkLost
  <2>1. c + chunks[c].size = NextChunk(c)
    BY NextIs DEF MemInv, Limit
  <2>. QED BY <2>1 DEF MemInv, OwnInv, InUse, Frees, Splits
<1>3. NoFalseFailure
  BY DEF MemInv, FitInv, NoFalseFailure
<1>. QED BY <1>1, <1>2, <1>3 DEF ChunksKept

\* Whatever threads do at once, and though free takes no lock: the memory
\* allocate hands out is cleared and its owner's alone until it is freed, the
\* chunks cover the region and none of them is lost, and allocate does not
\* fail while a chunk that is large enough stays free.
THEOREM AllocatorKeepsChunks == Spec => []ChunksKept
<1>1. HostInit => MemInv
  <2>1. HostInit => Fresh
    BY DEF HostInit, MemInit, Fresh
  <2>. QED BY <2>1, FreshInv
<1>2. MemInv /\ [HostNext]_hostVars => MemInv'
  BY MemKeeps
<1>3. MemInv => ChunksKept
  BY InvKeepsChunks
<1>. QED BY <1>1, <1>2, <1>3, PTL DEF Spec

-------------------------------------------------------------------------------
(* The pages of the buffer and the TLB.                                    *)

\* p pages make a huge page: the huge pages that n pages start are 0..m-1.
LEMMA Starts ==
  ASSUME NEW p \in Nat \ {0}, NEW n \in Nat
  PROVE  \E m \in Nat :
           /\ \A q \in Nat : q < m <=> q * p < n
           /\ ExistsBijection(1..m, {i \in 0..(n - 1) : i % p = 0})
<1>. DEFINE m == (n + p - 1) \div p
            S == {i \in 0..(n - 1) : i % p = 0}
<1>1. m \in Nat /\ m * p \in Nat /\ m * p <= n + p - 1 /\ n + p - 1 < m * p + p
  OBVIOUS
<1>. HIDE DEF m
<1>2. ASSUME NEW q \in Nat
      PROVE  q < m <=> q * p < n
  <2>1. CASE q < m
    <3>1. (q + 1) * p <= m * p
      BY <1>1, <2>1, Times
    <3>2. (q + 1) * p = q * p + p /\ q * p \in Nat
      OBVIOUS
    <3>. QED BY <1>1, <2>1, <3>1, <3>2
  <2>2. CASE m <= q
    <3>1. m * p <= q * p /\ q * p \in Nat
      BY <1>1, <2>2, Times
    <3>. QED BY <1>1, <2>2, <3>1
  <2>. QED BY <1>1, <2>1, <2>2
<1>3. ExistsBijection(1..m, S)
  <2>. DEFINE f == [j \in 1..m |-> (j - 1) * p]
  <2>1. ASSUME NEW q \in Nat
        PROVE  (q * p) % p = 0 /\ q * p \in Nat
    OBVIOUS
  <2>2. f \in [1..m -> S]
    <3>. SUFFICES ASSUME NEW j \in 1..m PROVE (j - 1) * p \in S
      OBVIOUS
    <3>1. j - 1 \in Nat /\ j - 1 < m
      BY <1>1
    <3>2. (j - 1) * p < n /\ ((j - 1) * p) % p = 0 /\ (j - 1) * p \in Nat
      BY <1>2, <2>1, <3>1
    <3>. QED BY <3>2
  <2>3. ASSUME NEW i \in 1..m, NEW j \in 1..m, f[i] = f[j]
        PROVE  i = j
    <3>0. i - 1 \in Nat /\ j - 1 \in Nat /\ i \in Nat /\ j \in Nat
      BY <1>1
    <3>1. ASSUME NEW a \in Nat, NEW b \in Nat, a < b
          PROVE  a * p # b * p
      <4>1. (a + 1) * p <= b * p /\ (a + 1) * p = a * p + p
        BY <3>1, Times
      <4>. QED BY <4>1
    <3>2. (i - 1) * p = (j - 1) * p
      BY <2>3
    <3>3. ~(i - 1 < j - 1) /\ ~(j - 1 < i - 1)
      BY <3>0, <3>1, <3>2
    <3>. QED BY <3>0, <3>3
  <2>4. ASSUME NEW i \in S
        PROVE  \E j \in 1..m : f[j] = i
    <3>1. i \in Nat /\ i < n /\ i % p = 0
      OBVIOUS
    <3>2. PICK q \in Nat : i = q * p
      <4>1. i \div p \in Nat /\ i = (i \div p) * p + (i % p)
        BY <3>1
      <4>. QED BY <3>1, <4>1
    <3>3. q < m
      BY <1>2, <3>1, <3>2
    <3>4. q + 1 \in 1..m /\ (q + 1) - 1 = q
      BY <1>1, <3>3
    <3>. QED BY <3>2, <3>4
  <2>5. f \in Bijection(1..m, S)
    <3>. HIDE DEF f, S
    <3>1. f \in Injection(1..m, S)
      BY <2>2, <2>3 DEF Injection, IsInjective
    <3>2. f \in Surjection(1..m, S)
      BY <2>2, <2>4 DEF Surjection
    <3>. QED BY <3>1, <3>2 DEF Bijection
  <2>. QED BY <2>5 DEF ExistsBijection
<1>. QED BY <1>1, <1>2, <1>3

\* The pages pinned lie in the huge pages counted, and these in the buffer.
LEMMA Counted ==
  ASSUME NEW n \in 0..SmallPages
  PROVE  /\ HugeCount(n) \in 0..HugePages
         /\ \A q \in Nat : q < HugeCount(n) <=> PerHuge * q < n
<1>0. PICK p \in Nat \ {0}, h \in Nat \ {0} : p = PerHuge /\ h = HugePages
  BY DriverAssumption
<1>1. n \in Nat /\ h * p \in Nat /\ n <= h * p
  BY <1>0 DEF SmallPages
<1>2. PICK m \in Nat :
        /\ \A q \in Nat : q < m <=> q * p < n
        /\ ExistsBijection(1..m, {i \in 0..(n - 1) : i % p = 0})
  BY <1>1, Starts
<1>3. HugeCount(n) = m
  BY <1>0, <1>2, FS_CountingElements DEF HugeCount
<1>4. m <= h
  <2>1. ~(h * p < n)
    BY <1>1
  <2>2. ~(h < m)
    BY <1>2, <2>1
  <2>. QED BY <2>2
<1>5. \A q \in Nat : q * p = p * q
  OBVIOUS
<1>. QED BY <1>0, <1>2, <1>3, <1>4, <1>5

-------------------------------------------------------------------------------
(* What the process knows of the buffer, and the FPGA of what it knows.    *)

PinTypes ==
  /\ base \in Nat /\ entry \in Nat /\ pinned \in 0..SmallPages /\ got \in BOOLEAN
  /\ map.npages \in 0..HugePages /\ DOMAIN map = {"npages", "dma_addr"}
  /\ huge.hnpages \in 0..HugePages /\ DOMAIN huge = {"pages", "npages", "hnpages"}
  /\ DOMAIN tlb.frame = 0..(HugePages - 1)

\* The driver holds the array of the last ioctl that pinned something.
DriverKnows ==
  pc = "get" /\ pinned > 0 =>
    huge.pages = Pinned(pinned) /\ huge.hnpages = HugeCount(pinned)

\* So does the process, if the driver has answered.
Answered == got /\ pinned > 0
ProcessKnows ==
  pc \in {"tlb", "up"} /\ Answered =>
    /\ map.npages = HugeCount(pinned)
    /\ \A j \in 1..map.npages : map.dma_addr[j] = Frame(PerHuge * (j - 1))

\* And the FPGA, as far as the process has come.
FpgaKnows ==
  /\ entry <= map.npages
  /\ pc \notin {"tlb", "up"} => entry = 0 /\ ~got
  /\ pc = "up" => entry = map.npages
  /\ entry > 0 /\ regs # NoBar =>
       /\ tlb.base = base
       /\ Answered => \A j \in 0..(entry - 1) : tlb.frame[j] = Frame(PerHuge * j)

PinInv == PinTypes /\ DriverKnows /\ ProcessKnows /\ FpgaKnows

LEMMA GoneKeeps ==
  ASSUME PinInv, Gone, huge' = huge
  PROVE  PinInv'
<1>0. HugePages \in Nat \ {0} /\ SmallPages \in Nat
  BY DriverAssumption DEF SmallPages
<1>1. map'.npages = HugePages /\ DOMAIN map' = {"npages", "dma_addr"}
  BY DEF Gone, EmptyMap
<1>2. PinTypes'
  <2>1. base' = 0 /\ entry' = 0 /\ pinned' = 0 /\ tlb' = tlb
    BY DEF Gone
  <2>2. got' \in BOOLEAN
    BY DEF Gone
  <2>. QED BY <1>0, <1>1, <2>1, <2>2 DEF PinInv, PinTypes
<1>3. DriverKnows' /\ ProcessKnows' /\ FpgaKnows'
  BY <1>0, <1>1 DEF Gone, DriverKnows, ProcessKnows, FpgaKnows
<1>. QED BY <1>2, <1>3 DEF PinInv

\* A step of the process before it asks for the addresses.
LEMMA EarlyKeeps ==
  ASSUME PinInv, pc \notin {"get", "tlb", "up"}, pc' \notin {"get", "tlb", "up"},
         huge' = huge, base' \in Nat, UNCHANGED <<map, entry, pinned, got, tlb>>
  PROVE  PinInv'
<1>1. PinTypes'
  BY DEF PinInv, PinTypes
<1>2. DriverKnows' /\ ProcessKnows' /\ FpgaKnows'
  BY DEF PinInv, DriverKnows, ProcessKnows, FpgaKnows
<1>. QED BY <1>1, <1>2 DEF PinInv

LEMMA SetBufferKeeps ==
  ASSUME PinInv, SetBuffer
  PROVE  PinInv'
<1>1. ASSUME NEW n \in 0..SmallPages, BufferSet(n), pinned' = n, pc' = "get"
      PROVE  PinInv'
  <2>1. SmallPages \in Nat /\ n \in Nat
    BY DriverAssumption DEF SmallPages
  <2>2. HugeCount(n) \in 0..HugePages
    BY Counted
  <2>4. UNCHANGED <<base, entry, got, tlb, map, regs>> /\ pc = "set"
    BY DEF SetBuffer
  <2>5. CASE n = 0
    <3>1. huge' = [huge EXCEPT !.pages = Pinned(0)]
      BY <1>1, <2>5 DEF BufferSet
    <3>2. PinTypes'
      BY <1>1, <2>4, <3>1 DEF PinInv, PinTypes
    <3>3. DriverKnows' /\ ProcessKnows' /\ FpgaKnows'
      BY <1>1, <2>4, <2>5 DEF PinInv, DriverKnows, ProcessKnows, FpgaKnows
    <3>. QED BY <3>2, <3>3 DEF PinInv
  <2>6. CASE n # 0
    <3>1. huge' = [pages |-> Pinned(n), npages |-> n, hnpages |-> HugeCount(n)]
      BY <1>1, <2>6 DEF BufferSet
    <3>2. PinTypes'
      BY <1>1, <2>1, <2>2, <2>4, <3>1 DEF PinInv, PinTypes
    <3>3. DriverKnows' /\ ProcessKnows' /\ FpgaKnows'
      <4>1. huge'.pages = Pinned(pinned') /\ huge'.hnpages = HugeCount(pinned')
        BY <1>1, <3>1
      <4>2. DriverKnows'
        BY <4>1 DEF DriverKnows, Pinned, HugeCount, SmallPages
      <4>. QED BY <1>1, <2>4, <4>2 DEF PinInv, ProcessKnows, FpgaKnows
    <3>. QED BY <3>2, <3>3 DEF PinInv
  <2>. QED BY <2>5, <2>6
<1>2. ASSUME BufferSetError, UNCHANGED <<pinned, pc>>
      PROVE  PinInv'
  BY <1>2, EarlyKeeps DEF SetBuffer, BufferSetError, PinInv, PinTypes
<1>. QED BY <1>1, <1>2 DEF SetBuffer

LEMMA GetMappingKeeps ==
  ASSUME PinInv, GetMapping
  PROVE  PinInv'
<1>0. PICK p \in Nat \ {0}, h \in Nat \ {0} : p = PerHuge /\ h = HugePages
  BY DriverAssumption
<1>1. /\ pc = "get" /\ pc' = "tlb" /\ entry = 0 /\ ~got
      /\ UNCHANGED <<base, regs, entry, pinned, tlb, huge>>
  BY DEF GetMapping, devVars, PinInv, FpgaKnows
<1>2. DriverKnows'
  BY <1>1 DEF DriverKnows
<1>3. CASE UNCHANGED <<map, got>>
  BY <1>1, <1>2, <1>3 DEF PinInv, PinTypes, ProcessKnows, FpgaKnows, Answered
<1>4. CASE map' = [map EXCEPT !.npages = huge.hnpages] /\ UNCHANGED got
  BY <1>1, <1>2, <1>4 DEF PinInv, PinTypes, ProcessKnows, FpgaKnows, Answered
<1>5. CASE /\ map' = [npages |-> huge.hnpages,
                      dma_addr |-> [j \in 1..HugePages |->
                        IF j <= huge.hnpages THEN DmaAddr[j] ELSE NoFrame]]
           /\ got' = TRUE
  <2>1. map'.npages = huge.hnpages /\ DOMAIN map' = {"npages", "dma_addr"}
    BY <1>5
  <2>2. PinTypes'
    BY <1>1, <1>5, <2>1 DEF PinInv, PinTypes
  <2>3. ASSUME pinned > 0
        PROVE  /\ map'.npages = HugeCount(pinned)
               /\ \A j \in 1..map'.npages : map'.dma_addr[j] = Frame(PerHuge * (j - 1))
    <3>0. pinned \in 0..SmallPages /\ HugeCount(pinned) \in 0..h /\ SmallPages \in Nat
      BY <1>0, Counted DEF PinInv, PinTypes, SmallPages
    <3>1. huge.pages = Pinned(pinned) /\ huge.hnpages = HugeCount(pinned)
      BY <1>1, <2>3 DEF PinInv, DriverKnows
    <3>. SUFFICES ASSUME NEW j \in 1..HugeCount(pinned)
         PROVE  map'.dma_addr[j] = Frame(PerHuge * (j - 1))
      BY <2>1, <3>1
    <3>2. j \in 1..HugePages /\ j \in 1..huge.hnpages /\ j <= huge.hnpages
      BY <1>0, <3>0, <3>1
    <3>3. map'.dma_addr[j] = Pinned(pinned)[PerHuge * (j - 1) + 1]
      BY <1>5, <3>1, <3>2 DEF DmaAddr
    <3>4. j - 1 \in Nat /\ j - 1 < HugeCount(pinned)
      BY <3>0
    <3>5. PICK a \in Nat : a = PerHuge * (j - 1) /\ a < pinned
      <4>1. p * (j - 1) \in Nat
        BY <3>4
      <4>. QED BY <1>0, <3>0, <3>4, <4>1, Counted
    <3>6. a + 1 \in 1..SmallPages /\ a + 1 <= pinned /\ (a + 1) - 1 = a
      BY <3>0, <3>5
    <3>7. Pinned(pinned)[a + 1] = Frame(a)
      BY <3>6 DEF Pinned
    <3>. QED BY <3>3, <3>5, <3>7
  <2>4. HugeCount(pinned)' = HugeCount(pinned) /\ (Frame(0) = Frame(0))
    BY <1>1 DEF HugeCount
  <2>5. ProcessKnows'
    BY <1>1, <2>3, <2>4 DEF ProcessKnows, Answered, Frame
  <2>6. FpgaKnows'
    BY <1>0, <1>1, <2>2 DEF PinTypes, FpgaKnows, Answered
  <2>. QED BY <1>2, <2>2, <2>5, <2>6 DEF PinInv
<1>. QED BY <1>3, <1>4, <1>5 DEF GetMapping

LEMMA WriteTlbKeeps ==
  ASSUME PinInv, WriteTlb
  PROVE  PinInv'
<1>0. PICK h \in Nat \ {0} : h = HugePages
  BY DriverAssumption
<1>1. pc = "tlb" /\ entry < map.npages /\ huge' = huge
  BY DEF WriteTlb, devVars
<1>2. CASE regs = MapFailed
  BY <1>1, <1>2, GoneKeeps DEF WriteTlb
<1>3. CASE regs # MapFailed
  <2>1. /\ tlb' = IF regs = NoBar THEN tlb
                  ELSE TlbWrite(base + entry, map.dma_addr[entry + 1], entry = 0)
        /\ entry' = entry + 1
        /\ UNCHANGED <<pc, base, regs, map, pinned, got, huge>>
    BY <1>1, <1>3 DEF WriteTlb
  <2>2. /\ entry \in Nat /\ base \in Nat /\ entry < map.npages /\ map.npages \in 0..h
        /\ DOMAIN tlb.frame = 0..(h - 1)
    BY <1>0, <1>1 DEF PinInv, PinTypes
  <2>3. ASSUME regs # NoBar
        PROVE  tlb' = [base |-> base, frame |-> [tlb.frame EXCEPT ![entry] = map.dma_addr[entry + 1]]]
    <3>1. IF entry = 0 THEN TRUE ELSE tlb.base = base
      BY <2>2, <2>3 DEF PinInv, FpgaKnows
    <3>2. (base + entry) - base = entry /\ (entry = 0 => base + entry = base)
      BY <2>2
    <3>. QED BY <2>1, <2>3, <3>1, <3>2 DEF TlbWrite
  <2>4. PinTypes'
    <3>1. DOMAIN tlb'.frame = 0..(h - 1)
      BY <2>1, <2>2, <2>3
    <3>. QED BY <1>0, <2>1, <2>2, <3>1 DEF PinInv, PinTypes
  <2>5. DriverKnows' /\ ProcessKnows'
    BY <1>1, <2>1 DEF PinInv, DriverKnows, ProcessKnows, Answered, HugeCount, Frame
  <2>6. ASSUME regs # NoBar, Answered, NEW j \in 0..entry
        PROVE  tlb'.frame[j] = Frame(PerHuge * j)
    <3>1. CASE j = entry
      <4>1. entry + 1 \in 1..map.npages /\ (entry + 1) - 1 = entry
        BY <2>2
      <4>2. map.dma_addr[entry + 1] = Frame(PerHuge * entry)
        BY <1>1, <2>6, <4>1 DEF PinInv, ProcessKnows
      <4>. QED BY <2>2, <2>3, <2>6, <3>1, <4>2
    <3>2. CASE j # entry
      <4>1. entry > 0 /\ j \in 0..(entry - 1) /\ j \in 0..(h - 1)
        BY <2>2, <3>2
      <4>2. tlb.frame[j] = Frame(PerHuge * j)
        BY <2>6, <4>1 DEF PinInv, FpgaKnows
      <4>. QED BY <2>2, <2>3, <2>6, <3>2, <4>1, <4>2
    <3>. QED BY <3>1, <3>2
  <2>7. FpgaKnows'
    <3>1. entry' <= map'.npages /\ entry' - 1 = entry
      BY <2>1, <2>2
    <3>2. regs' # NoBar => tlb'.base = base'
      BY <2>1, <2>3
    <3>3. regs' # NoBar /\ Answered' =>
            \A j \in 0..(entry' - 1) : tlb'.frame[j] = Frame(PerHuge * j)
      BY <2>1, <2>6, <3>1 DEF Answered
    <3>. QED BY <1>1, <2>1, <3>1, <3>2, <3>3 DEF FpgaKnows, Frame
  <2>. QED BY <2>4, <2>5, <2>7 DEF PinInv
<1>. QED BY <1>2, <1>3

LEMMA TlbDoneKeeps ==
  ASSUME PinInv, TlbDone
  PROVE  PinInv'
<1>1. /\ pc = "tlb" /\ pc' = "up" /\ entry >= map.npages
      /\ UNCHANGED <<base, regs, map, entry, pinned, got, tlb, huge>>
  BY DEF TlbDone, devVars
<1>2. PinTypes'
  BY <1>1 DEF PinInv, PinTypes
<1>3. DriverKnows' /\ ProcessKnows'
  BY <1>1 DEF PinInv, DriverKnows, ProcessKnows, Answered, HugeCount, Frame
<1>4. FpgaKnows'
  <2>1. entry = map.npages
    BY <1>1, DriverAssumption DEF PinInv, PinTypes, FpgaKnows
  <2>. QED BY <1>1, <2>1 DEF PinInv, FpgaKnows, Answered, Frame
<1>. QED BY <1>2, <1>3, <1>4 DEF PinInv

\* A step that leaves the buffer's pages, the addresses and the TLB alone.
LEMMA OthersKeepPin ==
  ASSUME PinInv, UNCHANGED <<pc, base, regs, map, entry, pinned, got, tlb, huge>>
  PROVE  PinInv'
<1>1. PinTypes'
  BY DEF PinInv, PinTypes
<1>2. DriverKnows' /\ ProcessKnows' /\ FpgaKnows'
  BY DEF PinInv, DriverKnows, ProcessKnows, FpgaKnows, Answered, HugeCount, Pinned, Frame
<1>. QED BY <1>1, <1>2 DEF PinInv

LEMMA PinKeeps ==
  ASSUME PinInv, [HostNext]_hostVars
  PROVE  PinInv'
<1>1. CASE UNCHANGED hostVars
  BY <1>1, OthersKeepPin DEF hostVars, procVars, devVars
<1>2. CASE ProcNext
  <2>1. ASSUME NEW b \in Bases, Start(b)
        PROVE  PinInv'
    BY <2>1, EarlyKeeps, HostAssumption DEF Start, devVars
  <2>2. ASSUME NEW node, NEW here, NEW next, Open(node, here, next),
               {here, next} \cap {"get", "tlb", "up"} = {}
        PROVE  PinInv'
    <3>1. CASE node \in held
      BY <2>2, <3>1, EarlyKeeps DEF Open, devVars, PinInv, PinTypes
    <3>2. CASE node \notin held
      BY <2>2, <3>2, GoneKeeps DEF Open, devVars
    <3>. QED BY <3>1, <3>2
  <2>3. OpenControl \/ OpenBypass => PinInv'
    BY <2>2 DEF OpenControl, OpenBypass
  <2>4. MapControl \/ MapBypass => PinInv'
    BY EarlyKeeps DEF MapControl, MapBypass, MmapReachesInst, PinInv, PinTypes
  <2>5. End => PinInv'
    BY GoneKeeps DEF End, devVars
  <2>. QED BY <1>2, <2>1, <2>3, <2>4, <2>5, SetBufferKeeps, GetMappingKeeps,
              WriteTlbKeeps, TlbDoneKeeps DEF ProcNext
<1>3. CASE DevNext /\ UNCHANGED <<memVars, procVars>>
  BY <1>3, OthersKeepPin DEF DevNext, Probe, ProbeStep, ProbeFails, Remove, procVars
<1>4. CASE pc = "up" /\ MemNext /\ UNCHANGED <<devVars, procVars>>
  BY <1>4, OthersKeepPin DEF procVars, devVars
<1>. QED BY <1>1, <1>2, <1>3, <1>4 DEF HostNext

LEMMA PinStart == HostInit => PinInv
<1>. SUFFICES ASSUME HostInit PROVE PinInv
  OBVIOUS
<1>0. PICK p \in Nat \ {0}, h \in Nat \ {0} : p = PerHuge /\ h = HugePages
  BY DriverAssumption
<1>1. h * p \in Nat
  BY <1>0
<1>2. PinTypes
  <2>1. map.npages = HugePages /\ DOMAIN map = {"npages", "dma_addr"}
    BY DEF HostInit, EmptyMap
  <2>2. huge.hnpages = 0 /\ DOMAIN huge = {"pages", "npages", "hnpages"}
    BY DEF HostInit, DevInit
  <2>3. DOMAIN tlb.frame = 0..(HugePages - 1)
    BY DEF HostInit
  <2>4. base = 0 /\ entry = 0 /\ pinned = 0 /\ got \in BOOLEAN
    BY DEF HostInit
  <2>5. SmallPages \in Nat
    BY <1>0, <1>1 DEF SmallPages
  <2>. QED BY <1>0, <2>1, <2>2, <2>3, <2>4, <2>5 DEF PinTypes
<1>3. DriverKnows /\ ProcessKnows /\ FpgaKnows
  BY <1>0 DEF HostInit, EmptyMap, DriverKnows, ProcessKnows, FpgaKnows
<1>. QED BY <1>2, <1>3 DEF PinInv

LEMMA InvTranslates == PinInv => PinnedIsTranslated
<1>. SUFFICES ASSUME PinInv, pc = "up", got, regs # NoBar, pinned > 0
     PROVE  /\ tlb.base = base
            /\ \A i \in 0..(pinned - 1) :
                 tlb.frame[i \div PerHuge] = Frame(PerHuge * (i \div PerHuge))
  BY DEF PinnedIsTranslated
<1>0. PICK p \in Nat \ {0} : p = PerHuge
  BY DriverAssumption
<1>1. pinned \in 0..SmallPages /\ SmallPages \in Nat /\ pinned \in Nat
  BY DriverAssumption DEF PinInv, PinTypes, SmallPages
<1>2. HugeCount(pinned) \in Nat /\ entry = HugeCount(pinned)
  BY <1>1, Counted DEF PinInv, FpgaKnows, ProcessKnows, Answered
<1>3. ASSUME NEW i \in 0..(pinned - 1)
      PROVE  i \div p \in 0..(entry - 1)
  <2>1. i \in Nat /\ i < pinned
    BY <1>1
  <2>2. PICK q \in Nat : q = i \div p /\ p * q <= i
    BY <2>1
  <2>3. p * q < pinned
    <3>1. p * q \in Nat
      OBVIOUS
    <3>. QED BY <1>1, <2>1, <2>2, <3>1
  <2>4. q < HugeCount(pinned)
    BY <1>0, <1>1, <2>3, Counted
  <2>. QED BY <1>2, <2>2, <2>4
<1>4. entry > 0
  <2>1. 0 \in 0..(pinned - 1) /\ 0 \div p = 0
    BY <1>1
  <2>. QED BY <1>2, <1>3, <2>1
<1>. QED BY <1>0, <1>3, <1>4 DEF PinInv, FpgaKnows, Answered

\* Whatever processes, crashes, removals and failed calls came before: once
\* initializeMemory has returned and the driver has answered it, the FPGA's TLB
\* translates every pinned page of the buffer to its frame, for any size of
\* buffer and pages and any number of pages pinned.
THEOREM BufferTranslated == Spec => []PinnedIsTranslated
<1>1. HostInit => PinInv
  BY PinStart
<1>2. PinInv /\ [HostNext]_hostVars => PinInv'
  BY PinKeeps
<1>3. PinInv => PinnedIsTranslated
  BY InvTranslates
<1>. QED BY <1>1, <1>2, <1>3, PTL DEF Spec

-------------------------------------------------------------------------------
(* The BARs of a card.                                                     *)

LEMMA PresentFinite ==
  ASSUME NEW card
  PROVE  /\ IsFiniteSet(Present(card)) /\ Present(card) \subseteq 0..5
         /\ Cardinality(Present(card)) \in Nat
<1>1. Present(card) \subseteq 0..5
  BY DEF Present, Bars
<1>2. IsFiniteSet(0..5)
  <2>1. 0 \in Int /\ 5 \in Int
    OBVIOUS
  <2>. QED BY ONLY <2>1, FS_Interval, Zenon
<1>3. IsFiniteSet(Present(card))
  BY <1>1, <1>2, FS_Subset
<1>. QED BY <1>1, <1>3, FS_CardinalityType

\* A BAR has the place in the list its number among those present gives it.
LEMMA PlaceIs ==
  ASSUME NEW card, NEW b \in Present(card), NEW k \in Nat,
         Cardinality({c \in Present(card) : c < b}) = k
  PROVE  /\ Place(card, b) = k + 1
         /\ k + 1 \in 1..Cardinality(Present(card)) /\ Len(BarIdList(card)) = Cardinality(Present(card))
         /\ BarIdList(card)[k + 1] \in Present(card)
         /\ Place(card, BarIdList(card)[k + 1]) = k + 1
<1> DEFINE n == Cardinality(Present(card))
<1> DEFINE B == {c \in Present(card) : c < b}
<1>1. Place(card, b) = k + 1
  BY DEF Place
<1>2. k + 1 \in 1..n
  <2>1. IsFiniteSet(B \cup {b})
    <3>1. IsFiniteSet(B)
      BY PresentFinite, FS_Subset
    <3>. QED BY <3>1, FS_AddElement
  <2>2. Cardinality(B \cup {b}) = k + 1
    <3>1. b \notin B /\ IsFiniteSet(B)
      <4>1. IsFiniteSet(B)
        BY PresentFinite, FS_Subset
      <4>2. b \in 0..5
        BY PresentFinite
      <4>. QED BY <4>1, <4>2
    <3>. QED BY <3>1, FS_AddElement
  <2>3. Cardinality(B \cup {b}) <= n
    <3>1. B \cup {b} \subseteq Present(card)
      OBVIOUS
    <3>. QED BY <3>1, PresentFinite, FS_Subset
  <2>. QED BY <2>2, <2>3, PresentFinite
<1>3. Len(BarIdList(card)) = n
  BY PresentFinite DEF BarIdList
<1>4. BarIdList(card)[k + 1] = CHOOSE c \in Present(card) : Place(card, c) = k + 1
  BY <1>2 DEF BarIdList
<1>. QED BY <1>1, <1>2, <1>3, <1>4, Zenon

\* Places tell the BARs apart.
LEMMA PlacesApart ==
  ASSUME NEW card, NEW b \in Present(card), NEW c \in Present(card),
         Place(card, b) = Place(card, c)
  PROVE  b = c
<1>. SUFFICES ASSUME NEW d \in Present(card), NEW e \in Present(card), d < e
              PROVE  Place(card, d) # Place(card, e)
  <2>1. b \in 0..5 /\ c \in 0..5
    BY PresentFinite
  <2>. QED BY <2>1
<1> DEFINE D == {x \in Present(card) : x < d}
<1> DEFINE E == {x \in Present(card) : x < e}
<1>1. IsFiniteSet(D) /\ IsFiniteSet(E)
  BY PresentFinite, FS_Subset
<1>2. D \cup {d} \subseteq E /\ d \notin D
  <2>1. d \in 0..5 /\ e \in 0..5 /\ Present(card) \subseteq 0..5
    BY PresentFinite
  <2>. QED BY <2>1
<1>3. IsFiniteSet(D \cup {d}) /\ Cardinality(D \cup {d}) = Cardinality(D) + 1
  BY <1>1, <1>2, FS_AddElement
<1>4. Cardinality(D \cup {d}) <= Cardinality(E)
  BY <1>1, <1>2, FS_Subset
<1>5. Cardinality(D) \in Nat /\ Cardinality(E) \in Nat
  BY <1>1, FS_CardinalityType
<1>6. Place(card, d) = Cardinality(D) + 1 /\ Place(card, e) = Cardinality(E) + 1
  BY DEF Place
<1> HIDE DEF D, E
<1>. QED BY <1>3, <1>4, <1>5, <1>6

LEMMA ListedIs ==
  ASSUME NEW card, NEW b \in Present(card), NEW k \in Nat,
         Cardinality({c \in Present(card) : c < b}) = k
  PROVE  BarIdList(card)[k + 1] = b
<1>1. /\ Place(card, b) = k + 1 /\ BarIdList(card)[k + 1] \in Present(card)
      /\ Place(card, BarIdList(card)[k + 1]) = k + 1
  BY PlaceIs
<1>. QED BY <1>1, PlacesApart

\* The first and the last BAR of the list are among those present.
LEMMA EndsListed ==
  ASSUME NEW card, Present(card) # {}
  PROVE  /\ BarIdList(card)[1] \in 0..5
         /\ BarIdList(card)[Len(BarIdList(card))] \in 0..5
<1> DEFINE P == Present(card)
<1>1. P # {} /\ P \subseteq 0..5 /\ IsFiniteSet(P) /\ Cardinality(P) \in Nat
  BY PresentFinite
<1> HIDE DEF P
<1>0. P \in SUBSET Int /\ \A x \in P : x \in 0..5
  BY <1>1
<1>2. \E l \in P : \A x \in P : l <= x
  <2>1. PICK a \in P : TRUE
    BY <1>1
  <2>3. CASE 0 \in P
    BY <1>0, <2>3
  <2>4. CASE 0 \notin P /\ 1 \in P
    BY <1>0, <2>4
  <2>5. CASE {0, 1} \cap P = {} /\ 2 \in P
    BY <1>0, <2>5
  <2>6. CASE {0, 1, 2} \cap P = {} /\ 3 \in P
    BY <1>0, <2>6
  <2>7. CASE {0, 1, 2, 3} \cap P = {}
    BY <1>0, <2>1, <2>7
  <2>. QED BY <2>3, <2>4, <2>5, <2>6, <2>7
<1>3. \E h \in P : \A x \in P : x <= h
  <2>1. PICK a \in P : TRUE
    BY <1>1
  <2>3. CASE 5 \in P
    BY <1>0, <2>3
  <2>4. CASE 5 \notin P /\ 4 \in P
    BY <1>0, <2>4
  <2>5. CASE {5, 4} \cap P = {} /\ 3 \in P
    BY <1>0, <2>5
  <2>6. CASE {5, 4, 3} \cap P = {} /\ 2 \in P
    BY <1>0, <2>6
  <2>7. CASE {5, 4, 3, 2} \cap P = {}
    BY <1>0, <2>1, <2>7
  <2>. QED BY <2>3, <2>4, <2>5, <2>6, <2>7
<1>4. PICK l \in P : \A x \in P : l <= x
  BY <1>2
<1>5. PICK h \in P : \A x \in P : x <= h
  BY <1>3
<1>6. {x \in P : x < l} = {} /\ Cardinality({x \in P : x < l}) = 0
  <2>1. ASSUME NEW x \in P, x < l
        PROVE  FALSE
    BY <1>0, <1>4, <2>1
  <2>2. {x \in P : x < l} = {}
    BY <2>1
  <2>. QED BY <2>2, FS_EmptySet
<1>7. Cardinality({x \in P : x < h}) = Cardinality(P) - 1
  <2>1. ASSUME NEW x \in P
        PROVE  x < h <=> x # h
    BY <1>0, <1>5
  <2>2. {x \in P : x < h} = P \ {h}
    <3>1. ~(h < h)
      BY <1>0
    <3>. QED BY <2>1, <3>1
  <2>. QED BY <1>1, <2>2, FS_RemoveElement
<1>8. Cardinality(P) - 1 \in Nat
  <2>1. Cardinality(P) # 0
    BY <1>1, FS_EmptySet
  <2>. QED BY <1>1, <2>1
<1>9. BarIdList(card)[0 + 1] = l /\ Len(BarIdList(card)) = Cardinality(P)
  BY <1>4, <1>6, ListedIs, PlaceIs DEF P
<1>10. BarIdList(card)[(Cardinality(P) - 1) + 1] = h
  BY <1>5, <1>7, <1>8, ListedIs DEF P
<1>11. (Cardinality(P) - 1) + 1 = Cardinality(P)
  BY <1>1
<1>. QED BY <1>1, <1>4, <1>5, <1>9, <1>10, <1>11

\* So are the ones identify_bars takes for the user's and the bypass.
LEMMA IdentifiedTypes ==
  ASSUME NEW card
  PROVE  IdentifyBars(card) \in [user : -1..5, bypass : -1..5]
<1>1. Len(BarIdList(card)) = Cardinality(Present(card))
  BY PresentFinite DEF BarIdList
<1>2. Len(BarIdList(card)) \in {2, 3} => Present(card) # {}
  BY <1>1, FS_EmptySet
<1>3. NoBars = [user |-> -1, bypass |-> -1]
  BY DEF NoBars, NoBar
<1>4. CASE Len(BarIdList(card)) = 2
  BY <1>2, <1>3, <1>4, EndsListed DEF IdentifyBars
<1>5. CASE Len(BarIdList(card)) = 3
  <2>0. Present(card) # {}
    BY <1>2, <1>5
  <2>3. BarIdList(card)[1] \in 0..5 /\ BarIdList(card)[3] \in 0..5
    BY <1>5, <2>0, EndsListed
  <2>1. BarIdList(card)[1] \in -1..5 /\ BarIdList(card)[3] \in -1..5
    BY <2>3
  <2>2. IdentifyBars(card) =
          IF ConfigBarPos(card) = 1
          THEN [user |-> BarIdList(card)[1], bypass |-> BarIdList(card)[3]] ELSE NoBars
    BY <1>5 DEF IdentifyBars
  <2>. QED BY <1>3, <2>1, <2>2
<1>6. CASE Len(BarIdList(card)) \notin {2, 3}
  BY <1>3, <1>6 DEF IdentifyBars
<1>. QED BY <1>4, <1>5, <1>6

\* The rules above identify_bars: each kind of BAR at most once, the user's
\* before the config BAR and the bypass behind it.
WellLaid(card) ==
  \A b \in Present(card), c \in Present(card) :
    b < c => <<card[b], card[c]>> \in
               {<<"user", "config">>, <<"config", "bypass">>, <<"user", "bypass">>}

LEMMA RulesSuffice ==
  ASSUME NEW card \in [Bars -> {"none", "user", "config", "bypass"}], WellLaid(card),
         HasConfigBar(card)
  PROVE  Found(card, IdentifyBars(card))
<1>1. PICK c \in Bars : card[c] = "config"
  BY DEF HasConfigBar
<1>2. \A b \in Present(card) : b \in Bars /\ card[b] \in {"user", "config", "bypass"}
  BY DEF Present
<1>3. c \in Present(card) /\ Present(card) \subseteq 0..5
  BY <1>1, PresentFinite DEF Present
<1>4. \A b \in Present(card) :
        /\ b < c <=> card[b] = "user"
        /\ b = c <=> card[b] = "config"
        /\ c < b <=> card[b] = "bypass"
  <2>. SUFFICES ASSUME NEW b \in Present(card)
                PROVE  /\ b < c => card[b] = "user"
                       /\ b = c => card[b] = "config"
                       /\ c < b => card[b] = "bypass"
    BY <1>2, <1>3
  <2>1. b < c => <<card[b], card[c]>> = <<"user", "config">>
    BY <1>1, <1>3 DEF WellLaid
  <2>2. c < b => <<card[c], card[b]>> = <<"config", "bypass">>
    BY <1>1, <1>3 DEF WellLaid
  <2>. QED BY <1>1, <2>1, <2>2
<1>5. \A a \in Present(card), b \in Present(card) : card[a] = card[b] => a = b
  <2>. SUFFICES ASSUME NEW a \in Present(card), NEW b \in Present(card), a < b
                PROVE  card[a] # card[b]
    BY <1>3
  <2>. QED BY DEF WellLaid
<1>6. ConfigBarIdx(card) = c
  <2>1. \A b \in Bars : card[b] = "config" => b = c
    BY <1>4 DEF Present
  <2>2. \A b \in Bars : b < c => card[b] # "config"
    BY <2>1 DEF Bars
  <2>. QED BY <1>1, <2>1, <2>2, Zenon DEF ConfigBarIdx
<1>7. \A b \in Bars : card[b] # "none" <=> b \in Present(card)
  BY DEF Present
<1> DEFINE P == Present(card)
<1> DEFINE L == {x \in P : x < c}
<1>8. IsFiniteSet(P) /\ Cardinality(P) \in Nat /\ Len(BarIdList(card)) = Cardinality(P)
  BY PresentFinite DEF BarIdList
<1>9. CASE \E u \in P : card[u] = "user"
  <2>1. PICK u \in P : card[u] = "user"
    BY <1>9
  <2>2. L = {u} /\ {x \in P : x < u} = {} /\ u < c
    BY <1>3, <1>4, <1>5, <2>1
  <2>3. Cardinality(L) = 1 /\ Cardinality({x \in P : x < u}) = 0
    BY <2>2, FS_Singleton, FS_EmptySet
  <2>4. ConfigBarPos(card) = 1 /\ BarIdList(card)[1] = u
    <3>1. Place(card, c) = 2
      BY <2>3 DEF Place
    <3>2. BarIdList(card)[0 + 1] = u
      BY <2>3, ListedIs
    <3>. QED BY <1>6, <3>1, <3>2 DEF ConfigBarPos
  <2>5. CASE \E y \in P : card[y] = "bypass"
    <3>1. PICK y \in P : card[y] = "bypass"
      BY <2>5
    <3>2. {x \in P : x < y} = {u} \cup {c} /\ P = ({u} \cup {c}) \cup {y} /\ u # c /\ y \notin {u} \cup {c}
      BY <1>2, <1>3, <1>4, <1>5, <2>1, <2>2, <3>1
    <3>3. IsFiniteSet({u}) /\ Cardinality({u}) = 1
      BY FS_Singleton
    <3>4. IsFiniteSet({u} \cup {c}) /\ Cardinality({u} \cup {c}) = 2
      BY <3>2, <3>3, FS_AddElement
    <3>5. Cardinality(({u} \cup {c}) \cup {y}) = 3
      BY <3>2, <3>4, FS_AddElement
    <3>6. BarIdList(card)[2 + 1] = y
      BY <3>1, <3>2, <3>4, ListedIs
    <3>8. Len(BarIdList(card)) = 3 /\ BarIdList(card)[3] = y
      <4>1. Cardinality(P) = 3
        BY <3>2, <3>5, Zenon
      <4>. QED BY <1>8, <3>6, <4>1
    <3>7. IdentifyBars(card) = [user |-> u, bypass |-> y]
      BY <2>4, <3>8 DEF IdentifyBars
    <3>. QED BY <1>2, <2>1, <3>1, <3>7 DEF Found
  <2>6. CASE ~\E y \in P : card[y] = "bypass"
    <3>1. P = {u} \cup {c} /\ u # c
      BY <1>2, <1>3, <1>4, <1>5, <2>1, <2>2, <2>6
    <3>2. IsFiniteSet({u}) /\ Cardinality({u}) = 1
      BY FS_Singleton
    <3>3. Cardinality({u} \cup {c}) = 2
      BY <3>1, <3>2, FS_AddElement
    <3>6. Len(BarIdList(card)) = 2
      <4>1. Cardinality(P) = 2
        BY <3>1, <3>3, Zenon
      <4>. QED BY <1>8, <4>1
    <3>4. IdentifyBars(card) = [user |-> u, bypass |-> NoBar]
      BY <2>4, <3>6 DEF IdentifyBars, NoBars
    <3>5. ~\E b \in Bars : card[b] = "bypass"
      BY <1>7, <2>6
    <3>. QED BY <1>2, <2>1, <3>4, <3>5 DEF Found
  <2>. QED BY <2>5, <2>6
<1>10. CASE ~\E u \in P : card[u] = "user"
  <2>1. ~\E b \in Bars : card[b] = "user"
    BY <1>7, <1>10
  <2>2. L = {} /\ Cardinality(L) = 0
    <3>1. L = {}
      BY <1>4, <1>10
    <3>. QED BY <3>1, FS_EmptySet
  <2>3. ConfigBarPos(card) = 0
    <3>1. Place(card, c) = 1
      BY <2>2 DEF Place
    <3>. QED BY <1>6, <3>1 DEF ConfigBarPos
  <2>4. CASE \E y \in P : card[y] = "bypass"
    <3>1. PICK y \in P : card[y] = "bypass"
      BY <2>4
    <3>2. {x \in P : x < y} = {c} /\ P = {c} \cup {y} /\ c # y
      BY <1>2, <1>3, <1>4, <1>5, <1>10, <3>1
    <3>3. IsFiniteSet({c}) /\ Cardinality({c}) = 1
      BY FS_Singleton
    <3>4. Cardinality({c} \cup {y}) = 2
      BY <3>2, <3>3, FS_AddElement
    <3>5. BarIdList(card)[1 + 1] = y
      BY <3>1, <3>2, <3>3, ListedIs
    <3>7. Len(BarIdList(card)) = 2 /\ BarIdList(card)[2] = y
      <4>1. Cardinality(P) = 2
        BY <3>2, <3>4, Zenon
      <4>. QED BY <1>8, <3>5, <4>1
    <3>6. IdentifyBars(card) = [user |-> NoBar, bypass |-> y]
      BY <2>3, <3>7 DEF IdentifyBars, NoBars
    <3>. QED BY <1>2, <2>1, <3>1, <3>6 DEF Found
  <2>5. CASE ~\E y \in P : card[y] = "bypass"
    <3>1. P = {c}
      BY <1>2, <1>3, <1>4, <1>10, <2>5
    <3>2. Cardinality(P) = 1
      BY <3>1, FS_Singleton
    <3>3. IdentifyBars(card) = NoBars
      BY <1>8, <3>2 DEF IdentifyBars
    <3>4. ~\E b \in Bars : card[b] = "bypass"
      BY <1>7, <2>5
    <3>. QED BY <2>1, <3>3, <3>4 DEF Found, NoBars
  <2>. QED BY <2>4, <2>5
<1>. QED BY <1>9, <1>10

-------------------------------------------------------------------------------
(* probe and remove.                                                       *)

\* identify_bars is right about the card, if it gets that far.
KnownCard == HasConfigBar(layout) => Found(layout, IdentifyBars(layout))

\* What probe has taken before the step it is at, and what was left behind.
Probing ==
  /\ drvdata <=> step > 1
  /\ "inst" \in held <=> step > 1
  /\ step > 2 => "device" \in held
  /\ step <= 2 /\ "device" \in held => inUse
  /\ "msi" \in held <=> step > 3 /\ msiKind = "msi"
  /\ step > 3 /\ msiKind = "msix" => "msix" \in held
  /\ "regions" \in held <=> step > 4
  /\ step > 4 => ~inUse
  /\ "bars" \in held <=> step > 5
  /\ step > 5 => BarsFound
  /\ step > 8 => "control" \in held
  /\ "bypass" \notin held

ProbeTypes ==
  /\ msiKind \in {"msix", "msi", "none"} /\ bound \in {"no", "probing", "yes"}
  /\ step \in 1..9 /\ (bound # "probing" => step = 1)
  /\ held \subseteq {"inst", "device", "msix", "msi", "regions", "bars",
                     "control", "bypass"}
  /\ "msix" \in held => msiKind = "msix"

ProbeInv ==
  /\ KnownCard /\ ProbeTypes
  /\ bound = "probing" => Probing
  /\ bound = "no" => ~drvdata
  /\ ProbeUnwinds

LEMMA StepNames ==
  /\ Len(Steps) = 9 /\ Steps[1] = "inst" /\ Steps[2] = "device" /\ Steps[3] = "msi"
  /\ Steps[4] = "regions" /\ Steps[5] = "bars" /\ Steps[6] = "mask"
  /\ Steps[7] = "engines" /\ Steps[8] = "control" /\ Steps[9] = "bypass"
  BY DEF Steps

LEMMA SameDevice ==
  ASSUME ProbeInv,
         UNCHANGED <<layout, msiKind, inUse, bound, step, held, drvdata, idx>>
  PROVE  ProbeInv'
<1>1. KnownCard' /\ BarsFound' = BarsFound
  BY DEF ProbeInv, KnownCard, BarsFound
<1>2. ProbeTypes'
  BY DEF ProbeInv, ProbeTypes
<1>3. Probing' = Probing
  BY <1>1 DEF Probing
<1>4. ProbeUnwinds'
  BY <1>1 DEF ProbeInv, ProbeUnwinds, Everything, Leaks, Taken
<1>. QED BY <1>1, <1>2, <1>3, <1>4 DEF ProbeInv

\* The card stays what it is.
LEMMA SameCard ==
  ASSUME ProbeInv, layout' = layout
  PROVE  KnownCard'
  BY DEF ProbeInv, KnownCard

LEMMA ProbeKeeps ==
  ASSUME ProbeInv, Probe
  PROVE  ProbeInv'
<1>1. /\ bound = "no" /\ bound' = "probing" /\ step = 1 /\ step' = 1 /\ ~drvdata
      /\ held \subseteq Leaks
      /\ UNCHANGED <<layout, msiKind, inUse, held, drvdata>>
  BY DEF Probe, ProbeInv, ProbeTypes, ProbeUnwinds
<1>2. Probing'
  BY <1>1 DEF Probing, Leaks
<1>3. ProbeTypes' /\ ProbeUnwinds'
  BY <1>1 DEF ProbeInv, ProbeTypes, ProbeUnwinds
<1>. QED BY <1>1, <1>2, <1>3, SameCard DEF ProbeInv

LEMMA ProbeStepKeeps ==
  ASSUME ProbeInv, ProbeStep
  PROVE  ProbeInv'
<1>1. /\ bound = "probing" /\ Probing /\ step \in 1..9 /\ ~MustFail(Steps[step])
      /\ held' = held \cup Taken(Steps[step])
      /\ drvdata' = (drvdata \/ Steps[step] = "inst")
      /\ Steps[step] \notin {"inst", "bars"} => idx' = idx
      /\ bound' = IF step = 9 THEN "yes" ELSE "probing"
      /\ step' = IF step = 9 THEN 1 ELSE step + 1
      /\ UNCHANGED <<layout, msiKind, inUse>>
  BY StepNames DEF ProbeStep, ProbeInv, ProbeTypes
<1>2. step > 4 => BarsFound'
  <2>1. ASSUME idx' = idx
        PROVE  BarsFound' = BarsFound
    BY <1>1, <2>1 DEF BarsFound
  <2>2. CASE step = 5
    <3>0. Steps[step] = "bars"
      BY <2>2, StepNames
    <3>1. HasConfigBar(layout)
      BY <1>1, <3>0 DEF MustFail
    <3>2. idx' = IdentifyBars(layout)
      <4>1. idx' = CASE Steps[step] = "inst" -> NoBars
                     [] Steps[step] = "bars" -> IdentifyBars(layout)
                     [] OTHER -> idx
        BY DEF ProbeStep
      <4>2. "bars" # "inst"
        OBVIOUS
      <4>. QED BY <3>0, <4>1, <4>2
    <3>. QED BY <1>1, <3>1, <3>2 DEF ProbeInv, KnownCard, BarsFound
  <2>3. CASE step > 5
    <3>1. Steps[step] \notin {"inst", "bars"}
      BY <1>1, <2>3, StepNames
    <3>. QED BY <1>1, <2>1, <2>3, <3>1 DEF Probing
  <2>. QED BY <1>1, <2>2, <2>3
<1>3. ProbeTypes'
  <2>1. held' \subseteq {"inst", "device", "msix", "msi", "regions", "bars",
                        "control", "bypass"}
    BY <1>1, StepNames DEF ProbeInv, ProbeTypes, Taken
  <2>2. "msix" \in held' => msiKind' = "msix"
    BY <1>1, StepNames DEF ProbeInv, ProbeTypes, Taken
  <2>. QED BY <1>1, <2>1, <2>2 DEF ProbeInv, ProbeTypes
<1>4. CASE step = 9
  <2>0. Taken("bypass") = {"bypass"}
    BY DEF Taken
  <2>1. held' = held \cup {"bypass"} /\ bound' = "yes"
    BY <1>1, <1>4, <2>0, StepNames
  <2>2. Everything' = Everything
    BY <1>1 DEF Everything, Taken
  <2>3. held' = Everything
    BY <1>1, <1>4, <2>1 DEF Probing, Everything, Taken, ProbeInv, ProbeTypes
  <2>4. BarsFound' /\ bound' # "no" /\ bound' # "probing"
    BY <1>2, <1>4, <2>1
  <2>5. drvdata'
    <3>1. drvdata
      BY <1>1, <1>4 DEF Probing
    <3>. QED BY <1>1, <3>1
  <2>6. ProbeUnwinds'
    BY <2>2, <2>3, <2>4, <2>5 DEF ProbeUnwinds
  <2>7. KnownCard'
    BY <1>1, SameCard
  <2>. QED BY <1>3, <2>4, <2>6, <2>7 DEF ProbeInv
<1>5. CASE step < 9
  <2>1. bound' = "probing" /\ step' = step + 1 /\ ProbeUnwinds'
    BY <1>1, <1>5 DEF ProbeUnwinds
  <2>2. /\ Steps[step] = "inst" <=> step = 1
        /\ Steps[step] = "device" <=> step = 2
        /\ Steps[step] = "msi" <=> step = 3
        /\ Steps[step] = "regions" <=> step = 4
        /\ Steps[step] = "bars" <=> step = 5
        /\ Steps[step] = "control" <=> step = 8
        /\ Steps[step] \notin {"bypass", "msix"}
        /\ Steps[step] \in {"mask", "engines"} <=> step \in {6, 7}
    BY <1>1, <1>5, StepNames
  <2>3. Probing'
    <3>1. /\ "inst" \in held' <=> "inst" \in held \/ step = 1
          /\ "device" \in held' <=> "device" \in held \/ step = 2
          /\ "msi" \in held' <=> "msi" \in held \/ (step = 3 /\ msiKind = "msi")
      BY <1>1, <2>2 DEF Taken, ProbeInv, ProbeTypes
    <3>2. /\ "regions" \in held' <=> "regions" \in held \/ step = 4
          /\ "bars" \in held' <=> "bars" \in held \/ step = 5
      BY <1>1, <2>2 DEF Taken, ProbeInv, ProbeTypes
    <3>6. "msix" \in held' <=> "msix" \in held \/ (step = 3 /\ msiKind = "msix")
      BY <1>1, <2>2 DEF Taken, ProbeInv, ProbeTypes
    <3>3. /\ "control" \in held' <=> "control" \in held \/ step = 8
          /\ "bypass" \in held' <=> "bypass" \in held
      BY <1>1, <2>2 DEF Taken, ProbeInv, ProbeTypes
    <3>4. drvdata' <=> drvdata \/ step = 1
      BY <1>1, <2>2
    <3>5. step = 4 => ~inUse
      BY <1>1, <2>2 DEF MustFail
    <3>. QED BY <1>1, <1>2, <2>1, <3>1, <3>2, <3>3, <3>4, <3>5, <3>6 DEF Probing
  <2>. QED BY <1>1, <1>3, <2>1, <2>3, SameCard DEF ProbeInv
<1>. QED BY <1>1, <1>4, <1>5

LEMMA ProbeFailsKeeps ==
  ASSUME ProbeInv, ProbeFails
  PROVE  ProbeInv'
<1>1. /\ bound = "probing" /\ Probing /\ step \in 1..9
      /\ MustFail(Steps[step]) \/ MayFail(Steps[step])
      /\ held' = held \ UnwindFrom(Steps[step])
      /\ ~drvdata' /\ bound' \in {"yes", "no"} /\ step' = 1
      /\ UNCHANGED <<layout, msiKind, inUse>>
  BY DEF ProbeFails, ProbeInv, ProbeTypes
<1>2. ProbeTypes'
  <2>1. held' \subseteq held
    BY <1>1
  <2>2. bound' \in {"no", "probing", "yes"} /\ step' \in 1..9 /\ step' = 1 /\ msiKind' = msiKind
    BY <1>1
  <2>. QED BY <2>1, <2>2 DEF ProbeInv, ProbeTypes
<1>3. held' \subseteq Leaks
  <2>1. CASE step \in 1..3
    BY <1>1, <2>1, StepNames DEF Probing, UnwindFrom, Leaks, ProbeInv, ProbeTypes
  <2>2. CASE step = 4
    <3>1. inUse
      BY <1>1, <2>2, StepNames DEF MustFail, MayFail
    <3>. QED BY <1>1, <2>2, <3>1, StepNames
             DEF Probing, UnwindFrom, Leaks, ProbeInv, ProbeTypes
  <2>3. CASE step \in 5..9
    BY <1>1, <2>3, StepNames DEF Probing, UnwindFrom, Leaks, ProbeInv, ProbeTypes
  <2>. QED BY <1>1, <2>1, <2>2, <2>3
<1>4. ProbeUnwinds'
  BY <1>1, <1>3 DEF ProbeUnwinds, Leaks
<1>. QED BY <1>1, <1>2, <1>4, SameCard DEF ProbeInv

LEMMA RemoveKeeps ==
  ASSUME ProbeInv, Remove
  PROVE  ProbeInv'
<1>1. /\ bound = "yes" /\ bound' = "no" /\ ~drvdata' /\ step' = step
      /\ held' = IF drvdata THEN {} ELSE held
      /\ UNCHANGED <<layout, msiKind, inUse>>
  BY DEF Remove
<1>2. held' \subseteq held /\ held' \subseteq Leaks'
  BY <1>1 DEF ProbeInv, ProbeUnwinds, Leaks
<1>3. ProbeTypes' /\ ProbeUnwinds'
  BY <1>1, <1>2 DEF ProbeInv, ProbeTypes, ProbeUnwinds
<1>. QED BY <1>1, <1>3, SameCard DEF ProbeInv

\* On every card that follows the rules above identify_bars: however often
\* probe failed, wherever it failed and whenever the driver was removed, a
\* bound driver holds everything and knows the card's BARs, and any other only
\* what the failures are known to leave behind.
THEOREM ProbeLeavesNothing == Spec /\ WellLaid(layout) => []ProbeUnwinds
<1>1. HostInit /\ WellLaid(layout) => ProbeInv
  <2>. SUFFICES ASSUME HostInit, WellLaid(layout) PROVE ProbeInv
    OBVIOUS
  <2>1. layout \in [Bars -> {"none", "user", "config", "bypass"}]
    BY DriverAssumption DEF HostInit, DevInit
  <2>2. KnownCard
    BY <2>1, RulesSuffice DEF KnownCard
  <2>. QED BY <2>2 DEF HostInit, DevInit, ProbeInv, ProbeTypes, ProbeUnwinds, Leaks
<1>2. ProbeInv /\ [HostNext]_hostVars => ProbeInv'
  <2>. SUFFICES ASSUME ProbeInv, [HostNext]_hostVars PROVE ProbeInv'
    OBVIOUS
  <2>1. DevNext => ProbeInv'
    BY ProbeKeeps, ProbeStepKeeps, ProbeFailsKeeps, RemoveKeeps DEF DevNext
  <2>2. ProcNext =>
          UNCHANGED <<layout, msiKind, inUse, bound, step, held, drvdata, idx>>
    BY DEF ProcNext, Start, OpenControl, OpenBypass, Open, MapControl, MapBypass,
           MmapReachesInst, SetBuffer, BufferSet, BufferSetError, GetMapping,
           WriteTlb, TlbDone, End, devVars
  <2>3. UNCHANGED devVars =>
          UNCHANGED <<layout, msiKind, inUse, bound, step, held, drvdata, idx>>
    BY DEF devVars
  <2>. QED BY <2>1, <2>2, <2>3, SameDevice DEF HostNext, hostVars
<1>3. ProbeInv => ProbeUnwinds
  BY DEF ProbeInv
<1>. QED BY <1>1, <1>2, <1>3, PTL DEF Spec

-------------------------------------------------------------------------------
(* Types.                                                                  *)

\* What is asked for or freed, and who allocates.
CallTypes ==
  /\ arg \in [Threads -> Sizes \cup Units] /\ mutex \in Threads \cup {"nobody"}

Places == {"down", "open_control", "open_bypass", "map_control", "map_bypass",
           "set", "get", "tlb", "up"}
ProcTypes ==
  /\ pc \in Places /\ base \in Bases \cup {0} /\ regs \in -2..5
  /\ DOMAIN map.dma_addr = 1..HugePages
  /\ tlb.base \in Bases \cup {0} /\ starts \in 0..MaxStarts

HostTypes == DevTypeOK /\ CallTypes /\ ProcTypes

HostInv == MemInv /\ PinInv /\ HostTypes

LEMMA CallKeeps ==
  ASSUME MemInv, CallTypes, NEW t \in Threads, ThreadStep(t)
  PROVE  CallTypes'
<1>0. 0 \in Units
  BY Constants DEF Units
<1>1. ASSUME NEW n \in Sizes, AllocEnter(t, n)
      PROVE  CallTypes'
  BY <1>1 DEF AllocEnter, CallTypes
<1>2. ASSUME NEW a \in live, FreeEnter(t, a)
      PROVE  CallTypes'
  <2>1. a.addr \in Units
    BY DEF MemInv, OwnInv, MemTypes
  <2>. QED BY <1>2, <2>1 DEF FreeEnter, CallTypes
<1>3. CASE AllocLock(t)
  BY <1>3 DEF AllocLock, CallTypes
<1>4. CASE AllocPass(t) \/ AllocFit(t) \/ AllocTake(t) \/ FreeVisit(t) \/ FreeRelease(t)
  BY <1>4 DEF AllocPass, AllocFit, AllocTake, FreeVisit, FreeRelease, CallTypes
<1>5. CASE AllocSplit(t) \/ AllocFail(t) \/ FreeEnd(t)
  BY <1>0, <1>5 DEF AllocSplit, AllocFail, FreeEnd, Return, CallTypes
<1>. QED BY <1>1, <1>2, <1>3, <1>4, <1>5 DEF ThreadStep

LEMMA DevKeeps ==
  ASSUME DevTypeOK, DevNext
  PROVE  DevTypeOK'
<1>0. Len(Steps) = 9
  BY StepNames
<1>1. CASE Probe
  BY <1>0, <1>1, DriverAssumption DEF Probe, DevTypeOK
<1>2. CASE ProbeStep
  <2>1. idx' \in [user : -1..5, bypass : -1..5]
    <3>1. idx' \in {NoBars, IdentifyBars(layout), idx}
      BY <1>2 DEF ProbeStep
    <3>2. NoBars \in [user : -1..5, bypass : -1..5]
      BY DEF NoBars, NoBar
    <3>. QED BY <3>1, <3>2, IdentifiedTypes DEF DevTypeOK
  <2>2. step \in 1..9 /\ step' = (IF step = 9 THEN 1 ELSE step + 1)
    BY <1>0, <1>2 DEF ProbeStep, DevTypeOK
  <2>3. step' \in 1..9
    BY <2>2
  <2>4. held' \subseteq {"inst", "device", "msix", "msi", "regions", "bars",
                        "control", "bypass"}
    BY <1>2, <2>2, StepNames DEF ProbeStep, DevTypeOK, Taken
  <2>5. bound' \in {"probing", "yes"} /\ drvdata' \in BOOLEAN
    BY <1>2 DEF ProbeStep
  <2>6. UNCHANGED <<layout, msiKind, inUse, huge, kernel, probes>>
    BY <1>2 DEF ProbeStep
  <2>. QED BY <1>0, <2>1, <2>3, <2>4, <2>5, <2>6 DEF DevTypeOK
<1>3. CASE ProbeFails
  <2>1. held' \subseteq held
    BY <1>3 DEF ProbeFails
  <2>4. bound' \in {"no", "yes"} /\ drvdata' \in BOOLEAN
    BY <1>3, Zenon DEF ProbeFails
  <2>2. step' \in 1..9
    BY <1>3 DEF ProbeFails
  <2>3. UNCHANGED <<layout, msiKind, inUse, idx, huge, kernel, probes>>
    BY <1>3 DEF ProbeFails
  <2>. QED BY <1>0, <2>1, <2>2, <2>3, <2>4 DEF DevTypeOK
<1>4. CASE Remove
  BY <1>4 DEF Remove, DevTypeOK
<1>. QED BY <1>1, <1>2, <1>3, <1>4 DEF DevNext

\* A step of the process: what the driver and the process keep.
LEMMA ProcKeeps ==
  ASSUME PinInv, PinInv', DevTypeOK, ProcTypes, ProcNext
  PROVE  DevTypeOK' /\ ProcTypes'
<1>0. /\ HugePages \in Nat \ {0} /\ SmallPages \in Nat /\ MaxStarts \in Nat
      /\ DOMAIN EmptyMap.dma_addr = 1..HugePages
      /\ huge'.hnpages \in 0..HugePages
  BY DriverAssumption, HostAssumption DEF SmallPages, EmptyMap, PinInv, PinTypes
<1>1. ASSUME UNCHANGED devVars
      PROVE  DevTypeOK'
  BY <1>1 DEF devVars, DevTypeOK
<1>2. ASSUME Gone
      PROVE  ProcTypes'
  BY <1>0, <1>2 DEF Gone, ProcTypes, Places, MapFailed
<1>3. ASSUME NEW b \in Bases, Start(b)
      PROVE  DevTypeOK' /\ ProcTypes'
  BY <1>0, <1>1, <1>3 DEF Start, ProcTypes, Places
<1>4. ASSUME NEW node, NEW here, NEW next \in Places, Open(node, here, next)
      PROVE  DevTypeOK' /\ ProcTypes'
  <2>1. CASE Gone
    BY <1>1, <1>2, <1>4, <2>1 DEF Open
  <2>2. CASE pc' = next /\ UNCHANGED <<base, regs, map, tlb, starts>>
    BY <1>1, <1>4, <2>2 DEF Open, ProcTypes
  <2>. QED BY <1>4, <2>1, <2>2 DEF Open
<1>5. CASE OpenControl \/ OpenBypass
  BY <1>4, <1>5 DEF OpenControl, OpenBypass, Places
<1>6. CASE MapControl \/ MapBypass
  <2>1. DevTypeOK'
    BY <1>6 DEF MapControl, MapBypass, MmapReachesInst, DevTypeOK
  <2>2. regs' = regs \/ regs' \in {idx.user, MapFailed}
    BY <1>6 DEF MapControl, MapBypass
  <2>3. regs' \in -2..5
    BY <2>2 DEF MapFailed, DevTypeOK, ProcTypes
  <2>4. pc' \in Places /\ UNCHANGED <<base, map, tlb, starts>>
    BY <1>6 DEF MapControl, MapBypass, Places
  <2>. QED BY <2>1, <2>3, <2>4 DEF ProcTypes
<1>7. CASE SetBuffer
  <2>1. pc' \in Places /\ UNCHANGED <<base, regs, map, tlb, starts>>
    BY <1>7 DEF SetBuffer, Places
  <2>2. ASSUME NEW n \in 0..SmallPages, BufferSet(n)
        PROVE  DevTypeOK'
    <3>1. huge'.npages = huge.npages \/ huge'.npages = n
      BY <2>2 DEF BufferSet, PinInv, PinTypes
    <3>2. huge'.npages \in 0..SmallPages
      BY <3>1 DEF DevTypeOK
    <3>. QED BY <1>0, <2>2, <3>2 DEF BufferSet, DevTypeOK
  <2>3. ASSUME BufferSetError
        PROVE  DevTypeOK'
    BY <2>3 DEF BufferSetError, DevTypeOK
  <2>. QED BY <1>7, <2>1, <2>2, <2>3 DEF SetBuffer, ProcTypes
<1>8. CASE GetMapping
  <2>1. DOMAIN map'.dma_addr = 1..HugePages
    <3>1. CASE map' = map
      BY <3>1 DEF ProcTypes
    <3>2. CASE map' = [map EXCEPT !.npages = huge.hnpages]
      BY <3>2 DEF ProcTypes, PinInv, PinTypes
    <3>3. CASE map' = [npages |-> huge.hnpages,
                       dma_addr |-> [j \in 1..HugePages |->
                         IF j <= huge.hnpages THEN DmaAddr[j] ELSE NoFrame]]
      BY <3>3
    <3>. QED BY <1>8, <3>1, <3>2, <3>3 DEF GetMapping
  <2>. QED BY <1>1, <1>8, <2>1 DEF GetMapping, ProcTypes, Places
<1>9. CASE WriteTlb
  <2>1. CASE regs = MapFailed
    BY <1>1, <1>2, <1>9, <2>1 DEF WriteTlb
  <2>2. CASE regs # MapFailed
    <3>1. tlb'.base \in Bases \cup {0}
      <4>1. CASE tlb' = tlb
        BY <4>1 DEF ProcTypes
      <4>2. CASE tlb' = TlbWrite(base + entry, map.dma_addr[entry + 1], entry = 0)
        <5>1. tlb'.base = IF entry = 0 THEN base + entry ELSE tlb.base
          BY <4>2 DEF TlbWrite
        <5>2. base + 0 = base
          BY DEF PinInv, PinTypes
        <5>. QED BY <5>1, <5>2 DEF ProcTypes
      <4>. QED BY <1>9, <2>2, <4>1, <4>2 DEF WriteTlb
    <3>. QED BY <1>1, <1>9, <2>2, <3>1 DEF WriteTlb, ProcTypes
  <2>. QED BY <2>1, <2>2
<1>10. CASE TlbDone
  BY <1>1, <1>10 DEF TlbDone, ProcTypes, Places
<1>11. CASE End
  BY <1>1, <1>2, <1>11 DEF End
<1>. QED BY <1>3, <1>5, <1>6, <1>7, <1>8, <1>9, <1>10, <1>11 DEF ProcNext

LEMMA HostStarts == HostInit => HostInv
<1>. SUFFICES ASSUME HostInit PROVE HostTypes /\ MemInv
  BY PinStart DEF HostInv
<1>0. /\ HugePages \in Nat \ {0} /\ SmallPages \in Nat /\ MaxStarts \in Nat /\ MaxProbes \in Nat
      /\ 0 \in Units
  BY DriverAssumption, HostAssumption, Constants DEF SmallPages, Units
<1>1. DevTypeOK
  <2>1. huge.npages = 0 /\ huge.hnpages = 0
    BY DEF HostInit, DevInit
  <2>2. idx \in [user : -1..5, bypass : -1..5]
    BY DEF HostInit, DevInit, NoBars, NoBar
  <2>3. step \in 1..Len(Steps)
    BY StepNames DEF HostInit, DevInit
  <2>4. bound = "no" /\ held = {} /\ kernel = "ok" /\ probes = 0
    BY DEF HostInit, DevInit
  <2>6. drvdata \in BOOLEAN
    BY Zenon DEF HostInit, DevInit
  <2>5. layout \in Layouts /\ msiKind \in {"msix", "msi", "none"} /\ inUse \in BOOLEAN
    BY DEF HostInit, DevInit
  <2>. QED BY <1>0, <2>1, <2>2, <2>3, <2>4, <2>5, <2>6 DEF DevTypeOK
<1>2. CallTypes
  BY <1>0 DEF HostInit, MemInit, CallTypes
<1>3. ProcTypes
  <2>1. DOMAIN map.dma_addr = 1..HugePages
    BY DEF HostInit, EmptyMap
  <2>. QED BY <1>0, <2>1 DEF HostInit, ProcTypes, Places, MapFailed
<1>4. MemInv
  BY FreshInv DEF HostInit, MemInit, Fresh
<1>. QED BY <1>1, <1>2, <1>3, <1>4 DEF HostTypes

LEMMA HostKeeps ==
  ASSUME HostInv, [HostNext]_hostVars
  PROVE  HostInv'
<1>1. MemInv' /\ PinInv'
  BY MemKeeps, PinKeeps DEF HostInv
<1>2. CallTypes'
  <2>1. CASE UNCHANGED <<arg, mutex>>
    BY <2>1 DEF HostInv, HostTypes, CallTypes
  <2>2. CASE Construct
    BY <2>2, Constants DEF Construct, CallTypes, Units
  <2>3. CASE MemNext
    <3>1. ASSUME NEW a \in live, Write(a)
          PROVE  UNCHANGED <<arg, mutex>>
      BY <3>1 DEF Write
    <3>. QED BY <2>1, <2>3, <3>1, CallKeeps DEF MemNext, HostInv, HostTypes
  <2>4. ProcNext => Construct \/ UNCHANGED <<arg, mutex>>
    BY DEF ProcNext, Start, OpenControl, OpenBypass, Open, MapControl, MapBypass,
           SetBuffer, GetMapping, WriteTlb, TlbDone, End, memVars
  <2>. QED BY <2>1, <2>2, <2>3, <2>4 DEF HostNext, hostVars, memVars
<1>3. DevTypeOK' /\ ProcTypes'
  <2>1. CASE ProcNext
    BY <1>1, <2>1, ProcKeeps DEF HostInv, HostTypes
  <2>2. UNCHANGED procVars => ProcTypes'
    BY DEF procVars, ProcTypes, HostInv, HostTypes
  <2>3. UNCHANGED devVars => DevTypeOK'
    BY DEF devVars, DevTypeOK, HostInv, HostTypes
  <2>4. DevNext => DevTypeOK'
    BY DevKeeps DEF HostInv, HostTypes
  <2>. QED BY <2>1, <2>2, <2>3, <2>4 DEF HostNext, hostVars
<1>. QED BY <1>1, <1>2, <1>3 DEF HostInv, HostTypes

LEMMA MemInvTypes == MemInv /\ CallTypes => MemTypeOK
<1>. SUFFICES ASSUME MemInv, CallTypes PROVE MemTypeOK
  OBVIOUS
<1>1. ASSUME NEW c \in DOMAIN chunks
      PROVE  /\ chunks[c] \in [size : 1..Size, free : BOOLEAN]
             /\ c + chunks[c].size <= Size
  <2>1. chunks[c] \in [size : Nat \ {0}, free : BOOLEAN]
    BY DEF MemInv, MemTypes
  <2>2. Limit(c) <= Size /\ c \in Nat
    BY NextIs DEF MemInv
  <2>3. chunks[c].size \in 1..Size
    BY <2>1, <2>2, Constants DEF Limit
  <2>. QED BY <2>1, <2>2, <2>3 DEF Limit
<1>2. live \subseteq Allocation
  <2>. SUFFICES ASSUME NEW a \in live PROVE a \in Allocation
    OBVIOUS
  <2>1. a \in [addr : Nat, len : Sizes, owner : Nat, written : BOOLEAN]
    BY DEF MemInv, MemTypes
  <2>2. a.addr \in Units
    BY DEF MemInv, OwnInv, MemTypes
  <2>. QED BY <2>1, <2>2 DEF Allocation
<1>. QED BY <1>1, <1>2 DEF MemTypeOK, CallTypes, MemInv, MemTypes

\* Driver, process and allocator keep their types for every card and all
\* sizes: no BAR is taken for the user's that is not in the list, no entry is
\* written past the TLB, no chunk reaches beyond the region.
THEOREM TypeCorrect == Spec => []TypeOK
<1>1. HostInv => TypeOK
  <2>. SUFFICES ASSUME HostInv PROVE TypeOK
    OBVIOUS
  <2>1. MemTypeOK /\ DevTypeOK
    BY MemInvTypes DEF HostInv, HostTypes
  <2>2. entry \in 0..HugePages
    BY DriverAssumption DEF HostInv, PinInv, PinTypes, FpgaKnows
  <2>. QED BY <2>1, <2>2 DEF TypeOK, HostInv, HostTypes, ProcTypes, Places, PinInv, PinTypes
<1>2. HostInv /\ [HostNext]_hostVars => HostInv'
  BY HostKeeps
<1>. QED BY <1>1, <1>2, HostStarts, PTL DEF Spec
===============================================================================
