------------------------------- MODULE XdmaHost -------------------------------
(***************************************************************************)
(* A process that uses the FPGA's memory (fpga/XDMA.cpp), one at a time:   *)
(* it opens and maps the device nodes, has the driver pin its buffer,      *)
(* writes a translation per huge page into the FPGA's TLB, and then hands  *)
(* out the buffer with HostMemory.  It may crash anywhere, and the driver  *)
(* be removed, and both come back.                                         *)
(***************************************************************************)
EXTENDS XdmaDriver, HostMemory

CONSTANTS
  Bases,     \* where mmap may put the buffer, in huge pages
  MaxStarts  \* bound: processes

ASSUME HostAssumption == Bases \subseteq Nat \ {0} /\ MaxStarts \in Nat

VARIABLES
  pc,      \* how far initializeMemory is
  base,    \* huge_base
  regs,    \* m_base: the BAR behind it, or MapFailed
  map,     \* npages and dma_addr of xdma_huge_mapping
  entry,   \* the next translation to write
  pinned,  \* history: small pages pinned by this process's ioctl
  got,     \* history: the addresses have come from the driver
  tlb,     \* in the FPGA: base address and frame per huge page from there
  starts   \* processes started

procVars == <<pc, base, regs, map, entry, pinned, got, tlb, starts>>
hostVars == <<devVars, memVars, procVars>>

MapFailed == -2
NoFrame == 0

\* calloc'ed, for the whole buffer
EmptyMap == [npages |-> HugePages, dma_addr |-> [j \in 1..HugePages |-> NoFrame]]

HostInit ==
  /\ DevInit /\ MemInit
  /\ pc = "down" /\ base = 0 /\ regs = MapFailed /\ map = EmptyMap
  /\ entry = 0 /\ pinned = 0 /\ got = FALSE /\ starts = 0
  /\ tlb = [base |-> 0, frame |-> [j \in 0..(HugePages - 1) |-> NoFrame]]

\* What a process leaves behind: the pages stay pinned and the TLB written.
Gone ==
  /\ pc' = "down" /\ base' = 0 /\ regs' = MapFailed /\ map' = EmptyMap
  /\ entry' = 0 /\ pinned' = 0 /\ got' = FALSE
  /\ UNCHANGED <<tlb, starts>>

Start(b) ==
  /\ pc = "down" /\ starts < MaxStarts
  /\ pc' = "open_control"
  /\ base' = b
  /\ starts' = starts + 1
  /\ UNCHANGED <<regs, map, entry, pinned, got, tlb, devVars, memVars>>

\* A node that is not there ends the process.
Open(node, here, next) ==
  /\ pc = here
  /\ IF node \in held
     THEN /\ pc' = next
          /\ UNCHANGED <<base, regs, map, entry, pinned, got, tlb, starts>>
     ELSE Gone
  /\ UNCHANGED <<devVars, memVars>>

OpenControl == Open("control", "open_control", "open_bypass")
OpenBypass == Open("bypass", "open_bypass", "map_control")

\* The result of mmap is not looked at.
MapControl ==
  /\ pc = "map_control"
  /\ MmapReachesInst
  /\ \/ ~drvdata /\ UNCHANGED <<pc, regs>>
     \/ /\ drvdata
        /\ pc' = "map_bypass"
        /\ regs' \in {idx.user, MapFailed}
  /\ UNCHANGED <<base, map, entry, pinned, got, tlb, starts, memVars>>

MapBypass ==
  /\ pc = "map_bypass"
  /\ MmapReachesInst
  /\ pc' = IF drvdata THEN "set" ELSE pc
  /\ UNCHANGED <<base, regs, map, entry, pinned, got, tlb, starts, memVars>>

\* A failed ioctl is printed, and that is all.
SetBuffer ==
  /\ pc = "set"
  /\ \/ \E n \in 0..SmallPages :
          BufferSet(n) /\ pinned' = n /\ pc' = "get"
     \/ BufferSetError /\ UNCHANGED <<pinned, pc>>
  /\ UNCHANGED <<base, regs, map, entry, got, tlb, starts, memVars>>

\* The two copies to the process may fail, the second after the number of
\* pages has gone there.
GetMapping ==
  /\ pc = "get"
  /\ pc' = "tlb"
  /\ \/ UNCHANGED <<map, got>>
     \/ map' = [map EXCEPT !.npages = huge.hnpages] /\ UNCHANGED got
     \/ /\ map' = [npages |-> huge.hnpages,
                   dma_addr |-> [j \in 1..HugePages |->
                     IF j <= huge.hnpages THEN DmaAddr[j] ELSE NoFrame]]
        /\ got' = TRUE
  /\ UNCHANGED <<base, regs, entry, pinned, tlb, starts, devVars, memVars>>

TlbWrite(vaddr, paddr, isBase) ==
  LET b == IF isBase THEN vaddr ELSE tlb.base IN
  [base |-> b, frame |-> [tlb.frame EXCEPT ![vaddr - b] = paddr]]

\* Where the registers are not mapped, the first write ends the process.
WriteTlb ==
  /\ pc = "tlb" /\ entry < map.npages
  /\ IF regs = MapFailed THEN Gone
     ELSE /\ tlb' = IF regs = NoBar THEN tlb
                    ELSE TlbWrite(base + entry, map.dma_addr[entry + 1], entry = 0)
          /\ entry' = entry + 1
          /\ UNCHANGED <<pc, base, regs, map, pinned, got, starts>>
  /\ UNCHANGED <<devVars, memVars>>

TlbDone ==
  /\ pc = "tlb" /\ entry >= map.npages
  /\ pc' = "up"
  /\ Construct
  /\ UNCHANGED <<base, regs, map, entry, pinned, got, tlb, starts, devVars>>

\* XDMA::clear and the end of the process, or its end anywhere.
End == pc # "down" /\ Gone /\ UNCHANGED <<devVars, memVars>>

ProcNext ==
  \/ \E b \in Bases : Start(b)
  \/ OpenControl \/ OpenBypass \/ MapControl \/ MapBypass
  \/ SetBuffer \/ GetMapping \/ WriteTlb \/ TlbDone \/ End

HostNext ==
  /\ kernel = "ok"
  /\ \/ ProcNext
     \/ DevNext /\ UNCHANGED <<memVars, procVars>>
     \/ pc = "up" /\ MemNext /\ UNCHANGED <<devVars, procVars>>

Spec == HostInit /\ [][HostNext]_hostVars

-------------------------------------------------------------------------------
(* Properties.                                                             *)

DevTypeOK ==
  /\ layout \in Layouts /\ msiKind \in {"msix", "msi", "none"} /\ inUse \in BOOLEAN
  /\ bound \in {"no", "probing", "yes"} /\ step \in 1..Len(Steps)
  /\ held \subseteq {"inst", "device", "msix", "msi", "regions", "bars",
                     "control", "bypass"}
  /\ drvdata \in BOOLEAN /\ idx \in [user : -1..5, bypass : -1..5]
  /\ huge.npages \in 0..SmallPages /\ huge.hnpages \in 0..HugePages
  /\ kernel \in {"ok", "bug", "oops"} /\ probes \in 0..MaxProbes

\* Types of driver, process and allocator; above all, no address the driver
\* returns, and no entry written to the TLB, lies outside its array.
TypeOK ==
  /\ DevTypeOK /\ MemTypeOK
  /\ pc \in {"down", "open_control", "open_bypass", "map_control",
             "map_bypass", "set", "get", "tlb", "up"}
  /\ base \in Bases \cup {0} /\ regs \in -2..5
  /\ map.npages \in 0..HugePages /\ DOMAIN map.dma_addr = 1..HugePages
  /\ entry \in 0..HugePages /\ pinned \in 0..SmallPages /\ got \in BOOLEAN
  /\ tlb.base \in Bases \cup {0} /\ DOMAIN tlb.frame = 0..(HugePages - 1)
  /\ starts \in 0..MaxStarts

\* A driver bound with its dev_inst holds everything and knows the card's
\* user and bypass BARs, as the rules above identify_bars have it.  In every
\* other case, however far probe came and however often it is repeated, only
\* this stays: MSI-X, the control node of a probe that failed at the bypass
\* node, and the device where its regions are in use.
Leaks == {"msix", "control"} \cup (IF inUse THEN {"device"} ELSE {})
Everything ==
  {"inst", "device", "regions", "bars", "control", "bypass"} \cup Taken("msi")
Found(card, i) ==
  \A f \in {"user", "bypass"} :
    IF \E b \in Bars : card[b] = f THEN card[i[f]] = f ELSE i[f] = NoBar
BarsFound == Found(layout, idx)

ProbeUnwinds ==
  /\ bound = "yes" /\ drvdata => held = Everything /\ BarsFound
  /\ bound = "no" \/ (bound = "yes" /\ ~drvdata) => held \subseteq Leaks

\* Whatever processes and failures came before: when initializeMemory
\* returns and the driver has answered, the FPGA translates every pinned page
\* of the buffer to its frame.
PinnedIsTranslated ==
  pc = "up" /\ got /\ regs # NoBar /\ pinned > 0 =>
    /\ tlb.base = base
    /\ \A i \in 0..(pinned - 1) :
         tlb.frame[i \div PerHuge] = Frame(PerHuge * (i \div PerHuge))

\* BUG_ON(!inst) in xdma_mmap and xdma_bypass_mmap.
MmapHasInstance == kernel # "bug"
===============================================================================
