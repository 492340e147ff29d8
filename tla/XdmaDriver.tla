------------------------------ MODULE XdmaDriver ------------------------------
(***************************************************************************)
(* The kernel driver of the FPGA (driver/xdma_driver.c): probe with its    *)
(* failures and their unwinding, remove, the two device nodes and the      *)
(* ioctls that pin a buffer and return its addresses.  The PCI core, the   *)
(* misc devices and get_user_pages are external.                           *)
(***************************************************************************)
EXTENDS Integers, Sequences, FiniteSets

CONSTANTS
  Layouts,    \* what is behind the BARs of the cards considered
  HugePages,  \* huge pages of the buffer
  PerHuge,    \* small pages of a huge page: 512
  MaxProbes   \* bound: how often probe is called

Bars == 0..5   \* XDMA_BAR_NUM

\* "none" is a BAR of length 0, such as the second half of a 64-bit BAR.
ASSUME DriverAssumption ==
  /\ Layouts \subseteq [Bars -> {"none", "user", "config", "bypass"}]
  /\ HugePages \in Nat \ {0} /\ PerHuge \in Nat \ {0} /\ MaxProbes \in Nat

SmallPages == HugePages * PerHuge

VARIABLES
  layout,    \* the card
  msiKind,   \* its interrupts: "msix", "msi" or "none"
  inUse,     \* some other driver has requested the card's regions
  bound,     \* the PCI core's view: "no", "probing" or "yes"
  step,      \* what probe does next, from 1
  held,      \* what the driver has taken and not given back
  drvdata,   \* the device points to a dev_inst
  idx,       \* user_bar_idx and bypass_bar_idx
  huge,      \* huge_pages, huge_npages and huge_hnpages
  kernel,    \* "ok", "bug" once a BUG_ON was hit, "oops" once it has crashed
  probes     \* how often probe was called

devVars == <<layout, msiKind, inUse, bound, step, held, drvdata, idx, huge,
             kernel, probes>>

NoBar == -1
NoBars == [user |-> NoBar, bypass |-> NoBar]
Garbage == -1   \* an address nobody has written

DevInit ==
  /\ layout \in Layouts /\ msiKind \in {"msix", "msi", "none"} /\ inUse \in BOOLEAN
  /\ bound = "no" /\ step = 1 /\ held = {} /\ drvdata = FALSE /\ idx = NoBars
  /\ huge = [pages |-> <<>>, npages |-> 0, hnpages |-> 0]
  /\ kernel = "ok" /\ probes = 0

-------------------------------------------------------------------------------
(* map_bars and identify_bars: which BAR is which.                         *)

\* bar_id_list: the BARs that are there, each behind those before it.
Present(card) == {b \in Bars : card[b] # "none"}
Place(card, b) == Cardinality({c \in Present(card) : c < b}) + 1
BarIdList(card) ==
  [p \in 1..Cardinality(Present(card)) |->
     CHOOSE b \in Present(card) : Place(card, b) = p]

HasConfigBar(card) == \E b \in Bars : card[b] = "config"

\* config_bar_idx, the first that looks like it, and config_bar_pos, from 0
ConfigBarIdx(card) == CHOOSE b \in Bars :
  card[b] = "config" /\ \A c \in Bars : c < b => card[c] # "config"
ConfigBarPos(card) == Place(card, ConfigBarIdx(card)) - 1

IdentifyBars(card) ==
  LET list == BarIdList(card)
      pos == ConfigBarPos(card)
  IN CASE Len(list) = 2 /\ pos = 0 -> [NoBars EXCEPT !.bypass = list[2]]
       [] Len(list) = 2 /\ pos = 1 -> [NoBars EXCEPT !.user = list[1]]
       [] Len(list) = 3 /\ pos = 1 -> [user |-> list[1], bypass |-> list[3]]
       [] OTHER -> NoBars

-------------------------------------------------------------------------------
(* probe and remove.                                                       *)

Steps == <<"inst", "device", "msi", "regions", "bars", "mask", "engines",
           "control", "bypass">>

\* What a step takes.  A mask and the engines are only set.
Taken(s) ==
  CASE s = "msi" -> IF msiKind = "none" THEN {} ELSE {msiKind}
    [] s \in {"mask", "engines"} -> {}
    [] OTHER -> {s}

\* Outside the driver: the nodes have names, MSI-X is not enabled twice, and
\* regions have one owner.  The rest may fail at any time.
MustFail(s) ==
  \/ s = "control" /\ "control" \in held
  \/ s = "msi" /\ msiKind = "msix" /\ "msix" \in held
  \/ s = "regions" /\ inUse
  \/ s = "bars" /\ ~HasConfigBar(layout)
MayFail(s) == s # "regions" /\ (s = "msi" => msiKind # "none")

\* What the labels from that of step s on give back.  msi_enabled is not set
\* when MSI-X is in use, and irq_teardown finds no interrupt line.
UnwindForgetsMsi(s) ==
  CASE s = "inst" -> {}
    [] s = "device" -> {"inst"}
    [] s = "msi" -> {"device", "inst"}
    [] s = "regions" -> {"inst"}
    [] OTHER -> {"bars", "regions", "device", "inst"}

UnwindFrom(s) ==
  CASE s = "inst" -> {}
    [] s = "device" -> {"inst"}
    [] s = "msi" -> {"device", "inst"}
    [] s = "regions" -> {"msi", "inst"}
    [] OTHER -> {"bars", "regions", "msi", "device", "inst"}

Probe ==
  /\ kernel = "ok" /\ bound = "no" /\ probes < MaxProbes
  /\ bound' = "probing"
  /\ step' = 1
  /\ probes' = probes + 1
  /\ UNCHANGED <<layout, msiKind, inUse, held, drvdata, idx, huge, kernel>>

ProbeStep ==
  LET s == Steps[step] IN
  /\ kernel = "ok" /\ bound = "probing" /\ ~MustFail(s)
  /\ held' = held \cup Taken(s)
  /\ drvdata' = (drvdata \/ s = "inst")
  /\ idx' = CASE s = "inst" -> NoBars
              [] s = "bars" -> IdentifyBars(layout)
              [] OTHER -> idx
  /\ bound' = IF step = Len(Steps) THEN "yes" ELSE "probing"
  /\ step' = IF step = Len(Steps) THEN 1 ELSE step + 1
  /\ UNCHANGED <<layout, msiKind, inUse, huge, kernel, probes>>

\* probe returns the error and the PCI core clears the device's pointer; but
\* without memory for dev_inst it returns 0, and the device counts as bound.
ProbeFails ==
  LET s == Steps[step] IN
  /\ kernel = "ok" /\ bound = "probing" /\ (MustFail(s) \/ MayFail(s))
  /\ held' = held \ UnwindFrom(s)
  /\ drvdata' = FALSE
  /\ bound' = IF s = "inst" THEN "yes" ELSE "no"
  /\ step' = 1
  /\ UNCHANGED <<layout, msiKind, inUse, idx, huge, kernel, probes>>

\* Also by sysfs, at any time, whoever has the nodes open.
Remove ==
  /\ kernel = "ok" /\ bound = "yes"
  /\ held' = IF drvdata THEN {} ELSE held
  /\ drvdata' = FALSE
  /\ bound' = "no"
  /\ UNCHANGED <<layout, msiKind, inUse, step, idx, huge, kernel, probes>>

-------------------------------------------------------------------------------
(* What a process calls.                                                   *)

\* xdma_mmap and xdma_bypass_mmap up to the instance they start from.
MmapReachesInst ==
  /\ kernel' = IF drvdata THEN kernel ELSE "bug"
  /\ UNCHANGED <<layout, msiKind, inUse, bound, step, held, drvdata, idx, huge,
                 probes>>

\* The frame of small page i of the file the buffer maps; a huge page is
\* contiguous.
Frame(i) == 100 + i

Pinned(n) ==
  [i \in 1..SmallPages |-> IF i <= n THEN Frame(i - 1) ELSE Garbage]

\* How many small pages start a huge page: i % 512 = 0.
HugeCountWhole(n) == n \div PerHuge
HugeCountEvery(n) == n
HugeCount(n) == Cardinality({i \in 0..(n - 1) : i % PerHuge = 0})

\* ioctl_do_buffer_set when get_user_pages pins n pages.  The array is
\* replaced before the call: if nothing is pinned the counts of the last
\* buffer stay with an array of garbage.
BufferSet(n) ==
  /\ huge' = IF n = 0 THEN [huge EXCEPT !.pages = Pinned(0)]
             ELSE [pages |-> Pinned(n), npages |-> n,
                   hnpages |-> HugeCount(n)]
  /\ UNCHANGED <<layout, msiKind, inUse, bound, step, held, drvdata, idx,
                 kernel, probes>>

\* A negative result becomes the number of pages, and the loop runs off the
\* array.
BufferSetError ==
  /\ kernel' = "oops"
  /\ UNCHANGED <<layout, msiKind, inUse, bound, step, held, drvdata, idx, huge,
                 probes>>

\* ioctl_do_mapping_get: the frame of each huge page.
DmaAddr == [j \in 1..huge.hnpages |-> huge.pages[PerHuge * (j - 1) + 1]]

DevNext == Probe \/ ProbeStep \/ ProbeFails \/ Remove
===============================================================================
