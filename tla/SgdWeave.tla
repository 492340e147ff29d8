------------------------------- MODULE SgdWeave -------------------------------
(***************************************************************************)
(* How the training program gives a dataset to the FPGA and starts it      *)
(* (P4_FPGA/sw/src: sgd_pm.cpp, "sgd_pm copy.cpp").  The bits of 8 samples *)
(* and 64 features are woven into lines of 64 bytes, a line per bit from   *)
(* the highest one on; then the lines are dealt out to the FPGA's engines, *)
(* in halves of 4 samples.  In the file that is built the weaving, the     *)
(* labels and the connection are commented out; its copy has them.  A line *)
(* is what it holds: the samples, the features and the bit.                *)
(***************************************************************************)
EXTENDS Integers, FiniteSets

CONSTANTS
  Datasets,     \* numSamples, numFeatures and numBits the program is made for
  Workers,      \* WORKER_NUM it may be built with
  Iterations,   \* numberOfIterations
  EpochBound,   \* bound: epochs of the FPGA that are followed
  Enumerated    \* bound: samples up to which the order of the lines is looked at

ASSUME WeaveAssumption ==
  /\ Datasets \subseteq (Nat \ {0}) \X (Nat \ {0}) \X {2 * b : b \in 1..16}
  /\ Workers \subseteq Nat \ {0} /\ Iterations \in Nat /\ EpochBound \in Nat /\ Enumerated \in Nat

VARIABLES
  version,      \* "built" or "copy"
  wnSamples, wnFeatures, wnBits, WORKER_NUM, worker_index, server_en,
  wpc,          \* where the program is
  woven,        \* the lines are in the buffer
  labelled,     \* the labels are
  addressesOk,  \* registers 128 to 133 hold what was meant
  wlisten, wconn, \* the FPGA's port and connection
  told,         \* registers 20 to 35 are written
  epochs,       \* epochs the FPGA has done since it was started, or NotBegun
  seenEpochs    \* history: those done when the program reads the model

weaveArgs == <<version, wnSamples, wnFeatures, wnBits, WORKER_NUM, worker_index, server_en>>
fpgaRegs == <<addressesOk, wlisten, wconn, told>>
weaveVars == <<weaveArgs, wpc, woven, labelled, fpgaRegs, epochs, seenEpochs>>

NUM_BANKS == 8
BITS_OF_BANK == 64
ENGINE_NUM == 8
NotBegun == -1
RoundUp(n, m) == ((n + m - 1) \div m) * m

-------------------------------------------------------------------------------
(* Where the bits go.                                                      *)

Groups == RoundUp(wnSamples, NUM_BANKS) \div NUM_BANKS
Chunks == RoundUp(wnFeatures, BITS_OF_BANK) \div BITS_OF_BANK
numFeatures_algin == RoundUp(wnFeatures, 64)

\* mlweaving_on_sample: the line of its source that is written as line n.
OnSample(n) == [group |-> n \div (32 * Chunks), chunk |-> (n \div 32) % Chunks, bit |-> n % 32]
SourceLines == 32 * Chunks * Groups

\* mlweaving_change: the lines each engine has of a group, in pairs of bits.
dimension_num == RoundUp(wnFeatures, BITS_OF_BANK * ENGINE_NUM * WORKER_NUM * 2)
                 \div (BITS_OF_BANK * ENGINE_NUM * WORKER_NUM * 2)
Steps64 == 2 * dimension_num

\* mistake: the next group begins after the features there are
SourceOfUnaligned(i, k, l) == i + l \div 2 + (wnFeatures * k) \div 16
\* The source of bit i, sample k and feature l.
SourceOf(i, k, l) == i + l \div 2 + (numFeatures_algin * k) \div 16

Zeros == [line |-> 0, half |-> 0, zero |-> TRUE]

\* Half a line, by its number: from the outside in, the loops count pairs of
\* bits, engines, halves, groups and chunks, and the higher bit comes second.
HalfLine(n) ==
  LET chunk == (n \div 2) % Steps64
      k == NUM_BANKS * ((n \div (2 * Steps64)) % Groups)
      half == (n \div (2 * Steps64 * Groups)) % 2
      j == worker_index + WORKER_NUM * ((n \div (4 * Steps64 * Groups)) % ENGINE_NUM)
      i == 2 * (n \div (4 * Steps64 * Groups * ENGINE_NUM))
      l == (j + chunk * ENGINE_NUM * WORKER_NUM) * BITS_OF_BANK IN
  IF l < wnFeatures
  THEN [line |-> SourceOf(i + 1 - (n % 2), k, l), half |-> half, zero |-> FALSE]
  ELSE Zeros
HalfLines == 4 * Steps64 * Groups * ENGINE_NUM * (wnBits \div 2)

-------------------------------------------------------------------------------
(* Sizes, in lines.                                                        *)

\* 32 bits of bytes
Wrapped(lines) == lines % (2^26)

\* a_bitweaving_fpga
SourceAlloc == Wrapped((numFeatures_algin \div 16) * RoundUp(wnSamples, 32))
\* a_bitweaving_distribute, of which the labels and the model lie outside, in
\* the memory it was taken from
DistributeAlloc == 2^24
LabelsAt == 32768000
ModelAt == 58982400
DmaLines == 2^26

number_of_samples == RoundUp(wnSamples, 32)
wdimension == wnFeatures \div WORKER_NUM
toldDimension == RoundUp(wdimension, 64 * ENGINE_NUM * WORKER_NUM * 2)
                 \div (64 * ENGINE_NUM * WORKER_NUM * 2)

data_a_length ==
  (number_of_samples \div NUM_BANKS) * toldDimension * (wnBits \div 2) * ENGINE_NUM * 4

-------------------------------------------------------------------------------
(* The program.                                                            *)

WeaveInit ==
  /\ version \in {"built", "copy"}
  /\ \E d \in Datasets : wnSamples = d[1] /\ wnFeatures = d[2] /\ wnBits = d[3]
  /\ WORKER_NUM \in Workers /\ worker_index \in 0..(WORKER_NUM - 1)
  /\ server_en \in {0, 1}
  /\ wpc = "weave" /\ woven = FALSE /\ labelled = FALSE
  /\ addressesOk = FALSE /\ wlisten = "closed" /\ wconn = "closed"
  /\ told = FALSE /\ epochs = NotBegun /\ seenEpochs = NotBegun

Goes2(here, next) == wpc = here /\ wpc' = next /\ UNCHANGED weaveArgs

\* a_perform_bitweaving_fpga; without memory it returns and the program goes on.
Weave ==
  /\ Goes2("weave", "model")
  /\ woven' \in (IF version = "copy" THEN BOOLEAN ELSE {FALSE})
  /\ UNCHANGED <<labelled, fpgaRegs, epochs, seenEpochs>>

\* The memory for the model on the host, which is not used.
AllocModel ==
  /\ \/ Goes2("model", "labels")
     \/ Goes2("model", "ended")
  /\ UNCHANGED <<woven, labelled, fpgaRegs, epochs, seenEpochs>>

\* The labels of whole lines of samples.
PlaceLabels ==
  /\ Goes2("labels", "reset") /\ labelled' = (version = "copy")
  /\ UNCHANGED <<woven, fpgaRegs, epochs, seenEpochs>>

\* worker_ip has WORKER_NUM elements and 8 are written: the variables beside
\* it may be among the rest.
Addresses ==
  /\ Goes2("reset", IF version = "copy" THEN "await_listen" ELSE "tell")
  /\ addressesOk' \in (IF version = "built" THEN {FALSE}
                       ELSE IF WORKER_NUM < 8 THEN BOOLEAN ELSE {TRUE})
  /\ wlisten' = IF version = "copy" THEN "asked" ELSE wlisten
  /\ UNCHANGED <<woven, labelled, wconn, told, epochs, seenEpochs>>

AwaitPort ==
  /\ Goes2("await_listen", IF server_en = 1 THEN "open" ELSE "tell")
  /\ wlisten = "open"
  /\ UNCHANGED <<woven, labelled, fpgaRegs, epochs, seenEpochs>>

OpenConn ==
  /\ Goes2("open", "await_open") /\ wconn' = "asked"
  /\ UNCHANGED <<woven, labelled, addressesOk, wlisten, told, epochs, seenEpochs>>

AwaitConn ==
  /\ Goes2("await_open", "tell") /\ wconn = "open"
  /\ UNCHANGED <<woven, labelled, fpgaRegs, epochs, seenEpochs>>

TellAndStart ==
  /\ Goes2("tell", "sleep")
  /\ told' = TRUE /\ epochs' = 0
  /\ UNCHANGED <<woven, labelled, addressesOk, wlisten, wconn, seenEpochs>>

\* After 10 seconds the model is read as it is.
ReadModel ==
  /\ Goes2("sleep", "ended") /\ seenEpochs' = epochs
  /\ UNCHANGED <<woven, labelled, fpgaRegs, epochs>>

WeaveProgram ==
  \/ Weave \/ AllocModel \/ PlaceLabels \/ Addresses \/ AwaitPort
  \/ OpenConn \/ AwaitConn \/ TellAndStart \/ ReadModel

\* The FPGA.
WeaveFpga ==
  /\ \/ wlisten = "asked" /\ wlisten' = "open" /\ UNCHANGED <<wconn, epochs>>
     \/ wconn = "asked" /\ addressesOk /\ wconn' = "open" /\ UNCHANGED <<wlisten, epochs>>
     \/ epochs \in 0..(EpochBound - 1) /\ epochs' = epochs + 1 /\ UNCHANGED <<wlisten, wconn>>
  /\ UNCHANGED <<weaveArgs, wpc, woven, labelled, addressesOk, told, seenEpochs>>

WeaveNext == WeaveProgram \/ WeaveFpga
WeaveSpec == WeaveInit /\ [][WeaveNext]_weaveVars /\ WF_weaveVars(WeaveProgram)
             /\ WF_weaveVars(WeaveFpga)

-------------------------------------------------------------------------------
(* Properties.                                                             *)

WeaveTypeOK ==
  /\ wpc \in {"weave", "model", "labels", "reset", "await_listen", "open", "await_open",
              "tell", "sleep", "ended"}
  /\ epochs \in NotBegun..EpochBound /\ seenEpochs \in NotBegun..EpochBound

\* What the workers together are to have: the highest bits of every sample and
\* feature, each half line once, and of each worker its own chunks.
Wanted ==
  {[group |-> g, chunk |-> c, bit |-> b, half |-> h] :
     g \in 0..(Groups - 1), b \in 0..(wnBits - 1), h \in {0, 1},
     c \in {d \in 0..(Chunks - 1) : d % WORKER_NUM = worker_index}}

Dealt == {n \in 0..(HalfLines - 1) : ~HalfLine(n).zero}
Held2(n) == LET h == HalfLine(n) s == OnSample(h.line) IN
  [group |-> s.group, chunk |-> s.chunk, bit |-> s.bit, half |-> h.half]
EveryBitPlaced ==
  /\ {Held2(n) : n \in Dealt} = Wanted
  /\ Cardinality(Dealt) = Cardinality(Wanted)
  /\ \A n \in Dealt : HalfLine(n).line < SourceLines

\* What the FPGA is told to read is at least what was written, and just that
\* if the samples fill their last line of labels; the weaving stays in its
\* memory and nothing in the other's place.
ToldCovers ==
  /\ SourceLines <= SourceAlloc
  /\ HalfLines \div 2 <= DistributeAlloc /\ HalfLines \div 2 <= LabelsAt
  /\ data_a_length >= HalfLines \div 2
  /\ RoundUp(wnSamples, 8) = number_of_samples => data_a_length = HalfLines \div 2
  /\ LabelsAt + number_of_samples \div 16 <= ModelAt
  /\ ModelAt + ((Iterations + 1) * wnFeatures) \div 16 < DmaLines

\* Both, where lines have been woven.
LayoutRight ==
  /\ woven /\ wnSamples <= Enumerated => EveryBitPlaced
  /\ woven /\ WORKER_NUM = 1 => ToldCovers

\* It has asked a node that is not there for a connection, and polls for it.
WeavePollsForEver == wpc = "await_open" /\ wconn = "asked" /\ ~addressesOk

WeaveBegun == wpc = "weave"
WeaveEnded == wpc = "ended" \/ WeavePollsForEver

===============================================================================
