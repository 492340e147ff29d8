------------------------------- MODULE GpuRecv -------------------------------
(***************************************************************************)
(* The receive path of a GPU TCP connection (GPU_FPGA/sw/src/cuda).        *)
(*                                                                         *)
(* The FPGA writes packets into the connection's ring of recv_buffer: a    *)
(* head unit with the packet's length, the payload, and a tail unit that   *)
(* repeats the length.  For every call of the application two kernels run  *)
(* on streams of their own.  socket_recv_ctrl, one block, finds the        *)
(* packets in the ring, queues them in a FIFO of FifoDepth entries that    *)
(* every block of socket_recv reads with a read pointer of its own, and    *)
(* returns credit to the FPGA; each block of socket_recv copies its        *)
(* stripe of every packet to the application.                              *)
(*                                                                         *)
(* A unit is 64 bytes.  Payload unit number u of the stream has content u. *)
(***************************************************************************)
EXTENDS Integers, Sequences, FiniteSets

CONSTANTS
  NumBlocks,     \* gridDim of socket_recv (4)
  FifoDepth,     \* entries of recv_fifo_* (16)
  SingleBuffer,  \* SINGLE_BUFFER_LENGTH
  MaxPackage,    \* MAX_PACKAGE_LENGTH
  Portion,       \* SINGLE_BUFFER_LENGTH * FLOW_CONTROL_RATIO
  Payload,       \* payload of the FPGA's packets (PACKAGE_LENGTH_512); the
                 \* last of a call is shorter if the call is no multiple
  FpgaWindow,    \* payload the FPGA writes beyond the last credit
  CallLengths,   \* lengths of a call
  NumCalls,      \* bound: calls of the application
  FirstRecords,  \* buffer_read_count_record when the first call starts
  PayloadWords,  \* bound: the lengths, in units, that words of payload have
                 \* when the control kernel takes them for a packet's length
  Timeouts       \* whether socket_recv_ctrl may wait five seconds

ASSUME RecvAssumption ==
  /\ NumBlocks \in Nat \ {0} /\ FifoDepth \in Nat \ {0}
  /\ Payload \in Nat \ {0} /\ Payload + 2 <= MaxPackage
  /\ MaxPackage \in Nat /\ SingleBuffer \in Nat /\ MaxPackage <= SingleBuffer
  /\ Portion \in Nat \ {0} /\ FpgaWindow \in Nat
  /\ CallLengths \subseteq Nat \ {0} /\ NumCalls \in Nat \ {0}
  /\ FirstRecords \subseteq Nat /\ PayloadWords \subseteq Nat \ {0, 1}
  /\ Timeouts \in BOOLEAN

\* Payload of one lap of the ring when all packets are whole; short ones
\* leave less in it.
LapPayload == ((SingleBuffer - MaxPackage) \div (Payload + 2) + 1) * Payload

\* The FPGA keeps its window plus what the FIFO holds within a lap, and can
\* write past the next threshold.  (25M ring, 128K packets, half a ring of
\* credit at a time: the window is anything from 12.7M to 20.8M.)
ASSUME WindowAssumption ==
  /\ FpgaWindow + (FifoDepth + 1) * Payload <= LapPayload
  /\ Portion + Payload <= FpgaWindow

Blocks == 0..(NumBlocks - 1)
Units  == 0..(SingleBuffer - 1)
WrapAt == SingleBuffer - MaxPackage
Slots  == 0..(FifoDepth - 1)

VARIABLES
  callLength, \* length of the application's calls, never changes
  \* the FPGA
  wOff,       \* where it writes the next packet
  wTotal,     \* payload units of finished packets
  wpc,        \* "idle" between packets, "head" or "body": what it wrote last
  credit,     \* the last recv_read_count it was given
  ring,       \* the connection's part of recv_buffer
  \* socket_recv_ctrl
  cpc,        \* where the kernel is
  cCall,      \* calls it has returned from
  offset,     \* recv_buffer_offset
  blockLength,\* block_length, the length word of the packet
  curLength,  \* cur_length
  readCount,  \* recv_read_count
  record,     \* buffer_read_count_record
  threshold,
  \* the FIFO
  fifo,       \* recv_fifo_addr_offset, recv_fifo_length
  wr,         \* recv_fifo_wr
  rd,         \* recv_fifo_rd of each block
  \* socket_recv
  dpc,        \* where each block is
  dCall,      \* calls the kernel has returned from
  entry,      \* the FIFO entry each block copies
  dLength,    \* cur_length of each block
  got         \* what each block has copied to the application, in order

fpgaVars == <<callLength, wOff, wTotal, wpc>>
ctrlVars == <<cpc, cCall, offset, blockLength, curLength, readCount, record,
              threshold>>
fifoVars == <<fifo, wr>>
dataVars == <<rd, dpc, dCall, entry, dLength, got>>
vars == <<fpgaVars, credit, ring, ctrlVars, fifoVars, dataVars>>

\* A unit of the ring as the control kernel sees it: its length word is
\* zero, a length the FPGA wrote, or a word of payload, which can be
\* anything.
ZeroWord == [kind |-> "zero", v |-> 0]
HeadWord(n) == [kind |-> "head", v |-> n]
TailWord(n) == [kind |-> "tail", v |-> n]
DataWord(u) == [kind |-> "data", v |-> u]

NoEntry == [addr |-> 0, len |-> 0]
NextOffsetNoWrap(o) == o
NextOffset(o) == IF o > WrapAt THEN 0 ELSE o

\* The threshold with which a call starts.
NextFirstThreshold(r) == Portion * (r + 1)
FirstThreshold(r) == Portion * r

Init ==
  /\ callLength \in CallLengths
  /\ wOff = 0 /\ wTotal = 0 /\ wpc = "idle" /\ credit = 0
  /\ ring = [x \in Units |-> ZeroWord]
  /\ cpc = "head" /\ cCall = 0 /\ offset = 0 /\ blockLength = 0
  /\ curLength = 0 /\ readCount = 0
  /\ record \in FirstRecords /\ threshold = FirstThreshold(record)
  /\ fifo = [s \in Slots |-> NoEntry] /\ wr = 0
  /\ rd = [b \in Blocks |-> 0]
  /\ dpc = [b \in Blocks |-> "wait"] /\ dCall = 0
  /\ entry = [b \in Blocks |-> NoEntry]
  /\ dLength = [b \in Blocks |-> 0]
  /\ got = [b \in Blocks |-> <<>>]

-------------------------------------------------------------------------------
(* The FPGA (external): packets of the configured size, in order, no more  *)
(* than its window beyond the last credit; of a packet the head first and  *)
(* the tail last.                                                          *)

\* Payload of the next packet, and the units it takes.
Size ==
  LET left == callLength - (wTotal % callLength)
  IN  IF left < Payload THEN left ELSE Payload
PacketUnits == wOff .. (wOff + Size + 1)

FpgaHead ==
  /\ wpc = "idle"
  /\ wTotal < NumCalls * callLength
  /\ wTotal + Size - credit <= FpgaWindow
  /\ ring' = [ring EXCEPT ![wOff] = HeadWord(Size + 2)]
  /\ wpc' = "head"
  /\ UNCHANGED <<callLength, wOff, wTotal, credit, ctrlVars, fifoVars, dataVars>>

FpgaBody ==
  /\ wpc = "head"
  /\ ring' = [x \in Units |->
                IF x > wOff /\ x <= wOff + Size
                THEN DataWord(wTotal + (x - wOff - 1)) ELSE ring[x]]
  /\ wpc' = "body"
  /\ UNCHANGED <<callLength, wOff, wTotal, credit, ctrlVars, fifoVars, dataVars>>

FpgaTail ==
  /\ wpc = "body"
  /\ ring' = [ring EXCEPT ![wOff + Size + 1] = TailWord(Size + 2)]
  /\ wOff' = NextOffset(wOff + Size + 2)
  /\ wTotal' = wTotal + Size
  /\ wpc' = "idle"
  /\ UNCHANGED <<callLength, credit, ctrlVars, fifoVars, dataVars>>

-------------------------------------------------------------------------------
(* socket_recv_ctrl.                                                       *)

\* A word that is not zero ends the wait for the head and is the packet's
\* length, whatever it is: a word of payload an earlier lap left there is
\* taken like a length the FPGA wrote, unless it happens to be zero.
CtrlHead ==
  /\ cpc = "head"
  /\ \/ ring[offset].kind \in {"head", "tail"} /\ blockLength' = ring[offset].v
     \/ ring[offset].kind = "data" /\ blockLength' \in PayloadWords
  /\ cpc' = "tail"
  /\ UNCHANGED <<fpgaVars, credit, ring, cCall, offset, curLength, readCount,
                 record, threshold, fifoVars, dataVars>>

TailUnit == offset + blockLength - 1

\* The word the kernel waits for at the tail may equal, or may not equal, the
\* length.  Words of payload may do either; past the ring lies the next
\* connection's, which is not in use and holds zeros.
TailSeen ==
  /\ TailUnit \in Units
  /\ ring[TailUnit].kind = "data"
       \/ (ring[TailUnit].kind # "zero" /\ ring[TailUnit].v = blockLength)
TailMissing ==
  TailUnit \in Units => ring[TailUnit].kind = "data" \/ ~TailSeen

\* What the tail's wait leaves in the ring: both length words are cleared
\* for the next lap.
ClearedHead == [ring EXCEPT ![offset] = ZeroWord]
Cleared == [ring EXCEPT ![offset] = ZeroWord, ![TailUnit] = ZeroWord]

CtrlTail ==
  /\ cpc = "tail"
  /\ TailSeen
  /\ ring' = Cleared
  /\ cpc' = "space"
  /\ UNCHANGED <<fpgaVars, credit, cCall, offset, blockLength, curLength,
                 readCount, record, threshold, fifoVars, dataVars>>

AfterPackage(cur) == IF cur = callLength THEN "done" ELSE "head"

\* The reader is not a whole FIFO behind.
RoomAlways(b) == b \in Blocks
Room(b) == wr - rd[b] # FifoDepth

\* Once no reader is a whole FIFO behind, the packet is queued and counted;
\* at the threshold the count is to be returned to the FPGA.
CtrlEnqueue ==
  /\ cpc = "space"
  /\ \A b \in Blocks : Room(b)
  /\ LET n == blockLength - 2
     IN  /\ fifo' = [fifo EXCEPT ![wr % FifoDepth] =
                       [addr |-> offset + 1, len |-> n]]
         /\ readCount' = readCount + n
         /\ curLength' = curLength + n
         /\ IF readCount + n >= threshold
            THEN /\ record' = record + 1
                 /\ threshold' = threshold + Portion
                 /\ cpc' = "credit"
            ELSE /\ cpc' = AfterPackage(curLength + n)
                 /\ UNCHANGED <<record, threshold>>
  /\ wr' = wr + 1
  /\ offset' = NextOffset(offset + blockLength)
  /\ UNCHANGED <<fpgaVars, credit, ring, cCall, blockLength, dataVars>>

CtrlCredit ==
  /\ cpc = "credit"
  /\ credit' = readCount
  /\ cpc' = AfterPackage(curLength)
  /\ UNCHANGED <<fpgaVars, ring, cCall, offset, blockLength, curLength,
                 readCount, record, threshold, fifoVars, dataVars>>

\* The kernel returns; the stream starts the next call's.
CtrlReturn ==
  /\ cpc = "done"
  /\ cCall' = cCall + 1
  /\ cpc' = IF cCall + 1 < NumCalls THEN "head" ELSE "off"
  /\ curLength' = 0
  /\ threshold' = FirstThreshold(record)
  /\ UNCHANGED <<fpgaVars, credit, ring, offset, blockLength, readCount,
                 record, fifoVars, dataVars>>

\* Each wait loops for ever once it has lasted five seconds.
CtrlTimeout ==
  /\ Timeouts
  /\ \/ cpc = "head" /\ ring[offset].kind \in {"zero", "data"}
     \/ cpc = "tail" /\ TailMissing
     \/ cpc = "space" /\ \E b \in Blocks : ~Room(b)
  /\ cpc' = "hung"
  /\ UNCHANGED <<fpgaVars, credit, ring, cCall, offset, blockLength, curLength,
                 readCount, record, threshold, fifoVars, dataVars>>

-------------------------------------------------------------------------------
(* socket_recv: a block.                                                   *)

\* The read pointer moves before the copy: from here on the control kernel
\* sees the entry as consumed.
BlockTake(b) ==
  /\ dpc[b] = "wait"
  /\ rd[b] # wr
  /\ entry' = [entry EXCEPT ![b] = fifo[rd[b] % FifoDepth]]
  /\ rd' = [rd EXCEPT ![b] = @ + 1]
  /\ dLength' = [dLength EXCEPT ![b] = @ + entry'[b].len]
  /\ dpc' = [dpc EXCEPT ![b] = "copy"]
  /\ UNCHANGED <<fpgaVars, credit, ring, ctrlVars, fifoVars, dCall, got>>

BlockCopy(b) ==
  /\ dpc[b] = "copy"
  /\ got' = [got EXCEPT ![b] =
               @ \o [k \in 1..entry[b].len |-> ring[entry[b].addr + k - 1]]]
  /\ dpc' = [dpc EXCEPT ![b] =
               IF dLength[b] >= callLength THEN "exit" ELSE "wait"]
  /\ UNCHANGED <<fpgaVars, credit, ring, ctrlVars, fifoVars, rd, dCall, entry,
                 dLength>>

\* All blocks have left; the stream starts the next call's kernel.
DataReturn ==
  /\ \A b \in Blocks : dpc[b] = "exit"
  /\ dCall' = dCall + 1
  /\ dpc' = [b \in Blocks |-> IF dCall + 1 < NumCalls THEN "wait" ELSE "off"]
  /\ dLength' = [b \in Blocks |-> 0]
  /\ UNCHANGED <<fpgaVars, credit, ring, ctrlVars, fifoVars, rd, entry, got>>

Ctrl == CtrlHead \/ CtrlTail \/ CtrlEnqueue \/ CtrlCredit \/ CtrlReturn
BlockStep(b) == BlockTake(b) \/ BlockCopy(b)

\* Every call has returned.
Exit ==
  /\ cpc = "off" /\ \A b \in Blocks : dpc[b] = "off"
  /\ UNCHANGED vars

Next ==
  \/ FpgaHead \/ FpgaBody \/ FpgaTail
  \/ Ctrl \/ CtrlTimeout
  \/ \E b \in Blocks : BlockStep(b)
  \/ DataReturn
  \/ Exit

Spec == Init /\ [][Next]_vars

\* The kernels are resident together and scheduled; the FPGA has data for
\* every call and delivers it.
FairSpec ==
  /\ Spec
  /\ WF_vars(FpgaHead) /\ WF_vars(FpgaBody) /\ WF_vars(FpgaTail)
  /\ WF_vars(Ctrl)
  /\ \A b \in Blocks : WF_vars(BlockStep(b))
  /\ WF_vars(DataReturn)

-------------------------------------------------------------------------------
(* Properties.                                                             *)

Cell == [kind : {"zero", "head", "tail", "data"}, v : Nat]
Entry == {e \in [addr : Nat, len : Nat] : e.addr + e.len <= SingleBuffer}

TypeOK ==
  /\ callLength \in CallLengths
  /\ wOff \in 0..WrapAt /\ wTotal \in Nat /\ wpc \in {"idle", "head", "body"}
  /\ credit \in Nat /\ ring \in [Units -> Cell]
  /\ cpc \in {"head", "tail", "space", "credit", "done", "off", "hung"}
  /\ cCall \in 0..NumCalls /\ dCall \in 0..NumCalls
  /\ offset \in 0..WrapAt /\ blockLength \in Nat /\ curLength \in Nat
  /\ readCount \in Nat /\ record \in Nat /\ threshold \in Nat
  /\ fifo \in [Slots -> Entry] /\ wr \in Nat
  /\ rd \in [Blocks -> Nat]
  /\ dpc \in [Blocks -> {"wait", "copy", "exit", "off"}]
  /\ entry \in [Blocks -> Entry] /\ dLength \in [Blocks -> Nat]
  /\ got \in [Blocks -> Seq(Cell)]

\* All packets have one size.
WholePackets == callLength % Payload = 0

\* Where the packets of a call end, counted from its start, and where the
\* last one begins.
CallUnits == callLength + 2 * ((callLength + Payload - 1) \div Payload)
LastBegins ==
  CallUnits - 2 - (IF WholePackets THEN Payload ELSE callLength % Payload)

\* Every lap of the ring is cut into packets like the one before, and leaves
\* the window its room: all packets have one size, or a lap is a number of
\* whole calls.
LapsAlike ==
  \/ WholePackets
  \/ \E c \in 1..NumCalls :
       /\ c * CallUnits > WrapAt /\ (c - 1) * CallUnits + LastBegins <= WrapAt
       /\ FpgaWindow + (FifoDepth + 1) * Payload <= c * callLength

\* Packets queued or being copied: their payload is still to be read.
InUse(b) ==
  {fifo[k % FifoDepth] : k \in rd[b]..(wr - 1)}
    \cup (IF dpc[b] = "copy" THEN {entry[b]} ELSE {})

\* Credit goes back when a packet is queued, not when it is copied, and a
\* read pointer moves before the copy: still, while laps are cut alike, the
\* FPGA never writes a packet over payload a block has yet to read.
NoOverwriteInUse ==
  LapsAlike /\ wpc # "idle" =>
    \A b \in Blocks : \A e \in InUse(b) :
      PacketUnits \cap (e.addr .. (e.addr + e.len - 1)) = {}

\* Two kernels count the same stream on their own, over several calls: a
\* block that leaves a call has copied that call and all before it whole and
\* nothing of the next, and so has the control kernel queued it.
CallsAgree ==
  /\ \A b \in Blocks :
       /\ dpc[b] = "exit" => Len(got[b]) = (dCall + 1) * callLength
       /\ dpc[b] = "off" => Len(got[b]) = NumCalls * callLength
  /\ cpc = "done" => readCount = (cCall + 1) * callLength

\* While laps are cut alike, every block copies the payload of the stream in
\* order, none lost, none repeated, none stale, through a FIFO whose entries
\* are reused and a ring where only two words of a packet are cleared, and a
\* call leaves it on both sides where the next one begins.
DeliveredInOrder ==
  LapsAlike =>
  /\ \A b \in Blocks : \A k \in 1..Len(got[b]) : got[b][k] = DataWord(k - 1)
  /\ CallsAgree

\* Unless a wait has lasted five seconds, and while laps are cut alike, every
\* call returns on both streams: no packet is missed, the FIFO never stays
\* full and the FPGA is never left without credit.
CallsReturn ==
  LapsAlike => <>(cpc = "hung" \/ (cCall = NumCalls /\ dCall = NumCalls))
===============================================================================
