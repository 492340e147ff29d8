---------------------------- MODULE GpuRecvProofs ----------------------------
(***************************************************************************)
(* Proofs about GpuRecv for every number of blocks, depth of the FIFO, and *)
(* size of ring, packet, window and credit that meet its assumptions: its  *)
(* types for calls of any length, the rest for any number of calls of      *)
(* whole packets.                                                          *)
(*                                                                         *)
(* Everything is counted in packets: packet k of the stream lies in the    *)
(* ring at Addr(k), whatever call it belongs to.                           *)
(***************************************************************************)
EXTENDS GpuRecv, SequenceTheorems, TLAPS

-------------------------------------------------------------------------------
(* Arithmetic.                                                             *)

LEMMA Divided ==
  ASSUME NEW a \in Nat, NEW n \in Nat \ {0}
  PROVE  /\ a \div n \in Nat /\ a % n \in 0..(n - 1)
         /\ a = (a \div n) * n + (a % n)
<1>. DEFINE q == a \div n
            r == a % n
            p == q * n
<1>1. q \in Nat /\ n * q <= a /\ a < n * q + n
  OBVIOUS
<1>2. r = a - n * q
  OBVIOUS
<1>3. n * q = p /\ p \in Nat
  BY <1>1
<1>. HIDE DEF q, r, p
<1>4. r \in 0..(n - 1) /\ a = p + r
  BY <1>1, <1>2, <1>3
<1>. QED BY <1>1, <1>4 DEF q, r, p

LEMMA Quotient ==
  ASSUME NEW q \in Nat, NEW r \in Nat, NEW n \in Nat \ {0}, r < n
  PROVE  (q * n + r) \div n = q /\ (q * n + r) % n = r
  OBVIOUS

LEMMA Times ==
  ASSUME NEW a \in Nat, NEW n \in Nat
  PROVE  a * n \in Nat /\ (a + 1) * n = a * n + n
  OBVIOUS

LEMMA TimesSum ==
  ASSUME NEW a \in Nat, NEW b \in Nat, NEW n \in Nat
  PROVE  (a + b) * n = a * n + b * n
  OBVIOUS

LEMMA TimesAssoc ==
  ASSUME NEW a \in Nat, NEW b \in Nat, NEW n \in Nat
  PROVE  a * b \in Nat /\ a * (b * n) = (a * b) * n
  OBVIOUS

LEMMA TimesMono ==
  ASSUME NEW a \in Nat, NEW b \in Nat, NEW n \in Nat, a <= b
  PROVE  a * n <= b * n
  OBVIOUS

LEMMA TimesLess ==
  ASSUME NEW a \in Nat, NEW b \in Nat, NEW n \in Nat \ {0}
  PROVE  /\ a * n < b * n => a < b
         /\ a * n <= b * n => a <= b
  OBVIOUS

LEMMA Multiple ==
  ASSUME NEW a \in Nat, NEW n \in Nat \ {0}
  PROVE  /\ (a * n) % n = 0 /\ (a * n) \div n = a
         /\ a % n = 0 => \E q \in Nat : a = q * n
<1>1. (a * n + 0) \div n = a /\ (a * n + 0) % n = 0
  BY Quotient
<1>2. a * n + 0 = a * n
  OBVIOUS
<1>3. a \div n \in Nat /\ a = (a \div n) * n + (a % n)
  BY Divided
<1>4. ASSUME a % n = 0 PROVE a = (a \div n) * n
  <2>. DEFINE q == a \div n
              r == a % n
  <2>. HIDE DEF q, r
  <2>1. q \in Nat /\ r = 0 /\ a = q * n + r
    BY <1>3, <1>4 DEF q, r
  <2>2. q * n \in Nat
    BY <2>1, Times
  <2>. QED BY <2>1, <2>2 DEF q
<1>. QED BY <1>1, <1>2, <1>3, <1>4

\* What is left of a multiple after multiples of a multiple.
LEMMA MultipleRest ==
  ASSUME NEW a \in Nat, NEW c \in Nat \ {0}, NEW n \in Nat \ {0}, a % n = 0, c % n = 0
  PROVE  (a % c) % n = 0
<1>. DEFINE q == a \div c
            r == a % c
            u == r \div n
            t == r % n
<1>1. q \in Nat /\ r \in Nat /\ a = q * c + r
  BY Divided
<1>2. PICK k \in Nat : c = k * n
  BY Multiple
<1>. HIDE DEF q, r
<1>3. u \in Nat /\ t \in 0..(n - 1) /\ r = u * n + t
  BY <1>1, Divided
<1>. HIDE DEF u, t
<1>4. q * k \in Nat /\ q * c = (q * k) * n
  BY <1>1, <1>2, TimesAssoc
<1>5. (q * k + u) * n = (q * k) * n + u * n /\ q * k + u \in Nat
  BY <1>3, <1>4, TimesSum
<1>6. (q * k) * n \in Nat /\ u * n \in Nat
  BY <1>3, <1>4, Times
<1>7. a = (q * k + u) * n + t
  BY <1>1, <1>3, <1>4, <1>5, <1>6
<1>8. a % n = t
  BY <1>3, <1>5, <1>7, Quotient
<1>. QED BY <1>8 DEF r, t

LEMMA ModNext ==
  ASSUME NEW a \in Nat, NEW n \in Nat \ {0}
  PROVE  /\ (a + 1) % n = IF a % n = n - 1 THEN 0 ELSE (a % n) + 1
         /\ (a + n) % n = a % n
<1>. DEFINE q == a \div n
            r == a % n
<1>1. q \in Nat /\ r \in 0..(n - 1) /\ a = q * n + r
  BY Divided
<1>. HIDE DEF q, r
<1>2. (q + 1) * n = q * n + n /\ q * n \in Nat
  BY <1>1, Times
<1>3. a + n = (q + 1) * n + r
  BY <1>1, <1>2
<1>4. (a + n) % n = r
  BY <1>1, <1>3, Quotient
<1>5. CASE r = n - 1
  <2>1. a + 1 = (q + 1) * n + 0
    BY <1>1, <1>2, <1>5
  <2>2. (a + 1) % n = 0
    BY <1>1, <2>1, Quotient
  <2>. QED BY <1>4, <1>5, <2>2 DEF r
<1>6. CASE r # n - 1
  <2>1. a + 1 = q * n + (r + 1) /\ r + 1 < n /\ r + 1 \in Nat
    BY <1>1, <1>2, <1>6
  <2>2. (a + 1) % n = r + 1
    BY <1>1, <2>1, Quotient
  <2>. QED BY <1>4, <1>6, <2>2 DEF r
<1>. QED BY <1>5, <1>6

LEMMA ModApart ==
  ASSUME NEW j \in Nat, NEW k \in Nat, NEW n \in Nat \ {0}, j < k, k < j + n
  PROVE  j % n # k % n
<1>. DEFINE p == j \div n
            q == k \div n
            r == k % n
<1>. SUFFICES ASSUME j % n = r PROVE FALSE
  OBVIOUS
<1>1. p \in Nat /\ q \in Nat /\ r \in 0..(n - 1) /\ j = p * n + r /\ k = q * n + r
  BY Divided
<1>. HIDE DEF p, q, r
<1>2. p * n \in Nat /\ q * n \in Nat /\ (p + 1) * n = p * n + n
  BY <1>1, Times
<1>3. p * n < q * n /\ q * n < (p + 1) * n
  BY <1>1, <1>2
<1>4. p < q /\ q < p + 1
  BY <1>1, <1>3, TimesLess
<1>. QED BY <1>1, <1>4

LEMMA MultipleNext ==
  ASSUME NEW a \in Nat, NEW c \in Nat, NEW n \in Nat \ {0}, a % n = 0, c % n = 0
  PROVE  /\ (a + n) % n = 0
         /\ a < c => a + n <= c
<1>1. a = (a \div n) * n /\ a \div n \in Nat /\ c = (c \div n) * n /\ c \div n \in Nat
  BY Divided
<1>2. (a + n) % n = 0
  BY ModNext
<1>3. ASSUME a < c PROVE a + n <= c
  <2>1. a \div n < c \div n
    BY <1>1, <1>3, TimesLess
  <2>2. (a \div n + 1) * n <= (c \div n) * n
    BY <1>1, <2>1, TimesMono
  <2>3. (a \div n + 1) * n = (a \div n) * n + n
    BY <1>1, Times
  <2>. QED BY <1>1, <2>2, <2>3
<1>. QED BY <1>2, <1>3

-------------------------------------------------------------------------------
(* Where the packets lie.                                                  *)

PacketSize == Payload + 2
LapPackets == WrapAt \div PacketSize + 1
Addr(k) == (k % LapPackets) * PacketSize
PacketAt(k) == [addr |-> Addr(k) + 1, len |-> Payload]

LEMMA ConstFacts ==
  /\ NumBlocks \in Nat \ {0} /\ FifoDepth \in Nat \ {0} /\ Payload \in Nat \ {0}
  /\ PacketSize \in Nat \ {0} /\ PacketSize = Payload + 2
  /\ WrapAt \in Nat /\ SingleBuffer \in Nat /\ WrapAt + PacketSize <= SingleBuffer
  /\ LapPackets \in Nat \ {0} /\ FpgaWindow \in Nat /\ Portion \in Nat
  /\ NumCalls \in Nat \ {0} /\ CallLengths \subseteq Nat \ {0} /\ FirstRecords \subseteq Nat
<1>1. /\ NumBlocks \in Nat \ {0} /\ FifoDepth \in Nat \ {0} /\ Payload \in Nat \ {0}
      /\ PacketSize \in Nat \ {0} /\ PacketSize = Payload + 2
      /\ WrapAt \in Nat /\ SingleBuffer \in Nat /\ WrapAt + PacketSize <= SingleBuffer
      /\ FpgaWindow \in Nat /\ Portion \in Nat
      /\ NumCalls \in Nat \ {0} /\ CallLengths \subseteq Nat \ {0} /\ FirstRecords \subseteq Nat
  BY RecvAssumption DEF PacketSize, WrapAt
<1>2. WrapAt \div PacketSize \in Nat
  BY <1>1, Divided
<1>. QED BY <1>1, <1>2 DEF LapPackets

\* The window leaves room in a lap for what the FIFO holds.
LEMMA WindowFacts == FpgaWindow + (FifoDepth + 1) * Payload <= LapPackets * Payload
<1>1. SingleBuffer - MaxPackage = WrapAt /\ Payload + 2 = PacketSize
  BY DEF WrapAt, PacketSize
<1>. QED BY <1>1, WindowAssumption DEF LapPayload, LapPackets

LEMMA AddrFacts ==
  ASSUME NEW k \in Nat
  PROVE  /\ Addr(k) \in 0..WrapAt
         /\ Addr(k) + PacketSize <= SingleBuffer
         /\ NextOffset(Addr(k) + PacketSize) = Addr(k + 1)
         /\ Addr(k + LapPackets) = Addr(k)
<1>. DEFINE r == k % LapPackets
            m == WrapAt \div PacketSize
<1>1. r \in 0..m /\ m \in Nat /\ LapPackets = m + 1
  BY ConstFacts, Divided DEF LapPackets
<1>2. Addr(k) = r * PacketSize
  BY DEF Addr
<1>3. m * PacketSize <= WrapAt /\ WrapAt < (m + 1) * PacketSize
  <2>1. WrapAt = m * PacketSize + (WrapAt % PacketSize) /\ WrapAt % PacketSize < PacketSize
        /\ WrapAt % PacketSize \in Nat
    <3>1. WrapAt \in Nat /\ PacketSize \in Nat \ {0}
      BY ConstFacts
    <3>2. /\ WrapAt % PacketSize \in 0..(PacketSize - 1)
          /\ WrapAt = (WrapAt \div PacketSize) * PacketSize + (WrapAt % PacketSize)
      BY <3>1, Divided
    <3>. QED BY <3>1, <3>2
  <2>2. m * PacketSize \in Nat /\ (m + 1) * PacketSize = m * PacketSize + PacketSize
    BY <1>1, ConstFacts, Times
  <2>. QED BY <2>1, <2>2, ConstFacts
<1>4. /\ (k + 1) % LapPackets = IF r = m THEN 0 ELSE r + 1
      /\ (k + LapPackets) % LapPackets = r
  <2>1. LapPackets \in Nat \ {0} /\ LapPackets - 1 = m
    BY <1>1, ConstFacts
  <2>. HIDE DEF m
  <2>. QED BY <2>1, ModNext
<1>. HIDE DEF r, m
<1>5. r * PacketSize \in Nat /\ (r + 1) * PacketSize = r * PacketSize + PacketSize
  BY <1>1, ConstFacts, Times
<1>6. r * PacketSize <= m * PacketSize /\ m * PacketSize \in Nat
  BY <1>1, ConstFacts, Times, TimesMono
<1>7. NextOffset(Addr(k) + PacketSize) = Addr(k + 1)
  <2>1. CASE r = m
    <3>1. Addr(k + 1) = 0
      BY <1>4, <2>1, ConstFacts DEF Addr
    <3>2. Addr(k) + PacketSize > WrapAt
      BY <1>2, <1>3, <1>5, <2>1, ConstFacts
    <3>. QED BY <3>1, <3>2 DEF NextOffset
  <2>2. CASE r # m
    <3>1. Addr(k + 1) = Addr(k) + PacketSize
      BY <1>2, <1>4, <1>5, <2>2 DEF Addr
    <3>2. (r + 1) * PacketSize <= m * PacketSize
      BY <1>1, <2>2, ConstFacts, TimesMono
    <3>3. Addr(k) + PacketSize <= WrapAt
      BY <1>2, <1>3, <1>5, <1>6, <3>2, ConstFacts
    <3>. QED BY <1>2, <1>5, <3>1, <3>3, ConstFacts DEF NextOffset
  <2>. QED BY <2>1, <2>2
<1>8. Addr(k + LapPackets) = Addr(k)
  BY <1>2, <1>4 DEF Addr
<1>9. Addr(k) \in 0..WrapAt /\ Addr(k) + PacketSize <= SingleBuffer
  BY <1>2, <1>3, <1>5, <1>6, ConstFacts
<1>. QED BY <1>7, <1>8, <1>9

LEMMA AddrRange ==
  ASSUME NEW k \in Nat
  PROVE  Addr(k) \in Nat /\ Addr(k) <= WrapAt /\ Addr(k) + PacketSize <= SingleBuffer
  BY AddrFacts, ConstFacts

LEMMA AddrOrdered ==
  ASSUME NEW j \in Nat, NEW k \in Nat, j < k, k < j + LapPackets
  PROVE  Addr(j) + PacketSize <= Addr(k) \/ Addr(k) + PacketSize <= Addr(j)
<1>. DEFINE r == j % LapPackets
            s == k % LapPackets
<1>1. r \in Nat /\ s \in Nat /\ r # s
  <2>1. LapPackets \in Nat \ {0}
    BY ConstFacts
  <2>2. r \in Nat /\ s \in Nat
    BY <2>1, Divided
  <2>3. r # s
    BY <2>1, ModApart
  <2>. QED BY <2>2, <2>3
<1>2. Addr(j) = r * PacketSize /\ Addr(k) = s * PacketSize
  BY DEF Addr
<1>. HIDE DEF r, s
<1>3. r * PacketSize \in Nat /\ (r + 1) * PacketSize = r * PacketSize + PacketSize
  BY <1>1, ConstFacts, Times
<1>4. s * PacketSize \in Nat /\ (s + 1) * PacketSize = s * PacketSize + PacketSize
  BY <1>1, ConstFacts, Times
<1>5. CASE r < s
  <2>1. (r + 1) * PacketSize <= s * PacketSize
    BY <1>1, <1>5, ConstFacts, TimesMono
  <2>. QED BY <1>2, <1>3, <1>4, <2>1
<1>6. CASE s < r
  <2>1. (s + 1) * PacketSize <= r * PacketSize
    BY <1>1, <1>6, ConstFacts, TimesMono
  <2>. QED BY <1>2, <1>3, <1>4, <2>1
<1>. QED BY <1>1, <1>5, <1>6

\* Packets less than a lap apart do not touch.
LEMMA AddrApart ==
  ASSUME NEW j \in Nat, NEW k \in Nat, j # k, j < k + LapPackets, k < j + LapPackets
  PROVE  Addr(j) + PacketSize <= Addr(k) \/ Addr(k) + PacketSize <= Addr(j)
  BY AddrOrdered

-------------------------------------------------------------------------------
(* Types, for calls of any length: what the control kernel takes for a     *)
(* length may be payload, but it queues only what lies in the ring.        *)

LengthsInv ==
  /\ \A x \in Units : ring[x].kind \in {"head", "tail"} => ring[x].v >= 2
  /\ cpc \in {"tail", "space"} => blockLength >= 2
  /\ cpc = "space" => TailUnit \in Units

\* The two streams have calls to run as long as they run one.
CallsInv ==
  /\ cpc # "off" => cCall < NumCalls
  /\ \A b \in Blocks : dpc[b] # "off" => dCall < NumCalls

TInv == TypeOK /\ LengthsInv /\ CallsInv

LEMMA ZeroIsCell == ZeroWord \in Cell
  BY DEF ZeroWord, Cell

LEMMA TypeInit == Init => TInv
<1>. SUFFICES ASSUME Init PROVE TInv
  OBVIOUS
<1>1. callLength \in CallLengths /\ callLength \in Nat \ {0}
  BY ConstFacts DEF Init
<1>2. ring \in [Units -> Cell]
  BY ZeroIsCell DEF Init
<1>3. NoEntry \in Entry
  BY ConstFacts DEF NoEntry, Entry
<1>4. FirstThreshold(record) \in Nat
  <2>1. record \in Nat /\ Portion \in Nat
    BY ConstFacts DEF Init
  <2>. QED BY <2>1 DEF FirstThreshold
<1>5. TypeOK
  BY <1>1, <1>2, <1>3, <1>4, ConstFacts DEF Init, TypeOK
<1>6. LengthsInv
  BY DEF Init, LengthsInv, ZeroWord
<1>7. CallsInv
  BY ConstFacts DEF Init, CallsInv
<1>. QED BY <1>5, <1>6, <1>7 DEF TInv

\* The packet the FPGA writes lies in the ring.
LEMMA SizeFacts ==
  ASSUME TypeOK
  PROVE  /\ Size \in Nat \ {0} /\ Size <= Payload
         /\ wOff \in Units /\ wOff + Size + 1 \in Units /\ wOff \in Nat /\ wTotal \in Nat
<1>. DEFINE left == callLength - (wTotal % callLength)
<1>1. callLength \in Nat \ {0} /\ wTotal \in Nat
  BY ConstFacts DEF TypeOK
<1>2. left \in Nat \ {0}
  <2>1. wTotal % callLength \in 0..(callLength - 1)
    BY <1>1, Divided
  <2>. QED BY <1>1, <2>1
<1>3. Size = IF left < Payload THEN left ELSE Payload
  BY DEF Size
<1>. HIDE DEF left
<1>4. Size \in Nat \ {0} /\ Size <= Payload
  BY <1>2, <1>3, ConstFacts
<1>. QED BY <1>1, <1>4, ConstFacts DEF TypeOK, Units

LEMMA NextOffsetRange ==
  ASSUME NEW o \in Nat
  PROVE  NextOffset(o) \in 0..WrapAt
  BY ConstFacts DEF NextOffset

LEMMA FpgaTypes ==
  ASSUME TInv, FpgaHead \/ FpgaBody \/ FpgaTail
  PROVE  TInv'
<1>0. TypeOK /\ LengthsInv /\ CallsInv
  BY DEF TInv
<1>1. /\ Size \in Nat \ {0} /\ wOff \in Units /\ wOff + Size + 1 \in Units
      /\ wOff \in Nat /\ wTotal \in Nat /\ ring \in [Units -> Cell]
  BY <1>0, SizeFacts DEF TypeOK
<1>2. UNCHANGED <<callLength, credit, ctrlVars, fifoVars, dataVars>>
  BY DEF FpgaHead, FpgaBody, FpgaTail
<1>3. /\ ring' \in [Units -> Cell]
      /\ \A x \in Units : ring'[x].kind \in {"head", "tail"} => ring'[x].v >= 2
  <2>1. CASE FpgaHead
    <3>1. ring' = [ring EXCEPT ![wOff] = HeadWord(Size + 2)]
      BY <2>1 DEF FpgaHead
    <3>2. HeadWord(Size + 2) \in Cell /\ HeadWord(Size + 2).v >= 2
      BY <1>1 DEF HeadWord, Cell
    <3>. QED BY <1>0, <1>1, <3>1, <3>2 DEF LengthsInv
  <2>2. CASE FpgaBody
    <3>1. ring' = [x \in Units |-> IF x > wOff /\ x <= wOff + Size
                                   THEN DataWord(wTotal + (x - wOff - 1)) ELSE ring[x]]
      BY <2>2 DEF FpgaBody
    <3>2. ASSUME NEW x \in Units, x > wOff
          PROVE  /\ DataWord(wTotal + (x - wOff - 1)) \in Cell
                 /\ DataWord(wTotal + (x - wOff - 1)).kind = "data"
      <4>1. wTotal + (x - wOff - 1) \in Nat
        BY <1>1, <3>2, ConstFacts DEF Units
      <4>. QED BY <4>1 DEF DataWord, Cell
    <3>. QED BY <1>0, <1>1, <3>1, <3>2 DEF LengthsInv
  <2>3. CASE FpgaTail
    <3>1. ring' = [ring EXCEPT ![wOff + Size + 1] = TailWord(Size + 2)]
      BY <2>3 DEF FpgaTail
    <3>2. TailWord(Size + 2) \in Cell /\ TailWord(Size + 2).v >= 2
      BY <1>1 DEF TailWord, Cell
    <3>. QED BY <1>0, <1>1, <3>1, <3>2 DEF LengthsInv
  <2>. QED BY <2>1, <2>2, <2>3
<1>4. wOff' \in 0..WrapAt /\ wTotal' \in Nat /\ wpc' \in {"idle", "head", "body"}
  <2>1. CASE FpgaHead \/ FpgaBody
    BY <1>0, <2>1 DEF FpgaHead, FpgaBody, TypeOK
  <2>2. CASE FpgaTail
    BY <1>1, <2>2, NextOffsetRange DEF FpgaTail
  <2>. QED BY <2>1, <2>2
<1>5. TypeOK'
  BY <1>0, <1>2, <1>3, <1>4 DEF TypeOK, ctrlVars, fifoVars, dataVars
<1>6. LengthsInv' /\ CallsInv'
  BY <1>0, <1>2, <1>3 DEF LengthsInv, CallsInv, TailUnit, ctrlVars, fifoVars, dataVars
<1>. QED BY <1>5, <1>6 DEF TInv

LEMMA CtrlTypes ==
  ASSUME TInv, Ctrl \/ CtrlTimeout
  PROVE  TInv'
<1>0. TypeOK /\ LengthsInv /\ CallsInv
  BY DEF TInv
<1>1. offset \in 0..WrapAt /\ offset \in Units /\ offset \in Nat /\ ring \in [Units -> Cell]
      /\ blockLength \in Nat
  BY <1>0, ConstFacts DEF TypeOK, Units
<1>2. CASE CtrlHead
  <2>1. blockLength' \in Nat /\ blockLength' >= 2
    <3>1. CASE ring[offset].kind \in {"head", "tail"} /\ blockLength' = ring[offset].v
      BY <1>0, <1>1, <3>1 DEF LengthsInv, Cell
    <3>2. CASE blockLength' \in PayloadWords
      <4>1. PayloadWords \subseteq Nat \ {0, 1}
        BY RecvAssumption
      <4>. QED BY <3>2, <4>1
    <3>. QED BY <1>2, <3>1, <3>2 DEF CtrlHead
  <2>2. /\ cpc = "head" /\ cpc' = "tail"
        /\ UNCHANGED <<fpgaVars, credit, ring, cCall, offset, curLength, readCount, record,
                       threshold, fifoVars, dataVars>>
    BY <1>2 DEF CtrlHead
  <2>3. TypeOK'
    BY <1>0, <2>1, <2>2 DEF TypeOK, fpgaVars, fifoVars, dataVars
  <2>4. LengthsInv' /\ CallsInv'
    BY <1>0, <2>1, <2>2 DEF LengthsInv, CallsInv, dataVars
  <2>. QED BY <2>3, <2>4 DEF TInv
<1>3. CASE CtrlTail
  <2>1. /\ cpc = "tail" /\ cpc' = "space" /\ TailUnit \in Units
        /\ ring' = [ring EXCEPT ![offset] = ZeroWord, ![TailUnit] = ZeroWord]
        /\ UNCHANGED <<fpgaVars, credit, cCall, offset, blockLength, curLength, readCount,
                       record, threshold, fifoVars, dataVars>>
    BY <1>3 DEF CtrlTail, TailSeen, Cleared
  <2>2. /\ ring' \in [Units -> Cell]
        /\ \A x \in Units : ring'[x] = ring[x] \/ ring'[x] = ZeroWord
    BY <1>1, <2>1, ZeroIsCell
  <2>3. TypeOK'
    BY <1>0, <2>1, <2>2 DEF TypeOK, fpgaVars, fifoVars, dataVars
  <2>4. LengthsInv' /\ CallsInv'
    <3>1. ZeroWord.kind = "zero"
      BY DEF ZeroWord
    <3>. QED BY <1>0, <2>1, <2>2, <3>1 DEF LengthsInv, CallsInv, TailUnit, dataVars
  <2>. QED BY <2>3, <2>4 DEF TInv
<1>4. CASE CtrlEnqueue
  <2>. DEFINE n == blockLength - 2
              e == [addr |-> offset + 1, len |-> n]
  <2>1. /\ cpc = "space" /\ n \in Nat /\ offset + blockLength - 1 \in Units
    BY <1>0, <1>1, <1>4 DEF CtrlEnqueue, LengthsInv, TailUnit
  <2>2. e \in Entry
    BY <1>1, <2>1, ConstFacts DEF Entry, Units
  <2>3. fifo' \in [Slots -> Entry]
    <3>1. fifo' = [fifo EXCEPT ![wr % FifoDepth] = e]
      BY <1>4 DEF CtrlEnqueue
    <3>. QED BY <1>0, <2>2, <3>1 DEF TypeOK
  <2>4. /\ readCount' \in Nat /\ curLength' \in Nat /\ record' \in Nat /\ threshold' \in Nat
        /\ wr' \in Nat
        /\ cpc' \in {"credit", "done", "head"}
    BY <1>0, <1>4, <2>1, ConstFacts DEF TypeOK, CtrlEnqueue, AfterPackage
  <2>5. offset' \in 0..WrapAt
    <3>1. offset' = NextOffset(offset + blockLength) /\ offset + blockLength \in Nat
      BY <1>1, <1>4 DEF CtrlEnqueue
    <3>. QED BY <3>1, NextOffsetRange
  <2>6. UNCHANGED <<fpgaVars, credit, ring, cCall, blockLength, dataVars>>
    BY <1>4 DEF CtrlEnqueue
  <2>. HIDE DEF n, e
  <2>7. TypeOK'
    BY <1>0, <2>3, <2>4, <2>5, <2>6 DEF TypeOK, fpgaVars, dataVars
  <2>8. LengthsInv' /\ CallsInv'
    BY <1>0, <2>1, <2>4, <2>6 DEF LengthsInv, CallsInv, dataVars
  <2>. QED BY <2>7, <2>8 DEF TInv
<1>5. CASE CtrlCredit
  <2>1. /\ cpc = "credit" /\ cpc' \in {"done", "head"} /\ credit' = readCount
        /\ UNCHANGED <<fpgaVars, ring, cCall, offset, blockLength, curLength, readCount, record,
                       threshold, fifoVars, dataVars>>
    BY <1>5 DEF CtrlCredit, AfterPackage
  <2>. QED BY <1>0, <2>1 DEF TInv, TypeOK, LengthsInv, CallsInv, fpgaVars, fifoVars, dataVars
<1>6. CASE CtrlReturn
  <2>1. /\ cpc = "done" /\ cCall' = cCall + 1 /\ curLength' = 0
        /\ cpc' = (IF cCall + 1 < NumCalls THEN "head" ELSE "off")
        /\ threshold' = FirstThreshold(record)
        /\ UNCHANGED <<fpgaVars, credit, ring, offset, blockLength, readCount, record, fifoVars,
                       dataVars>>
    BY <1>6 DEF CtrlReturn
  <2>2. threshold' \in Nat
    <3>1. record \in Nat /\ Portion \in Nat
      BY <1>0, ConstFacts DEF TypeOK
    <3>. QED BY <2>1, <3>1 DEF FirstThreshold
  <2>3. cCall < NumCalls /\ cCall \in Nat
    BY <1>0, <2>1 DEF CallsInv, TypeOK
  <2>4. TypeOK'
    BY <1>0, <2>1, <2>2, <2>3, ConstFacts DEF TypeOK, fpgaVars, fifoVars, dataVars
  <2>5. LengthsInv' /\ CallsInv'
    BY <1>0, <2>1 DEF LengthsInv, CallsInv, dataVars
  <2>. QED BY <2>4, <2>5 DEF TInv
<1>7. CASE CtrlTimeout
  <2>1. /\ cpc \in {"head", "tail", "space"} /\ cpc' = "hung"
        /\ UNCHANGED <<fpgaVars, credit, ring, cCall, offset, blockLength, curLength, readCount,
                       record, threshold, fifoVars, dataVars>>
    BY <1>7 DEF CtrlTimeout
  <2>. QED BY <1>0, <2>1 DEF TInv, TypeOK, LengthsInv, CallsInv, fpgaVars, fifoVars, dataVars
<1>. QED BY <1>2, <1>3, <1>4, <1>5, <1>6, <1>7 DEF Ctrl

LEMMA BlockTypes ==
  ASSUME TInv, NEW b \in Blocks, BlockStep(b)
  PROVE  TInv'
<1>0. TypeOK /\ LengthsInv /\ CallsInv
  BY DEF TInv
<1>1. CASE BlockTake(b)
  <2>1. /\ dpc[b] = "wait" /\ entry' = [entry EXCEPT ![b] = fifo[rd[b] % FifoDepth]]
        /\ rd' = [rd EXCEPT ![b] = rd[b] + 1]
        /\ dLength' = [dLength EXCEPT ![b] = dLength[b] + entry'[b].len]
        /\ dpc' = [dpc EXCEPT ![b] = "copy"]
        /\ UNCHANGED <<fpgaVars, credit, ring, ctrlVars, fifoVars, dCall, got>>
    BY <1>0, <1>1 DEF BlockTake, TypeOK
  <2>2. rd[b] % FifoDepth \in Slots
    <3>1. rd[b] \in Nat /\ FifoDepth \in Nat \ {0}
      BY <1>0, ConstFacts DEF TypeOK
    <3>. QED BY <3>1, Divided DEF Slots
  <2>3. entry' \in [Blocks -> Entry] /\ entry'[b] \in Entry
    BY <1>0, <2>1, <2>2 DEF TypeOK
  <2>4. entry'[b].len \in Nat
    BY <2>3 DEF Entry
  <2>5. TypeOK'
    <3>1. rd' \in [Blocks -> Nat] /\ dLength' \in [Blocks -> Nat]
      BY <1>0, <2>1, <2>4 DEF TypeOK
    <3>2. dpc' \in [Blocks -> {"wait", "copy", "exit", "off"}]
      BY <1>0, <2>1 DEF TypeOK
    <3>. QED BY <1>0, <2>1, <2>3, <3>1, <3>2 DEF TypeOK, fpgaVars, ctrlVars, fifoVars
  <2>6. LengthsInv' /\ CallsInv'
    BY <1>0, <2>1 DEF TypeOK, LengthsInv, CallsInv, TailUnit, ctrlVars
  <2>. QED BY <2>5, <2>6 DEF TInv
<1>2. CASE BlockCopy(b)
  <2>. DEFINE new == [k \in 1..entry[b].len |-> ring[entry[b].addr + k - 1]]
  <2>1. /\ dpc[b] = "copy" /\ got' = [got EXCEPT ![b] = got[b] \o new]
        /\ dpc' = [dpc EXCEPT ![b] = IF dLength[b] >= callLength THEN "exit" ELSE "wait"]
        /\ UNCHANGED <<fpgaVars, credit, ring, ctrlVars, fifoVars, rd, dCall, entry, dLength>>
    BY <1>0, <1>2 DEF BlockCopy, TypeOK
  <2>2. new \in Seq(Cell)
    <3>1. entry[b].len \in Nat /\ entry[b].addr \in Nat
          /\ entry[b].addr + entry[b].len <= SingleBuffer
      BY <1>0 DEF TypeOK, Entry
    <3>2. \A k \in 1..entry[b].len : ring[entry[b].addr + k - 1] \in Cell
      BY <1>0, <3>1, ConstFacts DEF TypeOK, Units
    <3>. QED BY <3>1, <3>2
  <2>. HIDE DEF new
  <2>3. got' \in [Blocks -> Seq(Cell)]
    BY <1>0, <2>1, <2>2 DEF TypeOK
  <2>4. TypeOK'
    BY <1>0, <2>1, <2>3 DEF TypeOK, fpgaVars, ctrlVars, fifoVars
  <2>5. LengthsInv' /\ CallsInv'
    BY <1>0, <2>1 DEF TypeOK, LengthsInv, CallsInv, TailUnit, ctrlVars
  <2>. QED BY <2>4, <2>5 DEF TInv
<1>. QED BY <1>1, <1>2 DEF BlockStep

LEMMA DataReturnTypes ==
  ASSUME TInv, DataReturn
  PROVE  TInv'
<1>0. TypeOK /\ LengthsInv /\ CallsInv
  BY DEF TInv
<1>1. /\ \A b \in Blocks : dpc[b] = "exit"
      /\ dCall' = dCall + 1 /\ dLength' = [b \in Blocks |-> 0]
      /\ dpc' = [b \in Blocks |-> IF dCall + 1 < NumCalls THEN "wait" ELSE "off"]
      /\ UNCHANGED <<fpgaVars, credit, ring, ctrlVars, fifoVars, rd, entry, got>>
  BY DEF DataReturn
<1>2. dCall < NumCalls /\ dCall \in Nat
  <2>1. 0 \in Blocks
    BY ConstFacts DEF Blocks
  <2>. QED BY <1>0, <1>1, <2>1 DEF CallsInv, TypeOK
<1>3. TypeOK'
  BY <1>0, <1>1, <1>2, ConstFacts DEF TypeOK, fpgaVars, ctrlVars, fifoVars
<1>4. LengthsInv' /\ CallsInv'
  BY <1>0, <1>1 DEF LengthsInv, CallsInv, TailUnit, ctrlVars
<1>. QED BY <1>3, <1>4 DEF TInv

LEMMA TypeStep == TInv /\ [Next]_vars => TInv'
<1>. SUFFICES ASSUME TInv, [Next]_vars PROVE TInv'
  OBVIOUS
<1>1. CASE UNCHANGED vars
  BY <1>1 DEF TInv, TypeOK, LengthsInv, CallsInv, TailUnit, vars, fpgaVars, ctrlVars, fifoVars,
              dataVars
<1>2. CASE Next
  BY <1>1, <1>2, FpgaTypes, CtrlTypes, BlockTypes, DataReturnTypes DEF Next, Exit
<1>. QED BY <1>1, <1>2

-------------------------------------------------------------------------------
(* The inductive invariant.                                                *)

\* Packets the FPGA has finished, begun, and written the payload of.
Written == wTotal \div Payload
Started == IF wpc = "idle" THEN Written ELSE Written + 1
Filled == IF wpc = "body" THEN Written + 1 ELSE Written

\* Packets whose length words the control kernel has cleared.
Seen == IF cpc = "space" THEN wr + 1 ELSE wr

FpgaInv ==
  /\ wTotal = Written * Payload /\ wOff = Addr(Written)
  /\ wTotal <= NumCalls * callLength
  /\ wpc # "idle" => wTotal + Payload <= NumCalls * callLength
  /\ credit <= readCount
  /\ Started * Payload <= credit + FpgaWindow

CtrlInv ==
  /\ readCount = wr * Payload /\ offset = Addr(wr)
  /\ wr <= Written /\ Seen <= Written
  /\ cpc = "tail" => wr < Started
  /\ cpc \in {"tail", "space"} => blockLength = PacketSize
  /\ readCount = cCall * callLength + curLength
  /\ curLength % Payload = 0 /\ curLength <= callLength
  /\ cpc \in {"head", "tail", "space"} => curLength < callLength
  /\ cpc = "done" => curLength = callLength
  /\ cpc = "off" => cCall = NumCalls /\ curLength = 0

\* The length words of a packet are there from when the FPGA writes them to
\* when the kernel has seen them, and zero for the rest of a lap.
HeadsInv ==
  /\ \A k \in Nat : Seen <= k /\ k < Started => ring[Addr(k)] = HeadWord(PacketSize)
  /\ \A k \in Nat : Started <= k /\ k < Seen + LapPackets => ring[Addr(k)] = ZeroWord

TailsInv ==
  /\ \A k \in Nat : Seen <= k /\ k < Written =>
       ring[Addr(k) + PacketSize - 1] = TailWord(PacketSize)
  /\ \A k \in Nat : Written <= k /\ k < Seen + LapPackets =>
       ring[Addr(k) + PacketSize - 1] = ZeroWord

\* The ring holds the payload of the last lap.
DataInv ==
  \A k \in Nat : k < Filled /\ Started <= k + LapPackets =>
    \A d \in 1..Payload : ring[Addr(k) + d] = DataWord(k * Payload + d - 1)

FifoInv ==
  /\ \A b \in Blocks : rd[b] <= wr /\ wr <= rd[b] + FifoDepth
  /\ \A k \in Nat : k < wr /\ wr <= k + FifoDepth => fifo[k % FifoDepth] = PacketAt(k)

Copied(b) == IF dpc[b] = "copy" THEN rd[b] - 1 ELSE rd[b]

BlockInv ==
  \A b \in Blocks :
    /\ rd[b] * Payload = dCall * callLength + dLength[b]
    /\ dLength[b] % Payload = 0 /\ dLength[b] <= callLength
    /\ dpc[b] = "copy" => rd[b] >= 1 /\ entry[b] = PacketAt(rd[b] - 1)
    /\ dpc[b] = "wait" => dLength[b] < callLength
    /\ dpc[b] = "exit" => dLength[b] = callLength
    /\ dpc[b] = "off" => dCall = NumCalls /\ dLength[b] = 0

GotInv ==
  \A b \in Blocks :
    /\ Len(got[b]) = Copied(b) * Payload
    /\ \A k \in 1..Len(got[b]) : got[b][k] = DataWord(k - 1)

WordsInv == cpc # "hung" => HeadsInv /\ TailsInv

Inv ==
  FpgaInv /\ CtrlInv /\ WordsInv /\ DataInv /\ FifoInv /\ BlockInv /\ GotInv

IInv == TInv /\ (WholePackets => Inv)

-------------------------------------------------------------------------------
(* Consequences of the invariant.                                          *)

\* The window, counted in packets.
LEMMA WindowApart ==
  ASSUME NEW s \in Nat, NEW w \in Nat, s * Payload <= w * Payload + FpgaWindow
  PROVE  s + FifoDepth + 1 <= w + LapPackets
<1>1. (s + (FifoDepth + 1)) * Payload = s * Payload + (FifoDepth + 1) * Payload
  BY ConstFacts, TimesSum
<1>2. (w + LapPackets) * Payload = w * Payload + LapPackets * Payload
  BY ConstFacts, TimesSum
<1>3. /\ s * Payload \in Nat /\ w * Payload \in Nat
      /\ (FifoDepth + 1) * Payload \in Nat /\ LapPackets * Payload \in Nat
  BY ConstFacts, Times
<1>4. (s + (FifoDepth + 1)) * Payload <= (w + LapPackets) * Payload
  BY <1>1, <1>2, <1>3, WindowFacts, ConstFacts
<1>5. s + (FifoDepth + 1) \in Nat /\ w + LapPackets \in Nat
  BY ConstFacts
<1>6. s + (FifoDepth + 1) <= w + LapPackets
  BY <1>4, <1>5, ConstFacts, TimesLess
<1>. QED BY <1>6, ConstFacts

\* The FPGA is never so far ahead that a packet comes near one in use.
LEMMA Counts ==
  ASSUME TypeOK, FpgaInv, CtrlInv
  PROVE  /\ Written \in Nat /\ Started \in Nat /\ Seen \in Nat /\ wr \in Nat
         /\ Written <= Started /\ Started <= Written + 1
         /\ wr <= Seen /\ Seen <= wr + 1 /\ Seen <= Written
         /\ Started + FifoDepth + 1 <= wr + LapPackets
         /\ Filled \in Nat /\ Written <= Filled /\ Filled <= Started
<1>1. Written \in Nat
  BY ConstFacts, Divided DEF TypeOK, Written
<1>2. Started \in Nat /\ Written <= Started /\ Started <= Written + 1
  BY <1>1 DEF Started
<1>3. wr \in Nat /\ Seen \in Nat /\ wr <= Seen /\ Seen <= wr + 1 /\ Seen <= Written
  BY DEF TypeOK, Seen, CtrlInv
<1>4. Started + FifoDepth + 1 <= wr + LapPackets
  <2>1. wr * Payload \in Nat /\ Started * Payload \in Nat
    BY <1>2, <1>3, ConstFacts, Times
  <2>2. Started * Payload <= wr * Payload + FpgaWindow
    BY <2>1, ConstFacts DEF TypeOK, FpgaInv, CtrlInv
  <2>. QED BY <1>2, <1>3, <2>2, WindowApart
<1>5. Filled \in Nat /\ Written <= Filled /\ Filled <= Started
  BY <1>1 DEF Filled, Started
<1>. QED BY <1>1, <1>2, <1>3, <1>4, <1>5

LEMMA CallFacts ==
  ASSUME TypeOK, WholePackets
  PROVE  /\ callLength \in Nat \ {0} /\ callLength % Payload = 0
         /\ NumCalls * callLength \in Nat /\ (NumCalls * callLength) % Payload = 0
<1>1. callLength \in Nat \ {0} /\ callLength % Payload = 0
  BY ConstFacts DEF TypeOK, WholePackets
<1>2. PICK c \in Nat : callLength = c * Payload
  BY <1>1, ConstFacts, Multiple
<1>3. NumCalls * callLength = (NumCalls * c) * Payload /\ NumCalls * c \in Nat
  BY <1>2, ConstFacts, TimesAssoc
<1>4. (NumCalls * callLength) % Payload = 0
  BY <1>3, ConstFacts, Multiple
<1>. QED BY <1>1, <1>4, ConstFacts, Times

\* Every packet of the FPGA is whole, and of one call.
LEMMA SizeWhole ==
  ASSUME TypeOK, WholePackets, FpgaInv
  PROVE  /\ Size = Payload
         /\ wTotal < NumCalls * callLength => wTotal + Payload <= NumCalls * callLength
<1>. DEFINE r == wTotal % callLength
<1>1. wTotal \in Nat /\ r \in 0..(callLength - 1)
  BY CallFacts, Divided DEF TypeOK
<1>2. wTotal % Payload = 0
  <2>1. wTotal = Written * Payload /\ Written \in Nat
    BY ConstFacts, Divided DEF TypeOK, FpgaInv, Written
  <2>. QED BY <2>1, ConstFacts, Multiple
<1>3. r % Payload = 0
  BY <1>1, <1>2, CallFacts, ConstFacts, MultipleRest
<1>4. r + Payload <= callLength
  <2>. HIDE DEF r
  <2>. QED BY <1>1, <1>3, CallFacts, ConstFacts, MultipleNext
<1>5. Size = Payload
  <2>1. Size = IF callLength - r < Payload THEN callLength - r ELSE Payload
    BY DEF Size
  <2>. HIDE DEF r
  <2>. QED BY <1>1, <1>4, <2>1, CallFacts, ConstFacts
<1>6. wTotal < NumCalls * callLength => wTotal + Payload <= NumCalls * callLength
  BY <1>1, <1>2, CallFacts, ConstFacts, MultipleNext
<1>. QED BY <1>5, <1>6

-------------------------------------------------------------------------------
(* The initial state and the steps of the FPGA.                            *)

LEMMA InitStep ==
  ASSUME TypeOK, WholePackets, Init
  PROVE  Inv
<1>1. Addr(0) = 0 /\ Written = 0 /\ Started = 0 /\ Filled = 0 /\ Seen = 0
  <2>1. 0 % LapPackets = 0 /\ 0 \div Payload = 0
    <3>1. 0 = 0 * LapPackets /\ 0 = 0 * Payload
      BY ConstFacts
    <3>. QED BY <3>1, ConstFacts, Multiple
  <2>. QED BY <2>1, ConstFacts DEF Init, Addr, Written, Started, Filled, Seen
<1>2. callLength \in CallLengths /\ callLength \in Nat \ {0}
  BY ConstFacts DEF Init
<1>3. NumCalls * callLength \in Nat /\ 0 * callLength = 0 /\ 0 * Payload = 0 /\ 0 % Payload = 0
  <2>1. 0 % Payload = 0
    BY ConstFacts
  <2>. QED BY <1>2, <2>1, ConstFacts, Times
<1>4. FpgaInv /\ CtrlInv
  BY <1>1, <1>2, <1>3, ConstFacts DEF Init, FpgaInv, CtrlInv
<1>5. WordsInv
  <2>1. \A k \in Nat : Addr(k) \in Units /\ Addr(k) + PacketSize - 1 \in Units
    BY AddrRange, ConstFacts DEF Units
  <2>2. \A k \in Nat : ring[Addr(k)] = ZeroWord /\ ring[Addr(k) + PacketSize - 1] = ZeroWord
    BY <2>1 DEF Init
  <2>. QED BY <1>1, <2>2 DEF WordsInv, HeadsInv, TailsInv
<1>6. DataInv /\ FifoInv
  BY <1>1, ConstFacts DEF Init, DataInv, FifoInv
<1>7. BlockInv /\ GotInv
  BY <1>2, <1>3, ConstFacts DEF Init, BlockInv, GotInv, Copied
<1>. QED BY <1>4, <1>5, <1>6, <1>7 DEF Inv

\* A packet keeps its units when only those of another, less than a lap
\* away, are written.
LEMMA PacketKept ==
  ASSUME NEW j \in Nat, NEW k \in Nat, j # k, j < k + LapPackets, k < j + LapPackets,
         \A x \in Units : x < Addr(j) \/ x >= Addr(j) + PacketSize => ring'[x] = ring[x]
  PROVE  \A d \in 0..(PacketSize - 1) : ring'[Addr(k) + d] = ring[Addr(k) + d]
<1>1. TAKE d \in 0..(PacketSize - 1)
<1>2. /\ Addr(j) \in Nat /\ Addr(k) \in Nat /\ Addr(k) + PacketSize <= SingleBuffer
      /\ Addr(j) + PacketSize <= Addr(k) \/ Addr(k) + PacketSize <= Addr(j)
  BY AddrRange, AddrApart
<1>3. Addr(k) + d \in Units
  BY <1>2, ConstFacts DEF Units
<1>4. Addr(k) + d < Addr(j) \/ Addr(k) + d >= Addr(j) + PacketSize
  BY <1>2, ConstFacts
<1>. QED BY <1>3, <1>4

LEMMA HeadStep ==
  ASSUME TypeOK, WholePackets, Inv, FpgaHead
  PROVE  Inv'
<1>. DEFINE W == Written
<1>0. TypeOK /\ FpgaInv /\ CtrlInv
  BY DEF Inv
<1>1. /\ W \in Nat /\ Started = W /\ Filled = W /\ Seen \in Nat /\ wr \in Nat
      /\ wr <= Seen /\ Seen <= W
  BY <1>0, Counts DEF FpgaHead, Started, Filled
<1>2. Size = Payload /\ wTotal + Payload <= NumCalls * callLength
  BY <1>0, SizeWhole DEF FpgaHead
<1>3. /\ Written' = W /\ Started' = W + 1 /\ Filled' = W /\ Seen' = Seen /\ wpc' = "head"
      /\ UNCHANGED <<callLength, wOff, wTotal, credit, ctrlVars, fifoVars, dataVars>>
  BY DEF FpgaHead, Written, Started, Filled, Seen, ctrlVars, fifoVars
<1>4. /\ wTotal = W * Payload /\ wOff = Addr(W)
      /\ wTotal + Payload - credit <= FpgaWindow
  BY <1>0, <1>2 DEF FpgaHead, FpgaInv
<1>. HIDE DEF W
<1>5. /\ (W + 1) * Payload <= credit + FpgaWindow
      /\ W + 1 + FifoDepth + 1 <= wr + LapPackets
  <2>1. (W + 1) * Payload = W * Payload + Payload /\ W * Payload \in Nat /\ wr * Payload \in Nat
    BY <1>1, ConstFacts, Times
  <2>2. (W + 1) * Payload <= credit + FpgaWindow
    BY <1>0, <1>4, <2>1, ConstFacts DEF TypeOK
  <2>3. (W + 1) * Payload <= wr * Payload + FpgaWindow
    BY <1>0, <2>1, <2>2, ConstFacts DEF TypeOK, FpgaInv, CtrlInv
  <2>4. W + 1 \in Nat
    BY <1>1
  <2>5. W + 1 + FifoDepth + 1 <= wr + LapPackets
    BY <1>1, <2>3, <2>4, WindowApart
  <2>. QED BY <2>2, <2>5
<1>6. /\ Addr(W) \in Nat /\ Addr(W) + PacketSize <= SingleBuffer
      /\ ring' = [ring EXCEPT ![Addr(W)] = HeadWord(PacketSize)]
  BY <1>1, <1>2, <1>4, AddrRange DEF FpgaHead, PacketSize
<1>7. /\ ring'[Addr(W)] = HeadWord(PacketSize)
      /\ ring'[Addr(W) + PacketSize - 1] = ring[Addr(W) + PacketSize - 1]
      /\ \A x \in Units : x < Addr(W) \/ x >= Addr(W) + PacketSize => ring'[x] = ring[x]
  <2>1. Addr(W) \in Units /\ Addr(W) + PacketSize - 1 \in Units
    BY <1>6, ConstFacts DEF Units
  <2>. QED BY <1>0, <1>6, <2>1, ConstFacts DEF TypeOK, Units
<1>8. ASSUME NEW k \in Nat, k # W, W < k + LapPackets, k < W + LapPackets
      PROVE  \A d \in 0..(PacketSize - 1) : ring'[Addr(k) + d] = ring[Addr(k) + d]
  BY <1>1, <1>7, <1>8, PacketKept
<1>9. FpgaInv'
  BY <1>0, <1>2, <1>3, <1>4, <1>5 DEF FpgaInv, ctrlVars
<1>10. CtrlInv'
  BY <1>0, <1>1, <1>3 DEF CtrlInv, ctrlVars, fifoVars, W
<1>11. HeadsInv /\ TailsInv => HeadsInv' /\ TailsInv'
  <2>. SUFFICES ASSUME HeadsInv, TailsInv PROVE HeadsInv' /\ TailsInv'
    OBVIOUS
  <2>1. ASSUME NEW k \in Nat, Seen <= k, k < Seen + LapPackets, k # W
        PROVE  ring'[Addr(k)] = ring[Addr(k)]
               /\ ring'[Addr(k) + PacketSize - 1] = ring[Addr(k) + PacketSize - 1]
    <3>1. W < k + LapPackets /\ k < W + LapPackets
      BY <1>1, <1>5, <2>1, ConstFacts
    <3>2. \A d \in 0..(PacketSize - 1) : ring'[Addr(k) + d] = ring[Addr(k) + d]
      BY <1>8, <2>1, <3>1
    <3>3. /\ 0 \in 0..(PacketSize - 1) /\ PacketSize - 1 \in 0..(PacketSize - 1)
          /\ Addr(k) + 0 = Addr(k) /\ Addr(k) + (PacketSize - 1) = Addr(k) + PacketSize - 1
      BY AddrRange, ConstFacts
    <3>. QED BY <3>2, <3>3
  <2>2. HeadsInv'
    BY <1>1, <1>3, <1>5, <1>7, <2>1, ConstFacts DEF HeadsInv
  <2>3. TailsInv'
    BY <1>1, <1>3, <1>5, <1>7, <2>1, ConstFacts DEF TailsInv, W
  <2>. QED BY <2>2, <2>3
<1>12. WordsInv'
  BY <1>3, <1>11 DEF Inv, WordsInv, ctrlVars
<1>13. DataInv'
  <2>. SUFFICES ASSUME NEW k \in Nat, k < W, W + 1 <= k + LapPackets, NEW d \in 1..Payload
                PROVE  ring'[Addr(k) + d] = DataWord(k * Payload + d - 1)
    BY <1>3 DEF DataInv
  <2>1. k # W /\ W < k + LapPackets /\ k < W + LapPackets /\ W <= k + LapPackets
    BY <1>1, ConstFacts
  <2>2. d \in 0..(PacketSize - 1)
    BY ConstFacts
  <2>3. ring'[Addr(k) + d] = ring[Addr(k) + d]
    BY <1>8, <2>1, <2>2
  <2>. QED BY <1>1, <2>1, <2>3 DEF Inv, DataInv
<1>14. FifoInv' /\ BlockInv' /\ GotInv'
  BY <1>3 DEF Inv, FifoInv, BlockInv, GotInv, Copied, fifoVars, dataVars
<1>. QED BY <1>9, <1>10, <1>12, <1>13, <1>14 DEF Inv

LEMMA BodyStep ==
  ASSUME TypeOK, WholePackets, Inv, FpgaBody
  PROVE  Inv'
<1>. DEFINE W == Written
<1>0. TypeOK /\ FpgaInv /\ CtrlInv
  BY DEF Inv
<1>1. /\ W \in Nat /\ Started = W + 1 /\ Filled = W /\ Seen \in Nat /\ wr \in Nat
      /\ wr <= Seen /\ Seen <= W
  BY <1>0, Counts DEF FpgaBody, Started, Filled
<1>2. Size = Payload
  BY <1>0, SizeWhole
<1>3. /\ Written' = W /\ Started' = W + 1 /\ Filled' = W + 1 /\ Seen' = Seen
      /\ wpc # "idle" /\ wpc' = "body"
      /\ UNCHANGED <<callLength, wOff, wTotal, credit, ctrlVars, fifoVars, dataVars>>
  BY DEF FpgaBody, Written, Started, Filled, Seen, ctrlVars, fifoVars
<1>4. wTotal = W * Payload /\ wOff = Addr(W)
  BY <1>0 DEF FpgaInv
<1>5. W + 1 + FifoDepth + 1 <= wr + LapPackets
  BY <1>0, <1>1, Counts
<1>. HIDE DEF W
<1>6. /\ Addr(W) \in Nat /\ Addr(W) + PacketSize <= SingleBuffer
      /\ \A x \in Units : ring'[x] = IF x > Addr(W) /\ x <= Addr(W) + Payload
                                     THEN DataWord(W * Payload + (x - Addr(W) - 1))
                                     ELSE ring[x]
  BY <1>1, <1>2, <1>4, AddrRange DEF FpgaBody
<1>7. /\ ring'[Addr(W)] = ring[Addr(W)]
      /\ ring'[Addr(W) + PacketSize - 1] = ring[Addr(W) + PacketSize - 1]
      /\ \A d \in 1..Payload : ring'[Addr(W) + d] = DataWord(W * Payload + d - 1)
      /\ \A x \in Units : x < Addr(W) \/ x >= Addr(W) + PacketSize => ring'[x] = ring[x]
  <2>1. Addr(W) \in Units /\ Addr(W) + PacketSize - 1 \in Units
    BY <1>6, ConstFacts DEF Units
  <2>2. /\ ring'[Addr(W)] = ring[Addr(W)]
        /\ ring'[Addr(W) + PacketSize - 1] = ring[Addr(W) + PacketSize - 1]
        /\ \A x \in Units : x < Addr(W) \/ x >= Addr(W) + PacketSize => ring'[x] = ring[x]
    BY <1>6, <2>1, ConstFacts DEF Units
  <2>3. ASSUME NEW d \in 1..Payload PROVE ring'[Addr(W) + d] = DataWord(W * Payload + d - 1)
    <3>1. Addr(W) + d \in Units
      BY <1>6, ConstFacts DEF Units
    <3>2. ring'[Addr(W) + d] = DataWord(W * Payload + (Addr(W) + d - Addr(W) - 1))
      BY <1>6, <3>1, ConstFacts
    <3>3. W * Payload + (Addr(W) + d - Addr(W) - 1) = W * Payload + d - 1
      BY <1>1, <1>6, ConstFacts, Times
    <3>. QED BY <3>2, <3>3
  <2>. QED BY <2>2, <2>3
<1>8. ASSUME NEW k \in Nat, k # W, W < k + LapPackets, k < W + LapPackets
      PROVE  \A d \in 0..(PacketSize - 1) : ring'[Addr(k) + d] = ring[Addr(k) + d]
  BY <1>1, <1>7, <1>8, PacketKept
<1>9. FpgaInv'
  BY <1>0, <1>1, <1>3 DEF FpgaInv, ctrlVars, W
<1>10. CtrlInv'
  BY <1>0, <1>1, <1>3 DEF CtrlInv, ctrlVars, fifoVars, W
<1>11. HeadsInv /\ TailsInv => HeadsInv' /\ TailsInv'
  <2>. SUFFICES ASSUME HeadsInv, TailsInv PROVE HeadsInv' /\ TailsInv'
    OBVIOUS
  <2>1. ASSUME NEW k \in Nat, Seen <= k, k < Seen + LapPackets, k # W
        PROVE  ring'[Addr(k)] = ring[Addr(k)]
               /\ ring'[Addr(k) + PacketSize - 1] = ring[Addr(k) + PacketSize - 1]
    <3>1. W < k + LapPackets /\ k < W + LapPackets
      BY <1>1, <1>5, <2>1, ConstFacts
    <3>2. \A d \in 0..(PacketSize - 1) : ring'[Addr(k) + d] = ring[Addr(k) + d]
      BY <1>8, <2>1, <3>1
    <3>3. /\ 0 \in 0..(PacketSize - 1) /\ PacketSize - 1 \in 0..(PacketSize - 1)
          /\ Addr(k) + 0 = Addr(k) /\ Addr(k) + (PacketSize - 1) = Addr(k) + PacketSize - 1
      BY AddrRange, ConstFacts
    <3>. QED BY <3>2, <3>3
  <2>2. HeadsInv'
    BY <1>1, <1>3, <1>5, <1>7, <2>1, ConstFacts DEF HeadsInv
  <2>3. TailsInv'
    BY <1>1, <1>3, <1>5, <1>7, <2>1, ConstFacts DEF TailsInv, W
  <2>. QED BY <2>2, <2>3
<1>12. WordsInv'
  BY <1>3, <1>11 DEF Inv, WordsInv, ctrlVars
<1>13. DataInv'
  <2>. SUFFICES ASSUME NEW k \in Nat, k < W + 1, W + 1 <= k + LapPackets, NEW d \in 1..Payload
                PROVE  ring'[Addr(k) + d] = DataWord(k * Payload + d - 1)
    BY <1>3 DEF DataInv
  <2>1. CASE k = W
    BY <1>7, <2>1
  <2>2. CASE k # W
    <3>1. k < W /\ W < k + LapPackets /\ k < W + LapPackets
      BY <1>1, <2>2, ConstFacts
    <3>2. d \in 0..(PacketSize - 1)
      BY ConstFacts
    <3>3. ring'[Addr(k) + d] = ring[Addr(k) + d]
      BY <1>8, <2>2, <3>1, <3>2
    <3>. QED BY <1>1, <3>1, <3>3 DEF Inv, DataInv
  <2>. QED BY <2>1, <2>2
<1>14. FifoInv' /\ BlockInv' /\ GotInv'
  BY <1>3 DEF Inv, FifoInv, BlockInv, GotInv, Copied, fifoVars, dataVars
<1>. QED BY <1>9, <1>10, <1>12, <1>13, <1>14 DEF Inv

LEMMA TailStep ==
  ASSUME TypeOK, WholePackets, Inv, FpgaTail
  PROVE  Inv'
<1>. DEFINE W == Written
            T == Addr(W) + PacketSize - 1
<1>0. TypeOK /\ FpgaInv /\ CtrlInv
  BY DEF Inv
<1>1. /\ W \in Nat /\ Started = W + 1 /\ Filled = W + 1 /\ Seen \in Nat /\ wr \in Nat
      /\ wr <= Seen /\ Seen <= W /\ W + 1 + FifoDepth + 1 <= wr + LapPackets
  BY <1>0, Counts DEF FpgaTail, Started, Filled
<1>2. Size = Payload /\ wTotal + Payload <= NumCalls * callLength
  BY <1>0, SizeWhole DEF FpgaTail, FpgaInv
<1>3. wTotal = W * Payload /\ wOff = Addr(W)
  BY <1>0 DEF FpgaInv
<1>4. wTotal' = (W + 1) * Payload /\ wTotal' = wTotal + Payload /\ wTotal' \in Nat
  BY <1>0, <1>1, <1>2, <1>3, ConstFacts, Times DEF FpgaTail, TypeOK
<1>5. /\ Written' = W + 1 /\ Started' = W + 1 /\ Filled' = W + 1
      /\ Seen' = Seen /\ wpc' = "idle"
      /\ UNCHANGED <<callLength, credit, ctrlVars, fifoVars, dataVars>>
  <2>1. Written' = W + 1
    BY <1>1, <1>4, ConstFacts, Multiple DEF Written
  <2>. QED BY <2>1 DEF FpgaTail, Started, Filled, Seen, ctrlVars, fifoVars
<1>. HIDE DEF W
<1>6. /\ Addr(W) \in Nat /\ Addr(W) <= WrapAt /\ Addr(W) + PacketSize <= SingleBuffer
      /\ T \in Units
  BY <1>1, AddrRange, ConstFacts DEF Units
<1>7. /\ ring' = [ring EXCEPT ![T] = TailWord(PacketSize)]
      /\ wOff' = Addr(W + 1)
  <2>1. Addr(W) + Payload + 1 = T /\ Addr(W) + Payload + 2 = Addr(W) + PacketSize
        /\ Payload + 2 = PacketSize
    BY <1>6, ConstFacts
  <2>2. wOff' = NextOffset(Addr(W) + PacketSize)
        /\ ring' = [ring EXCEPT ![T] = TailWord(PacketSize)]
    BY <1>2, <1>3, <2>1 DEF FpgaTail
  <2>. QED BY <1>1, <2>2, AddrFacts
<1>8. /\ ring'[T] = TailWord(PacketSize)
      /\ \A x \in Units : x # T => ring'[x] = ring[x]
      /\ \A x \in Units : x < Addr(W) \/ x >= Addr(W) + PacketSize => ring'[x] = ring[x]
      /\ ring' \in [Units -> Cell]
  BY <1>0, <1>6, <1>7, ConstFacts DEF TypeOK, Units, Cell, TailWord
<1>9. ASSUME NEW k \in Nat, k # W, W < k + LapPackets, k < W + LapPackets
      PROVE  \A d \in 0..(PacketSize - 1) : ring'[Addr(k) + d] = ring[Addr(k) + d]
  BY <1>1, <1>8, <1>9, PacketKept
<1>10. FpgaInv'
  BY <1>0, <1>1, <1>2, <1>4, <1>5, <1>7 DEF FpgaInv, ctrlVars
<1>11. CtrlInv'
  BY <1>0, <1>1, <1>5 DEF CtrlInv, ctrlVars, fifoVars, W
<1>12. HeadsInv /\ TailsInv => HeadsInv' /\ TailsInv'
  <2>. SUFFICES ASSUME HeadsInv, TailsInv PROVE HeadsInv' /\ TailsInv'
    OBVIOUS
  <2>1. ASSUME NEW k \in Nat, Seen <= k, k < Seen + LapPackets, k # W
        PROVE  ring'[Addr(k)] = ring[Addr(k)]
               /\ ring'[Addr(k) + PacketSize - 1] = ring[Addr(k) + PacketSize - 1]
    <3>1. W < k + LapPackets /\ k < W + LapPackets
      BY <1>1, <2>1, ConstFacts
    <3>2. \A d \in 0..(PacketSize - 1) : ring'[Addr(k) + d] = ring[Addr(k) + d]
      BY <1>9, <2>1, <3>1
    <3>3. /\ 0 \in 0..(PacketSize - 1) /\ PacketSize - 1 \in 0..(PacketSize - 1)
          /\ Addr(k) + 0 = Addr(k) /\ Addr(k) + (PacketSize - 1) = Addr(k) + PacketSize - 1
      BY AddrRange, ConstFacts
    <3>. QED BY <3>2, <3>3
  <2>2. ring'[Addr(W)] = ring[Addr(W)]
    BY <1>6, <1>8, ConstFacts DEF Units
  <2>3. HeadsInv'
    BY <1>1, <1>5, <2>1, <2>2, ConstFacts DEF HeadsInv
  <2>4. TailsInv'
    BY <1>1, <1>5, <1>8, <2>1, ConstFacts DEF TailsInv, W
  <2>. QED BY <2>3, <2>4
<1>13. WordsInv'
  BY <1>5, <1>12 DEF Inv, WordsInv, ctrlVars
<1>14. DataInv'
  <2>. SUFFICES ASSUME NEW k \in Nat, k < W + 1, W + 1 <= k + LapPackets, NEW d \in 1..Payload
                PROVE  ring'[Addr(k) + d] = DataWord(k * Payload + d - 1)
    BY <1>5 DEF DataInv
  <2>1. ring[Addr(k) + d] = DataWord(k * Payload + d - 1)
    BY <1>1 DEF Inv, DataInv
  <2>2. CASE k = W
    BY <1>6, <1>8, <2>1, <2>2, ConstFacts DEF Units
  <2>3. CASE k # W
    <3>1. W < k + LapPackets /\ k < W + LapPackets /\ d \in 0..(PacketSize - 1)
      BY <1>1, <2>3, ConstFacts
    <3>. QED BY <1>9, <2>1, <2>3, <3>1
  <2>. QED BY <2>2, <2>3
<1>15. FifoInv' /\ BlockInv' /\ GotInv'
  BY <1>5 DEF Inv, FifoInv, BlockInv, GotInv, Copied, fifoVars, dataVars
<1>. QED BY <1>10, <1>11, <1>13, <1>14, <1>15 DEF Inv

-------------------------------------------------------------------------------
(* The steps of the control kernel.                                        *)

\* The steps that leave the FPGA, the ring, the FIFO and the blocks alone.
LEMMA CtrlKeeps ==
  ASSUME TypeOK, Inv, UNCHANGED <<fpgaVars, ring, readCount, fifoVars, dataVars, dCall>>,
         credit' \in Nat, credit <= credit', credit' <= readCount,
         cpc' # "hung" => Seen' = Seen /\ cpc # "hung"
  PROVE  FpgaInv' /\ WordsInv' /\ DataInv' /\ FifoInv' /\ BlockInv' /\ GotInv'
<1>1. Written' = Written /\ Started' = Started /\ Filled' = Filled
  BY DEF fpgaVars, Written, Started, Filled
<1>2. FpgaInv'
  <2>1. Started * Payload \in Int
    <3>1. Started \in Nat
      BY Counts DEF Inv
    <3>. QED BY <3>1, ConstFacts, Times
  <2>. QED BY <1>1, <2>1, ConstFacts DEF Inv, FpgaInv, TypeOK, fpgaVars
<1>3. WordsInv'
  BY <1>1 DEF Inv, WordsInv, HeadsInv, TailsInv
<1>4. DataInv'
  BY <1>1 DEF Inv, DataInv
<1>5. FifoInv' /\ BlockInv' /\ GotInv'
  BY DEF Inv, FifoInv, BlockInv, GotInv, Copied, fifoVars, dataVars, fpgaVars
<1>. QED BY <1>2, <1>3, <1>4, <1>5

\* The word where the next packet begins.
LEMMA HeadSeen ==
  ASSUME TypeOK, Inv, cpc = "head"
  PROVE  ring[offset] = IF wr < Started THEN HeadWord(PacketSize) ELSE ZeroWord
<1>1. Started \in Nat /\ wr \in Nat /\ Seen = wr /\ wr <= Started /\ offset = Addr(wr)
  BY Counts DEF Inv, Seen, CtrlInv
<1>2. HeadsInv
  BY DEF Inv, WordsInv
<1>. QED BY <1>1, <1>2, ConstFacts DEF HeadsInv

LEMMA CtrlHeadStep ==
  ASSUME TypeOK, WholePackets, Inv, CtrlHead
  PROVE  Inv'
<1>1. /\ cpc = "head" /\ cpc' = "tail" /\ blockLength' = PacketSize /\ wr < Started
      /\ UNCHANGED <<fpgaVars, credit, ring, cCall, offset, curLength, readCount,
                     record, threshold, fifoVars, dataVars>>
  BY HeadSeen DEF CtrlHead, HeadWord, ZeroWord
<1>2. Seen' = Seen /\ Started' = Started /\ Written' = Written
  BY <1>1 DEF Seen, Started, Written, fpgaVars, fifoVars
<1>3. CtrlInv'
  BY <1>1, <1>2 DEF Inv, CtrlInv, fpgaVars, fifoVars
<1>4. FpgaInv' /\ WordsInv' /\ DataInv' /\ FifoInv' /\ BlockInv' /\ GotInv'
  <2>1. credit \in Nat /\ credit <= readCount
    BY DEF Inv, TypeOK, FpgaInv
  <2>. QED BY <1>1, <1>2, <2>1, CtrlKeeps DEF dataVars
<1>. QED BY <1>3, <1>4 DEF Inv

LEMMA CtrlTailStep ==
  ASSUME TypeOK, WholePackets, Inv, CtrlTail
  PROVE  Inv'
<1>. DEFINE A == Addr(wr)
            T == A + PacketSize - 1
<1>0. TypeOK /\ FpgaInv /\ CtrlInv /\ HeadsInv /\ TailsInv /\ DataInv
  BY DEF Inv, WordsInv, CtrlTail
<1>1. /\ Written \in Nat /\ Started \in Nat /\ wr \in Nat /\ Seen = wr
      /\ Written <= Started /\ wr <= Written /\ wr < Started
      /\ Started + FifoDepth + 1 <= wr + LapPackets /\ Filled \in Nat /\ Filled <= Started
  BY <1>0, Counts DEF CtrlTail, Seen, CtrlInv
<1>2. offset = A /\ blockLength = PacketSize /\ TailUnit = T
  BY <1>0 DEF CtrlTail, CtrlInv, TailUnit
<1>3. A \in Nat /\ A <= WrapAt /\ A + PacketSize <= SingleBuffer /\ A \in Units /\ T \in Units
      /\ A # T
  BY <1>1, AddrRange, ConstFacts DEF Units
<1>4. wr < Written
  <2>1. SUFFICES ASSUME wr = Written PROVE FALSE
    BY <1>1
  <2>2. ring[T] = ZeroWord
    BY <1>0, <1>1, <2>1, ConstFacts DEF TailsInv
  <2>. QED BY <1>2, <2>2 DEF CtrlTail, TailSeen, ZeroWord
<1>5. /\ cpc' = "space" /\ Written' = Written /\ Started' = Started /\ Filled' = Filled
      /\ Seen' = wr + 1
      /\ UNCHANGED <<fpgaVars, credit, cCall, offset, blockLength, curLength, readCount,
                     record, threshold, fifoVars, dataVars>>
  BY DEF CtrlTail, Written, Started, Filled, Seen, fpgaVars, fifoVars
<1>6. ring' = [ring EXCEPT ![A] = ZeroWord, ![T] = ZeroWord]
  BY <1>2 DEF CtrlTail, Cleared
<1>. HIDE DEF A
<1>7. /\ ring'[A] = ZeroWord /\ ring'[T] = ZeroWord
      /\ \A x \in Units : x # A /\ x # T => ring'[x] = ring[x]
      /\ \A x \in Units : x < A \/ x >= A + PacketSize => ring'[x] = ring[x]
      /\ ring' \in [Units -> Cell]
  BY <1>0, <1>3, <1>6, ConstFacts DEF TypeOK, Units, Cell, ZeroWord
<1>8. ASSUME NEW k \in Nat, k # wr, wr < k + LapPackets, k < wr + LapPackets
      PROVE  \A d \in 0..(PacketSize - 1) : ring'[Addr(k) + d] = ring[Addr(k) + d]
  BY <1>1, <1>7, <1>8, PacketKept DEF A
<1>9. ASSUME NEW k \in Nat, wr + 1 <= k, k < wr + LapPackets
      PROVE  ring'[Addr(k)] = ring[Addr(k)]
             /\ ring'[Addr(k) + PacketSize - 1] = ring[Addr(k) + PacketSize - 1]
  <2>1. k # wr /\ wr < k + LapPackets
    BY <1>1, <1>9, ConstFacts
  <2>2. \A d \in 0..(PacketSize - 1) : ring'[Addr(k) + d] = ring[Addr(k) + d]
    BY <1>8, <1>9, <2>1
  <2>3. /\ 0 \in 0..(PacketSize - 1) /\ PacketSize - 1 \in 0..(PacketSize - 1)
        /\ Addr(k) + 0 = Addr(k) /\ Addr(k) + (PacketSize - 1) = Addr(k) + PacketSize - 1
    BY AddrRange, ConstFacts
  <2>. QED BY <2>2, <2>3
<1>10. Addr(wr + LapPackets) = A
  BY <1>1, AddrFacts DEF A
<1>11. HeadsInv'
  <2>1. ASSUME NEW k \in Nat, wr + 1 <= k, k < Started PROVE ring'[Addr(k)] = HeadWord(PacketSize)
    BY <1>0, <1>1, <1>9, <2>1, ConstFacts DEF HeadsInv
  <2>2. ASSUME NEW k \in Nat, Started <= k, k < wr + 1 + LapPackets
        PROVE  ring'[Addr(k)] = ZeroWord
    <3>1. CASE k = wr + LapPackets
      BY <1>7, <1>10, <3>1
    <3>2. CASE k < wr + LapPackets
      BY <1>0, <1>1, <1>9, <2>2, <3>2 DEF HeadsInv
    <3>. QED BY <1>1, <2>2, <3>1, <3>2, ConstFacts
  <2>. QED BY <1>5, <2>1, <2>2 DEF HeadsInv
<1>12. TailsInv'
  <2>1. ASSUME NEW k \in Nat, wr + 1 <= k, k < Written
        PROVE  ring'[Addr(k) + PacketSize - 1] = TailWord(PacketSize)
    BY <1>0, <1>1, <1>9, <2>1, ConstFacts DEF TailsInv
  <2>2. ASSUME NEW k \in Nat, Written <= k, k < wr + 1 + LapPackets
        PROVE  ring'[Addr(k) + PacketSize - 1] = ZeroWord
    <3>1. CASE k = wr + LapPackets
      BY <1>7, <1>10, <3>1
    <3>2. CASE k < wr + LapPackets
      BY <1>0, <1>1, <1>4, <1>9, <2>2, <3>2 DEF TailsInv
    <3>. QED BY <1>1, <2>2, <3>1, <3>2, ConstFacts
  <2>. QED BY <1>5, <2>1, <2>2 DEF TailsInv
<1>13. DataInv'
  <2>. SUFFICES ASSUME NEW k \in Nat, k < Filled, Started <= k + LapPackets, NEW d \in 1..Payload
                PROVE  ring'[Addr(k) + d] = DataWord(k * Payload + d - 1)
    BY <1>5 DEF DataInv
  <2>1. ring[Addr(k) + d] = DataWord(k * Payload + d - 1)
    BY <1>0 DEF DataInv
  <2>2. CASE k = wr
    <3>1. Addr(k) + d \in Units /\ Addr(k) + d # A /\ Addr(k) + d # T
      BY <1>3, <2>2, ConstFacts DEF Units, A
    <3>. QED BY <1>7, <2>1, <3>1
  <2>3. CASE k # wr
    <3>1. wr < k + LapPackets /\ k < wr + LapPackets /\ d \in 0..(PacketSize - 1)
      BY <1>1, <2>3, ConstFacts
    <3>. QED BY <1>8, <2>1, <2>3, <3>1
  <2>. QED BY <2>2, <2>3
<1>14. FpgaInv'
  BY <1>0, <1>5 DEF FpgaInv, fpgaVars
<1>15. CtrlInv'
  BY <1>0, <1>1, <1>4, <1>5 DEF CtrlTail, CtrlInv, fpgaVars, fifoVars
<1>16. FifoInv' /\ BlockInv' /\ GotInv'
  BY <1>5 DEF Inv, FifoInv, BlockInv, GotInv, Copied, fpgaVars, fifoVars, dataVars
<1>. QED BY <1>5, <1>11, <1>12, <1>13, <1>14, <1>15, <1>16 DEF Inv, WordsInv

LEMMA EnqueueStep ==
  ASSUME TypeOK, WholePackets, Inv, CtrlEnqueue
  PROVE  Inv'
<1>0. TypeOK /\ FpgaInv /\ CtrlInv
  BY DEF Inv
<1>1. /\ Written \in Nat /\ Started \in Nat /\ wr \in Nat /\ wr < Written /\ Written <= Started
  BY <1>0, Counts DEF CtrlEnqueue, Seen, CtrlInv
<1>2. blockLength - 2 = Payload /\ blockLength = PacketSize /\ offset = Addr(wr)
  BY <1>0, ConstFacts DEF CtrlEnqueue, CtrlInv
<1>3. /\ fifo' = [fifo EXCEPT ![wr % FifoDepth] = PacketAt(wr)]
      /\ readCount' = readCount + Payload /\ curLength' = curLength + Payload
      /\ wr' = wr + 1 /\ offset' = Addr(wr + 1)
      /\ UNCHANGED <<fpgaVars, credit, ring, cCall, blockLength, dataVars>>
  BY <1>1, <1>2, AddrFacts DEF CtrlEnqueue, PacketAt
<1>4. /\ cpc' \in {"credit", "done", "head"}
      /\ cpc' = "done" => curLength' = callLength
      /\ cpc' = "head" => curLength' # callLength
  <2>1. record \in Nat /\ threshold \in Nat /\ threshold + Portion \in Nat
    BY <1>0, ConstFacts DEF TypeOK
  <2>2. \/ /\ cpc' = "credit" /\ record' = record + 1 /\ threshold' = threshold + Portion
        \/ /\ cpc' = AfterPackage(curLength + (blockLength - 2))
           /\ record' = record /\ threshold' = threshold
    BY DEF CtrlEnqueue
  <2>3. curLength + (blockLength - 2) = curLength'
    BY <1>2, <1>3
  <2>. QED BY <2>1, <2>2, <2>3 DEF AfterPackage
<1>5. Written' = Written /\ Started' = Started /\ Filled' = Filled /\ Seen' = Seen
  BY <1>3, <1>4 DEF CtrlEnqueue, Written, Started, Filled, Seen, fpgaVars
<1>6. curLength' <= callLength /\ curLength' % Payload = 0 /\ curLength' \in Nat
  <2>1. curLength \in Nat /\ curLength % Payload = 0 /\ curLength < callLength
    BY <1>0 DEF CtrlEnqueue, TypeOK, CtrlInv
  <2>2. callLength \in Nat /\ callLength % Payload = 0
    BY <1>0, CallFacts
  <2>3. (curLength + Payload) % Payload = 0 /\ curLength + Payload <= callLength
    BY <2>1, <2>2, ConstFacts, MultipleNext
  <2>. QED BY <1>3, <2>1, <2>3, ConstFacts
<1>7. wr % FifoDepth \in Slots
  BY <1>1, ConstFacts, Divided DEF Slots
<1>8. FpgaInv'
  BY <1>0, <1>3, <1>5, ConstFacts DEF FpgaInv, TypeOK, fpgaVars
<1>9. CtrlInv'
  <2>1. (wr + 1) * Payload = wr * Payload + Payload /\ wr * Payload \in Nat
    BY <1>1, ConstFacts, Times
  <2>2. readCount' = wr' * Payload /\ offset' = Addr(wr')
    BY <1>0, <1>3, <2>1 DEF CtrlInv
  <2>3. wr' <= Written' /\ Seen' <= Written'
    BY <1>0, <1>1, <1>3, <1>5 DEF CtrlInv
  <2>4. readCount' = cCall' * callLength' + curLength'
    <3>1. cCall * callLength \in Nat
      BY <1>0, CallFacts, Times DEF TypeOK
    <3>. QED BY <1>0, <1>3, <3>1, ConstFacts DEF CtrlInv, TypeOK, fpgaVars
  <2>5. callLength' = callLength /\ callLength \in Nat
    BY <1>0, <1>3, CallFacts DEF fpgaVars
  <2>. QED BY <1>4, <1>6, <2>2, <2>3, <2>4, <2>5 DEF CtrlInv
<1>10. WordsInv' /\ DataInv'
  BY <1>3, <1>5 DEF Inv, WordsInv, HeadsInv, TailsInv, DataInv, CtrlEnqueue
<1>11. FifoInv'
  <2>1. ASSUME NEW b \in Blocks PROVE rd'[b] <= wr' /\ wr' <= rd'[b] + FifoDepth
    <3>1. rd[b] \in Nat /\ rd[b] <= wr /\ wr <= rd[b] + FifoDepth /\ wr - rd[b] # FifoDepth
      BY <1>0 DEF Inv, FifoInv, TypeOK, CtrlEnqueue, Room
    <3>. QED BY <1>1, <1>3, <3>1, ConstFacts DEF dataVars
  <2>2. ASSUME NEW k \in Nat, k < wr + 1, wr + 1 <= k + FifoDepth
        PROVE  fifo'[k % FifoDepth] = PacketAt(k)
    <3>1. CASE k = wr
      BY <1>0, <1>3, <1>7, <3>1 DEF TypeOK
    <3>2. CASE k # wr
      <4>1. k < wr /\ wr < k + FifoDepth /\ wr <= k + FifoDepth
        BY <1>1, <2>2, <3>2, ConstFacts
      <4>2. k % FifoDepth # wr % FifoDepth
        BY <1>1, <4>1, ConstFacts, ModApart
      <4>3. k % FifoDepth \in Slots
        BY ConstFacts, Divided DEF Slots
      <4>. QED BY <1>0, <1>3, <4>1, <4>2, <4>3 DEF Inv, FifoInv, TypeOK
    <3>. QED BY <3>1, <3>2
  <2>. QED BY <1>3, <2>1, <2>2 DEF FifoInv
<1>12. BlockInv' /\ GotInv'
  BY <1>3 DEF Inv, BlockInv, GotInv, Copied, fpgaVars, dataVars
<1>. QED BY <1>8, <1>9, <1>10, <1>11, <1>12 DEF Inv

LEMMA CreditStep ==
  ASSUME TypeOK, WholePackets, Inv, CtrlCredit
  PROVE  Inv'
<1>0. TypeOK /\ FpgaInv /\ CtrlInv
  BY DEF Inv
<1>1. /\ cpc = "credit" /\ credit' = readCount /\ cpc' = AfterPackage(curLength)
      /\ UNCHANGED <<fpgaVars, ring, cCall, offset, blockLength, curLength, readCount,
                     record, threshold, fifoVars, dataVars>>
  BY DEF CtrlCredit
<1>2. cpc' \in {"done", "head"}
  BY <1>1 DEF AfterPackage
<1>3. Seen' = Seen /\ Started' = Started /\ Written' = Written
  BY <1>1, <1>2 DEF Seen, Started, Written, fpgaVars, fifoVars
<1>4. CtrlInv'
  <2>1. curLength \in Nat /\ callLength \in Nat
    BY <1>0, CallFacts DEF TypeOK
  <2>2. cpc' = "done" => curLength = callLength
    BY <1>1 DEF AfterPackage
  <2>3. cpc' = "head" => curLength # callLength
    BY <1>1 DEF AfterPackage
  <2>4. cpc' \in {"done", "head"} /\ callLength' = callLength /\ curLength' = curLength
    BY <1>1 DEF AfterPackage, fpgaVars
  <2>5. curLength <= callLength
    BY <1>0 DEF CtrlInv
  <2>6. /\ readCount' = wr' * Payload /\ offset' = Addr(wr')
        /\ wr' <= Written' /\ Seen' <= Written'
        /\ readCount' = cCall' * callLength' + curLength' /\ curLength' % Payload = 0
    BY <1>0, <1>1, <1>3 DEF CtrlInv, fpgaVars, fifoVars
  <2>. QED BY <2>1, <2>2, <2>3, <2>4, <2>5, <2>6 DEF CtrlInv
<1>5. FpgaInv' /\ WordsInv' /\ DataInv' /\ FifoInv' /\ BlockInv' /\ GotInv'
  <2>1. readCount \in Nat /\ credit <= readCount
    BY <1>0 DEF TypeOK, FpgaInv
  <2>. QED BY <1>1, <1>2, <1>3, <2>1, CtrlKeeps DEF dataVars
<1>. QED BY <1>4, <1>5 DEF Inv

\* No more calls return than the FPGA has sent.
LEMMA CallBound ==
  ASSUME WholePackets, TypeOK, FpgaInv, CtrlInv, NEW c \in Nat, NEW n \in Nat,
         n <= wr, n * Payload = (c + 1) * callLength
  PROVE  c + 1 <= NumCalls
<1>1. n * Payload <= wr * Payload /\ wr * Payload <= Written * Payload
  BY Counts, ConstFacts, TimesMono DEF CtrlInv
<1>2. n * Payload \in Nat /\ wr * Payload \in Nat /\ Written * Payload \in Nat
  BY Counts, ConstFacts, Times
<1>3. (c + 1) * callLength <= NumCalls * callLength
  BY <1>1, <1>2, CallFacts DEF FpgaInv
<1>. QED BY <1>3, CallFacts, ConstFacts, TimesLess

LEMMA ReturnStep ==
  ASSUME TypeOK, WholePackets, Inv, CtrlReturn
  PROVE  Inv'
<1>0. TypeOK /\ FpgaInv /\ CtrlInv
  BY DEF Inv
<1>1. /\ cpc = "done" /\ cCall' = cCall + 1 /\ curLength' = 0
      /\ cpc' = (IF cCall + 1 < NumCalls THEN "head" ELSE "off")
      /\ threshold' = FirstThreshold(record)
      /\ UNCHANGED <<fpgaVars, credit, ring, offset, blockLength, readCount, record,
                     fifoVars, dataVars>>
  BY DEF CtrlReturn
<1>2. cCall \in Nat /\ callLength \in Nat \ {0} /\ wr \in Nat /\ NumCalls \in Nat
  BY <1>0, CallFacts, ConstFacts DEF TypeOK
<1>3. readCount = (cCall + 1) * callLength
  <2>1. readCount = cCall * callLength + callLength
    BY <1>0, <1>1 DEF CtrlInv
  <2>. QED BY <1>2, <2>1, Times
<1>4. cCall + 1 <= NumCalls
  BY <1>0, <1>2, <1>3, CallBound DEF CtrlInv
<1>5. Seen' = Seen /\ Started' = Started /\ Written' = Written
  BY <1>1 DEF Seen, Started, Written, fpgaVars, fifoVars
<1>6. CtrlInv'
  <2>1. readCount' = cCall' * callLength' + curLength'
    <3>1. (cCall + 1) * callLength \in Nat
      BY <1>2, Times
    <3>. QED BY <1>1, <1>3, <3>1 DEF fpgaVars
  <2>2. curLength' % Payload = 0
    BY <1>1, ConstFacts
  <2>3. /\ readCount' = wr' * Payload /\ offset' = Addr(wr')
        /\ wr' <= Written' /\ Seen' <= Written'
    BY <1>0, <1>1, <1>5 DEF CtrlInv, fifoVars
  <2>4. callLength' = callLength /\ cpc' \in {"head", "off"} /\ (cpc' = "off" => cCall' = NumCalls)
    BY <1>1, <1>2, <1>4 DEF fpgaVars
  <2>. QED BY <1>1, <1>2, <2>1, <2>2, <2>3, <2>4 DEF CtrlInv
<1>7. FpgaInv' /\ WordsInv' /\ DataInv' /\ FifoInv' /\ BlockInv' /\ GotInv'
  <2>1. credit \in Nat /\ credit <= readCount
    BY <1>0 DEF TypeOK, FpgaInv
  <2>. QED BY <1>1, <1>5, <2>1, CtrlKeeps DEF dataVars
<1>. QED BY <1>6, <1>7 DEF Inv

LEMMA TimeoutStep ==
  ASSUME TypeOK, WholePackets, Inv, CtrlTimeout
  PROVE  Inv'
<1>0. TypeOK /\ FpgaInv /\ CtrlInv
  BY DEF Inv
<1>1. /\ cpc' = "hung"
      /\ UNCHANGED <<fpgaVars, credit, ring, cCall, offset, blockLength, curLength,
                     readCount, record, threshold, fifoVars, dataVars>>
  BY DEF CtrlTimeout
<1>2. Started' = Started /\ Written' = Written /\ Seen' = wr
  BY <1>1 DEF Seen, Started, Written, fpgaVars, fifoVars
<1>3. CtrlInv'
  BY <1>0, <1>1, <1>2 DEF CtrlInv, fpgaVars, fifoVars
<1>4. FpgaInv' /\ WordsInv' /\ DataInv' /\ FifoInv' /\ BlockInv' /\ GotInv'
  <2>1. credit \in Nat /\ credit <= readCount
    BY <1>0 DEF TypeOK, FpgaInv
  <2>. QED BY <1>1, <2>1, CtrlKeeps DEF dataVars
<1>. QED BY <1>3, <1>4 DEF Inv

-------------------------------------------------------------------------------
(* The steps of the copying blocks.                                        *)

\* A block reads the ring and moves what is its own.
LEMMA BlockKeeps ==
  ASSUME Inv, UNCHANGED <<fpgaVars, credit, ring, ctrlVars, fifoVars>>
  PROVE  FpgaInv' /\ CtrlInv' /\ WordsInv' /\ DataInv'
<1>1. Written' = Written /\ Started' = Started /\ Filled' = Filled /\ Seen' = Seen
  BY DEF fpgaVars, ctrlVars, fifoVars, Written, Started, Filled, Seen
<1>. QED BY <1>1 DEF Inv, FpgaInv, CtrlInv, WordsInv, HeadsInv, TailsInv, DataInv,
                     fpgaVars, ctrlVars, fifoVars

LEMMA TakeStep ==
  ASSUME TypeOK, WholePackets, Inv, NEW b \in Blocks, BlockTake(b)
  PROVE  Inv'
<1>0. TypeOK /\ FpgaInv /\ CtrlInv /\ FifoInv /\ BlockInv /\ GotInv
  BY DEF Inv
<1>1. /\ rd[b] \in Nat /\ wr \in Nat /\ rd[b] < wr /\ wr <= rd[b] + FifoDepth
      /\ dLength[b] \in Nat /\ dLength[b] < callLength /\ dLength[b] % Payload = 0
  BY <1>0 DEF TypeOK, FifoInv, BlockInv, BlockTake
<1>2. fifo[rd[b] % FifoDepth] = PacketAt(rd[b])
  BY <1>0, <1>1 DEF FifoInv
<1>3. /\ rd' = [rd EXCEPT ![b] = rd[b] + 1] /\ entry' = [entry EXCEPT ![b] = PacketAt(rd[b])]
      /\ dLength' = [dLength EXCEPT ![b] = dLength[b] + Payload]
      /\ dpc[b] = "wait" /\ dpc' = [dpc EXCEPT ![b] = "copy"]
      /\ UNCHANGED <<fpgaVars, credit, ring, ctrlVars, fifoVars, dCall, got>>
  BY <1>0, <1>2 DEF BlockTake, TypeOK, PacketAt
<1>4. dLength[b] + Payload <= callLength /\ (dLength[b] + Payload) % Payload = 0
  <2>1. callLength \in Nat /\ callLength % Payload = 0
    BY <1>0, CallFacts
  <2>. QED BY <1>1, <2>1, ConstFacts, MultipleNext
<1>5. FifoInv'
  BY <1>0, <1>1, <1>3, ConstFacts DEF TypeOK, FifoInv, fifoVars
<1>6. BlockInv'
  <2>. SUFFICES ASSUME NEW c \in Blocks
                PROVE  /\ rd'[c] * Payload = dCall * callLength + dLength'[c]
                       /\ dLength'[c] % Payload = 0 /\ dLength'[c] <= callLength
                       /\ dpc'[c] = "copy" => rd'[c] >= 1 /\ entry'[c] = PacketAt(rd'[c] - 1)
                       /\ dpc'[c] = "wait" => dLength'[c] < callLength
                       /\ dpc'[c] = "exit" => dLength'[c] = callLength
                       /\ dpc'[c] = "off" => dCall = NumCalls /\ dLength'[c] = 0
    BY <1>3 DEF BlockInv, fpgaVars
  <2>1. CASE c = b
    <3>1. rd'[c] = rd[b] + 1 /\ dLength'[c] = dLength[b] + Payload /\ dpc'[c] = "copy"
          /\ entry'[c] = PacketAt(rd[b])
      BY <1>0, <1>3, <2>1 DEF TypeOK
    <3>2. (rd[b] + 1) * Payload = rd[b] * Payload + Payload
      BY <1>1, ConstFacts, Times
    <3>3. rd[b] * Payload = dCall * callLength + dLength[b] /\ dCall * callLength \in Nat
      BY <1>0, CallFacts, Times DEF BlockInv, TypeOK
    <3>4. rd'[c] * Payload = dCall * callLength + dLength'[c]
      BY <1>1, <3>1, <3>2, <3>3, ConstFacts
    <3>5. rd'[c] >= 1 /\ rd'[c] - 1 = rd[b]
      BY <1>1, <3>1
    <3>. QED BY <1>4, <3>1, <3>4, <3>5
  <2>2. CASE c # b
    <3>1. rd'[c] = rd[c] /\ dLength'[c] = dLength[c] /\ dpc'[c] = dpc[c] /\ entry'[c] = entry[c]
      BY <1>0, <1>3, <2>2 DEF TypeOK
    <3>. QED BY <1>0, <3>1 DEF BlockInv
  <2>. QED BY <2>1, <2>2
<1>7. GotInv'
  <2>1. \A c \in Blocks : Copied(c)' = Copied(c)
    BY <1>0, <1>1, <1>3 DEF Copied, TypeOK
  <2>. QED BY <1>0, <1>3, <2>1 DEF GotInv
<1>. QED BY <1>3, <1>5, <1>6, <1>7, BlockKeeps DEF Inv

\* What a block is about to copy has not been written over.
LEMMA EntryFresh ==
  ASSUME TypeOK, WholePackets, Inv, NEW b \in Blocks, dpc[b] = "copy"
  PROVE  /\ rd[b] - 1 \in Nat /\ entry[b] = PacketAt(rd[b] - 1)
         /\ \A d \in 1..Payload : ring[Addr(rd[b] - 1) + d] = DataWord((rd[b] - 1) * Payload + d - 1)
<1>1. rd[b] \in Nat /\ rd[b] >= 1 /\ entry[b] = PacketAt(rd[b] - 1)
  BY DEF Inv, TypeOK, BlockInv
<1>2. rd[b] <= wr /\ wr <= rd[b] + FifoDepth
  BY DEF Inv, FifoInv
<1>3. /\ wr \in Nat /\ Written \in Nat /\ Started \in Nat /\ Filled \in Nat
      /\ wr <= Written /\ Written <= Filled /\ Started + FifoDepth + 1 <= wr + LapPackets
  BY Counts DEF Inv, CtrlInv
<1>4. rd[b] - 1 \in Nat /\ rd[b] - 1 < Filled /\ Started <= (rd[b] - 1) + LapPackets
  BY <1>1, <1>2, <1>3, ConstFacts
<1>. QED BY <1>1, <1>4 DEF Inv, DataInv

LEMMA CopyStep ==
  ASSUME TypeOK, WholePackets, Inv, NEW b \in Blocks, BlockCopy(b)
  PROVE  Inv'
<1>. DEFINE n == rd[b] - 1
            new == [k \in 1..entry[b].len |-> ring[entry[b].addr + k - 1]]
<1>0. TypeOK /\ FpgaInv /\ CtrlInv /\ FifoInv /\ BlockInv /\ GotInv
  BY DEF Inv
<1>1. /\ n \in Nat /\ entry[b] = PacketAt(n) /\ dpc[b] = "copy"
      /\ \A d \in 1..Payload : ring[Addr(n) + d] = DataWord(n * Payload + d - 1)
  BY EntryFresh DEF BlockCopy
<1>2. /\ got' = [got EXCEPT ![b] = got[b] \o new]
      /\ dpc' = [dpc EXCEPT ![b] = IF dLength[b] >= callLength THEN "exit" ELSE "wait"]
      /\ UNCHANGED <<fpgaVars, credit, ring, ctrlVars, fifoVars, rd, dCall, entry, dLength>>
  BY <1>0 DEF BlockCopy, TypeOK
<1>3. /\ new \in Seq(Cell) /\ Len(new) = Payload
      /\ \A k \in 1..Payload : new[k] = DataWord(n * Payload + k - 1)
  <2>1. entry[b].len = Payload /\ entry[b].addr = Addr(n) + 1 /\ Addr(n) \in Nat
        /\ n * Payload \in Nat
    BY <1>1, AddrRange, ConstFacts, Times DEF PacketAt
  <2>2. new = [k \in 1..Payload |-> ring[Addr(n) + 1 + k - 1]]
    BY <2>1
  <2>. HIDE DEF new, n
  <2>3. \A k \in 1..Payload : Addr(n) + 1 + k - 1 = Addr(n) + k
    BY <2>1
  <2>4. \A k \in 1..Payload : ring[Addr(n) + k] = DataWord(n * Payload + k - 1)
    BY <1>1
  <2>5. \A k \in 1..Payload : DataWord(n * Payload + k - 1) \in Cell
    BY <2>1 DEF DataWord, Cell
  <2>6. new = [k \in 1..Payload |-> DataWord(n * Payload + k - 1)]
    BY <2>2, <2>3, <2>4
  <2>. QED BY <2>5, <2>6, ConstFacts
<1>. HIDE DEF new
<1>4. /\ got[b] \in Seq(Cell) /\ Len(got[b]) = n * Payload
      /\ \A k \in 1..Len(got[b]) : got[b][k] = DataWord(k - 1)
  BY <1>0, <1>1 DEF TypeOK, GotInv, Copied
<1>5. FifoInv'
  BY <1>0, <1>2 DEF FifoInv, fifoVars
<1>6. BlockInv'
  <2>1. dLength[b] \in Nat /\ dLength[b] <= callLength /\ callLength \in Nat
    BY <1>0, CallFacts DEF TypeOK, BlockInv
  <2>2. /\ dpc'[b] = "wait" => dLength[b] < callLength
        /\ dpc'[b] = "exit" => dLength[b] = callLength
        /\ dpc'[b] \in {"wait", "exit"}
        /\ \A c \in Blocks : c # b => dpc'[c] = dpc[c]
    BY <1>0, <1>2, <2>1 DEF TypeOK
  <2>. QED BY <1>0, <1>2, <2>2 DEF BlockInv, fpgaVars
<1>7. GotInv'
  <2>. SUFFICES ASSUME NEW c \in Blocks
                PROVE  /\ Len(got'[c]) = Copied(c)' * Payload
                       /\ \A k \in 1..Len(got'[c]) : got'[c][k] = DataWord(k - 1)
    BY DEF GotInv
  <2>1. CASE c = b
    <3>1. got'[c] = got[b] \o new /\ Copied(c)' = n + 1
      BY <1>0, <1>1, <1>2, <2>1 DEF TypeOK, Copied
    <3>2. (n + 1) * Payload = n * Payload + Payload /\ n * Payload \in Nat
      BY <1>1, ConstFacts, Times
    <3>. DEFINE m == n * Payload
    <3>3. m \in Nat /\ Len(got[b]) = m /\ \A k \in 1..Payload : new[k] = DataWord(m + k - 1)
      BY <1>3, <1>4, <3>2
    <3>. HIDE DEF m
    <3>0. m \in Nat /\ Len(got[b]) = m
      BY <3>3
    <3>4. /\ Len(got'[c]) = m + Payload
          /\ \A k \in 1..m : got'[c][k] = got[b][k]
          /\ \A k \in 1..Payload : got'[c][m + k] = new[k]
      <4>1. Payload \in Nat /\ got[b] \in Seq(Cell) /\ new \in Seq(Cell) /\ Len(new) = Payload
        BY <1>3, <1>4, ConstFacts
      <4>2. /\ Len(got[b] \o new) = Len(got[b]) + Len(new)
            /\ \A i \in 1..(Len(got[b]) + Len(new)) :
                 (got[b] \o new)[i] = IF i <= Len(got[b]) THEN got[b][i]
                                      ELSE new[i - Len(got[b])]
        BY <4>1, ConcatProperties
      <4>3. /\ Len(got'[c]) = m + Payload
            /\ \A i \in 1..(m + Payload) :
                 got'[c][i] = IF i <= m THEN got[b][i] ELSE new[i - m]
        BY <3>0, <3>1, <4>1, <4>2
      <4>4. ASSUME NEW k \in 1..m PROVE got'[c][k] = got[b][k]
        <5>1. k \in 1..(m + Payload) /\ k <= m
          BY <3>0, <4>1
        <5>. QED BY <4>3, <5>1
      <4>5. ASSUME NEW k \in 1..Payload PROVE got'[c][m + k] = new[k]
        <5>1. m + k \in 1..(m + Payload) /\ ~(m + k <= m) /\ (m + k) - m = k
          BY <3>0, <4>1
        <5>. QED BY <4>3, <5>1
      <4>. QED BY <4>3, <4>4, <4>5
    <3>5. ASSUME NEW k \in 1..Len(got'[c]) PROVE got'[c][k] = DataWord(k - 1)
      <4>1. CASE k <= m
        <5>1. k \in 1..m
          BY <3>0, <3>4, <4>1, ConstFacts
        <5>2. got[b][k] = DataWord(k - 1)
          BY <1>4, <3>0, <5>1
        <5>. QED BY <3>4, <5>1, <5>2
      <4>2. CASE k > m
        <5>1. k - m \in 1..Payload /\ m + (k - m) = k /\ m + (k - m) - 1 = k - 1
          BY <3>0, <3>4, <4>2, ConstFacts
        <5>. QED BY <3>3, <3>4, <5>1
      <4>. QED BY <3>0, <3>4, <4>1, <4>2, ConstFacts
    <3>. QED BY <3>1, <3>2, <3>4, <3>5 DEF m
  <2>2. CASE c # b
    <3>1. got'[c] = got[c] /\ Copied(c)' = Copied(c)
      BY <1>0, <1>2, <2>2 DEF TypeOK, Copied
    <3>. QED BY <1>0, <3>1 DEF GotInv
  <2>. QED BY <2>1, <2>2
<1>. QED BY <1>2, <1>5, <1>6, <1>7, BlockKeeps DEF Inv

LEMMA DataReturnStep ==
  ASSUME TypeOK, WholePackets, Inv, DataReturn
  PROVE  Inv'
<1>0. TypeOK /\ FpgaInv /\ CtrlInv /\ FifoInv /\ BlockInv /\ GotInv
  BY DEF Inv
<1>1. /\ \A b \in Blocks : dpc[b] = "exit"
      /\ dCall' = dCall + 1 /\ dLength' = [b \in Blocks |-> 0]
      /\ dpc' = [b \in Blocks |-> IF dCall + 1 < NumCalls THEN "wait" ELSE "off"]
      /\ UNCHANGED <<fpgaVars, credit, ring, ctrlVars, fifoVars, rd, entry, got>>
  BY DEF DataReturn
<1>2. dCall \in Nat /\ callLength \in Nat \ {0} /\ 0 % Payload = 0
  <2>1. 0 % Payload = 0
    BY ConstFacts
  <2>. QED BY <1>0, <2>1, CallFacts DEF TypeOK
<1>3. \A b \in Blocks : rd[b] * Payload = (dCall + 1) * callLength
  BY <1>0, <1>1, <1>2, Times DEF BlockInv
<1>4. dCall + 1 <= NumCalls
  <2>1. PICK b \in Blocks : TRUE
    BY ConstFacts DEF Blocks
  <2>2. rd[b] \in Nat /\ rd[b] <= wr
    BY <1>0 DEF TypeOK, FifoInv
  <2>. QED BY <1>0, <1>2, <1>3, <2>2, CallBound
<1>5. FifoInv'
  BY <1>0, <1>1 DEF FifoInv, fifoVars
<1>6. BlockInv'
  <2>. SUFFICES ASSUME NEW b \in Blocks
                PROVE  /\ rd[b] * Payload = (dCall + 1) * callLength + 0
                       /\ dpc'[b] \in {"wait", "off"} /\ dLength'[b] = 0
                       /\ dpc'[b] = "off" => dCall + 1 = NumCalls
    BY <1>1, <1>2 DEF BlockInv, fpgaVars
  <2>1. (dCall + 1) * callLength \in Nat
    BY <1>2, Times
  <2>. QED BY <1>1, <1>2, <1>3, <1>4, <2>1, ConstFacts
<1>7. GotInv'
  <2>1. \A b \in Blocks : Copied(b)' = Copied(b)
    BY <1>1 DEF Copied
  <2>. QED BY <1>0, <1>1, <2>1 DEF GotInv
<1>. QED BY <1>1, <1>5, <1>6, <1>7, BlockKeeps DEF Inv

LEMMA StutterStep ==
  ASSUME Inv, UNCHANGED vars
  PROVE  Inv'
<1>1. UNCHANGED <<fpgaVars, credit, ring, ctrlVars, fifoVars, dataVars>>
  BY DEF vars
<1>2. FifoInv' /\ BlockInv' /\ GotInv'
  BY <1>1 DEF Inv, FifoInv, BlockInv, GotInv, Copied, fpgaVars, fifoVars, dataVars
<1>. QED BY <1>1, <1>2, BlockKeeps DEF Inv

LEMMA IInvInductive == IInv /\ [Next]_vars => IInv'
<1>. SUFFICES ASSUME IInv, [Next]_vars PROVE IInv'
  OBVIOUS
<1>1. TInv' /\ TypeOK
  BY TypeStep DEF IInv, TInv
<1>2. ASSUME WholePackets' PROVE Inv'
  <2>1. callLength' = callLength
    BY DEF Next, FpgaHead, FpgaBody, FpgaTail, Ctrl, CtrlHead, CtrlTail, CtrlEnqueue, CtrlCredit,
           CtrlReturn, CtrlTimeout, BlockStep, BlockTake, BlockCopy, DataReturn, Exit, vars, fpgaVars
  <2>2. WholePackets /\ Inv
    BY <1>2, <2>1 DEF IInv, WholePackets
  <2>. QED BY <1>1, <2>2, HeadStep, BodyStep, TailStep, CtrlHeadStep, CtrlTailStep, EnqueueStep,
              CreditStep, ReturnStep, TimeoutStep, TakeStep, CopyStep, DataReturnStep, StutterStep
           DEF Next, Ctrl, BlockStep, Exit
<1>. QED BY <1>1, <1>2 DEF IInv

LEMMA SpecIInv == Spec => []IInv
<1>1. Init => IInv
  BY TypeInit, InitStep DEF IInv, TInv
<1>. QED BY <1>1, IInvInductive, PTL DEF Spec

-------------------------------------------------------------------------------
(* Nobody waits for what only a waiting one can bring about.               *)

CtrlCanMove ==
  \/ cpc = "head" /\ ring[offset].kind # "zero"
  \/ cpc = "tail" /\ TailSeen
  \/ cpc = "space" /\ \A b \in Blocks : Room(b)
  \/ cpc \in {"credit", "done"}

FpgaCanMove ==
  \/ wpc # "idle"
  \/ wTotal < NumCalls * callLength /\ wTotal + Size - credit <= FpgaWindow

BlockCanMove(b) == dpc[b] = "copy" \/ (dpc[b] = "wait" /\ rd[b] # wr)

AllReturned == cpc = "off" /\ \A b \in Blocks : dpc[b] = "off"

\* Until all calls have returned the control kernel, the FPGA, a block or the
\* stream of socket_recv has a step, unless a wait has lasted five seconds.
NeverStuck ==
  WholePackets =>
    \/ CtrlCanMove \/ FpgaCanMove
    \/ \E b \in Blocks : BlockCanMove(b)
    \/ \A b \in Blocks : dpc[b] = "exit"
    \/ AllReturned
    \/ cpc = "hung"

\* Credit is never more than a portion behind what is queued.
RateInv ==
  /\ threshold = FirstThreshold(record)
  /\ IF cpc = "credit"
     THEN threshold <= readCount + Portion
     ELSE threshold <= credit + Portion /\ (readCount < threshold \/ readCount = credit)

WaitInv == WholePackets => RateInv

LEMMA WaitInit ==
  ASSUME FirstRecords \subseteq 0..1, Init
  PROVE  WaitInv
<1>2. record \in 0..1 /\ threshold = FirstThreshold(record) /\ readCount = 0 /\ credit = 0 /\ cpc = "head"
  BY DEF Init
<1>3. FirstThreshold(0) = 0 /\ FirstThreshold(1) = Portion
  BY ConstFacts DEF FirstThreshold
<1>4. RateInv
  BY <1>2, <1>3, ConstFacts DEF RateInv
<1>. QED BY <1>4 DEF WaitInv

LEMMA RateSteps ==
  ASSUME TypeOK, Inv, RateInv, CtrlEnqueue \/ CtrlCredit \/ CtrlReturn
  PROVE  RateInv'
<1>0. /\ record \in Nat /\ readCount \in Nat /\ credit \in Nat /\ threshold \in Nat
      /\ Portion \in Nat /\ blockLength \in Nat
  BY ConstFacts DEF Inv, TypeOK
<1>1. CASE CtrlEnqueue
  <2>. DEFINE n == blockLength - 2
  <2>1. /\ n \in Nat /\ cpc = "space" /\ cpc' # "hung" /\ credit' = credit
        /\ readCount' = readCount + n
    <3>1. blockLength = PacketSize
      BY <1>1 DEF Inv, CtrlInv, CtrlEnqueue
    <3>. QED BY <1>1, <3>1, ConstFacts DEF CtrlEnqueue, AfterPackage
  <2>2. threshold = FirstThreshold(record) /\ threshold <= credit + Portion
    BY <2>1 DEF RateInv
  <2>3. CASE readCount + n >= threshold
    <3>1. record' = record + 1 /\ threshold' = threshold + Portion /\ cpc' = "credit"
      BY <1>1, <2>3 DEF CtrlEnqueue
    <3>2. FirstThreshold(record + 1) = FirstThreshold(record) + Portion
      <4>1. (record + 1) * Portion = record * Portion + Portion
        BY <1>0, Times
      <4>2. Portion * record = record * Portion /\ Portion * (record + 1) = (record + 1) * Portion
        BY <1>0
      <4>. QED BY <4>1, <4>2 DEF FirstThreshold
    <3>3. FirstThreshold(record)' = FirstThreshold(record + 1)
      BY <3>1 DEF FirstThreshold
    <3>4. threshold' <= readCount' + Portion
      BY <1>0, <2>1, <2>3, <3>1
    <3>. QED BY <2>2, <3>1, <3>2, <3>3, <3>4 DEF RateInv
  <2>4. CASE ~(readCount + n >= threshold)
    <3>1. record' = record /\ threshold' = threshold /\ cpc' # "credit"
      BY <1>1, <2>4 DEF CtrlEnqueue, AfterPackage
    <3>2. readCount' < threshold'
      BY <1>0, <2>1, <2>4, <3>1
    <3>. QED BY <2>1, <2>2, <3>1, <3>2 DEF RateInv, FirstThreshold
  <2>. QED BY <2>3, <2>4
<1>2. CASE CtrlCredit
  BY <1>0, <1>2 DEF CtrlCredit, RateInv, FirstThreshold, AfterPackage
<1>3. CASE CtrlReturn
  BY <1>0, <1>3 DEF CtrlReturn, RateInv, FirstThreshold
<1>. QED BY <1>1, <1>2, <1>3

LEMMA WaitStep ==
  ASSUME IInv, WaitInv, [Next]_vars
  PROVE  WaitInv'
<1>. SUFFICES ASSUME WholePackets' PROVE RateInv'
  BY DEF WaitInv
<1>1. callLength' = callLength
  BY DEF Next, FpgaHead, FpgaBody, FpgaTail, Ctrl, CtrlHead, CtrlTail, CtrlEnqueue, CtrlCredit,
         CtrlReturn, CtrlTimeout, BlockStep, BlockTake, BlockCopy, DataReturn, Exit, vars, fpgaVars
<1>2. TypeOK /\ Inv /\ RateInv
  BY <1>1 DEF IInv, TInv, WaitInv, WholePackets
<1>3. CASE CtrlEnqueue \/ CtrlCredit \/ CtrlReturn
  BY <1>2, <1>3, RateSteps
<1>4. CASE CtrlHead \/ CtrlTail \/ CtrlTimeout
  <2>1. /\ cpc # "credit" /\ cpc' # "credit"
        /\ UNCHANGED <<credit, readCount, record, threshold>>
    BY <1>4 DEF CtrlHead, CtrlTail, CtrlTimeout
  <2>. QED BY <1>2, <2>1 DEF RateInv, FirstThreshold
<1>5. ASSUME UNCHANGED <<ctrlVars, credit>> PROVE RateInv'
  BY <1>2, <1>5 DEF RateInv, FirstThreshold, ctrlVars
<1>6. CASE DataReturn \/ FpgaHead \/ FpgaBody \/ FpgaTail \/ UNCHANGED vars
  BY <1>5, <1>6 DEF DataReturn, FpgaHead, FpgaBody, FpgaTail, vars
<1>7. ASSUME NEW b \in Blocks, BlockTake(b) \/ BlockCopy(b)
      PROVE  RateInv'
  BY <1>5, <1>7 DEF BlockTake, BlockCopy
<1>. QED BY <1>3, <1>4, <1>6, <1>7 DEF Next, Ctrl, BlockStep, Exit

\* A block whose stream is behind the FIFO has an entry to take, or the whole
\* kernel has left.
LEMMA BehindCanMove ==
  ASSUME TypeOK, WholePackets, Inv, CallsInv, NEW b \in Blocks, rd[b] < wr
  PROVE  \/ \E c \in Blocks : BlockCanMove(c)
         \/ \A c \in Blocks : dpc[c] = "exit"
<1>. SUFFICES ASSUME \A c \in Blocks : ~BlockCanMove(c) PROVE \A c \in Blocks : dpc[c] = "exit"
  OBVIOUS
<1>0. TypeOK /\ CtrlInv /\ FpgaInv /\ BlockInv /\ FifoInv
  BY DEF Inv
<1>1. /\ callLength \in Nat \ {0} /\ dCall \in Nat /\ dCall * callLength \in Nat
      /\ wr \in Nat /\ \A c \in Blocks : rd[c] \in Nat /\ dLength[c] \in Nat
  BY <1>0, CallFacts, Times DEF TypeOK
<1>2. \A c \in Blocks : dpc[c] \in {"wait", "exit", "off"}
  BY <1>0 DEF TypeOK, BlockCanMove
<1>3. dpc[b] # "off"
  <2>. SUFFICES ASSUME dpc[b] = "off" PROVE FALSE
    OBVIOUS
  <2>1. rd[b] * Payload = NumCalls * callLength
    BY <1>0, <1>1 DEF BlockInv
  <2>2. wr * Payload <= NumCalls * callLength
    <3>1. Written * Payload <= NumCalls * callLength /\ wr <= Written
      BY <1>0 DEF FpgaInv, CtrlInv
    <3>2. Written \in Nat
      BY <1>0, Counts
    <3>3. wr * Payload <= Written * Payload
      BY <1>1, <3>1, <3>2, ConstFacts, TimesMono
    <3>4. wr * Payload \in Nat /\ Written * Payload \in Nat
      BY <1>1, <3>2, ConstFacts, Times
    <3>. QED BY <3>1, <3>3, <3>4, CallFacts, <1>0
  <2>3. wr <= rd[b]
    BY <1>1, <2>1, <2>2, ConstFacts, TimesLess
  <2>. QED BY <1>1, <2>3
<1>4. dCall < NumCalls
  BY <1>3 DEF CallsInv
<1>5. \A c \in Blocks : dpc[c] # "off"
  BY <1>0, <1>1, <1>4, ConstFacts DEF BlockInv
<1>6. dpc[b] = "exit"
  BY <1>1, <1>2, <1>3 DEF BlockCanMove
<1>7. ASSUME NEW c \in Blocks PROVE dpc[c] # "wait"
  <2>. SUFFICES ASSUME dpc[c] = "wait" PROVE FALSE
    OBVIOUS
  <2>1. rd[c] = wr
    BY DEF BlockCanMove
  <2>2. /\ rd[c] * Payload = dCall * callLength + dLength[c] /\ dLength[c] < callLength
        /\ rd[b] * Payload = dCall * callLength + callLength
    BY <1>0, <1>6 DEF BlockInv
  <2>3. rd[b] * Payload <= rd[c] * Payload
    BY <1>1, <2>1, ConstFacts, TimesMono
  <2>. QED BY <1>1, <2>2, <2>3
<1>. QED BY <1>2, <1>5, <1>7

\* The window is open to an FPGA that has nothing written and not queued.
LEMMA QueuedIsOpen ==
  ASSUME TypeOK, WholePackets, Inv, RateInv, CallsInv, cpc = "head", wr = Written
  PROVE  wTotal < NumCalls * callLength /\ wTotal + Size - credit <= FpgaWindow
<1>0. TypeOK /\ FpgaInv /\ CtrlInv
  BY DEF Inv
<1>1. /\ wTotal \in Nat /\ credit \in Nat /\ readCount \in Nat /\ threshold \in Nat
      /\ Payload \in Nat /\ Portion \in Nat /\ FpgaWindow \in Nat
  BY <1>0, ConstFacts DEF TypeOK
<1>2. wTotal = readCount
  BY <1>0 DEF FpgaInv, CtrlInv
<1>3. wTotal < NumCalls * callLength
  <2>1. readCount = cCall * callLength + curLength /\ curLength < callLength
    BY <1>0 DEF CtrlInv
  <2>2. cCall \in Nat /\ curLength \in Nat /\ callLength \in Nat /\ NumCalls \in Nat
    BY <1>0, CallFacts, ConstFacts DEF TypeOK
  <2>3. cCall + 1 <= NumCalls
    BY <2>2 DEF CallsInv
  <2>4. (cCall + 1) * callLength = cCall * callLength + callLength /\ cCall * callLength \in Nat
    BY <2>2, Times
  <2>5. (cCall + 1) * callLength <= NumCalls * callLength /\ NumCalls * callLength \in Nat
    BY <2>2, <2>3, TimesMono, Times
  <2>. QED BY <1>2, <2>1, <2>2, <2>4, <2>5
<1>4. Size = Payload
  BY <1>0, SizeWhole
<1>5. readCount < credit + Portion \/ readCount = credit
  BY <1>1 DEF RateInv
<1>6. Portion + Payload <= FpgaWindow
  BY WindowAssumption
<1>7. readCount + Payload - credit <= FpgaWindow
  BY <1>1, <1>5, <1>6
<1>. QED BY <1>2, <1>3, <1>4, <1>7

LEMMA StuckNowhere ==
  ASSUME TypeOK, WholePackets, Inv, CallsInv, RateInv
  PROVE  NeverStuck
<1>. SUFFICES ASSUME ~CtrlCanMove, ~FpgaCanMove, cpc # "hung",
                     \A b \in Blocks : ~BlockCanMove(b), ~ \A b \in Blocks : dpc[b] = "exit"
              PROVE  AllReturned
  BY DEF NeverStuck
<1>0. TypeOK /\ FpgaInv /\ CtrlInv /\ HeadsInv /\ TailsInv /\ FifoInv /\ BlockInv
  BY DEF Inv, WordsInv
<1>1. wpc = "idle" /\ Started = Written /\ Written \in Nat /\ wr \in Nat /\ wr <= Written
  BY <1>0, Counts DEF TypeOK, FpgaCanMove, Started, CtrlInv
<1>2. cpc # "head"
  <2>. SUFFICES ASSUME cpc = "head" PROVE FALSE
    OBVIOUS
  <2>1. ~(wr < Written)
    BY <1>1, HeadSeen DEF CtrlCanMove, HeadWord, ZeroWord
  <2>. QED BY <1>1, <2>1, QueuedIsOpen DEF FpgaCanMove
<1>3. cpc # "tail"
  <2>. SUFFICES ASSUME cpc = "tail" PROVE FALSE
    OBVIOUS
  <2>1. wr < Written /\ blockLength = PacketSize /\ offset = Addr(wr) /\ Seen = wr
    BY <1>0, <1>1 DEF CtrlInv, Seen
  <2>2. ring[Addr(wr) + PacketSize - 1] = TailWord(PacketSize)
    BY <1>0, <1>1, <2>1 DEF TailsInv
  <2>3. TailUnit \in Units /\ TailUnit = Addr(wr) + PacketSize - 1
    BY <1>1, <2>1, AddrRange, ConstFacts DEF TailUnit, Units
  <2>. QED BY <2>1, <2>2, <2>3 DEF CtrlCanMove, TailSeen, TailWord
<1>4. cpc # "space"
  <2>. SUFFICES ASSUME cpc = "space" PROVE FALSE
    OBVIOUS
  <2>1. PICK b \in Blocks : wr - rd[b] = FifoDepth
    BY DEF CtrlCanMove, Room
  <2>2. rd[b] < wr
    BY <1>0, <1>1, <2>1, ConstFacts DEF TypeOK
  <2>. QED BY <2>2, BehindCanMove
<1>5. cpc = "off"
  BY <1>0, <1>2, <1>3, <1>4 DEF TypeOK, CtrlInv, CtrlCanMove
<1>6. ASSUME NEW b \in Blocks PROVE dpc[b] \in {"exit", "off"}
  <2>1. rd[b] \in Nat /\ rd[b] = wr
    <3>1. rd[b] \in Nat /\ rd[b] <= wr
      BY <1>0 DEF TypeOK, FifoInv
    <3>2. ~(rd[b] < wr)
      BY BehindCanMove
    <3>. QED BY <1>1, <3>1, <3>2
  <2>2. dpc[b] # "copy" /\ dpc[b] \in {"wait", "copy", "exit", "off"}
    BY <1>0 DEF BlockCanMove, TypeOK
  <2>3. wr * Payload = NumCalls * callLength
    <3>1. NumCalls * callLength \in Nat
      BY <1>0, CallFacts
    <3>. QED BY <1>0, <1>5, <3>1 DEF CtrlInv
  <2>4. ASSUME dpc[b] = "wait" PROVE FALSE
    <3>1. dCall + 1 <= NumCalls /\ dCall \in Nat /\ callLength \in Nat \ {0} /\ NumCalls \in Nat
      BY <1>0, <2>4, CallFacts, ConstFacts DEF CallsInv, TypeOK
    <3>2. rd[b] * Payload = dCall * callLength + dLength[b] /\ dLength[b] < callLength
          /\ dLength[b] \in Nat
      BY <1>0, <2>4 DEF BlockInv, TypeOK
    <3>3. (dCall + 1) * callLength = dCall * callLength + callLength /\ dCall * callLength \in Nat
      BY <3>1, Times
    <3>4. (dCall + 1) * callLength <= NumCalls * callLength
      BY <3>1, TimesMono
    <3>5. NumCalls * callLength \in Nat
      BY <3>1, Times
    <3>. QED BY <2>1, <2>3, <3>1, <3>2, <3>3, <3>4, <3>5
  <2>. QED BY <2>2, <2>4
<1>7. PICK c \in Blocks : dpc[c] = "off"
  BY <1>6
<1>8. dCall = NumCalls /\ NumCalls \in Nat
  BY <1>0, <1>7, ConstFacts DEF BlockInv
<1>9. \A b \in Blocks : dpc[b] = "off"
  BY <1>8 DEF CallsInv
<1>. QED BY <1>5, <1>9 DEF AllReturned

-------------------------------------------------------------------------------
(* Theorems.  The first is about calls of any length, the others about      *)
(* calls of whole packets.                                                  *)

\* The counters, the offsets and the FIFO of the two kernels keep their types,
\* for calls of any length: even when network_kernel.cu takes payload for a
\* length it waits for a tail that lies in the ring, so nothing it queues leads
\* out of it, and neither stream runs more than its calls.
THEOREM TypeCorrect == Spec => []TypeOK
<1>1. TInv => TypeOK
  BY DEF TInv
<1>. QED BY <1>1, TypeInit, TypeStep, PTL DEF Spec

\* A packet that is queued or being copied is less than a lap behind what the
\* FPGA writes, although network_kernel.cu gives credit back when a packet is
\* queued and moves a block's read pointer before the copy: the FPGA writes
\* nothing over payload a block has yet to read.
THEOREM UnreadKept == Spec => [](WholePackets => NoOverwriteInUse)
<1>1. IInv => (WholePackets => NoOverwriteInUse)
  <2>. SUFFICES ASSUME TypeOK, WholePackets, Inv, wpc # "idle", NEW b \in Blocks, NEW e \in InUse(b)
                PROVE  PacketUnits \cap (e.addr .. (e.addr + e.len - 1)) = {}
    BY DEF IInv, TInv, NoOverwriteInUse
  <2>0. TypeOK /\ FpgaInv /\ CtrlInv /\ FifoInv
    BY DEF Inv
  <2>1. /\ wr \in Nat /\ Written \in Nat /\ wr <= Written
        /\ Written + 1 + FifoDepth + 1 <= wr + LapPackets
    BY <2>0, Counts DEF CtrlInv, Started
  <2>2. rd[b] \in Nat /\ rd[b] <= wr /\ wr <= rd[b] + FifoDepth
    BY <2>0 DEF TypeOK, FifoInv
  <2>3. PICK k \in Nat : k < wr /\ wr <= k + FifoDepth + 1 /\ e = PacketAt(k)
    <3>1. CASE \E j \in rd[b]..(wr - 1) : e = fifo[j % FifoDepth]
      <4>1. PICK j \in rd[b]..(wr - 1) : e = fifo[j % FifoDepth]
        BY <3>1
      <4>2. j \in Nat /\ j < wr /\ wr <= j + FifoDepth
        BY <2>1, <2>2, <4>1, ConstFacts
      <4>3. e = PacketAt(j)
        BY <2>0, <4>1, <4>2 DEF FifoInv
      <4>. QED BY <2>1, <4>2, <4>3, ConstFacts
    <3>2. CASE dpc[b] = "copy" /\ e = entry[b]
      <4>1. rd[b] - 1 \in Nat /\ e = PacketAt(rd[b] - 1)
        BY <3>2, EntryFresh
      <4>. QED BY <2>1, <2>2, <4>1, ConstFacts
    <3>. QED BY <3>1, <3>2 DEF InUse
  <2>4. PacketUnits = Addr(Written) .. (Addr(Written) + Payload + 1)
    BY <2>0, SizeWhole DEF PacketUnits, FpgaInv
  <2>5. k # Written /\ k < Written + LapPackets /\ Written < k + LapPackets
    BY <2>1, <2>3, ConstFacts
  <2>6. Addr(k) + PacketSize <= Addr(Written) \/ Addr(Written) + PacketSize <= Addr(k)
    BY <2>1, <2>5, AddrApart
  <2>7. e.addr = Addr(k) + 1 /\ e.len = Payload /\ Addr(k) \in Nat /\ Addr(Written) \in Nat
    BY <2>1, <2>3, AddrRange DEF PacketAt
  <2>. QED BY <2>4, <2>6, <2>7, ConstFacts
<1>. QED BY <1>1, SpecIInv, PTL

\* Every block of socket_recv copies the stream as it was sent, call by call,
\* for any number of blocks and packets and any depth of the FIFO, and the two
\* kernels that count it on their own end each call at the same unit.
THEOREM StreamDelivered == Spec => [](WholePackets => DeliveredInOrder)
<1>1. ASSUME TypeOK, WholePackets, Inv PROVE DeliveredInOrder
  <2>0. TypeOK /\ CtrlInv /\ BlockInv /\ GotInv
    BY <1>1 DEF Inv
  <2>1. /\ callLength \in Nat /\ cCall \in Nat /\ dCall \in Nat
        /\ (cCall + 1) * callLength = cCall * callLength + callLength
        /\ (dCall + 1) * callLength = dCall * callLength + callLength
        /\ dCall * callLength \in Nat
    BY <1>1, <2>0, CallFacts, Times DEF TypeOK
  <2>2. cpc = "done" => readCount = (cCall + 1) * callLength
    BY <2>0, <2>1 DEF CtrlInv
  <2>3. ASSUME NEW b \in Blocks
        PROVE  /\ dpc[b] = "exit" => Len(got[b]) = (dCall + 1) * callLength
               /\ dpc[b] = "off" => Len(got[b]) = NumCalls * callLength
    <3>1. dpc[b] # "copy" => Len(got[b]) = dCall * callLength + dLength[b]
      BY <2>0 DEF GotInv, BlockInv, Copied
    <3>. QED BY <2>0, <2>1, <3>1 DEF BlockInv
  <2>. QED BY <2>0, <2>2, <2>3 DEF DeliveredInOrder, CallsAgree, GotInv
<1>2. IInv => (WholePackets => DeliveredInOrder)
  BY <1>1 DEF IInv, TInv
<1>. QED BY <1>2, SpecIInv, PTL

\* No call comes to a standstill: the control kernel waits for packets and for
\* room in the FIFO, the blocks for entries, the FPGA for credit, which goes
\* back a portion at a time, and never all of them for each other, over any
\* number of calls.  The window has to hold a portion and a packet
\* (WindowAssumption), and the first call has to start with a record of 1, which
\* accept sets, or of 0, which fresh memory is taken to hold: connect sets none.
THEOREM RecvNeverStuck ==
  ASSUME FirstRecords \subseteq 0..1
  PROVE  Spec => []NeverStuck
<1>1. Init => WaitInv
  BY WaitInit
<1>2. IInv /\ WaitInv /\ [Next]_vars => WaitInv'
  BY WaitStep
<1>3. IInv /\ WaitInv => NeverStuck
  <2>1. CASE WholePackets
    BY <2>1, StuckNowhere DEF IInv, WaitInv, TInv
  <2>2. CASE ~WholePackets
    BY <2>2 DEF NeverStuck
  <2>. QED BY <2>1, <2>2
<1>. QED BY <1>1, <1>2, <1>3, SpecIInv, PTL DEF Spec
===============================================================================
