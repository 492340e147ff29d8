----------------------------- MODULE GpuConnectProofs --------------------------
(***************************************************************************)
(* Proofs about GpuConnect for every size of the table of buffers, every   *)
(* set of peers and every sequence of kernels, whether the peers come in   *)
(* turn or not.                                                            *)
(***************************************************************************)
EXTENDS GpuConnect, FiniteSetTheorems, WellFoundedInduction, TLAPS

-------------------------------------------------------------------------------
(***************************************************************************)
(* The inductive invariant.                                                *)

\* A peer the application has a connection with; one that opened a
\* connection the application does not have yet.
Recorded == {r.session : r \in ready}
Pending(p) == link[p] # "closed" /\ p \notin Recorded

\* read_info before and after it hands the connection over, and from where
\* on pfound is the buffer of this request.
Before  == {"scan", "mark", "session", "buffer", "accepted"}
After   == {"record", "respond"}
Marked  == {"session", "buffer", "accepted", "record", "respond"}
Holding == {"mark", "session", "buffer", "accepted", "record", "respond"}

\* Where the two streams are says which kernel runs and whose connection is
\* filled.
PlaceInv ==
  /\ pc \in {"arm", "spin", "session"} => Running("accept") /\ builder = at
  /\ pc \in {"mark", "wait"} => Running("connect") /\ found \in Buffers
  /\ isAccepting <=> pc \in {"spin", "session"}
  /\ ppc # "poll" => builder \in Ops /\ peer \in Peers

\* An open record is of a peer that waits for its answer, and no peer has
\* two.
InfoInv ==
  /\ \A i \in 1..Len(infos) : link[infos[i]] = "opening"
  /\ \A i, j \in 1..Len(infos) : infos[i] = infos[j] => i = j
  /\ ppc # "poll" => link[peer] = "opening"
  /\ ppc # "poll" => \A i \in 1..Len(infos) : infos[i] # peer

\* Every buffer the FPGA was told of is marked and is of one peer.
AnswerInv ==
  /\ \A p \in Peers : answer[p] \in Buffers => valid[answer[p]]
  /\ \A p, q \in Peers :
       p # q /\ answer[p] \in Buffers => answer[p] # answer[q]
  /\ ppc \in Holding =>
       \A p \in Peers : answer[p] \in Buffers => answer[p] # pfound
  /\ ppc \in Marked /\ pfound \in Buffers => valid[pfound]

\* The hand-over, when peers come in turn.
TurnInv ==
  /\ \A p, q \in Peers : Pending(p) /\ Pending(q) => p = q
  /\ \A i \in 1..Len(infos) : infos[i] \notin Recorded
  /\ ppc \in Before => pc = "spin" /\ ~accepted /\ peer \notin Recorded
  /\ ppc \in {"buffer", "accepted"} => conn[at].session = peer
  /\ ppc = "accepted" => conn[at].buffer = pfound
  /\ pc = "session" => accepted /\ seen = conn[at].buffer

HandInv ==
  /\ accepted =>
       /\ pc \in {"spin", "session"}
       /\ conn[at].session \in Peers
       /\ conn[at].session \notin Recorded
       /\ \/ /\ link[conn[at].session] = "up"
             /\ answer[conn[at].session] = conn[at].buffer
          \/ /\ ppc \in After
             /\ peer = conn[at].session /\ pfound = conn[at].buffer
  /\ ppc \in After =>
       \/ \E r \in ready : r.session = peer /\ r.buffer = pfound
       \/ /\ accepted
          /\ conn[at].session = peer /\ conn[at].buffer = pfound
  /\ \A p \in Peers : link[p] = "up" =>
       p \in Recorded \/ (accepted /\ conn[at].session = p)

\* The connections of the application, when peers come in turn.
RecordInv ==
  /\ \A r \in ready : r.session = Server \/ r.session \in Peers
  /\ \A r \in ready : r.session \in Peers =>
       \/ link[r.session] = "up" /\ answer[r.session] = r.buffer
       \/ ppc \in After /\ peer = r.session /\ pfound = r.buffer

BufferInv ==
  /\ \A r \in ready : r.buffer \in Buffers => valid[r.buffer]
  /\ \A r, s \in ready : r # s /\ r.buffer \in Buffers => r.buffer # s.buffer
  /\ \A r \in ready : r.session = Server =>
       /\ r.buffer \in Buffers
       /\ \A p \in Peers : answer[p] # r.buffer
       /\ ppc \in Holding => pfound # r.buffer
  /\ ppc = "mark" /\ pfound \in Buffers => ~valid[pfound]
  /\ pc = "mark" => ~valid[found]
  /\ pc = "wait" => valid[found]
  /\ pc \in {"mark", "wait"} =>
       /\ \A p \in Peers : answer[p] # found
       /\ \A r \in ready : r.buffer # found
       /\ ppc \in Holding => pfound # found

ConnectInv ==
  /\ TypeOK /\ PlaceInv /\ InfoInv /\ AnswerInv
  /\ inTurn => TurnInv /\ HandInv /\ RecordInv /\ BufferInv

-------------------------------------------------------------------------------
(* The table of buffers.                                                   *)

\* The least element of a set of numbers.
LEMMA LeastNat ==
  ASSUME NEW T \in SUBSET Nat, T # {}
  PROVE  \E n \in T : \A m \in T : n <= m
<1>1. PICK n \in T : \A m \in T : ~(<<m, n>> \in OpToRel(<, Nat))
  BY NatLessThanWellFounded, WFMin
<1>2. ASSUME NEW m \in T
      PROVE  n <= m
  <2>1. <<m, n>> \in Nat \X Nat
    OBVIOUS
  <2>2. ~(m < n)
    BY <1>1, <2>1, Zenon DEF OpToRel
  <2> QED
    BY <2>2
<1> QED
  BY <1>2

\* What get_empty_buffer finds is not marked.
LEMMA EmptyBufferFree ==
  ASSUME valid \in [Buffers -> BOOLEAN]
  PROVE  \/ EmptyBuffer = NoBuffer
         \/ EmptyBuffer \in Buffers /\ ~valid[EmptyBuffer]
<1>1. CASE \E b \in Buffers : ~valid[b]
  <2> DEFINE Free == {b \in Buffers : ~valid[b]}
  <2>1. Free \in SUBSET Nat /\ Free # {}
    BY <1>1 DEF Buffers
  <2>2. PICK b \in Free : \A c \in Free : b <= c
    BY <2>1, LeastNat
  <2>3. ~valid[b] /\ \A c \in 0..(b - 1) : valid[c]
    BY <2>2, ConnectAssumption DEF Buffers
  <2>4. \E c \in Buffers : ~valid[c] /\ \A d \in 0..(c - 1) : valid[d]
    BY <2>2, <2>3
  <2>5. /\ EmptyBuffer \in Buffers /\ ~valid[EmptyBuffer]
    BY <1>1, <2>4, Zenon DEF EmptyBuffer
  <2> QED
    BY <2>5
<1>2. CASE ~\E b \in Buffers : ~valid[b]
  BY <1>2 DEF EmptyBuffer
<1> QED
  BY <1>1, <1>2

-------------------------------------------------------------------------------
(* The actions, one by one.                                                *)

LEMMA ListenType ==
  ASSUME ConnectInv, Listen
  PROVE  TypeOK'
<1>1. isListening' \in BOOLEAN
  BY DEF ConnectInv, TypeOK, Listen
<1>2. at' \in 1..(Len(Program) + 1)
  BY ConnectAssumption DEF ConnectInv, TypeOK, Listen, Running, NextKernel, Ops
<1>3. \A r \in ready :
        r.op \in Ops /\ [session |-> r.session, buffer |-> r.buffer] \in Connection
  BY DEF ConnectInv, TypeOK
<1> QED
  BY <1>1, <1>2, <1>3 DEF ConnectInv, TypeOK, Listen, Running, NextKernel, tableVars,
     handVars, pollVars, peerVars

LEMMA ListenStep ==
  ASSUME ConnectInv, Listen
  PROVE  ConnectInv'
<1>1. TypeOK'
  BY ListenType
<1>2. PlaceInv'
  BY DEF ConnectInv, Listen, PlaceInv, NextKernel, tableVars, handVars, pollVars,
    peerVars
<1>3. InfoInv'
  BY DEF ConnectInv, Listen, InfoInv, NextKernel, tableVars, handVars, pollVars,
    peerVars
<1>4. AnswerInv'
  BY DEF ConnectInv, Listen, AnswerInv, NextKernel, tableVars, handVars, pollVars,
    peerVars
<1>5. ASSUME inTurn PROVE TurnInv'
  BY <1>5 DEF ConnectInv, Listen, TurnInv, NextKernel, tableVars, handVars, pollVars,
    peerVars, Running, Before, Pending, Recorded
<1>6. ASSUME inTurn PROVE HandInv'
  BY <1>6 DEF ConnectInv, Listen, HandInv, NextKernel, tableVars, handVars, pollVars,
    peerVars, Running, After, Recorded
<1>7. ASSUME inTurn PROVE RecordInv'
  BY <1>7 DEF ConnectInv, Listen, RecordInv, NextKernel, tableVars, handVars, pollVars,
    peerVars
<1>8. ASSUME inTurn PROVE BufferInv'
  BY <1>8 DEF ConnectInv, Listen, BufferInv, NextKernel, tableVars, handVars, pollVars,
    peerVars
<1>9. inTurn' = inTurn
  BY DEF Listen, peerVars
<1> QED
  BY <1>1, <1>2, <1>3, <1>4, <1>5, <1>6, <1>7, <1>8, <1>9 DEF ConnectInv

LEMMA AcceptEnterType ==
  ASSUME ConnectInv, AcceptEnter
  PROVE  TypeOK'
<1>1. at' \in 1..(Len(Program) + 1) /\ builder' \in {0} \cup Ops
  BY ConnectAssumption DEF ConnectInv, TypeOK, AcceptEnter, Running, NextKernel, Ops,
     handVars
<1>2. accepted' \in BOOLEAN /\ isAccepting' \in BOOLEAN
  BY DEF ConnectInv, TypeOK, AcceptEnter, handVars
<1>3. pc' \in {"start", "arm"}
  BY DEF AcceptEnter, NextKernel
<1>4. \A r \in ready :
        r.op \in Ops /\ [session |-> r.session, buffer |-> r.buffer] \in Connection
  BY DEF ConnectInv, TypeOK
<1> QED
  BY <1>1, <1>2, <1>3, <1>4 DEF ConnectInv, TypeOK, AcceptEnter, tableVars, pollVars,
     peerVars

LEMMA AcceptEnterStep ==
  ASSUME ConnectInv, AcceptEnter
  PROVE  ConnectInv'
<1>1. TypeOK'
  BY AcceptEnterType
<1>2. PlaceInv'
  BY DEF ConnectInv, AcceptEnter, PlaceInv, NextKernel, tableVars, handVars, pollVars,
    peerVars, Running
<1>3. InfoInv'
  BY DEF ConnectInv, AcceptEnter, InfoInv, NextKernel, tableVars, handVars, pollVars,
    peerVars
<1>4. AnswerInv'
  BY DEF ConnectInv, AcceptEnter, AnswerInv, NextKernel, tableVars, handVars, pollVars,
    peerVars
<1>5. ASSUME inTurn PROVE TurnInv'
  BY <1>5 DEF ConnectInv, AcceptEnter, TurnInv, NextKernel, tableVars, handVars,
    pollVars, peerVars, Running, Before, Pending, Recorded
<1>6. ASSUME inTurn PROVE HandInv'
  BY <1>6 DEF ConnectInv, AcceptEnter, HandInv, NextKernel, tableVars, handVars,
    pollVars, peerVars, Running, After, Recorded
<1>7. ASSUME inTurn PROVE RecordInv'
  BY <1>7 DEF ConnectInv, AcceptEnter, RecordInv, NextKernel, tableVars, handVars,
    pollVars, peerVars
<1>8. ASSUME inTurn PROVE BufferInv'
  BY <1>8 DEF ConnectInv, AcceptEnter, BufferInv, NextKernel, tableVars, handVars,
    pollVars, peerVars
<1>9. inTurn' = inTurn
  BY DEF AcceptEnter, peerVars
<1> QED
  BY <1>1, <1>2, <1>3, <1>4, <1>5, <1>6, <1>7, <1>8, <1>9 DEF ConnectInv

LEMMA AcceptArmStep ==
  ASSUME ConnectInv, AcceptArm
  PROVE  ConnectInv'
<1>1. TypeOK'
  BY DEF ConnectInv, AcceptArm, TypeOK, tableVars, pollVars, peerVars
<1>2. PlaceInv'
  BY DEF ConnectInv, AcceptArm, PlaceInv, tableVars, pollVars, peerVars, Running
<1>3. InfoInv'
  BY DEF ConnectInv, AcceptArm, InfoInv, tableVars, pollVars, peerVars
<1>4. AnswerInv'
  BY DEF ConnectInv, AcceptArm, AnswerInv, tableVars, pollVars, peerVars
<1>5. ASSUME inTurn PROVE TurnInv'
  BY <1>5 DEF ConnectInv, AcceptArm, TurnInv, tableVars, pollVars, peerVars, Before,
    Pending, Recorded
<1>6. ASSUME inTurn PROVE HandInv'
  BY <1>6 DEF ConnectInv, AcceptArm, HandInv, tableVars, pollVars, peerVars, After,
    Recorded
<1>7. ASSUME inTurn PROVE RecordInv'
  BY <1>7 DEF ConnectInv, AcceptArm, RecordInv, tableVars, pollVars, peerVars
<1>8. ASSUME inTurn PROVE BufferInv'
  BY <1>8 DEF ConnectInv, AcceptArm, BufferInv, tableVars, pollVars, peerVars
<1>9. inTurn' = inTurn
  BY DEF AcceptArm, peerVars
<1> QED
  BY <1>1, <1>2, <1>3, <1>4, <1>5, <1>6, <1>7, <1>8, <1>9 DEF ConnectInv

LEMMA AcceptBufferStep ==
  ASSUME ConnectInv, AcceptBuffer
  PROVE  ConnectInv'
<1>1. TypeOK'
  BY DEF ConnectInv, AcceptBuffer, TypeOK, tableVars, handVars, pollVars, peerVars,
    Connection, PlaceInv, Running
<1>2. PlaceInv'
  BY DEF ConnectInv, AcceptBuffer, PlaceInv, tableVars, handVars, pollVars, peerVars,
    Running
<1>3. InfoInv'
  BY DEF ConnectInv, AcceptBuffer, InfoInv, tableVars, handVars, pollVars, peerVars
<1>4. AnswerInv'
  BY DEF ConnectInv, AcceptBuffer, AnswerInv, tableVars, handVars, pollVars, peerVars
<1>5. ASSUME inTurn PROVE TurnInv'
  BY <1>5 DEF ConnectInv, AcceptBuffer, TurnInv, tableVars, handVars, pollVars,
    peerVars, Before, Pending, Recorded
<1>6. ASSUME inTurn PROVE HandInv'
  BY <1>6 DEF ConnectInv, AcceptBuffer, HandInv, tableVars, handVars, pollVars,
    peerVars, After, Recorded
<1>7. ASSUME inTurn PROVE RecordInv'
  BY <1>7 DEF ConnectInv, AcceptBuffer, RecordInv, tableVars, handVars, pollVars,
    peerVars
<1>8. ASSUME inTurn PROVE BufferInv'
  BY <1>8 DEF ConnectInv, AcceptBuffer, BufferInv, tableVars, handVars, pollVars,
    peerVars
<1>9. inTurn' = inTurn
  BY DEF AcceptBuffer, peerVars
<1> QED
  BY <1>1, <1>2, <1>3, <1>4, <1>5, <1>6, <1>7, <1>8, <1>9 DEF ConnectInv

LEMMA AcceptDoneType ==
  ASSUME ConnectInv, AcceptDone
  PROVE  TypeOK'
<1>1. at \in Ops /\ at' \in 1..(Len(Program) + 1)
  BY ConnectAssumption DEF ConnectInv, TypeOK, PlaceInv, AcceptDone, Running,
     NextKernel, Ops
<1>2. conn[at] \in Connection /\ seen \in Buffers \cup {NoBuffer}
  BY <1>1 DEF ConnectInv, TypeOK
<1>3. [session |-> conn[at].session, buffer |-> seen] \in Connection
  BY <1>2 DEF Connection
<1> DEFINE new == [op |-> at, session |-> conn[at].session, buffer |-> seen]
<1>4. ready' = ready \cup {new}
  BY DEF AcceptDone
<1>5. new.op \in Ops /\ [session |-> new.session, buffer |-> new.buffer] \in Connection
  BY <1>1, <1>3
<1> HIDE DEF new
<1>6. \A r \in ready' :
        r.op \in Ops /\ [session |-> r.session, buffer |-> r.buffer] \in Connection
  BY <1>4, <1>5 DEF ConnectInv, TypeOK
<1>7. accepted' \in BOOLEAN /\ isAccepting' \in BOOLEAN
  BY DEF AcceptDone
<1>8. pc' = "start"
  BY DEF AcceptDone, NextKernel
<1> QED
  BY <1>1, <1>6, <1>7, <1>8 DEF ConnectInv, TypeOK, AcceptDone, tableVars, pollVars,
     peerVars

LEMMA AcceptDoneTurn ==
  ASSUME ConnectInv, AcceptDone, inTurn
  PROVE  TurnInv' /\ HandInv' /\ RecordInv' /\ BufferInv'
<1> DEFINE p == conn[at].session
           b == conn[at].buffer
           new == [op |-> at, session |-> p, buffer |-> b]
<1>1. /\ accepted /\ seen = b /\ p \in Peers /\ p \notin Recorded
      /\ \/ link[p] = "up" /\ answer[p] = b
         \/ ppc \in After /\ peer = p /\ pfound = b
  BY DEF ConnectInv, TurnInv, HandInv, AcceptDone
<1>2. ready' = ready \cup {new}
  BY <1>1 DEF AcceptDone
<1>3. new.session = p /\ new.buffer = b /\ new.session # Server
  BY <1>1, ConnectAssumption
<1> HIDE DEF new
<1>a. \A q \in Peers : q \in Recorded' <=> q \in Recorded \/ q = p
  BY <1>2, <1>3 DEF Recorded
<1>i. \A i \in 1..Len(infos) : infos[i] \in Peers /\ infos[i] # p
  BY <1>1 DEF ConnectInv, TypeOK, InfoInv, After
<1>4. TurnInv'
  <2>1. \A q \in Peers : Pending(q)' => Pending(q)
    BY <1>a DEF Pending, AcceptDone, peerVars
  <2>2. ppc \notin Before
    BY DEF ConnectInv, TurnInv, AcceptDone
  <2>3. ppc' = ppc /\ infos' = infos /\ pc' = "start"
    BY DEF AcceptDone, NextKernel, pollVars
  <2>4. \A i \in 1..Len(infos) : infos[i] \notin Recorded'
    BY <1>a, <1>i DEF ConnectInv, TurnInv
  <2> QED
    BY <2>1, <2>2, <2>3, <2>4 DEF ConnectInv, TurnInv, Before
<1>5. HandInv'
  <2>1. ppc \in After => \E r \in ready' : r.session = peer /\ r.buffer = pfound
    BY <1>2, <1>3 DEF ConnectInv, HandInv
  <2>2. \A q \in Peers : link[q] = "up" => q \in Recorded'
    BY <1>a DEF ConnectInv, HandInv
  <2>3. ~accepted'
    BY DEF AcceptDone
  <2>4. UNCHANGED <<ppc, peer, pfound, link>>
    BY DEF AcceptDone, pollVars, peerVars
  <2> QED
    BY <2>1, <2>2, <2>3, <2>4 DEF HandInv
<1>6. RecordInv'
  BY <1>1, <1>2, <1>3 DEF ConnectInv, RecordInv, AcceptDone, pollVars, peerVars
<1>7. BufferInv'
  <2>1. b \in Buffers => valid[b]
    BY <1>1 DEF ConnectInv, AnswerInv, After, Marked
  <2>2. ASSUME NEW r \in ready, b \in Buffers
        PROVE  r.buffer # b
    <3>1. CASE r.session = Server
      BY <1>1, <3>1 DEF ConnectInv, BufferInv, After, Holding
    <3>2. CASE r.session \in Peers
      <4>1. r.session # p
        BY <1>1 DEF Recorded
      <4>2. \/ link[r.session] = "up" /\ answer[r.session] = r.buffer
            \/ ppc \in After /\ peer = r.session /\ pfound = r.buffer
        BY <3>2 DEF ConnectInv, RecordInv
      <4>3. ppc \in After => \A q \in Peers : answer[q] \in Buffers => answer[q] # pfound
        BY DEF ConnectInv, AnswerInv, After, Holding
      <4>4. \A q \in Peers : q # p /\ answer[q] \in Buffers => answer[q] # answer[p]
        BY <1>1 DEF ConnectInv, AnswerInv
      <4> QED
        BY <1>1, <2>2, <3>2, <4>1, <4>2, <4>3, <4>4
    <3> QED
      BY <3>1, <3>2 DEF ConnectInv, RecordInv
  <2>3. UNCHANGED <<valid, answer, ppc, pfound>>
    BY DEF AcceptDone, tableVars, pollVars, peerVars
  <2>4. pc' = "start"
    BY DEF AcceptDone, NextKernel
  <2>5. \A r \in ready : r.buffer \in Buffers => valid[r.buffer]
    BY DEF ConnectInv, BufferInv
  <2> QED
    BY <1>2, <1>3, <2>1, <2>2, <2>3, <2>4, <2>5 DEF ConnectInv, BufferInv
<1> QED
  BY <1>4, <1>5, <1>6, <1>7

LEMMA AcceptDoneStep ==
  ASSUME ConnectInv, AcceptDone
  PROVE  ConnectInv'
<1>1. TypeOK'
  BY AcceptDoneType
<1>2. PlaceInv'
  BY DEF ConnectInv, AcceptDone, PlaceInv, NextKernel, tableVars, pollVars, peerVars
<1>3. InfoInv'
  BY DEF ConnectInv, AcceptDone, InfoInv, NextKernel, tableVars, pollVars, peerVars
<1>4. AnswerInv'
  BY DEF ConnectInv, AcceptDone, AnswerInv, NextKernel, tableVars, pollVars, peerVars
<1>5. ASSUME inTurn PROVE TurnInv'
  BY <1>5, AcceptDoneTurn
<1>6. ASSUME inTurn PROVE HandInv'
  BY <1>6, AcceptDoneTurn
<1>7. ASSUME inTurn PROVE RecordInv'
  BY <1>7, AcceptDoneTurn
<1>8. ASSUME inTurn PROVE BufferInv'
  BY <1>8, AcceptDoneTurn
<1>9. inTurn' = inTurn
  BY DEF AcceptDone, peerVars
<1> QED
  BY <1>1, <1>2, <1>3, <1>4, <1>5, <1>6, <1>7, <1>8, <1>9 DEF ConnectInv

LEMMA ConnectScanStep ==
  ASSUME ConnectInv, ConnectScan
  PROVE  ConnectInv'
<1>0. EmptyBuffer = NoBuffer \/ (EmptyBuffer \in Buffers /\ ~valid[EmptyBuffer])
  BY EmptyBufferFree DEF ConnectInv, TypeOK
<1>1. TypeOK'
  <2>1. at' \in 1..(Len(Program) + 1) /\ found' \in Buffers \cup {NoBuffer}
    BY <1>0, ConnectAssumption DEF ConnectInv, TypeOK, ConnectScan, Running, NextKernel, Ops
  <2>2. pc' \in {"start", "mark"}
    BY DEF ConnectScan, NextKernel
  <2>3. \A r \in ready :
        r.op \in Ops /\ [session |-> r.session, buffer |-> r.buffer] \in Connection
    BY DEF ConnectInv, TypeOK
  <2> QED
    BY <2>1, <2>2, <2>3 DEF ConnectInv, TypeOK, ConnectScan, tableVars, handVars,
       pollVars, peerVars
<1>2. PlaceInv'
  BY <1>0, ConnectAssumption DEF ConnectInv, ConnectScan, PlaceInv, NextKernel,
    tableVars, handVars, pollVars, peerVars, Running, TypeOK, Buffers, NoBuffer
<1>3. InfoInv'
  BY DEF ConnectInv, ConnectScan, InfoInv, NextKernel, tableVars, handVars, pollVars,
    peerVars
<1>4. AnswerInv'
  BY DEF ConnectInv, ConnectScan, AnswerInv, NextKernel, tableVars, handVars, pollVars,
    peerVars
<1>5. ASSUME inTurn PROVE TurnInv'
  BY <1>5 DEF ConnectInv, ConnectScan, TurnInv, NextKernel, tableVars, handVars,
    pollVars, peerVars, Running, Before, Pending, Recorded
<1>6. ASSUME inTurn PROVE HandInv'
  BY <1>6 DEF ConnectInv, ConnectScan, HandInv, NextKernel, tableVars, handVars,
    pollVars, peerVars, Running, After, Recorded
<1>7. ASSUME inTurn PROVE RecordInv'
  BY <1>7 DEF ConnectInv, ConnectScan, RecordInv, NextKernel, tableVars, handVars,
    pollVars, peerVars
<1>8. ASSUME inTurn PROVE BufferInv'
  BY <1>0, <1>8, ConnectAssumption DEF ConnectInv, ConnectScan, BufferInv, NextKernel,
    tableVars, handVars, pollVars, peerVars, Running, Holding, PlaceInv, TypeOK,
    InfoInv, AnswerInv, TurnInv, HandInv, RecordInv, After, Before, Marked, NoBuffer
<1>9. inTurn' = inTurn
  BY DEF ConnectScan, peerVars
<1> QED
  BY <1>1, <1>2, <1>3, <1>4, <1>5, <1>6, <1>7, <1>8, <1>9 DEF ConnectInv

LEMMA ConnectMarkStep ==
  ASSUME ConnectInv, ConnectMark
  PROVE  ConnectInv'
<1>1. TypeOK'
  BY DEF ConnectInv, ConnectMark, TypeOK, handVars, pollVars, peerVars, Mark, Connection
<1>2. PlaceInv'
  BY DEF ConnectInv, ConnectMark, PlaceInv, handVars, pollVars, peerVars, Mark, Running
<1>3. InfoInv'
  BY DEF ConnectInv, ConnectMark, InfoInv, handVars, pollVars, peerVars
<1>4. AnswerInv'
  BY DEF ConnectInv, ConnectMark, AnswerInv, handVars, pollVars, peerVars, Mark,
    Holding, Marked
<1>5. ASSUME inTurn PROVE TurnInv'
  BY <1>5 DEF ConnectInv, ConnectMark, TurnInv, handVars, pollVars, peerVars, Mark,
    Before, Pending, Recorded
<1>6. ASSUME inTurn PROVE HandInv'
  BY <1>6 DEF ConnectInv, ConnectMark, HandInv, handVars, pollVars, peerVars, Mark,
    After, Recorded
<1>7. ASSUME inTurn PROVE RecordInv'
  BY <1>7 DEF ConnectInv, ConnectMark, RecordInv, handVars, pollVars, peerVars
<1>8. ASSUME inTurn PROVE BufferInv'
  BY <1>8, ConnectAssumption DEF ConnectInv, ConnectMark, BufferInv, handVars, pollVars,
    peerVars, Mark, Holding, PlaceInv, TypeOK, Buffers, NoBuffer
<1>9. inTurn' = inTurn
  BY DEF ConnectMark, peerVars
<1> QED
  BY <1>1, <1>2, <1>3, <1>4, <1>5, <1>6, <1>7, <1>8, <1>9 DEF ConnectInv

LEMMA ConnectDoneTurn ==
  ASSUME ConnectInv, ConnectDone, inTurn
  PROVE  TurnInv' /\ BufferInv'
<1> DEFINE new == [op |-> at, session |-> Server, buffer |-> found]
<1>1. ready' = ready \/ ready' = ready \cup {new}
  BY DEF ConnectDone
<1>2. new.session = Server /\ new.buffer = found /\ Server \notin Peers
  BY ConnectAssumption
<1> HIDE DEF new
<1>a. \A q \in Peers : q \in Recorded' <=> q \in Recorded
  BY <1>1, <1>2 DEF Recorded
<1>3. pc' = "start" /\ UNCHANGED <<valid, answer, accepted, infos, ppc, peer, pfound, link>>
  BY DEF ConnectDone, NextKernel, tableVars, handVars, pollVars, peerVars
<1>4. TurnInv'
  <2>1. \A q \in Peers : Pending(q)' <=> Pending(q)
    BY <1>a, <1>3 DEF Pending
  <2>2. ppc \notin Before
    BY DEF ConnectInv, TurnInv, ConnectDone
  <2>3. \A i \in 1..Len(infos) : infos[i] \notin Recorded'
    BY <1>a DEF ConnectInv, TypeOK, TurnInv
  <2> QED
    BY <1>3, <2>1, <2>2, <2>3 DEF ConnectInv, TurnInv, Before
<1>5. BufferInv'
  <2>1. found \in Buffers /\ valid[found]
    BY DEF ConnectInv, PlaceInv, BufferInv, ConnectDone
  <2>2. /\ \A p \in Peers : answer[p] # found
        /\ \A r \in ready : r.buffer # found
        /\ ppc \in Holding => pfound # found
    BY DEF ConnectInv, BufferInv, ConnectDone
  <2>3. \A r \in ready' : r \in ready \/ r = new
    BY <1>1
  <2> QED
    BY <1>2, <1>3, <2>1, <2>2, <2>3 DEF ConnectInv, BufferInv
<1> QED
  BY <1>4, <1>5

LEMMA ConnectDoneStep ==
  ASSUME ConnectInv, ConnectDone
  PROVE  ConnectInv'
<1>1. TypeOK'
  <2>1. at \in Ops /\ at' \in 1..(Len(Program) + 1)
    BY ConnectAssumption DEF ConnectInv, TypeOK, PlaceInv, ConnectDone, Running,
       NextKernel, Ops
  <2> DEFINE new == [op |-> at, session |-> Server, buffer |-> found]
  <2>2. ready' = ready \/ ready' = ready \cup {new}
    BY DEF ConnectDone
  <2>3. new.op \in Ops /\ [session |-> new.session, buffer |-> new.buffer] \in Connection
    BY <2>1 DEF ConnectInv, TypeOK, Connection
  <2> HIDE DEF new
  <2>4. \A r \in ready' :
        r.op \in Ops /\ [session |-> r.session, buffer |-> r.buffer] \in Connection
    BY <2>2, <2>3 DEF ConnectInv, TypeOK
  <2> QED
    BY <2>1, <2>4 DEF ConnectInv, TypeOK, ConnectDone, NextKernel, tableVars, handVars,
       pollVars, peerVars
<1>2. PlaceInv'
  BY DEF ConnectInv, ConnectDone, PlaceInv, NextKernel, tableVars, handVars, pollVars,
    peerVars
<1>3. InfoInv'
  BY DEF ConnectInv, ConnectDone, InfoInv, NextKernel, tableVars, handVars, pollVars,
    peerVars
<1>4. AnswerInv'
  BY DEF ConnectInv, ConnectDone, AnswerInv, NextKernel, tableVars, handVars, pollVars,
    peerVars
<1>5. ASSUME inTurn PROVE TurnInv'
  BY <1>5, ConnectDoneTurn
<1>6. ASSUME inTurn PROVE HandInv'
  BY <1>6 DEF ConnectInv, ConnectDone, HandInv, NextKernel, tableVars, handVars,
    pollVars, peerVars, After, Recorded
<1>7. ASSUME inTurn PROVE RecordInv'
  BY <1>7, ConnectAssumption DEF ConnectInv, ConnectDone, RecordInv, NextKernel,
    tableVars, handVars, pollVars, peerVars, After, PlaceInv, TypeOK, Buffers, NoBuffer
<1>8. ASSUME inTurn PROVE BufferInv'
  BY <1>8, ConnectDoneTurn
<1>9. inTurn' = inTurn
  BY DEF ConnectDone, peerVars
<1> QED
  BY <1>1, <1>2, <1>3, <1>4, <1>5, <1>6, <1>7, <1>8, <1>9 DEF ConnectInv

LEMMA PollOpenTurn ==
  ASSUME ConnectInv, PollOpen, inTurn
  PROVE  TurnInv' /\ HandInv' /\ RecordInv' /\ BufferInv'
<1> DEFINE p == Head(infos)
<1>1. infos \in Seq(Peers) /\ infos # <<>> /\ ppc = "poll"
  BY DEF ConnectInv, TypeOK, PollOpen
<1>2. p = infos[1] /\ p \in Peers /\ 1 \in 1..Len(infos)
  BY <1>1
<1>3. link[p] = "opening" /\ p \notin Recorded /\ Pending(p)
  BY <1>2 DEF ConnectInv, InfoInv, TurnInv, Pending
<1> HIDE DEF p
<1>4. /\ Len(infos') = Len(infos) - 1
      /\ \A i \in 1..Len(infos') : infos'[i] = infos[i + 1] /\ i + 1 \in 1..Len(infos)
  BY <1>1 DEF PollOpen
<1>5. ~\E r \in ready : r.session = p
  BY <1>3 DEF Recorded
<1>6. /\ link' = link \/ link' = [link EXCEPT ![p] = "closed"]
      /\ UNCHANGED <<valid, conn, accepted, pc, found, seen, at, ready, pfound, answer>>
  BY DEF PollOpen, Refuse, tableVars, handVars, streamVars, peerVars, p
<1>7. ppc' = "poll" \/ (ppc' = "scan" /\ isAccepting /\ peer' = p)
  BY <1>1 DEF PollOpen, p
<1>8. \A q \in Peers : q \in Recorded' <=> q \in Recorded
  BY <1>6 DEF Recorded
<1>9. \A q \in Peers : link'[q] = "up" <=> link[q] = "up"
  BY <1>3, <1>6 DEF ConnectInv, TypeOK
<1>10. ~accepted
  BY <1>1, <1>2, <1>3 DEF ConnectInv, TurnInv, HandInv, Pending, After
<1>11. TurnInv'
  <2>1. \A q \in Peers : Pending(q)' => Pending(q)
    BY <1>6, <1>8 DEF ConnectInv, TypeOK, Pending
  <2>2. \A i \in 1..Len(infos') : infos'[i] \notin Recorded'
    BY <1>1, <1>4, <1>8 DEF ConnectInv, TurnInv
  <2>3. ppc' = "scan" => pc = "spin" /\ peer' \notin Recorded'
    BY <1>2, <1>3, <1>7, <1>8, <1>10 DEF ConnectInv, PlaceInv, TurnInv
  <2> QED
    BY <1>6, <1>7, <1>10, <2>1, <2>2, <2>3 DEF ConnectInv, TurnInv, Before
<1>12. HandInv'
  BY <1>6, <1>7, <1>8, <1>9, <1>10 DEF ConnectInv, HandInv, After
<1>13. RecordInv'
  BY <1>1, <1>6, <1>9 DEF ConnectInv, RecordInv, After
<1>14. BufferInv'
  BY <1>6, <1>7 DEF ConnectInv, BufferInv, Holding
<1> QED
  BY <1>11, <1>12, <1>13, <1>14

LEMMA PollOpenStep ==
  ASSUME ConnectInv, PollOpen
  PROVE  ConnectInv'
<1>1. TypeOK'
  <2>1. infos' \in Seq(Peers) /\ Head(infos) \in Peers
    BY DEF ConnectInv, TypeOK, PollOpen
  <2>2. link' \in [Peers -> {"closed", "opening", "up"}] /\ UNCHANGED <<answer, inTurn>>
    BY <2>1 DEF ConnectInv, TypeOK, PollOpen, Refuse, peerVars
  <2>3. peer' \in Peers \cup {Nobody} /\ ppc' \in {"poll", "scan"}
    BY <2>1 DEF ConnectInv, TypeOK, PollOpen
  <2> QED
    BY <2>1, <2>2, <2>3 DEF ConnectInv, TypeOK, PollOpen, tableVars, handVars, streamVars
<1>2. PlaceInv'
  BY DEF ConnectInv, PollOpen, PlaceInv, tableVars, handVars, streamVars, peerVars,
    Refuse, Running, TypeOK
<1>3. InfoInv'
  BY DEF ConnectInv, PollOpen, InfoInv, tableVars, handVars, streamVars, peerVars,
    Refuse, PlaceInv, TypeOK
<1>4. AnswerInv'
  BY DEF ConnectInv, PollOpen, AnswerInv, tableVars, handVars, streamVars, peerVars,
    Refuse, Holding, Marked
<1>5. ASSUME inTurn PROVE TurnInv'
  BY <1>5, PollOpenTurn
<1>6. ASSUME inTurn PROVE HandInv'
  BY <1>6, PollOpenTurn
<1>7. ASSUME inTurn PROVE RecordInv'
  BY <1>7, PollOpenTurn
<1>8. ASSUME inTurn PROVE BufferInv'
  BY <1>8, PollOpenTurn
<1>9. inTurn' = inTurn
  BY DEF PollOpen, Refuse, peerVars
<1> QED
  BY <1>1, <1>2, <1>3, <1>4, <1>5, <1>6, <1>7, <1>8, <1>9 DEF ConnectInv

LEMMA PollScanStep ==
  ASSUME ConnectInv, PollScan
  PROVE  ConnectInv'
<1>0. EmptyBuffer = NoBuffer \/ (EmptyBuffer \in Buffers /\ ~valid[EmptyBuffer])
  BY EmptyBufferFree DEF ConnectInv, TypeOK
<1>1. TypeOK'
  BY <1>0, ConnectAssumption DEF ConnectInv, PollScan, TypeOK, tableVars, handVars,
    streamVars, peerVars, Connection, PlaceInv, Buffers, NoBuffer
<1>2. PlaceInv'
  BY DEF ConnectInv, PollScan, PlaceInv, tableVars, handVars, streamVars, peerVars,
    Running
<1>3. InfoInv'
  BY DEF ConnectInv, PollScan, InfoInv, tableVars, handVars, streamVars, peerVars
<1>4. AnswerInv'
  BY <1>0, ConnectAssumption DEF ConnectInv, PollScan, AnswerInv, tableVars, handVars,
    streamVars, peerVars, Holding, Marked, PlaceInv, TypeOK, Buffers, NoBuffer
<1>5. ASSUME inTurn PROVE TurnInv'
  BY <1>5 DEF ConnectInv, PollScan, TurnInv, tableVars, handVars, streamVars, peerVars,
    Before, Pending, Recorded
<1>6. ASSUME inTurn PROVE HandInv'
  BY <1>6 DEF ConnectInv, PollScan, HandInv, tableVars, handVars, streamVars, peerVars,
    After, Recorded
<1>7. ASSUME inTurn PROVE RecordInv'
  BY <1>7 DEF ConnectInv, PollScan, RecordInv, tableVars, handVars, streamVars,
    peerVars, After
<1>8. ASSUME inTurn PROVE BufferInv'
  <2>1. pc = "spin" /\ ppc' = "mark" /\ pfound' = EmptyBuffer
    BY <1>8 DEF ConnectInv, TurnInv, Before, PollScan
  <2>2. \A r \in ready : r.buffer \in Buffers => valid[r.buffer]
    BY <1>8 DEF ConnectInv, BufferInv
  <2>3. ASSUME NEW r \in ready, r.session = Server
        PROVE  /\ r.buffer \in Buffers /\ r.buffer # EmptyBuffer
               /\ \A p \in Peers : answer[p] # r.buffer
    <3>1. r.buffer \in Buffers /\ \A p \in Peers : answer[p] # r.buffer
      BY <1>8, <2>3 DEF ConnectInv, BufferInv
    <3> QED
      BY <1>0, <2>2, <3>1 DEF NoBuffer, Buffers
  <2>4. UNCHANGED <<valid, answer, ready, pc, found>>
    BY DEF PollScan, tableVars, streamVars, peerVars
  <2> QED
    BY <1>0, <1>8, <2>1, <2>3, <2>4 DEF ConnectInv, BufferInv, NoBuffer, Buffers
<1>9. inTurn' = inTurn
  BY DEF PollScan, peerVars
<1> QED
  BY <1>1, <1>2, <1>3, <1>4, <1>5, <1>6, <1>7, <1>8, <1>9 DEF ConnectInv

LEMMA PollMarkStep ==
  ASSUME ConnectInv, PollMark
  PROVE  ConnectInv'
<1>1. TypeOK'
  BY DEF ConnectInv, PollMark, TypeOK, handVars, streamVars, peerVars, Mark, Connection
<1>2. PlaceInv'
  BY DEF ConnectInv, PollMark, PlaceInv, handVars, streamVars, peerVars, Mark, Running
<1>3. InfoInv'
  BY DEF ConnectInv, PollMark, InfoInv, handVars, streamVars, peerVars
<1>4. AnswerInv'
  BY ConnectAssumption DEF ConnectInv, PollMark, AnswerInv, handVars, streamVars,
    peerVars, Mark, Holding, Marked, PlaceInv, TypeOK, Buffers, NoBuffer
<1>5. ASSUME inTurn PROVE TurnInv'
  BY <1>5 DEF ConnectInv, PollMark, TurnInv, handVars, streamVars, peerVars, Mark,
    Before, Pending, Recorded
<1>6. ASSUME inTurn PROVE HandInv'
  BY <1>6 DEF ConnectInv, PollMark, HandInv, handVars, streamVars, peerVars, Mark,
    After, Recorded
<1>7. ASSUME inTurn PROVE RecordInv'
  BY <1>7 DEF ConnectInv, PollMark, RecordInv, handVars, streamVars, peerVars, Mark,
    After
<1>8. ASSUME inTurn PROVE BufferInv'
  BY <1>8 DEF ConnectInv, PollMark, BufferInv, handVars, streamVars, peerVars, Mark,
    Holding
<1>9. inTurn' = inTurn
  BY DEF PollMark, peerVars
<1> QED
  BY <1>1, <1>2, <1>3, <1>4, <1>5, <1>6, <1>7, <1>8, <1>9 DEF ConnectInv

LEMMA PollSessionType ==
  ASSUME ConnectInv, PollSession
  PROVE  TypeOK'
<1>1. builder \in Ops /\ peer \in Peers
  BY DEF ConnectInv, PlaceInv, PollSession
<1>2. conn' = [conn EXCEPT ![builder] = [conn[builder] EXCEPT !.session = peer]]
  BY DEF PollSession
<1>3. [conn[builder] EXCEPT !.session = peer] \in Connection
  BY <1>1 DEF ConnectInv, TypeOK, Connection
<1>4. conn' \in [Ops -> Connection]
  BY <1>2, <1>3 DEF ConnectInv, TypeOK
<1> QED
  BY <1>4 DEF ConnectInv, TypeOK, PollSession, handVars, streamVars, peerVars

LEMMA PollSessionStep ==
  ASSUME ConnectInv, PollSession
  PROVE  ConnectInv'
<1>1. TypeOK'
  BY PollSessionType
<1>2. PlaceInv'
  BY DEF ConnectInv, PollSession, PlaceInv, handVars, streamVars, peerVars, Running
<1>3. InfoInv'
  BY DEF ConnectInv, PollSession, InfoInv, handVars, streamVars, peerVars
<1>4. AnswerInv'
  BY DEF ConnectInv, PollSession, AnswerInv, handVars, streamVars, peerVars, Holding,
    Marked
<1>5. ASSUME inTurn PROVE TurnInv'
  BY <1>5 DEF ConnectInv, PollSession, TurnInv, handVars, streamVars, peerVars, Before,
    Pending, Recorded, PlaceInv, TypeOK
<1>6. ASSUME inTurn PROVE HandInv'
  BY <1>6 DEF ConnectInv, PollSession, HandInv, handVars, streamVars, peerVars, After,
    Recorded, PlaceInv, TypeOK, InfoInv, TurnInv, Before
<1>7. ASSUME inTurn PROVE RecordInv'
  BY <1>7 DEF ConnectInv, PollSession, RecordInv, handVars, streamVars, peerVars, After
<1>8. ASSUME inTurn PROVE BufferInv'
  BY <1>8 DEF ConnectInv, PollSession, BufferInv, handVars, streamVars, peerVars,
    Holding
<1>9. inTurn' = inTurn
  BY DEF PollSession, peerVars
<1> QED
  BY <1>1, <1>2, <1>3, <1>4, <1>5, <1>6, <1>7, <1>8, <1>9 DEF ConnectInv

LEMMA PollBufferType ==
  ASSUME ConnectInv, PollBuffer
  PROVE  TypeOK'
<1>1. builder \in Ops /\ pfound \in Buffers \cup {NoBuffer}
  BY DEF ConnectInv, TypeOK, PlaceInv, PollBuffer
<1>2. conn' = [conn EXCEPT ![builder] = [conn[builder] EXCEPT !.buffer = pfound]]
  BY DEF PollBuffer
<1>3. [conn[builder] EXCEPT !.buffer = pfound] \in Connection
  BY <1>1 DEF ConnectInv, TypeOK, Connection
<1>4. conn' \in [Ops -> Connection]
  BY <1>2, <1>3 DEF ConnectInv, TypeOK
<1> QED
  BY <1>4 DEF ConnectInv, TypeOK, PollBuffer, handVars, streamVars, peerVars

LEMMA PollBufferStep ==
  ASSUME ConnectInv, PollBuffer
  PROVE  ConnectInv'
<1>1. TypeOK'
  BY PollBufferType
<1>2. PlaceInv'
  BY DEF ConnectInv, PollBuffer, PlaceInv, handVars, streamVars, peerVars, Running
<1>3. InfoInv'
  BY DEF ConnectInv, PollBuffer, InfoInv, handVars, streamVars, peerVars
<1>4. AnswerInv'
  BY DEF ConnectInv, PollBuffer, AnswerInv, handVars, streamVars, peerVars, Holding,
    Marked
<1>5. ASSUME inTurn PROVE TurnInv'
  BY <1>5 DEF ConnectInv, PollBuffer, TurnInv, handVars, streamVars, peerVars, Before,
    Pending, Recorded, PlaceInv, TypeOK
<1>6. ASSUME inTurn PROVE HandInv'
  BY <1>6 DEF ConnectInv, PollBuffer, HandInv, handVars, streamVars, peerVars, After,
    Recorded, PlaceInv, TypeOK, InfoInv, TurnInv, Before
<1>7. ASSUME inTurn PROVE RecordInv'
  BY <1>7 DEF ConnectInv, PollBuffer, RecordInv, handVars, streamVars, peerVars, After
<1>8. ASSUME inTurn PROVE BufferInv'
  BY <1>8 DEF ConnectInv, PollBuffer, BufferInv, handVars, streamVars, peerVars, Holding
<1>9. inTurn' = inTurn
  BY DEF PollBuffer, peerVars
<1> QED
  BY <1>1, <1>2, <1>3, <1>4, <1>5, <1>6, <1>7, <1>8, <1>9 DEF ConnectInv

LEMMA PollAcceptedStep ==
  ASSUME ConnectInv, PollAccepted
  PROVE  ConnectInv'
<1>1. TypeOK'
  BY DEF ConnectInv, PollAccepted, TypeOK, tableVars, streamVars, peerVars
<1>2. PlaceInv'
  BY DEF ConnectInv, PollAccepted, PlaceInv, tableVars, streamVars, peerVars, Running
<1>3. InfoInv'
  BY DEF ConnectInv, PollAccepted, InfoInv, tableVars, streamVars, peerVars
<1>4. AnswerInv'
  BY DEF ConnectInv, PollAccepted, AnswerInv, tableVars, streamVars, peerVars, Holding,
    Marked
<1>5. ASSUME inTurn PROVE TurnInv'
  BY <1>5 DEF ConnectInv, PollAccepted, TurnInv, tableVars, streamVars, peerVars,
    Before, Pending, Recorded
<1>6. ASSUME inTurn PROVE HandInv'
  BY <1>6 DEF ConnectInv, PollAccepted, HandInv, tableVars, streamVars, peerVars, After,
    Recorded, PlaceInv, TypeOK, InfoInv, TurnInv, Before
<1>7. ASSUME inTurn PROVE RecordInv'
  BY <1>7 DEF ConnectInv, PollAccepted, RecordInv, tableVars, streamVars, peerVars,
    After
<1>8. ASSUME inTurn PROVE BufferInv'
  BY <1>8 DEF ConnectInv, PollAccepted, BufferInv, tableVars, streamVars, peerVars,
    Holding
<1>9. inTurn' = inTurn
  BY DEF PollAccepted, peerVars
<1> QED
  BY <1>1, <1>2, <1>3, <1>4, <1>5, <1>6, <1>7, <1>8, <1>9 DEF ConnectInv

LEMMA PollRecordStep ==
  ASSUME ConnectInv, PollRecord
  PROVE  ConnectInv'
<1>1. TypeOK'
  BY DEF ConnectInv, PollRecord, TypeOK, handVars, streamVars, peerVars
<1>2. PlaceInv'
  BY DEF ConnectInv, PollRecord, PlaceInv, handVars, streamVars, peerVars, Running
<1>3. InfoInv'
  BY DEF ConnectInv, PollRecord, InfoInv, handVars, streamVars, peerVars
<1>4. AnswerInv'
  BY DEF ConnectInv, PollRecord, AnswerInv, handVars, streamVars, peerVars, Holding,
    Marked
<1>5. ASSUME inTurn PROVE TurnInv'
  BY <1>5 DEF ConnectInv, PollRecord, TurnInv, handVars, streamVars, peerVars, Before,
    Pending, Recorded
<1>6. ASSUME inTurn PROVE HandInv'
  BY <1>6 DEF ConnectInv, PollRecord, HandInv, handVars, streamVars, peerVars, After,
    Recorded
<1>7. ASSUME inTurn PROVE RecordInv'
  BY <1>7 DEF ConnectInv, PollRecord, RecordInv, handVars, streamVars, peerVars, After
<1>8. ASSUME inTurn PROVE BufferInv'
  BY <1>8 DEF ConnectInv, PollRecord, BufferInv, handVars, streamVars, peerVars, Holding
<1>9. inTurn' = inTurn
  BY DEF PollRecord, peerVars
<1> QED
  BY <1>1, <1>2, <1>3, <1>4, <1>5, <1>6, <1>7, <1>8, <1>9 DEF ConnectInv

LEMMA PollRespondStep ==
  ASSUME ConnectInv, PollRespond
  PROVE  ConnectInv'
<1>1. TypeOK'
  BY DEF ConnectInv, PollRespond, TypeOK, tableVars, handVars, streamVars, PlaceInv
<1>2. PlaceInv'
  BY DEF ConnectInv, PollRespond, PlaceInv, tableVars, handVars, streamVars, Running
<1>3. InfoInv'
  BY DEF ConnectInv, PollRespond, InfoInv, tableVars, handVars, streamVars
<1>4. AnswerInv'
  BY DEF ConnectInv, PollRespond, AnswerInv, tableVars, handVars, streamVars, Holding,
    Marked
<1>5. ASSUME inTurn PROVE TurnInv'
  BY <1>5 DEF ConnectInv, PollRespond, TurnInv, tableVars, handVars, streamVars, Before,
    Pending, Recorded, PlaceInv, TypeOK, InfoInv
<1>6. ASSUME inTurn PROVE HandInv'
  BY <1>6 DEF ConnectInv, PollRespond, HandInv, tableVars, handVars, streamVars, After,
    Recorded, PlaceInv, TypeOK
<1>7. ASSUME inTurn PROVE RecordInv'
  BY <1>7 DEF ConnectInv, PollRespond, RecordInv, tableVars, handVars, streamVars,
    After, PlaceInv, TypeOK, InfoInv, TurnInv, Before
<1>8. ASSUME inTurn PROVE BufferInv'
  BY <1>8 DEF ConnectInv, PollRespond, BufferInv, tableVars, handVars, streamVars,
    Holding
<1>9. inTurn' = inTurn
  BY DEF PollRespond, peerVars
<1> QED
  BY <1>1, <1>2, <1>3, <1>4, <1>5, <1>6, <1>7, <1>8, <1>9 DEF ConnectInv

LEMMA PeerOpenTurn ==
  ASSUME ConnectInv, NEW p \in Peers, PeerOpen(p), inTurn
  PROVE  TurnInv'
<1>1. /\ link[p] = "closed" /\ link' = [link EXCEPT ![p] = "opening"]
      /\ \A q \in Peers \ {p} : link[q] = "closed" \/ q \in Recorded
      /\ infos' = Append(infos, p)
  BY DEF PeerOpen, Recorded
<1>2. UNCHANGED <<conn, accepted, at, pc, seen, ready, ppc, peer, pfound>>
  BY DEF PeerOpen, tableVars, handVars, streamVars
<1>3. \A q \in Peers : q \in Recorded' <=> q \in Recorded
  BY <1>2 DEF Recorded
<1>4. p \notin Recorded
  BY <1>1 DEF ConnectInv, PlaceInv, InfoInv, RecordInv, Recorded, After
<1>5. \A q \in Peers : Pending(q)' => q = p
  BY <1>1, <1>3 DEF ConnectInv, TypeOK, Pending
<1>6. \A i \in 1..Len(infos') : infos'[i] \notin Recorded'
  BY <1>1, <1>3, <1>4 DEF ConnectInv, TypeOK, TurnInv
<1>7. ppc \in Before => peer \notin Recorded'
  BY <1>3 DEF ConnectInv, PlaceInv, TurnInv, Before
<1> QED
  BY <1>2, <1>5, <1>6, <1>7 DEF ConnectInv, TurnInv

LEMMA PeerOpenStep ==
  ASSUME ConnectInv, NEW p \in Peers, PeerOpen(p)
  PROVE  ConnectInv'
<1>1. TypeOK'
  BY DEF ConnectInv, PeerOpen, TypeOK, tableVars, handVars, streamVars
<1>2. PlaceInv'
  BY DEF ConnectInv, PeerOpen, PlaceInv, tableVars, handVars, streamVars, Running
<1>3. InfoInv'
  BY DEF ConnectInv, PeerOpen, InfoInv, tableVars, handVars, streamVars, TypeOK
<1>4. AnswerInv'
  BY DEF ConnectInv, PeerOpen, AnswerInv, tableVars, handVars, streamVars
<1>5. ASSUME inTurn PROVE TurnInv'
  BY <1>5, PeerOpenTurn
<1>6. ASSUME inTurn PROVE HandInv'
  BY <1>6 DEF ConnectInv, PeerOpen, HandInv, tableVars, handVars, streamVars, After,
    Recorded
<1>7. ASSUME inTurn PROVE RecordInv'
  BY <1>7 DEF ConnectInv, PeerOpen, RecordInv, tableVars, handVars, streamVars
<1>8. ASSUME inTurn PROVE BufferInv'
  BY <1>8 DEF ConnectInv, PeerOpen, BufferInv, tableVars, handVars, streamVars
<1>9. inTurn' = inTurn
  BY DEF PeerOpen, peerVars
<1> QED
  BY <1>1, <1>2, <1>3, <1>4, <1>5, <1>6, <1>7, <1>8, <1>9 DEF ConnectInv

-------------------------------------------------------------------------------
(* The theorems.                                                           *)

LEMMA ConnectInit == Init => ConnectInv
<1> SUFFICES ASSUME Init
             PROVE  ConnectInv
  OBVIOUS
<1>1. TypeOK
  <2>1. NoConn \in Connection
    BY DEF NoConn, Connection
  <2>2. conn \in [Ops -> Connection]
    BY <2>1 DEF Init
  <2>3. 1 \in 1..(Len(Program) + 1)
    BY ConnectAssumption
  <2>4. isListening \in BOOLEAN /\ isAccepting \in BOOLEAN /\ accepted \in BOOLEAN
    BY DEF Init
  <2>5. valid \in [Buffers -> BOOLEAN] /\ record \in [Buffers -> BOOLEAN]
    BY DEF Init
  <2>6. inTurn \in BOOLEAN
    BY DEF Init
  <2>7. infos \in Seq(Peers) /\ answer \in [Peers -> Buffers \cup {NoBuffer}]
    BY DEF Init
  <2> QED
    BY <2>2, <2>3, <2>4, <2>5, <2>6, <2>7 DEF Init, TypeOK
<1>2. PlaceInv /\ InfoInv
  BY DEF Init, PlaceInv, InfoInv
<1>3. AnswerInv
  BY DEF Init, AnswerInv, Holding, Marked, NoBuffer, Buffers
<1>4. TurnInv /\ HandInv /\ RecordInv /\ BufferInv
  BY DEF Init, TurnInv, HandInv, RecordInv, BufferInv, Pending, Recorded, Before, After,
         Holding
<1> QED
  BY <1>1, <1>2, <1>3, <1>4 DEF ConnectInv

LEMMA ConnectNext == ConnectInv /\ [Next]_vars => ConnectInv'
<1> SUFFICES ASSUME ConnectInv, [Next]_vars
             PROVE  ConnectInv'
  OBVIOUS
<1>1. CASE Stream
  BY <1>1, ListenStep, AcceptEnterStep, AcceptArmStep, AcceptBufferStep, AcceptDoneStep,
     ConnectScanStep, ConnectMarkStep, ConnectDoneStep DEF Stream
<1>2. CASE Poll
  BY <1>2, PollOpenStep, PollScanStep, PollMarkStep, PollSessionStep, PollBufferStep,
     PollAcceptedStep, PollRecordStep, PollRespondStep DEF Poll
<1>3. CASE \E p \in Peers : PeerOpen(p)
  BY <1>3, PeerOpenStep
<1>4. CASE UNCHANGED vars
  BY <1>4 DEF vars, tableVars, handVars, streamVars, pollVars, peerVars, ConnectInv, TypeOK,
     PlaceInv, InfoInv, AnswerInv, TurnInv, HandInv, RecordInv, BufferInv, Running, Pending,
     Recorded
<1> QED
  BY <1>1, <1>2, <1>3, <1>4 DEF Next

\* The inductive invariant holds in every state of the two streams.
LEMMA ConnectInvariant == Spec => []ConnectInv
  BY ConnectInit, ConnectNext, PTL DEF Spec

\* Every variable of the two streams keeps its type; above all the polling
\* kernel never fills the connection of a kernel there is not, and neither
\* stream names a buffer past the table.
THEOREM TypeCorrect == Spec => []TypeOK
<1>1. ConnectInv => TypeOK
  BY DEF ConnectInv
<1> QED
  BY <1>1, ConnectInvariant, PTL

\* No two peers are told the same buffer, however they come; in turn, no two
\* connections of the application share one, though two kernels search and
\* mark the table without a lock.
THEOREM BuffersApart == Spec => []BuffersNotShared
<1>1. ConnectInv => BuffersNotShared
  BY DEF ConnectInv, AnswerInv, BufferInv, BuffersNotShared
<1> QED
  BY <1>1, ConnectInvariant, PTL

\* In turn, accept returns the session and the buffer the FPGA was or will be
\* told of, and nobody is connected to a session no kernel returned or is
\* about to return.
THEOREM AnswersMatch == Spec => []AcceptedIsAnswered
<1>1. ConnectInv => AcceptedIsAnswered
  <2> SUFFICES ASSUME ConnectInv, inTurn
               PROVE  /\ \A r \in ready : r.session # Server =>
                           /\ r.session \in Peers
                           /\ IF link[r.session] = "up" THEN answer[r.session] = r.buffer
                              ELSE peer = r.session /\ pfound = r.buffer
                      /\ \A p \in Peers : link[p] = "up" =>
                           \/ \E r \in ready : r.session = p
                           \/ at \in Ops /\ pc \in {"spin", "session"} /\ conn[at].session = p
    BY DEF AcceptedIsAnswered
  <2>1. ASSUME NEW r \in ready, r.session # Server
        PROVE  /\ r.session \in Peers
               /\ IF link[r.session] = "up" THEN answer[r.session] = r.buffer
                  ELSE peer = r.session /\ pfound = r.buffer
    <3>1. r.session \in Peers
      BY <2>1 DEF ConnectInv, RecordInv
    <3>2. ppc \in After => link[peer] = "opening"
      BY DEF ConnectInv, InfoInv, After
    <3> QED
      BY <3>1, <3>2 DEF ConnectInv, RecordInv
  <2>2. ASSUME NEW p \in Peers, link[p] = "up"
        PROVE  \/ \E r \in ready : r.session = p
               \/ at \in Ops /\ pc \in {"spin", "session"} /\ conn[at].session = p
    BY <2>2 DEF ConnectInv, HandInv, PlaceInv, Running, Recorded
  <2> QED
    BY <2>1, <2>2
<1> QED
  BY <1>1, ConnectInvariant, PTL
-------------------------------------------------------------------------------
(* Nobody is forgotten, and nobody waits in vain.  The guards are written  *)
(* out.                                                                    *)

StreamCanMove == pc # "spin" \/ accepted
PollCanMove == ppc # "poll" \/ infos # <<>>
MayOpen(p) ==
  /\ link[p] = "closed"
  /\ inTurn => \A q \in Peers \ {p} : link[q] = "closed" \/ q \in Recorded

\* A peer that opens a connection has its record with the polling kernel.
QueuedInv ==
  \A p \in Peers : link[p] = "opening" =>
    (\E i \in 1..Len(infos) : infos[i] = p) \/ (ppc # "poll" /\ peer = p)

\* Until the stream has run all its kernels it can go on, or the polling
\* kernel can, or a peer may come; or there is no peer that might.
NeverStuck ==
  \/ at > Len(Program)
  \/ StreamCanMove \/ PollCanMove
  \/ \E p \in Peers : MayOpen(p)
  \/ \A p \in Peers : link[p] = "up" /\ (inTurn => p \in Recorded)

LEMMA QueuedInit == Init => QueuedInv
  BY DEF Init, QueuedInv

\* The polling kernel takes the first record, and answers it or keeps it.
LEMMA QueuedPollOpen ==
  ASSUME TypeOK, QueuedInv, PollOpen
  PROVE  QueuedInv'
<1>. SUFFICES ASSUME NEW p \in Peers, link'[p] = "opening"
              PROVE  (\E i \in 1..Len(infos') : infos'[i] = p) \/ (ppc' # "poll" /\ peer' = p)
  BY DEF QueuedInv
<1>1. infos \in Seq(Peers) /\ infos # <<>> /\ ppc = "poll" /\ infos' = Tail(infos)
  BY DEF TypeOK, PollOpen
<1>2. /\ Head(infos) = infos[1] /\ Head(infos) \in Peers /\ Len(infos) \in Nat \ {0}
      /\ Len(infos') = Len(infos) - 1
      /\ \A i \in 1..Len(infos') : infos'[i] = infos[i + 1]
  BY <1>1
<1>3. \/ isAccepting /\ peer' = Head(infos) /\ ppc' = "scan" /\ link' = link
      \/ link' = [link EXCEPT ![Head(infos)] = "closed"]
  BY DEF PollOpen, Refuse, peerVars
<1>4. link \in [Peers -> {"closed", "opening", "up"}]
  BY DEF TypeOK
<1>5. link[p] = "opening" /\ (p = Head(infos) => ppc' = "scan" /\ peer' = p)
  BY <1>2, <1>3, <1>4
<1>6. CASE p = Head(infos)
  BY <1>5, <1>6
<1>7. CASE p # Head(infos)
  <2>1. PICK i \in 1..Len(infos) : infos[i] = p
    BY <1>1, <1>5 DEF QueuedInv
  <2>2. i # 1
    BY <1>2, <1>7, <2>1
  <2>3. i - 1 \in 1..Len(infos') /\ (i - 1) + 1 = i
    BY <1>2, <2>2
  <2>4. infos'[i - 1] = p
    BY <1>2, <2>1, <2>3
  <2>. QED BY <2>3, <2>4
<1>. QED BY <1>6, <1>7

LEMMA QueuedPeerOpen ==
  ASSUME TypeOK, QueuedInv, NEW q \in Peers, PeerOpen(q)
  PROVE  QueuedInv'
<1>. SUFFICES ASSUME NEW p \in Peers, link'[p] = "opening"
              PROVE  (\E i \in 1..Len(infos') : infos'[i] = p) \/ (ppc' # "poll" /\ peer' = p)
  BY DEF QueuedInv
<1>1. infos \in Seq(Peers) /\ infos' = Append(infos, q) /\ UNCHANGED <<ppc, peer>>
  BY DEF TypeOK, PeerOpen
<1>2. /\ Len(infos) \in Nat /\ Len(infos') = Len(infos) + 1
      /\ infos'[Len(infos) + 1] = q
      /\ \A i \in 1..Len(infos) : infos'[i] = infos[i] /\ i \in 1..(Len(infos) + 1)
  BY <1>1
<1>3. CASE p = q
  <2>1. Len(infos) + 1 \in 1..Len(infos')
    BY <1>2
  <2>. QED BY <1>2, <1>3, <2>1
<1>4. CASE p # q
  <2>1. link[p] = "opening"
    BY <1>4 DEF TypeOK, PeerOpen
  <2>2. (\E i \in 1..Len(infos) : infos[i] = p) \/ (ppc # "poll" /\ peer = p)
    BY <2>1 DEF QueuedInv
  <2>. QED BY <1>1, <1>2, <2>2
<1>. QED BY <1>3, <1>4

LEMMA QueuedKept ==
  ASSUME TypeOK, QueuedInv, [Next]_vars
  PROVE  QueuedInv'
<1>1. ASSUME UNCHANGED <<link, infos>>,
             ppc # "poll" => ppc' # "poll" /\ peer' = peer
      PROVE  QueuedInv'
  BY <1>1 DEF QueuedInv
<1>2. CASE Stream
  <2>1. UNCHANGED <<link, infos, ppc, peer>>
    BY <1>2 DEF Stream, Listen, AcceptEnter, AcceptArm, AcceptBuffer, AcceptDone,
       ConnectScan, ConnectMark, ConnectDone, pollVars, peerVars
  <2>. QED BY <1>1, <2>1
<1>3. CASE PollOpen
  BY <1>3, QueuedPollOpen
<1>4. CASE PollScan \/ PollMark \/ PollSession \/ PollBuffer \/ PollAccepted \/ PollRecord
  <2>1. UNCHANGED <<link, infos, peer>> /\ ppc' # "poll"
    BY <1>4 DEF PollScan, PollMark, PollSession, PollBuffer, PollAccepted, PollRecord,
       peerVars
  <2>. QED BY <1>1, <2>1
<1>5. CASE PollRespond
  <2>1. /\ ppc = "respond" /\ infos' = infos
        /\ link' = [link EXCEPT ![peer] = "up"]
    BY <1>5 DEF PollRespond
  <2>2. link \in [Peers -> {"closed", "opening", "up"}]
    BY DEF TypeOK
  <2>3. \A p \in Peers : link'[p] = "opening" => link[p] = "opening" /\ p # peer
    BY <2>1, <2>2
  <2>. QED BY <2>1, <2>3 DEF QueuedInv
<1>6. CASE \E p \in Peers : PeerOpen(p)
  BY <1>6, QueuedPeerOpen
<1>7. CASE UNCHANGED vars
  BY <1>1, <1>7 DEF vars, pollVars, peerVars
<1>. QED BY <1>2, <1>3, <1>4, <1>5, <1>6, <1>7 DEF Next, Poll

LEMMA StuckNowhere ==
  ASSUME ConnectInv, QueuedInv
  PROVE  NeverStuck
<1>. SUFFICES ASSUME ~StreamCanMove, ~PollCanMove, \A p \in Peers : ~MayOpen(p)
              PROVE  \A p \in Peers : link[p] = "up" /\ (inTurn => p \in Recorded)
  BY DEF NeverStuck
<1>1. pc = "spin" /\ ~accepted /\ ppc = "poll" /\ infos = <<>>
  BY DEF StreamCanMove, PollCanMove
<1>2. \A p \in Peers : link[p] \in {"closed", "opening", "up"}
  BY DEF ConnectInv, TypeOK
<1>3. \A p \in Peers : link[p] # "opening"
  BY <1>1 DEF QueuedInv
<1>4. inTurn => \A p \in Peers : link[p] = "up" => p \in Recorded
  BY <1>1 DEF ConnectInv, HandInv
<1>5. \A p \in Peers : link[p] # "closed"
  BY <1>2, <1>3, <1>4 DEF MayOpen
<1>. QED BY <1>2, <1>3, <1>4, <1>5

\* However peers come and are refused, whoever waits for an answer is with the
\* polling kernel; and the stream never waits in accept while nobody can come
\* to it, unless every peer is connected already.
THEOREM StreamNeverStuck == Spec => [](QueuedInv /\ NeverStuck)
<1>1. Init => QueuedInv
  BY QueuedInit
<1>2. ConnectInv /\ QueuedInv /\ [Next]_vars => QueuedInv'
  BY QueuedKept DEF ConnectInv
<1>3. ConnectInv /\ QueuedInv => NeverStuck
  BY StuckNowhere
<1>. QED BY <1>1, <1>2, <1>3, ConnectInvariant, PTL DEF Spec

\* Every accept is answered by a peer of its own.
Accepts == {k \in Ops : Program[k] = "accept"}
OpsInv ==
  /\ \A r \in ready : r.op < at /\ (r.session \in Peers => r.op \in Accepts)
  /\ \A r, s \in ready : r.op = s.op => r = s

LEMMA OpsKept ==
  ASSUME ConnectInv, OpsInv, [Next]_vars
  PROVE  OpsInv'
<1>1. at \in Nat /\ \A r \in ready : r.op \in Nat
  <2>1. \A r \in ready : r.op \in Ops
    BY DEF ConnectInv, TypeOK
  <2>2. at \in 1..(Len(Program) + 1) /\ Len(Program) \in Nat /\ Ops \subseteq Nat
    BY ConnectAssumption DEF ConnectInv, TypeOK, Ops
  <2>3. at \in Nat
    BY <2>2
  <2>4. \A r \in ready : r.op \in Nat
    BY <2>1, <2>2, Zenon
  <2>. QED BY <2>3, <2>4
<1>2. ASSUME ready' = ready, at' = at \/ at' = at + 1
      PROVE  OpsInv'
  <2>1. \A r \in ready : r.op < at'
    BY <1>1, <1>2 DEF OpsInv
  <2>. QED BY <1>2, <2>1 DEF OpsInv
<1>3. ASSUME NEW n, ready' = ready \cup {n}, at' = at + 1, n.op = at,
             n.session \in Peers => at \in Accepts
      PROVE  OpsInv'
  <2>1. \A r \in ready : r.op < at /\ r.op < at + 1 /\ r.op # n.op
    BY <1>1, <1>3 DEF OpsInv
  <2>2. n.op < at + 1
    BY <1>1, <1>3
  <2>3. \A r \in ready' : r.op < at' /\ (r.session \in Peers => r.op \in Accepts)
    BY <1>3, <2>1, <2>2 DEF OpsInv
  <2>4. \A r, s \in ready' : r.op = s.op => r = s
    BY <1>3, <2>1 DEF OpsInv
  <2>. QED BY <2>3, <2>4 DEF OpsInv
<1>4. CASE Listen \/ AcceptEnter \/ AcceptArm \/ AcceptBuffer \/ ConnectScan \/ ConnectMark
  <2>1. ready' = ready /\ (at' = at \/ at' = at + 1)
    BY <1>4 DEF Listen, AcceptEnter, AcceptArm, AcceptBuffer, ConnectScan, ConnectMark,
       NextKernel
  <2>. QED BY <1>2, <2>1
<1>5. CASE AcceptDone
  <2>1. at \in Accepts
    BY <1>5 DEF AcceptDone, ConnectInv, PlaceInv, Running, Accepts
  <2>2. PICK n : n = [op |-> at, session |-> conn[at].session, buffer |-> seen]
    OBVIOUS
  <2>3. ready' = ready \cup {n} /\ at' = at + 1 /\ n.op = at
    BY <1>5, <2>2 DEF AcceptDone, NextKernel
  <2>. QED BY <1>3, <2>1, <2>3
<1>6. CASE ConnectDone
  <2>1. CASE ready' = ready
    BY <1>2, <1>6, <2>1 DEF ConnectDone, NextKernel
  <2>2. CASE ready' # ready
    <3>1. PICK n : n = [op |-> at, session |-> Server, buffer |-> found]
      OBVIOUS
    <3>2. ready' = ready \cup {n} /\ at' = at + 1 /\ n.op = at /\ n.session = Server
      BY <1>6, <2>2, <3>1 DEF ConnectDone, NextKernel
    <3>. QED BY <1>3, <3>2, ConnectAssumption
  <2>. QED BY <2>1, <2>2
<1>7. CASE Poll \/ (\E p \in Peers : PeerOpen(p)) \/ UNCHANGED vars
  <2>1. UNCHANGED <<ready, at>>
    BY <1>7 DEF Poll, PollOpen, PollScan, PollMark, PollSession, PollBuffer, PollAccepted,
       PollRecord, PollRespond, PeerOpen, vars, streamVars
  <2>. QED BY <1>2, <2>1
<1>. QED BY <1>4, <1>5, <1>6, <1>7 DEF Next, Stream

\* While an accept waits there is a peer the application has no connection
\* with, if there are as many peers as accepts.
LEMMA SomebodyToCome ==
  ASSUME ConnectInv, OpsInv, pc = "spin",
         IsFiniteSet(Peers) => Cardinality(Peers) >= Cardinality(Accepts)
  PROVE  \E p \in Peers : p \notin Recorded
<1>. SUFFICES ASSUME Peers \subseteq Recorded PROVE FALSE
  OBVIOUS
<1>1. at \in Accepts
  BY DEF ConnectInv, PlaceInv, Running, Accepts
<1>2. IsFiniteSet(Accepts)
  <2>1. Len(Program) \in Int /\ Ops = 1..Len(Program)
    BY ConnectAssumption DEF Ops
  <2>2. IsFiniteSet(Ops)
    BY <2>1, FS_Interval
  <2>. QED BY <2>2, FS_Subset DEF Accepts
<1>3. IsFiniteSet(Accepts \ {at}) /\ Cardinality(Accepts \ {at}) = Cardinality(Accepts) - 1
  BY <1>1, <1>2, FS_RemoveElement
<1>4. \A p \in Peers : \E r \in ready : r.session = p
  BY DEF Recorded
<1>. DEFINE R(p) == CHOOSE r \in ready : r.session = p
            f == [p \in Peers |-> R(p).op]
<1>5. \A p \in Peers : R(p) \in ready /\ R(p).session = p
  BY <1>4
<1>. HIDE DEF R
<1>6. \A p \in Peers : R(p).op \in Accepts \ {at}
  <2>1. at \in Nat
    BY <1>1, ConnectAssumption DEF Accepts, Ops
  <2>2. ~(at < at)
    BY <2>1
  <2>3. \A p \in Peers : R(p).op < at /\ R(p).op \in Accepts
    BY <1>5 DEF OpsInv
  <2>. QED BY <2>2, <2>3
<1>7. f \in Injection(Peers, Accepts \ {at})
  <2>1. f \in [Peers -> Accepts \ {at}]
    BY <1>6
  <2>2. \A p, q \in Peers : f[p] = f[q] => p = q
    BY <1>5 DEF OpsInv
  <2>. QED BY <2>1, <2>2 DEF Injection, IsInjective
<1>8. IsFiniteSet(Peers) /\ Cardinality(Peers) <= Cardinality(Accepts \ {at})
  BY <1>3, <1>7, FS_Injection
<1>9. Cardinality(Peers) \in Nat /\ Cardinality(Accepts) \in Nat
  BY <1>2, <1>8, FS_CardinalityType
<1>. QED BY <1>3, <1>8, <1>9

\* The stream can go on, or the polling kernel can, or a peer may come.
AlwaysServed ==
  \/ at > Len(Program)
  \/ StreamCanMove \/ PollCanMove
  \/ \E p \in Peers : MayOpen(p)

\* When peers come in turn and there are as many as accepts, every accept is
\* served: no connection that read_info has made is lost on the way to the
\* kernel that waits for it, whoever was refused before.
THEOREM AcceptNeverStuck ==
  ASSUME IsFiniteSet(Peers) => Cardinality(Peers) >= Cardinality(Accepts)
  PROVE  Spec => [](inTurn => AlwaysServed)
<1>1. Init => OpsInv
  BY DEF Init, OpsInv
<1>2. ConnectInv /\ OpsInv /\ [Next]_vars => OpsInv'
  BY OpsKept
<1>3. ConnectInv /\ OpsInv /\ NeverStuck => (inTurn => AlwaysServed)
  <2>. SUFFICES ASSUME ConnectInv, OpsInv, inTurn, ~StreamCanMove,
                       \A p \in Peers : p \in Recorded
                PROVE  FALSE
    BY DEF NeverStuck, AlwaysServed
  <2>1. pc = "spin"
    BY DEF StreamCanMove
  <2>. QED BY <2>1, SomebodyToCome
<1>. QED BY <1>1, <1>2, <1>3, StreamNeverStuck, ConnectInvariant, PTL DEF Spec
===============================================================================
