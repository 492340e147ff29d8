------------------------------ MODULE GpuConnect ------------------------------
(***************************************************************************)
(* How a node's GPU gets its TCP connections (GPU_FPGA/sw/src/cuda/        *)
(* network.cu).  A stream of the application runs the kernels              *)
(* socket_listen, accept and connect one after the other; on a stream of   *)
(* its own the polling kernel, read_info, answers the open requests of     *)
(* remote peers.  The two share the table of buffers and the hand-over of  *)
(* an accepted connection: is_accepting, connection_builder and accepted.  *)
(***************************************************************************)
EXTENDS Integers, Sequences, FiniteSets

CONSTANTS
  MaxBuffers,  \* MAX_BUFFER_NUM
  Peers,       \* remote peers that open a connection
  Program,     \* the kernels of the stream: "listen", "accept", "connect"
  Failures     \* whether the FPGA may fail or not answer in time

Buffers == 0..(MaxBuffers - 1)
Ops     == DOMAIN Program
NoBuffer == -1
Nobody   == "nobody"   \* no peer
Server   == "server"   \* what connect connects to

ASSUME ConnectAssumption ==
  /\ MaxBuffers \in Nat \ {0}
  /\ Program \in Seq({"listen", "accept", "connect"})
  /\ Failures \in BOOLEAN
  /\ Nobody \notin Peers /\ Server \notin Peers

VARIABLES
  \* socket_context_t
  valid,        \* buffer_valid
  isListening, isAccepting, accepted,
  builder,      \* connection_builder: the accept whose connection is filled
  conn,         \* the connection of each kernel: session (its peer), buffer
  record,       \* buffer_read_count_record has been set to 1
  \* the application's stream
  at,           \* the kernel that runs
  pc,           \* where it is
  found,        \* buffer_id of connect
  seen,         \* buffer_id accept has read
  ready,        \* kernels that returned with a connection
  \* the polling kernel
  infos,        \* open records it has not read
  ppc,          \* where read_info is
  peer,         \* the record it handles
  pfound,       \* buffer_id of read_info
  \* the remote peers
  link,         \* "closed", "opening", "up"
  answer,       \* the buffer the FPGA was told for a peer
  inTurn        \* whether they open only once those before are accepted;
                \* never changes

tableVars  == <<valid, conn, record>>
handVars   == <<isAccepting, accepted, builder>>
streamVars == <<isListening, at, pc, found, seen, ready>>
pollVars   == <<infos, ppc, peer, pfound>>
peerVars   == <<link, answer, inTurn>>
vars == <<tableVars, handVars, streamVars, pollVars, peerVars>>

NoConn == [session |-> Nobody, buffer |-> NoBuffer]

Init ==
  /\ valid = [b \in Buffers |-> FALSE]
  /\ isListening = FALSE /\ isAccepting = FALSE /\ accepted = FALSE
  /\ builder = 0
  /\ conn = [k \in Ops |-> NoConn]
  /\ record = [b \in Buffers |-> FALSE]
  /\ at = 1 /\ pc = "start" /\ found = NoBuffer /\ seen = NoBuffer
  /\ ready = {}
  /\ infos = <<>> /\ ppc = "poll" /\ peer = Nobody /\ pfound = NoBuffer
  /\ link = [p \in Peers |-> "closed"]
  /\ answer = [p \in Peers |-> NoBuffer]
  /\ inTurn \in BOOLEAN

\* get_empty_buffer looks for the first buffer that is not valid, then marks
\* it.  buffer_used is never counted up, so that its tests never fail.
EmptyBufferPast ==
  CHOOSE b \in 0..MaxBuffers :
    (b = MaxBuffers \/ ~valid[b]) /\ \A c \in 0..(b - 1) : valid[c]
EmptyBuffer ==
  IF \E b \in Buffers : ~valid[b]
  THEN CHOOSE b \in Buffers : ~valid[b] /\ \A c \in 0..(b - 1) : valid[c]
  ELSE NoBuffer
MarkNothing(b) == valid
Mark(b) == IF b = NoBuffer THEN valid ELSE [valid EXCEPT ![b] = TRUE]

-------------------------------------------------------------------------------
(* The application's stream.                                               *)

Running(op) == at \in Ops /\ Program[at] = op
NextKernel == at' = at + 1 /\ pc' = "start"

\* The status of the FPGA is not looked at, only whether it came in time.
Listen ==
  /\ Running("listen") /\ pc = "start"
  /\ \/ isListening' = TRUE
     \/ Failures /\ UNCHANGED isListening
  /\ NextKernel
  /\ UNCHANGED <<tableVars, handVars, found, seen, ready, pollVars, peerVars>>

AcceptEnter ==
  /\ Running("accept") /\ pc = "start"
  /\ IF ~isListening \/ isAccepting
     THEN /\ NextKernel
          /\ UNCHANGED handVars
     ELSE /\ accepted' = FALSE /\ builder' = at
          /\ pc' = "arm"
          /\ UNCHANGED <<isAccepting, at>>
  /\ UNCHANGED <<tableVars, isListening, found, seen, ready, pollVars,
                 peerVars>>

AcceptArm ==
  /\ pc = "arm"
  /\ isAccepting' = TRUE
  /\ pc' = "spin"
  /\ UNCHANGED <<tableVars, accepted, builder, isListening, at, found, seen,
                 ready, pollVars, peerVars>>

\* Does not wait for accepted.
AcceptNoWait ==
  /\ pc = "spin"
  /\ seen' = conn[at].buffer
  /\ pc' = "session"
  /\ UNCHANGED <<tableVars, handVars, isListening, at, found, ready, pollVars,
                 peerVars>>

\* The connection is read field by field.
AcceptBuffer ==
  /\ pc = "spin"
  /\ accepted
  /\ seen' = conn[at].buffer
  /\ pc' = "session"
  /\ UNCHANGED <<tableVars, handVars, isListening, at, found, ready, pollVars,
                 peerVars>>

\* The buffer's info gets the session; the hand-over is over.
AcceptDone ==
  /\ pc = "session"
  /\ accepted' = FALSE /\ isAccepting' = FALSE
  /\ ready' = ready \cup
       {[op |-> at, session |-> conn[at].session, buffer |-> seen]}
  /\ NextKernel
  /\ UNCHANGED <<tableVars, builder, isListening, found, seen, pollVars,
                 peerVars>>

ConnectScan ==
  /\ Running("connect") /\ pc = "start"
  /\ IF EmptyBuffer = NoBuffer
     THEN /\ NextKernel
          /\ UNCHANGED found
     ELSE /\ found' = EmptyBuffer /\ pc' = "mark"
          /\ UNCHANGED at
  /\ UNCHANGED <<tableVars, handVars, isListening, seen, ready, pollVars,
                 peerVars>>

ConnectMark ==
  /\ pc = "mark"
  /\ valid' = Mark(found)
  /\ pc' = "wait"
  /\ UNCHANGED <<conn, record, handVars, isListening, at, found, seen, ready,
                 pollVars, peerVars>>

\* The FPGA's answer.  A failure or a timeout leaves the buffer marked.
ConnectDone ==
  /\ pc = "wait"
  /\ \/ ready' = ready \cup
          {[op |-> at, session |-> Server, buffer |-> found]}
     \/ Failures /\ UNCHANGED ready
  /\ NextKernel
  /\ UNCHANGED <<tableVars, handVars, isListening, found, seen, pollVars,
                 peerVars>>

-------------------------------------------------------------------------------
(* The polling kernel: an open record.                                     *)

\* The FPGA is not told.
RefuseSilently(p) == UNCHANGED peerVars /\ link[p] = "opening"
Refuse(p) ==
  /\ link' = [link EXCEPT ![p] = "closed"]
  /\ UNCHANGED <<answer, inTurn>>

PollOpen ==
  /\ ppc = "poll" /\ infos # <<>>
  /\ infos' = Tail(infos)
  /\ IF isAccepting
     THEN /\ peer' = Head(infos) /\ ppc' = "scan"
          /\ UNCHANGED peerVars
     ELSE /\ Refuse(Head(infos))
          /\ UNCHANGED <<peer, ppc>>
  /\ UNCHANGED <<tableVars, handVars, streamVars, pfound>>

PollScan ==
  /\ ppc = "scan"
  /\ pfound' = EmptyBuffer
  /\ ppc' = "mark"
  /\ UNCHANGED <<tableVars, handVars, streamVars, infos, peer, peerVars>>

PollMark ==
  /\ ppc = "mark"
  /\ valid' = Mark(pfound)
  /\ ppc' = "session"
  /\ UNCHANGED <<conn, record, handVars, streamVars, infos, peer, pfound,
                 peerVars>>

PollSession ==
  /\ ppc = "session"
  /\ conn' = [conn EXCEPT ![builder].session = peer]
  /\ ppc' = "buffer"
  /\ UNCHANGED <<valid, record, handVars, streamVars, infos, peer, pfound,
                 peerVars>>

PollBuffer ==
  /\ ppc = "buffer"
  /\ conn' = [conn EXCEPT ![builder].buffer = pfound]
  /\ ppc' = "accepted"
  /\ UNCHANGED <<valid, record, handVars, streamVars, infos, peer, pfound,
                 peerVars>>

PollAccepted ==
  /\ ppc = "accepted"
  /\ accepted' = TRUE
  /\ ppc' = "record"
  /\ UNCHANGED <<tableVars, isAccepting, builder, streamVars, infos, peer,
                 pfound, peerVars>>

PollRecord ==
  /\ ppc = "record"
  /\ record' = [b \in Buffers |-> record[b] \/ b = pfound]
  /\ ppc' = "respond"
  /\ UNCHANGED <<valid, conn, handVars, streamVars, infos, peer, pfound,
                 peerVars>>

\* conn_response carries the buffer, conn_res_start tells the FPGA.
PollRespond ==
  /\ ppc = "respond"
  /\ link' = [link EXCEPT ![peer] = "up"]
  /\ answer' = [answer EXCEPT ![peer] = pfound]
  /\ ppc' = "poll"
  /\ UNCHANGED <<tableVars, handVars, streamVars, infos, peer, pfound, inTurn>>

-------------------------------------------------------------------------------
\* External: a peer opens a connection, again after it was refused.  Peers
\* that come in turn leave an accept to itself: a second open that meets the
\* same accept overwrites the connection of the first.
PeerOpen(p) ==
  /\ link[p] = "closed"
  /\ inTurn => \A q \in Peers \ {p} :
       link[q] = "closed" \/ \E r \in ready : r.session = q
  /\ link' = [link EXCEPT ![p] = "opening"]
  /\ infos' = Append(infos, p)
  /\ UNCHANGED <<tableVars, handVars, streamVars, ppc, peer, pfound, answer,
                 inTurn>>

Stream ==
  \/ Listen
  \/ AcceptEnter \/ AcceptArm \/ AcceptBuffer \/ AcceptDone
  \/ ConnectScan \/ ConnectMark \/ ConnectDone

Poll ==
  \/ PollOpen \/ PollScan \/ PollMark \/ PollSession \/ PollBuffer
  \/ PollAccepted \/ PollRecord \/ PollRespond

Next == Stream \/ Poll \/ \E p \in Peers : PeerOpen(p)

Spec == Init /\ [][Next]_vars

\* Both streams are scheduled, a refused peer tries again.
FairSpec ==
  /\ Spec
  /\ WF_vars(Stream) /\ WF_vars(Poll)
  /\ \A p \in Peers : WF_vars(PeerOpen(p))

-------------------------------------------------------------------------------
(* Properties.                                                             *)

Connection == [session : Peers \cup {Server, Nobody},
               buffer : Buffers \cup {NoBuffer}]

TypeOK ==
  /\ valid \in [Buffers -> BOOLEAN] /\ record \in [Buffers -> BOOLEAN]
  /\ {isListening, isAccepting, accepted} \subseteq BOOLEAN
  /\ builder \in {0} \cup Ops
  /\ conn \in [Ops -> Connection]
  /\ at \in 1..(Len(Program) + 1)
  /\ pc \in {"start", "arm", "spin", "session", "mark", "wait"}
  /\ {found, seen, pfound} \subseteq Buffers \cup {NoBuffer}
  /\ \A r \in ready : r.op \in Ops /\ [session |-> r.session,
                                       buffer |-> r.buffer] \in Connection
  /\ infos \in Seq(Peers) /\ peer \in Peers \cup {Nobody}
  /\ ppc \in {"poll", "scan", "mark", "session", "buffer", "accepted",
              "record", "respond"}
  /\ link \in [Peers -> {"closed", "opening", "up"}]
  /\ answer \in [Peers -> Buffers \cup {NoBuffer}] /\ inTurn \in BOOLEAN

\* No two peers are told the same buffer, also when several meet the same
\* accept and whatever becomes of the accept that let them in; and when peers
\* come in turn, two connections of the application never share a buffer,
\* though the table is searched and marked by two kernels without a lock.
BuffersNotShared ==
  /\ \A p, q \in Peers :
       p # q /\ link[p] = "up" /\ link[q] = "up" /\ answer[p] \in Buffers =>
         answer[p] # answer[q]
  /\ inTurn =>
       \A r, s \in ready :
         r # s /\ r.buffer \in Buffers => r.buffer # s.buffer

\* When peers come in turn, accept returns the session and the buffer the
\* FPGA was or will be told of, in spite of a hand-over through three flags
\* and shared memory, and a peer that was let in finds its connection with
\* the application: nobody is connected to a session no kernel returned.
AcceptedIsAnswered ==
  inTurn =>
    /\ \A r \in ready : r.session # Server =>
         /\ r.session \in Peers
         /\ IF link[r.session] = "up" THEN answer[r.session] = r.buffer
            ELSE peer = r.session /\ pfound = r.buffer
    /\ \A p \in Peers : link[p] = "up" =>
         \/ \E r \in ready : r.session = p
         \/ at \in Ops /\ pc \in {"spin", "session"} /\ conn[at].session = p

\* The stream gets through its kernels although a peer may come before
\* anybody accepts and is turned away.
StreamEnds == inTurn => <>(at > Len(Program))

\* network.cu:389, "accepting failed, no more buffer": when the buffers have
\* run out an open request is refused.
NoAnswerWithoutBuffer ==
  \A p \in Peers : link[p] = "up" => answer[p] \in Buffers
===============================================================================
