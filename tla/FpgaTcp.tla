-------------------------------- MODULE FpgaTcp -------------------------------
(***************************************************************************)
(* The programs that drive the TCP stack of the FPGA through its           *)
(* registers: tcp_benchmark, tcp_latency and hyperloglog, which make a     *)
(* client (node 7) of one host and a server (node 4) of another, and       *)
(* allreduce (mpireduce.cpp), which joins the nodes into a ring.  Each is  *)
(* a script of register writes and polls without a retry; the nodes are    *)
(* started by hand, at any time.  The FPGA and the network are external.   *)
(***************************************************************************)
EXTENDS Integers, Sequences

CONSTANTS
  Server, Client, \* nodes 4 and 7
  NumNodes,       \* -m of allreduce
  session_num,    \* -t of tcp_benchmark
  Lengths         \* bound: message lengths tried; the programs have 9 and 10

ASSUME TcpAssumption ==
  /\ Server \in Nat /\ Client \in Nat /\ Server # Client
  /\ NumNodes \in Nat \ {0} /\ session_num \in Nat \ {0} /\ Lengths \in Nat \ {0}

VARIABLES
  tapp,        \* the program that is run
  tstep,       \* the step of its script each node is at
  session_id,  \* what each program has read as its session
  session_reg, \* the session each FPGA has been told to use
  listen,      \* each FPGA's port: "closed", "asked", "open"
  conn,        \* its connection: "idle", "asked", "refused", "open"
  session,     \* the node it is connected to
  running      \* nodes whose FPGA works on a command

tcpVars == <<tapp, tstep, session_id, session_reg, listen, conn, session, running>>

Nobody == -1   \* no session, or a variable that was never set

node_num == NumNodes - 1
TcpNodes == IF tapp = "allreduce" THEN 0..node_num ELSE {Server, Client}

\* mistake: the node before the last one closes the ring, too
SuccessorEarly(n) == IF n >= node_num - 1 THEN 0 ELSE n + 1
\* conn_ip of allreduce
Successor(n) == IF n = node_num THEN 0 ELSE n + 1
conn_ip(n) ==
  IF tapp = "allreduce" THEN Successor(n) ELSE IF n = Client THEN Server ELSE Client

-------------------------------------------------------------------------------
(* The scripts.                                                            *)

Times(s, k) == [i \in 1..(k * Len(s)) |-> s[((i - 1) % Len(s)) + 1]]

\* What all of them begin with.
TcpBegin == <<"reset", "addresses", "listen">>

tcp_benchmark(n) ==
  TcpBegin \o
  IF n = Server THEN <<"await_listen", "reset", "settings", "key">>
  ELSE <<"open", "await_open">> \o Times(<<"more">>, session_num - 1)
       \o <<"session", "settings", "start">>

tcp_latency(n) ==
  TcpBegin \o
  IF n = Server THEN <<"await_listen", "settings">>
  ELSE <<"open", "await_open", "keep", "open_off">>
       \o Times(<<"reset", "session", "settings", "start">>, Lengths)

hyperloglog(n) ==
  TcpBegin \o
  IF n = Server THEN <<"await_listen", "settings", "session", "key">>
  ELSE <<"open", "await_open", "keep", "open_off", "settings", "session", "start">>

allreduce(n) ==
  TcpBegin \o <<"await_listen", "open", "await_open", "keep", "open_off", "session", "settings">>
  \o Times(<<"key", "start">>, Lengths)

Script(n) ==
  CASE tapp = "tcp_benchmark" -> tcp_benchmark(n)
    [] tapp = "tcp_latency" -> tcp_latency(n)
    [] tapp = "hyperloglog" -> hyperloglog(n)
    [] tapp = "allreduce" -> allreduce(n)

TcpInit ==
  /\ tapp \in {"tcp_benchmark", "tcp_latency", "hyperloglog", "allreduce"}
  /\ tstep = [n \in TcpNodes |-> 1]
  /\ session_id = [n \in TcpNodes |-> Nobody] /\ session_reg = [n \in TcpNodes |-> Nobody]
  /\ listen = [n \in TcpNodes |-> "closed"] /\ conn = [n \in TcpNodes |-> "idle"]
  /\ session = [n \in TcpNodes |-> Nobody] /\ running = {}

-------------------------------------------------------------------------------
(* The steps of a node's program.                                          *)

Does(n, op) ==
  /\ tstep[n] <= Len(Script(n)) /\ Script(n)[tstep[n]] = op
  /\ tstep' = [tstep EXCEPT ![n] = @ + 1]
  /\ UNCHANGED <<tapp, session>>

\* Register 0: the user's logic is reset; ports and connections stay.
UserReset(n) ==
  /\ Does(n, "reset") /\ running' = running \ {n}
  /\ UNCHANGED <<session_id, session_reg, listen, conn>>

\* Registers that the rest depends on in no way but that they are set.
WriteRegs(n) ==
  /\ \E op \in {"addresses", "settings"} : Does(n, op)
  /\ UNCHANGED <<session_id, session_reg, listen, conn, running>>

Listen(n) ==
  /\ Does(n, "listen") /\ listen' = [listen EXCEPT ![n] = "asked"]
  /\ UNCHANGED <<session_id, session_reg, conn, running>>

AwaitListen(n) ==
  /\ Does(n, "await_listen") /\ listen[n] = "open"
  /\ UNCHANGED <<session_id, session_reg, listen, conn, running>>

Open(n) ==
  /\ Does(n, "open") /\ conn' = [conn EXCEPT ![n] = "asked"]
  /\ UNCHANGED <<session_id, session_reg, listen, running>>

\* register 641
AwaitOpen(n) ==
  /\ Does(n, "await_open") /\ conn[n] = "open"
  /\ UNCHANGED <<session_id, session_reg, listen, conn, running>>

Keep641(n) ==
  /\ Does(n, "keep") /\ session_id' = [session_id EXCEPT ![n] = session[n]]
  /\ UNCHANGED <<session_reg, listen, conn, running>>

OpenOff(n) ==
  /\ Does(n, "open_off")
  /\ UNCHANGED <<session_id, session_reg, listen, conn, running>>

\* A further session of the benchmark: it is kept where nothing reads it, or
\* the register shows none and the program goes on.
MoreSessions(n) ==
  /\ Does(n, "more")
  /\ UNCHANGED <<session_id, session_reg, listen, conn, running>>

TellSession(n) ==
  /\ Does(n, "session") /\ session_reg' = [session_reg EXCEPT ![n] = session_id[n]]
  /\ UNCHANGED <<session_id, listen, conn, running>>

StartUser(n) ==
  /\ Does(n, "start") /\ running' = running \cup {n}
  /\ UNCHANGED <<session_id, session_reg, listen, conn>>

\* The operator waits for the client's connection, or for all nodes.
PressKey(n) ==
  /\ Does(n, "key")
  /\ IF tapp = "allreduce" THEN \A m \in TcpNodes : tstep[m] >= tstep[n]
     ELSE conn[Client] = "open"
  /\ UNCHANGED <<session_id, session_reg, listen, conn, running>>

TcpProgram(n) ==
  \/ UserReset(n) \/ WriteRegs(n) \/ Listen(n) \/ AwaitListen(n) \/ Open(n)
  \/ AwaitOpen(n) \/ Keep641(n) \/ OpenOff(n) \/ MoreSessions(n)
  \/ TellSession(n) \/ StartUser(n) \/ PressKey(n)

-------------------------------------------------------------------------------
(* The FPGA and the network.                                               *)

StartListening(n) ==
  /\ listen[n] = "asked" /\ listen' = [listen EXCEPT ![n] = "open"]
  /\ UNCHANGED <<tapp, tstep, session_id, session_reg, conn, session, running>>

\* A connection that is asked for before the other side listens is refused.
Connects(n) ==
  LET peer == conn_ip(n)
      up == peer \in TcpNodes /\ listen[peer] = "open" IN
  /\ conn[n] = "asked"
  /\ conn' = [conn EXCEPT ![n] = IF up THEN "open" ELSE "refused"]
  /\ session' = [session EXCEPT ![n] = IF up THEN peer ELSE Nobody]
  /\ UNCHANGED <<tapp, tstep, session_id, session_reg, listen, running>>

TcpFpga(n) == StartListening(n) \/ Connects(n)

TcpNext == \E n \in TcpNodes : TcpProgram(n) \/ TcpFpga(n)

\* A program that was started runs on, and an FPGA does what it is asked.
AllNodes == 0..node_num \cup {Server, Client}
TcpProgramStep(n) == n \in TcpNodes /\ TcpProgram(n)
TcpFpgaStep(n) == n \in TcpNodes /\ TcpFpga(n)
TcpFair == \A n \in AllNodes : WF_tcpVars(TcpProgramStep(n)) /\ WF_tcpVars(TcpFpgaStep(n))
TcpSpec == TcpInit /\ [][TcpNext]_tcpVars /\ TcpFair

-------------------------------------------------------------------------------
(* Properties.                                                             *)

TcpTypeOK ==
  /\ \A n \in TcpNodes :
       /\ tstep[n] \in 1..(Len(Script(n)) + 1)
       /\ listen[n] \in {"closed", "asked", "open"}
       /\ conn[n] \in {"idle", "asked", "refused", "open"}
       /\ {session_id[n], session_reg[n], session[n]} \subseteq TcpNodes \cup {Nobody}
  /\ running \subseteq TcpNodes

\* An FPGA that is started has been told a session that it really has, to the
\* node that was meant, also after the resets in between; and once all nodes
\* of an allreduce have begun, the sessions are one ring: no smaller set of
\* nodes is closed under them.  (tcp_benchmark is excepted: it tells the FPGA
\* session_id[0], which its client never sets.)
StartedOnSession ==
  /\ tapp # "tcp_benchmark" =>
       \A n \in running : session_reg[n] = session[n] /\ session[n] = conn_ip(n)
  /\ tapp = "allreduce" /\ running = TcpNodes =>
       \A part \in (SUBSET TcpNodes) \ {{}} :
         (\A n \in part : session[n] \in part) => part = TcpNodes

AtEnd(n) == tstep[n] = Len(Script(n)) + 1
AtOp(n, op) == tstep[n] <= Len(Script(n)) /\ Script(n)[tstep[n]] = op

\* A node that opened its connection before the other one listened was refused:
\* it polls for ever, as nobody asks again.
PollsForEver(n) == AtOp(n, "await_open") /\ conn[n] = "refused"

\* All programs have ended; or one polls for ever, and each of the others has
\* ended, does so, too, or waits for the key, which comes for all of them.
TcpBegun == \E n \in TcpNodes : tstep[n] = 1
TcpHeldUp ==
  /\ \E n \in TcpNodes : PollsForEver(n)
  /\ \A n \in TcpNodes : AtEnd(n) \/ PollsForEver(n) \/ AtOp(n, "key")
TcpEnded == (\A n \in TcpNodes : AtEnd(n)) \/ TcpHeldUp

===============================================================================
