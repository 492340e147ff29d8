-------------------------------- MODULE Programs ------------------------------
(***************************************************************************)
(* The programs that are run on a host beside the GPU's and the training's *)
(* own: the bring-up of an SSD, the controller of the switch with its      *)
(* tables, the SSD benchmark, the packet service, the TCP programs and the *)
(* preparation of the training's data.  They share no state; a behaviour   *)
(* is one of one of them, which is chosen at the start, and the state of   *)
(* the others stays as it begins, with any of their inputs.                *)
(***************************************************************************)
EXTENDS NvmeAdmin, SwitchTables, SwitchProgram, SsdBench, PacketRings,
        FpgaTcp, SgdData, SgdWeave

VARIABLE program   \* the program that is run

Names == {"nvme", "tables", "switch", "ssd", "rps", "tcp", "data", "weave"}
allVars == <<vars, tableVars, programVars, ssdVars, rpsVars, tcpVars, dataVars, weaveVars>>
programsVars == <<program, allVars>>

Any(S) == CHOOSE x \in S : TRUE
Chosen(name, value, values) == program = name \/ value = Any(values)

AnyFile == Any({f \in DataFiles : \A n \in DataFeatures : FitsIn(f, n)})

\* The inputs of a program that is not run are fixed.
ProgramsInit ==
  /\ program \in Names
  /\ Init /\ Chosen("nvme", queue_num, QueueNums)
  /\ TablesInit /\ Chosen("tables", table, Tables)
  /\ ProgramInit /\ Chosen("switch", main, {"test", "P4Program"})
  /\ SsdInit
  /\ RpsInit /\ Chosen("rps", role, {"bs", "dummy"})
  /\ TcpInit
  /\ Chosen("tcp", tapp, {"tcp_benchmark", "tcp_latency", "hyperloglog", "allreduce"})
  /\ DataInit
  /\ Chosen("data", <<dr_numSamples, dr_numFeatures>>, DataSamples \X DataFeatures)
  /\ program = "data" \/ file = AnyFile
  /\ WeaveInit
  /\ Chosen("weave", version, {"built", "copy"})
  /\ Chosen("weave", <<wnSamples, wnFeatures, wnBits>>, Datasets)
  /\ Chosen("weave", WORKER_NUM, Workers)
  /\ Chosen("weave", <<worker_index, server_en>>, (0..(WORKER_NUM - 1)) \X {0, 1})

\* A step of one program, whose variables are the ones that may change.
Runs(name) == program = name /\ program' = program
NotNvme == UNCHANGED <<tableVars, programVars, ssdVars, rpsVars, tcpVars, dataVars, weaveVars>>
NotTables == UNCHANGED <<vars, programVars, ssdVars, rpsVars, tcpVars, dataVars, weaveVars>>
NotSwitch == UNCHANGED <<vars, tableVars, ssdVars, rpsVars, tcpVars, dataVars, weaveVars>>
NotSsd == UNCHANGED <<vars, tableVars, programVars, rpsVars, tcpVars, dataVars, weaveVars>>
NotRps == UNCHANGED <<vars, tableVars, programVars, ssdVars, tcpVars, dataVars, weaveVars>>
NotTcp == UNCHANGED <<vars, tableVars, programVars, ssdVars, rpsVars, dataVars, weaveVars>>
NotData == UNCHANGED <<vars, tableVars, programVars, ssdVars, rpsVars, tcpVars, weaveVars>>
NotWeave == UNCHANGED <<vars, tableVars, programVars, ssdVars, rpsVars, tcpVars, dataVars>>

ProgramsNext ==
  \/ Runs("nvme") /\ Next /\ NotNvme
  \/ Runs("tables") /\ TablesNext /\ NotTables
  \/ Runs("switch") /\ ProgramNext /\ NotSwitch
  \/ Runs("ssd") /\ SsdNext /\ NotSsd
  \/ Runs("rps") /\ RpsNext /\ NotRps
  \/ Runs("tcp") /\ TcpNext /\ NotTcp
  \/ Runs("data") /\ DataNext /\ NotData
  \/ Runs("weave") /\ WeaveNext /\ NotWeave

\* A program that is run runs on, and the device it drives does what it is
\* asked: each weak fairness of each module, for the program that is run.
NvmeDoes(A) == Runs("nvme") /\ A /\ NotNvme
RpsDoes(A) == Runs("rps") /\ A /\ NotRps
TcpDoes(A) == Runs("tcp") /\ A /\ NotTcp

ProgramsFair ==
  /\ WF_programsVars(NvmeDoes(Program)) /\ WF_programsVars(NvmeDoes(Reset))
  /\ WF_programsVars(NvmeDoes(GetReady)) /\ WF_programsVars(NvmeDoes(Execute))
  /\ WF_programsVars(Runs("ssd") /\ Bench /\ NotSsd)
  /\ WF_programsVars(Runs("ssd") /\ Ssds /\ NotSsd)
  /\ WF_programsVars(RpsDoes(ServerMain))
  /\ WF_programsVars(RpsDoes(Issue)) /\ WF_programsVars(RpsDoes(WriteCs))
  /\ \A r \in RingNames :
       WF_programsVars(RpsDoes(Moved(r))) /\ WF_programsVars(RpsDoes(Poll(r)))
  /\ \A n \in AllNodes :
       WF_programsVars(TcpDoes(TcpProgramStep(n))) /\ WF_programsVars(TcpDoes(TcpFpgaStep(n)))
  /\ WF_programsVars(Runs("data") /\ DataNext /\ NotData)
  /\ WF_programsVars(Runs("weave") /\ WeaveProgram /\ NotWeave)
  /\ WF_programsVars(Runs("weave") /\ WeaveFpga /\ NotWeave)

ProgramsSpec == ProgramsInit /\ [][ProgramsNext]_programsVars /\ ProgramsFair

-------------------------------------------------------------------------------
(* Properties.                                                             *)

\* Every variable has its type, each index and counter its range.
ProgramsTypeOK ==
  /\ program \in Names
  /\ TablesTypeOK /\ ProgramTypeOK /\ SsdTypeOK /\ RpsTypeOK
  /\ TcpTypeOK /\ DataTypeOK /\ WeaveTypeOK

\* What is looked up in a table of the switch is that table's own, as NamedIds
\* says (p4_table.cpp:24-112).
TablesRight == NamedIds

\* A program that has begun ends: the bring-up of the SSD if its queue holds
\* the commands; the SSD benchmark however its commands complete; the packet
\* service once all requests were made; the TCP programs, each node of them,
\* unless a connection was refused, and then all that do not depend on it; the
\* preparation of the data always; and the start of the training unless the
\* address it polls for is nobody's.
Begun ==
  CASE program = "nvme" -> BeginsFitting
    [] program = "ssd" -> AtWork
    [] program = "rps" -> AllIssued
    [] program = "tcp" -> TcpBegun
    [] program = "data" -> dpc = "alloc"
    [] program = "weave" -> WeaveBegun
    [] OTHER -> FALSE
Over ==
  CASE program = "nvme" -> UpOrEnded
    [] program = "ssd" -> AtRest
    [] program = "rps" -> ServerEnded
    [] program = "tcp" -> TcpEnded
    [] program = "data" -> dpc \in {"ready", "crashed"}
    [] program = "weave" -> WeaveEnded
    [] OTHER -> TRUE
ProgramsEnd == Begun ~> Over
===============================================================================
