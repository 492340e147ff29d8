----------------------------- MODULE SwitchProgram ----------------------------
(***************************************************************************)
(* Programs that control the switch: how they get to it (main_test.cpp,    *)
(* P4Program's constructors) and what P4Program then keeps of tables,      *)
(* multicast groups, nodes and the edges between them                      *)
(* (controller/include/p4_program.cpp).  Every call of the switch's        *)
(* libraries may fail.                                                     *)
(***************************************************************************)
EXTENDS Integers, Sequences

CONSTANTS
  TableNames, SwitchTableNames, \* names asked for, names the switch has
  Gids, Rids,    \* multicast groups and nodes
  PortSets,      \* sets of ports of a node
  MaxCalls       \* bound: calls of P4Program

ASSUME ProgramAssumption ==
  /\ SwitchTableNames \subseteq TableNames
  /\ Gids \subseteq Nat /\ Rids \subseteq Nat /\ MaxCalls \in Nat

VARIABLES
  main,       \* the program: "test" (main_test) or "P4Program"
  sstep,      \* the step of its start it is at
  exitCode,   \* history: what main_test returns, or Running
  failures,   \* history: steps and calls that have failed
  tables,     \* names of the tables kept
  multicast_group_hdl, multicast_node_hdl, multicast_edge,
  mgroups, mnodes, medges, \* the switch: groups, nodes with their ports, edges
  portsUp,    \* ports that were added and enabled
  scalls      \* calls of P4Program

mcVars == <<multicast_group_hdl, multicast_node_hdl, multicast_edge>>
switchVars == <<mgroups, mnodes, medges, portsUp>>
startVars == <<main, sstep, exitCode>>
programVars == <<startVars, failures, tables, mcVars, switchVars, scalls>>

Unset == -1  \* no exit code yet

\* What main_test does, in order.
TestSteps == <<"calloc", "bf_switchd_lib_init", "sessionCreate", "bfRtInfoGet",
  "bfrtTableFromNameGet", "actionIdGet", "keyFieldIdGet", "dataFieldIdGet",
  "keyAllocate", "dataAllocate", "sessionDestroy", "join">>
\* What a P4Program does.
ClassSteps == <<"calloc", "bf_switchd_lib_init", "sessionCreate", "bfRtInfoGet",
  "p4_pd_client_init", "bf_mc_create_session">>
Steps == IF main = "test" THEN TestSteps ELSE ClassSteps

ProgramInit ==
  /\ main \in {"test", "P4Program"} /\ sstep = 1 /\ exitCode = Unset
  /\ failures = {} /\ tables = {}
  /\ multicast_group_hdl = <<>> /\ multicast_node_hdl = <<>> /\ multicast_edge = {}
  /\ mgroups = {} /\ mnodes = <<>> /\ medges = {} /\ portsUp = {} /\ scalls = 0

Goes(next, code) ==
  /\ sstep' = next /\ exitCode' = code
  /\ UNCHANGED <<main, tables, mcVars, switchVars, scalls>>

Doing == Steps[sstep]

\* What fails without ending the program: main_test prints it and goes on, the
\* class does not look.
Ignores(s) ==
  \/ s = "bf_switchd_lib_init"
  \/ s = "sessionCreate" /\ main = "P4Program"

StepDone ==
  /\ exitCode = Unset /\ sstep <= Len(Steps)
  /\ Goes(sstep + 1, IF main = "test" /\ sstep = Len(Steps) THEN 0 ELSE Unset)
  /\ UNCHANGED failures

\* The threads of the switch's library never come back by themselves.
StepFails ==
  /\ exitCode = Unset /\ sstep <= Len(Steps) /\ Doing # "join"
  /\ failures' = failures \cup {Doing}
  /\ IF Ignores(Doing) THEN Goes(sstep + 1, Unset) ELSE Goes(sstep, 1)

Starting == StepDone \/ StepFails

-------------------------------------------------------------------------------
(* P4Program once it is there; an assertion that fails ends it.            *)

IsUp == main = "P4Program" /\ exitCode = Unset /\ sstep > Len(Steps)

Call == IsUp /\ scalls < MaxCalls /\ scalls' = scalls + 1 /\ UNCHANGED <<main, sstep>>

\* A name the switch has not got throws, and nothing is kept of it.
GetTable(t) ==
  /\ Call
  /\ tables' = IF t \in SwitchTableNames THEN tables \cup {t} ELSE tables
  /\ UNCHANGED <<exitCode, failures, mcVars, switchVars>>

InitAllTables ==
  /\ Call
  /\ \/ tables' = tables \cup SwitchTableNames /\ exitCode' = exitCode
     \/ tables' = tables /\ exitCode' = 1
  /\ UNCHANGED <<failures, mcVars, switchVars>>

\* Find the handle, add, negotiate, enable, each asserted.
PortAdd(p) ==
  /\ Call
  /\ \/ portsUp' = portsUp \cup {p} /\ exitCode' = exitCode
     \/ portsUp' = portsUp /\ exitCode' = 1
  /\ UNCHANGED <<failures, tables, mcVars, mgroups, mnodes, medges>>

ConfigMirroring ==
  /\ Call
  /\ exitCode' \in {Unset, 1}
  /\ UNCHANGED <<failures, tables, mcVars, switchVars>>

Held(map, id) == IF id \in DOMAIN map THEN map[id] ELSE 0
Keep(map, id, hdl) == [i \in DOMAIN map \cup {id} |-> IF i = id THEN hdl ELSE map[i]]

\* The handle a create leaves in the map: the switch's, or 0 when it failed;
\* nothing is created for an id that is in the map.  The handle of a group is
\* one more than its id here, that of a node the number of its creation.
GroupAfter(gid, fails) ==
  IF gid \in DOMAIN multicast_group_hdl THEN multicast_group_hdl[gid]
  ELSE IF fails THEN 0 ELSE gid + 1
NodeAfter(rid, fails) ==
  IF rid \in DOMAIN multicast_node_hdl THEN multicast_node_hdl[rid]
  ELSE IF fails THEN 0 ELSE Len(mnodes) + 1

\* mistake: associated before the node is there
EdgeBefore(gid, rid, g, n) == <<g, Held(multicast_node_hdl, rid)>>
\* What the switch is asked to join.
EdgeAsked(gid, rid, g, n) == <<g, n>>

\* Group, node, edge, each unless it is in its map; no status is looked at,
\* and the edge is kept before the switch is asked for it.  Ports given for a
\* node that is in the map are dropped.
ConfigMulticast(gid, rid, ports, fails) ==
  LET newGroup == gid \notin DOMAIN multicast_group_hdl
      newNode == rid \notin DOMAIN multicast_node_hdl
      g == GroupAfter(gid, "group" \in fails)
      n == NodeAfter(rid, "node" \in fails)
      asked == EdgeAsked(gid, rid, g, n)
      made == asked[1] # 0 /\ asked[2] # 0 /\ "edge" \notin fails IN
  /\ Call
  /\ multicast_group_hdl' = Keep(multicast_group_hdl, gid, g)
  /\ multicast_node_hdl' = Keep(multicast_node_hdl, rid, n)
  /\ multicast_edge' = multicast_edge \cup {<<gid, rid>>}
  /\ mgroups' = IF newGroup /\ g # 0 THEN mgroups \cup {g} ELSE mgroups
  /\ mnodes' = IF newNode /\ n # 0 THEN Append(mnodes, [rid |-> rid, ports |-> ports]) ELSE mnodes
  /\ medges' = IF <<gid, rid>> \notin multicast_edge /\ made THEN medges \cup {asked} ELSE medges
  /\ failures' = failures \cup fails
  /\ UNCHANGED <<exitCode, tables, portsUp>>

\* The destructor ends the sessions, asserted.
Destroy ==
  /\ IsUp
  /\ exitCode' \in {0, 1}
  /\ UNCHANGED <<main, sstep, failures, tables, mcVars, switchVars, scalls>>

Calls ==
  \/ \E t \in TableNames : GetTable(t)
  \/ InitAllTables \/ ConfigMirroring \/ Destroy
  \/ \E s \in PortSets : \E p \in s : PortAdd(p)
  \/ \E gid \in Gids, rid \in Rids, ports \in PortSets, fails \in SUBSET {"group", "node", "edge"} :
       ConfigMulticast(gid, rid, ports, fails)

ProgramNext == Starting \/ Calls
ProgramSpec == ProgramInit /\ [][ProgramNext]_programVars

-------------------------------------------------------------------------------
(* Properties.                                                             *)

ProgramTypeOK ==
  /\ sstep \in 1..(Len(Steps) + 1) /\ exitCode \in {Unset, 0, 1}
  /\ tables \subseteq SwitchTableNames
  /\ DOMAIN multicast_group_hdl \subseteq Gids /\ DOMAIN multicast_node_hdl \subseteq Rids
  /\ medges \subseteq mgroups \X DOMAIN mnodes

\* While no call has failed, the switch joins a group to a node exactly when
\* the program was asked to, whatever calls came before with either of them,
\* and each node is joined under its own number.
EdgesInSwitch ==
  failures \cap {"group", "node", "edge"} = {} =>
    /\ medges = {<<multicast_group_hdl[e[1]], multicast_node_hdl[e[2]]>> : e \in multicast_edge}
    /\ \A e \in medges : \A r \in Rids :
         (r \in DOMAIN multicast_node_hdl /\ multicast_node_hdl[r] = e[2]) => mnodes[e[2]].rid = r

===============================================================================
