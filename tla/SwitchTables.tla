----------------------------- MODULE SwitchTables -----------------------------
(***************************************************************************)
(* A table of the switch as the controller's library sees it               *)
(* (controller/include/p4_table.cpp): ids of actions, keys and data fields *)
(* looked up by name and kept, entries added and read back, and the table  *)
(* itself changed under all of it by setTable.                             *)
(* The names of a table's own data fields and those of an action's, which  *)
(* the code joins with a dot, are pairs: no name of the table has a dot    *)
(* after the name of one of its actions.                                   *)
(***************************************************************************)
EXTENDS Integers, Sequences

CONSTANTS
  Tables,      \* the tables of the switch
  ActionNames, KeyNames, DataNames, \* names that are looked up
  ActionId(_, _),   \* the switch: id of an action in a table, 0 if it has none
  KeyFieldId(_, _), \* id of a key field in a table, 0 if it has none
  FieldId(_, _, _), \* id of a data field in a table, of an action id or Own; 0 if none
  TableSize,   \* rows each table has
  EntryKeys    \* keys of entries

Own == 0      \* what the table's own fields are asked by
NoName == ""  \* the empty name
NoRow == 0
\* What a field can be asked by: the table or an action's id.
FieldOwners == {Own} \cup {ActionId(t, a) : t \in Tables, a \in ActionNames}

\* Ids are unsigned.  "action", "key" and NoName say in the histories what a name
\* is the name of, and are not actions themselves.
ASSUME TablesAssumption ==
  /\ TableSize \in [Tables -> Nat \ {0}]
  /\ \A t \in Tables :
       /\ \A a \in ActionNames : ActionId(t, a) \in Nat
       /\ \A k \in KeyNames : KeyFieldId(t, k) \in Nat
       /\ \A i \in FieldOwners, d \in DataNames : FieldId(t, i, d) \in Nat
  /\ {"action", "key", NoName} \cap ActionNames = {}

VARIABLES
  table,       \* the table that is asked
  firstTable,  \* the table at construction, which table_size and the handlers are of
  actions, keys, data, \* the three maps
  gotId,       \* history: the id the last call handed out, and for what
  current,     \* history: names whose kept id was asked of this table since setTable
  asserted,    \* an assertion (BF_TRY) has ended the program
  pointers,    \* entry_pointers: the key in each row's buffer, <<>> before initEntries
  rowsOf,      \* the table the row buffers were allocated by
  inSwitch     \* per table: the keys of the switch's entries, in its order

idVars == <<actions, keys, data, gotId, current>>
rowVars == <<pointers, rowsOf, inSwitch>>
tableVars == <<table, firstTable, idVars, asserted, rowVars>>

NoId == [name |-> <<>>, id |-> 0]

TablesInit ==
  /\ table \in Tables /\ firstTable = table
  /\ actions = <<>> /\ keys = <<>> /\ data = <<>>
  /\ gotId = NoId /\ current = {} /\ asserted = FALSE
  /\ pointers = <<>> /\ rowsOf = table
  /\ inSwitch = [t \in Tables |-> <<>>]

\* The maps, the handlers and the buffers stay as the former table left them.
\* A name that is no table's throws and changes nothing.
SetTable ==
  /\ \/ table' \in Tables /\ current' = {}
     \/ UNCHANGED <<table, current>>
  /\ gotId' = NoId
  /\ UNCHANGED <<firstTable, actions, keys, data, asserted, rowVars>>

Put(map, name, id) == [n \in DOMAIN map \cup {name} |-> IF n = name THEN id ELSE map[n]]

\* The map has the name before the switch is asked, with 0, and a failure
\* throws and leaves it.
Asks(name) == current' = current \cup {name}
NoneHanded == gotId' = NoId
Hands(name, id) == gotId' = [name |-> name, id |-> id]

SetAction(a) ==
  /\ actions' = Put(actions, a, ActionId(table, a))
  /\ Asks(<<"action", a>>) /\ NoneHanded
  /\ UNCHANGED <<keys, data>>

GetAction(a) ==
  IF a \in DOMAIN actions
  THEN Hands(<<"action", a>>, actions[a]) /\ UNCHANGED <<actions, keys, data, current>>
  ELSE /\ actions' = Put(actions, a, ActionId(table, a))
       /\ Asks(<<"action", a>>)
       /\ IF ActionId(table, a) = 0 THEN NoneHanded ELSE Hands(<<"action", a>>, ActionId(table, a))
       /\ UNCHANGED <<keys, data>>

SetKey(k) ==
  /\ keys' = Put(keys, k, KeyFieldId(table, k))
  /\ Asks(<<"key", k>>) /\ NoneHanded
  /\ UNCHANGED <<actions, data>>

GetKey(k) ==
  IF k \in DOMAIN keys
  THEN Hands(<<"key", k>>, keys[k]) /\ UNCHANGED <<actions, keys, data, current>>
  ELSE /\ keys' = Put(keys, k, KeyFieldId(table, k))
       /\ Asks(<<"key", k>>)
       /\ IF KeyFieldId(table, k) = 0 THEN NoneHanded
          ELSE Hands(<<"key", k>>, KeyFieldId(table, k))
       /\ UNCHANGED <<actions, data>>

\* With and without an action id the field goes under its bare name.
Bare(d) == <<NoName, d>>

SetData(d, action) ==
  /\ data' = Put(data, Bare(d), FieldId(table, action, d))
  /\ NoneHanded
  /\ UNCHANGED <<actions, keys, current>>

GetData(d, action) ==
  IF Bare(d) \in DOMAIN data
  THEN Hands(Bare(d), data[Bare(d)]) /\ UNCHANGED <<actions, keys, data, current>>
  ELSE /\ data' = Put(data, Bare(d), FieldId(table, action, d))
       /\ IF FieldId(table, action, d) = 0 THEN NoneHanded
          ELSE Hands(Bare(d), FieldId(table, action, d))
       /\ UNCHANGED <<actions, keys, current>>

\* mistake: the action's name is left out
OfBare(a, d) == Bare(d)
Of(a, d) == <<a, d>>

\* By the action's name: the action is looked up first, and kept, by the same
\* rules.  If that throws the field's own entry may be in the map or not: the
\* language leaves open which argument of the call is evaluated first.
NoSuchAction(a, d) ==
  /\ a \notin DOMAIN actions /\ ActionId(table, a) = 0
  /\ data' = data \/ data' = Put(data, Of(a, d), 0)
  /\ NoneHanded

IdOf(a) == IF a \in DOMAIN actions THEN actions[a] ELSE ActionId(table, a)

\* The field is this table's if the action's id is, which may be a former one's.
AsksOf(a, d) ==
  current' = LET asked == IF a \in DOMAIN actions THEN current ELSE current \cup {<<"action", a>>} IN
             IF <<"action", a>> \in asked THEN asked \cup {<<a, d>>} ELSE asked \ {<<a, d>>}

FetchOf(a, d, hand) ==
  /\ actions' = Put(actions, a, IdOf(a))
  /\ AsksOf(a, d)
  /\ \/ NoSuchAction(a, d)
     \/ /\ a \in DOMAIN actions \/ ActionId(table, a) # 0
        /\ LET field == FieldId(table, IdOf(a), d) IN
           /\ data' = Put(data, Of(a, d), field)
           /\ IF hand /\ field # 0 THEN Hands(<<a, d>>, field) ELSE NoneHanded
  /\ UNCHANGED keys

SetDataOf(a, d) == FetchOf(a, d, FALSE)
GetDataOf(a, d) ==
  IF Of(a, d) \in DOMAIN data
  THEN Hands(<<a, d>>, data[Of(a, d)]) /\ UNCHANGED <<actions, keys, data, current>>
  ELSE FetchOf(a, d, TRUE)

Ids ==
  /\ ~asserted
  /\ \/ \E a \in ActionNames : SetAction(a) \/ GetAction(a)
     \/ \E k \in KeyNames : SetKey(k) \/ GetKey(k)
     \/ \E d \in DataNames :
          \/ \E i \in FieldOwners : SetData(d, i) \/ GetData(d, i)
          \/ \E a \in ActionNames : SetDataOf(a, d) \/ GetDataOf(a, d)
  /\ UNCHANGED <<table, firstTable, asserted, rowVars>>

-------------------------------------------------------------------------------
(* Entries.                                                                *)

NoIdAsked == NoneHanded /\ UNCHANGED <<table, firstTable, actions, keys, data, current>>

\* As many buffers as the first table has rows, allocated by the present one.
InitEntries ==
  /\ pointers' = [i \in 1..TableSize[firstTable] |-> NoRow]
  /\ rowsOf' = table
  /\ NoIdAsked /\ UNCHANGED <<asserted, inSwitch>>

Entered == inSwitch[table]
Present == {Entered[i] : i \in DOMAIN Entered}
Becomes(entries) == inSwitch' = [inSwitch EXCEPT ![table] = entries]

\* The switch takes an entry it has not got if it has room, by the handlers of
\* this table; nobody looks at the status.
Accepts(k) == firstTable = table /\ k \notin Present /\ Len(Entered) < TableSize[table]

AddEntry(k) ==
  /\ Becomes(IF Accepts(k) THEN Append(Entered, k) ELSE Entered)
  /\ NoIdAsked /\ UNCHANGED <<asserted, pointers, rowsOf>>

\* Both addEntries, one entry after the other; the batch of one of them, and
\* whether the hardware has caught up, makes no difference to what is there.
AddEntries(k1, k2) ==
  /\ LET one == IF Accepts(k1) THEN Append(Entered, k1) ELSE Entered IN
     Becomes(IF k1 # k2 /\ Accepts(k2) /\ Len(one) < TableSize[table]
             THEN Append(one, k2) ELSE one)
  /\ NoIdAsked /\ UNCHANGED <<asserted, pointers, rowsOf>>

\* The switch has an entry once, and those behind it move up.
Without(k) ==
  LET at == CHOOSE i \in DOMAIN Entered : Entered[i] = k IN
  [i \in 1..(Len(Entered) - 1) |-> Entered[IF i < at THEN i ELSE i + 1]]

TableEntryDelete(k) ==
  /\ Becomes(IF firstTable = table /\ k \in Present THEN Without(k) ELSE Entered)
  /\ NoIdAsked /\ UNCHANGED <<asserted, pointers, rowsOf>>

TableClear ==
  /\ Becomes(<<>>)
  /\ NoIdAsked /\ UNCHANGED <<asserted, pointers, rowsOf>>

\* The first entry goes to row 0, then those after it from row 0 on.
ReadOver == [i \in DOMAIN pointers |->
  IF i < Len(Entered) THEN Entered[i + 1] ELSE IF i = 1 THEN Entered[1] ELSE pointers[i]]

\* An empty table has no first entry, and another table's buffers take none;
\* asked for the entries after the only one the switch gives none or fails.
TableGet ==
  /\ pointers # <<>>
  /\ IF Entered = <<>> \/ rowsOf # table
     THEN asserted' = TRUE /\ UNCHANGED pointers
     ELSE /\ pointers' = ReadOver
          /\ asserted' = FALSE \/ (Len(Entered) = 1 /\ asserted' = TRUE)
  /\ NoIdAsked /\ UNCHANGED <<rowsOf, inSwitch>>

\* It sets the key field with the empty name, which gets id 0 and which no
\* table has, and ends.
EntryGet ==
  /\ pointers # <<>>
  /\ keys' = IF NoName \in DOMAIN keys THEN keys ELSE Put(keys, NoName, 0)
  /\ asserted' = TRUE
  /\ NoneHanded
  /\ UNCHANGED <<table, firstTable, actions, data, current, rowVars>>

Entries ==
  /\ ~asserted
  /\ \/ InitEntries \/ TableClear \/ TableGet \/ EntryGet
     \/ \E k \in EntryKeys : AddEntry(k) \/ TableEntryDelete(k)
     \/ \E k1, k2 \in EntryKeys : AddEntries(k1, k2)

TablesNext == Ids \/ Entries \/ (~asserted /\ SetTable)
TablesSpec == TablesInit /\ [][TablesNext]_tableVars

-------------------------------------------------------------------------------
(* Properties.                                                             *)

TablesTypeOK ==
  /\ table \in Tables /\ firstTable \in Tables /\ rowsOf \in Tables
  /\ \A a \in DOMAIN actions : actions[a] \in FieldOwners
  /\ \A k \in DOMAIN keys : keys[k] \in Nat
  /\ \A f \in DOMAIN data : data[f] \in Nat
  /\ asserted \in BOOLEAN
  /\ pointers = <<>> \/ pointers \in [1..TableSize[firstTable] -> EntryKeys \cup {NoRow}]
  /\ \A t \in Tables : Len(inSwitch[t]) <= TableSize[t]

\* What the present table has for a name: of a field of an action it has not,
\* nothing, or the table's own field of that name (the action's id is then 0).
RightIds(n) ==
  CASE n[1] = "action" -> {ActionId(table, n[2])}
    [] n[1] = "key" -> {KeyFieldId(table, n[2])}
    [] OTHER -> {FieldId(table, ActionId(table, n[1]), n[2])}
                  \cup (IF ActionId(table, n[1]) = 0 THEN {0} ELSE {})

\* An id handed out for the name of an action or a key field, or of a data field
\* with the name of its action, that was asked since setTable is the present
\* table's for just that, whatever was looked up or failed before and whatever
\* another table has left in the maps.  A name kept from before setTable still
\* answers the former table's id, and the variants without an action's name
\* share one key: they are not spoken of.
NamedIds == gotId # NoId /\ gotId.name \in current => gotId.id \in RightIds(gotId.name)

===============================================================================
