SPECIFICATION ProgramsSpec
CONSTANTS
  Depth = 4
  QueueNums <- OneOrTwo
  MaxStarts = 3
  Tables = {"one", "other"}
  ActionNames = {"read", "write"}
  KeyNames = {"key"}
  DataNames = {"value"}
  ActionId <- MCActionId
  KeyFieldId <- MCKeyFieldId
  FieldId <- MCFieldId
  TableSize <- MCTableSize
  EntryKeys = {1, 2, 3}
  TableNames = {"bitmap", "other"}
  SwitchTableNames = {"bitmap"}
  Gids = {1, 2}
  Rids = {1, 2}
  PortSets <- MCPortSets
  MaxCalls = 3
  EmbedNum = 4
  DevNum = 2
  Found = {0, 1, 2, 3}
  EntryLba = 8
  Requests = 2
  NumRpcs = 5
  Credit = 2
  RingSlots = 2
  CsSlots = 3
  CsOffset = 1024
  Server = 4
  Client = 7
  NumNodes = 3
  session_num = 2
  Lengths = 2
  DataFiles <- MCDataFiles
  DataSamples = {1, 2}
  DataFeatures = {2}
  DataValues <- MCValues
  Datasets <- MCDatasets
  Workers = {1, 2}
  Iterations = 1000
  EpochBound = 2
  Enumerated = 40
CONSTRAINT Apart
INVARIANT TypeOK
INVARIANT StatusOfThisRun
INVARIANT ProgramsTypeOK
 
INVARIANT EdgesInSwitch
INVARIANT AllStored
INVARIANT OnlyWhatCame
INVARIANT LayoutRight
INVARIANT RowsExact
INVARIANT StartedOnSession
PROPERTY ProgramsEnd
CHECK_DEADLOCK FALSE
