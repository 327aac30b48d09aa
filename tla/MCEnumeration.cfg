CONSTANTS
  STRING_DESCRIPTORS <- MCStringDescriptors
  ScratchWords = 32
  Garbage = 9999
SPECIFICATION FairSpec
CHECK_DEADLOCK FALSE
INVARIANTS
  EnumerationTypeOK
  StringsArriveWhole
  NamedStringsArrive
  EnumeratedHostCanTalk
  OnlyReadyBoardsAttach
PROPERTY EnumerationCompletes
