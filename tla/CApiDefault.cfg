SPECIFICATION Spec
CONSTANTS
  InitialSize = 1
  NoObj = NoObj
  ArgumentTexts <- MCArgumentTexts
  HeaderLists <- MCHeaderLists
  BasicAuthLists <- MCBasicAuthLists
  BearerLists <- MCBearerLists
  WhiteLists <- MCWhiteLists
  Addresses <- MCAddresses
  EntryLists <- MCEntryLists
  MaxObjects = 3
  MaxEdits = 1
INVARIANT StartSuppliesServer
CHECK_DEADLOCK FALSE
