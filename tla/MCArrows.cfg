SPECIFICATION Spec
CONSTANTS
  Names <- MCNames
  OtherSection = "other"
  Mandatory <- MCMandatory
  Resembles <- MCResembles
  Lines <- MCLines
  MaxLines = 4
  MaxFiles = 2
INVARIANTS
  DirectoryExact
  InversesAsWritten
  LookupsAgree
PROPERTIES
  ArrowsKeepPointers
  ClosuresOfOneLine
CHECK_DEADLOCK FALSE
