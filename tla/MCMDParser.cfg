SPECIFICATION Spec
CONSTANTS
  ByteBase = 4
  WordBytes = 4
  ZeroChar = 1
  Radix = 2
  CodeChars = 2
  MaxEntries = 2
  CodeLimit = 2
  Messages <- MCMessages
  MaxQuotes = 3
  MaxCrashes = 1
INVARIANTS TypeOK ReadsWhatWasMeant NamesItsKey BookIsCurrent DumpIsSnapshot
CHECK_DEADLOCK FALSE
