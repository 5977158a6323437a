SPECIFICATION FairSpec
CONSTANTS
  ByteBase = 4
  WordBytes = 2
  ZeroChar = 2
  Radix = 2
  NewLine = 1
  FieldBytes <- MCFieldBytes
  Default <- MCDefault
  Lines <- MCLines
  MaxLines = 4
  LogonBody <- MCLogonBody
  Messages <- MCMessages
  MaxMessages = 3
INVARIANTS ReadsAsWritten FirstErrorFound DeliversWhatWasSent FailsForCause RequestReadable
PROPERTY ImplementsChannel
CHECK_DEADLOCK FALSE
