SPECIFICATION Spec
CONSTANTS
  ByteBase = 4
  WordBytes = 2
  ZeroChar = 2
  Radix = 2
  NewLine = 1
  FieldBytes <- MCFieldBytes
  Default <- MCDefault
  Lines <- MCLines
  MaxLines = 1
  LogonBody <- MCLogonBody
  Messages <- MCMessages
  MaxMessages = 2
INVARIANT RequestVerifies
CHECK_DEADLOCK FALSE
