CONSTANTS
  IdBytes <- MCIdBytes
  Names <- MCNames
  Payloads <- MCPayloads
  Tails <- MCTails
  MaxItems = 2
  SizeLimit <- MCSizeLimit
SPECIFICATION CodecSpec
CHECK_DEADLOCK FALSE
INVARIANTS HandledAsWritten
