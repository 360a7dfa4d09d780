SPECIFICATION Spec
CONSTANTS
  IdRange = 9
  FirstDefault = 5
  Own = 7
  AttributeType <- MCAttributeType
  Shown = 10
  Numbers <- MCNumbers
  Inventories <- MCInventories
  Edited <- MCEdited
  MaxStarts = 2
  MaxDeaths = 1
INVARIANTS ReadsBack PlainIsKept TornKeepsOthers EveryKeyIsAnItem
PROPERTY SettledAfterOne
CHECK_DEADLOCK FALSE
