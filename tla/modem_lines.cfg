SPECIFICATION Spec
CONSTANTS
  MaxCalls = 6
  MaxLost = 1
  MaxLate = 2
INVARIANTS CodeIsOfThisCall UnreadIsRecent
CHECK_DEADLOCK FALSE
