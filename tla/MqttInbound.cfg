SPECIFICATION Spec
CONSTANTS
  long = long
  twin = twin
  short = short
  huge = huge
  Message <- MCMessage
  Topic <- MCTopic
  Size <- MCSize
  Filter <- MCFilter
  Slots = 2
  Limit = 3
  MaxLost = 1
  NoFilter = NoFilter
  NoOp = NoOp
  Level <- MCLevel
  MaxLevels = 3
INVARIANTS TypeOK EverySessionSubscribed BufferStays MatcherFollowsStandard
  
