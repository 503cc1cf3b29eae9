SPECIFICATION Spec
CONSTANTS
  None = None
  mon = mon
  fri = fri
  c1 = c1
  area = area
  Messages <- MCMessages
  Calls <- MCCalls
  Direct = {"commands"}
  Deletions <- MCDeletions
  Starts <- MCStarts
  MaxTools = 4
  MaxMutations = 2
CHECK_DEADLOCK FALSE
INVARIANT
  UnchangedMeansUnchanged
