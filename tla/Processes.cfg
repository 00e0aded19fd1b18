SPECIFICATION PartsSpec
CONSTANTS
  c1 = c1
  c2 = c2
  i1 = i1
  r1 = r1
  MaxAdded = 3
  Loads <- Heavy
  Absent = Absent
  Lightest = 2
  Heaviest = 5
  Connections <- TwoConnections
  Calls <- OneCall
  MaxMessages = 2
  Slots <- OneSlot
  MaxStarts = 2
  MaxOutages = 3
  MaxRetries = 2
INVARIANTS SelectionIsFair WorkerHolds ServerHolds
PROPERTIES WorkerSettles OutagesSurvived ServesAgain
CHECK_DEADLOCK FALSE
