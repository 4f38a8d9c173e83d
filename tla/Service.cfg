SPECIFICATION FairSpec
CONSTANTS
  Limit = 2
  Window = 3
  Workers = {w1, w2}
  MaxCalls = 2
  MaxCount = 3
  MaxAdded = 3
  MaxStops = 1
  MaxLosses = 1
INVARIANTS QueueInv BurstBounded RefusalIsEarned SkippedOnlyByLoss
PROPERTIES QueuedIsRead LossHeals
