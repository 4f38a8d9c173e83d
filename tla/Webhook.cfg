SPECIFICATION Spec
CONSTANTS
  c1 = c1  c2 = c2  c3 = c3
  Callers = {c1, c2, c3}
  Steps = 1
  Deadline = 4
  MinBudget = 1
  RetryWait = 1
  Attempts = 2
  Threshold = 3
  ResetAfter = 5
SYMMETRY Symmetry
INVARIANTS DeadlineKept RefusedForCause OpenIsBounded BreakerInv
