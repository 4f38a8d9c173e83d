SPECIFICATION Spec
CONSTANTS
  c1 = c1  c2 = c2  c3 = c3
  Callers = {c1}
  Steps = 4
  Deadline = 6
  MinBudget = 1
  RetryWait = 1
  Attempts = 2
  Threshold = 3
  ResetAfter = 6
INVARIANTS DeadlineKept EscalationNotRefused
