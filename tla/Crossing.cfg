SPECIFICATION Spec
CONSTANTS
  d1 = d1  d2 = d2  d3 = d3  d4 = d4
  w1 = w1
  w2 = w2
  Deliveries = {d1, d2, d3}
  NoJob = NoJob
  Workers = {w1}
  KeyOf <- Distinct
  Utterances = {"blank", "continue", "question"}
  Hazards <- AllHazards
  MaxFaults = 1
  MaxExpiries = 0
SYMMETRY Symmetry
CHECK_DEADLOCK FALSE
INVARIANTS TailFollowsHead
