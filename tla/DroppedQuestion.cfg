SPECIFICATION Spec
CONSTANTS
  d1 = d1  d2 = d2  d3 = d3  d4 = d4
  w1 = w1
  w2 = w2
  Deliveries = {d1, d2}
  NoJob = NoJob
  Workers = {w1}
  KeyOf <- Distinct
  Utterances = {"continue", "question"}
  Hazards = {"overlap"}
  MaxFaults = 0
  MaxExpiries = 0
SYMMETRY Symmetry
CHECK_DEADLOCK FALSE
INVARIANTS PromiseIsQueued
