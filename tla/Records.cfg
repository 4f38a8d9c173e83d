SPECIFICATION RecordsSpec
CONSTANTS
  d1 = d1  d2 = d2  d3 = d3
  w1 = w1
  w2 = w2
  Deliveries = {d1, d2, d3}
  NoJob = NoJob
  Workers = {w1, w2}
  KeyOf <- Distinct
  Utterances = {"continue", "question"}
  Hazards = {"failure"}
  MaxFaults = 1
  MaxExpiries = 2
  TurnLimit = 4
SYMMETRY Symmetry
CHECK_DEADLOCK FALSE
INVARIANTS RecordsInv ExchangesStayTogether ToldIsRemembered FailedRowNeverTold AnsweredRowHasTurns
PROPERTIES SettledJobAddsNothing
