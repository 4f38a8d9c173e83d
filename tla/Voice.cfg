SPECIFICATION VoiceSpec
CONSTANTS
  d1 = d1
  Deliveries = {d1}
  NoJob = NoJob
  Limit = 5
  Headroom = 2
  MinSentence = 1
  MinWord = 1
  MinStable = 2
  Dots = 1
  Hint = 1
  FieldLimit = 5
  MinTruncation = 2
  MaxLength = 8
  MaxTokens = 5
  MaxWords = 6
  MaxTokensOut = 7
CHECK_DEADLOCK FALSE
INVARIANTS HeadFits NothingSkipped OneWordDropped ToldFits MarkersUntold LastRequestOffered QuestionsAreAsked
