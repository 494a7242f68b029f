CONSTANTS
    MaxRedirects = 3
    MaxReads = 4
    MaxOperations = 4
    MaxDepth = 2
    MaxStepsPerScenario = 2
    Cases <- MCCases
INIT Init
NEXT Next
INVARIANTS TypeOK ProvenMeansAnswered MatchMeansSameAnswers AnswersAreItsOwn NothingBuiltOnAGuess
CHECK_DEADLOCK FALSE
