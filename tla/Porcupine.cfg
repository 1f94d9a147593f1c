SPECIFICATION CheckFairSpec
CONSTANTS
    MaxOps = 3
    Kinds <- SomeKinds
    Given <- InCallOrder
CHECK_DEADLOCK FALSE
INVARIANTS
    ListIntact
    LongestIsLongest
    AnswerCorrect
    NoRaceOnLongest
PROPERTIES
    SearchesDecide
    CheckReturns
