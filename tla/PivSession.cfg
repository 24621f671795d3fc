SPECIFICATION FairSpec
CONSTANTS
    CommandLines <- MCCommandLines
    Capacity = 700
    Pieces <- MCPieces
    MaxTries = 3
    MaxRuns = 2
INVARIANTS TypeOK ServesWholeArguments CleartextIsWhole PinBudget PinBeforeKey
PROPERTIES ImplementsDecryption EveryStepCounts EveryRunEnds
