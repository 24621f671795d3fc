SPECIFICATION Spec
CONSTANTS
    CommandLines <- PinCommandLines
    Capacity = 700
    Pieces <- MCPieces
    MaxTries = 3
    MaxRuns = 1
INVARIANT ReportsAttemptsLeft
