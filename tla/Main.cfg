SPECIFICATION Spec
CONSTANTS
    CommandLines <- MCCommandLines
    Inputs <- MCInputs
    MaxCardOpts = 2
    ClearSizes = {0, 3}
INVARIANTS TypeOK SuccessIsWhole OutputIsKept
