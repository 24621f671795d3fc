SPECIFICATION FairSpec
CONSTANTS
    SeqMod = 4
    MaxRetries = 2
    Descriptors <- MCDescriptors
    Leftovers <- NoLeftovers
    MaxPipe = 2
    MaxApdus = 2
    MaxRuns = 3
INVARIANT FreshAfterRestart
PROPERTY Terminates
