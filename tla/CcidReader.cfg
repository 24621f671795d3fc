SPECIFICATION Spec
CONSTANTS
    SeqMod = 4
    MaxRetries = 6
    Descriptors <- MCDescriptors
    Leftovers <- MCLeftovers
    MaxPipe = 3
    MaxApdus = 2
INVARIANTS TypeOK FreshAnswer CleanPipe PoweredAsBelieved IInv
PROPERTIES Implements EveryStepCounts
