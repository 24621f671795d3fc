SPECIFICATION Spec
CONSTANTS
    SeqMod = 4
    MaxRetries = 2
    Descriptors <- OneDescriptor
    Leftovers <- NoLeftovers
    MaxPipe = 2
    MaxApdus = 2
INVARIANT TruncatedPacketIsSkipped
