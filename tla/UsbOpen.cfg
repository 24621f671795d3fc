SPECIFICATION FairSpec
CONSTANTS
    Ports = {p1, p2}
    Models <- MCModels
    Options <- MCOptions
    IdMod = 4
    Page = 2
    MaxPlugs = 3
    Misplaced = TRUE
INVARIANTS
    TypeOK
    OpenedIsOneDevice
    NonePassedOver
    SteadyIsWanted
PROPERTY OpeningEnds
