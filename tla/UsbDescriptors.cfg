SPECIFICATION FairSpec
CONSTANTS
    Files <- MCFiles
    MaxConfigs = 8
    MaxInterfaces = 8
    MaxEndpoints = 4
INVARIANTS TypeOK   SelectedIsUsable
 
