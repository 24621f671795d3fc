SPECIFICATION Spec
CONSTANTS
    Files <- OneTooMany
    MaxConfigs = 8
    MaxInterfaces = 8
    MaxEndpoints = 4
INVARIANT NoMoreThanDeclared
