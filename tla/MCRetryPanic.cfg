CONSTANTS
    Configs <- MCConfigs
    Codes <- MCCodes
    Bodies <- MCBodies
    NoCode = NoCode
    NoBody = NoBody
SPECIFICATION Spec
INVARIANT
    ReturnsToRunner
