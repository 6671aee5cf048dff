CONSTANTS
    Cases <- TraceCases
    CastOutcomes <- MCCastOutcomes
    UninitSizes <- MCUninitSizes
    ResetAfterThrow = TRUE
SPECIFICATION Spec
INVARIANTS
    ReadAsSpecified
