CONSTANTS
    Cases <- SetCases
    CastOutcomes <- MCCastOutcomes
    UninitSizes <- MCUninitSizes
    ResetAfterThrow = TRUE
SPECIFICATION Spec
INVARIANT ReadAsSpecified
