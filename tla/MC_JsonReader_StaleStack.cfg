CONSTANTS
    Cases <- StaleCases
    CastOutcomes <- MCCastOutcomes
    UninitSizes <- MCUninitSizes
    ResetAfterThrow = FALSE
SPECIFICATION Spec
INVARIANT ReadAsSpecified
