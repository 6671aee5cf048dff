CONSTANTS
    Cases <- MCCases
    CastOutcomes <- MCCastOutcomes
    UninitSizes <- MCUninitSizes
    ResetAfterThrow = TRUE
SPECIFICATION FairSpec
INVARIANTS
    ReadAsSpecified
    StackMirrorsNesting
PROPERTY
    DocumentTerminates
