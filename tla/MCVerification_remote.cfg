SPECIFICATION VerifySpec
CONSTANTS
    Targets <- MCTargets
    MaxDeviations <- MCDeviations
INVARIANT StrictRefusesUnsigned
CHECK_DEADLOCK FALSE
