SPECIFICATION Spec
CONSTANT Size <- MCSize
INVARIANT NeverAnotherSatellite
INVARIANT DecodedReencodes
INVARIANT ExclusionReturns
CHECK_DEADLOCK FALSE
