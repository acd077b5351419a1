SPECIFICATION Spec
CONSTANT Cases <- Defects
INVARIANT RoundTrip
CHECK_DEADLOCK FALSE
