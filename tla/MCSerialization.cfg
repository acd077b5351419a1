SPECIFICATION Spec
CONSTANT Cases <- SomeCases
INVARIANT RoundTrip
INVARIANT StaysInSync
CHECK_DEADLOCK FALSE
