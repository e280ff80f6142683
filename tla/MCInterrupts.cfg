SPECIFICATION Spec
INVARIANTS
    HandledByItsHandler
    InServiceWhileServed
PROPERTY KeysAreServed
CHECK_DEADLOCK FALSE
