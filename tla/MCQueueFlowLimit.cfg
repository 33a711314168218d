SPECIFICATION Spec
INVARIANT TestExpectation
CHECK_DEADLOCK FALSE
