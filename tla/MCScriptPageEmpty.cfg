SPECIFICATION Spec
CONSTANT MaxLen = 6
INVARIANT EmptyOutputReported
CHECK_DEADLOCK FALSE
