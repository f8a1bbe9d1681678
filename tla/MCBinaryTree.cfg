SPECIFICATION Spec
CONSTANT MaxLength = 40
CHECK_DEADLOCK FALSE
INVARIANTS NeverLost Logarithmic
