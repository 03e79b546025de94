CONSTANT
  Service = {c1, c2}
SPECIFICATION CheckSpec
CHECK_DEADLOCK FALSE
INVARIANT UnhealthyIsFiled
