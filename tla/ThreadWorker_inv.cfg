CONSTANTS
  Nobody = Nobody
  Workers = {w1, w2, w3}
  Tasks = {t1, t2, t3}
SPECIFICATION Spec
INVARIANTS
    SomeoneIsAwake
    Inv
CHECK_DEADLOCK FALSE
