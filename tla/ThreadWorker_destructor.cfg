CONSTANTS
  Nobody = Nobody
  Workers = {w1, w2}
  Tasks = {t1, t2, t3}
SPECIFICATION FairSpec
PROPERTY DestructorReturns
CHECK_DEADLOCK FALSE
