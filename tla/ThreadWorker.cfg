CONSTANTS
  Nobody = Nobody
  Workers = {w1, w2, w3}
  Tasks = {t1, t2, t3}
SPECIFICATION FairSpec
PROPERTIES
  ImplementsTaskQueue
  TaskIsStarted
\* A destructor whose notification is lost waits for ever: the
\* destructor configuration shows that.
CHECK_DEADLOCK FALSE
