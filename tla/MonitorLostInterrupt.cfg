\* A thread that is interrupted between the predicate of wait() and the moment
\* it blocks is never woken.
CONSTANTS
  Threads = {t1, t2}
  Objects = {o1}
  None = None
  Budget = 2
  Notifier = None
  TimedWaiter = None
  Calls <- AnyCall
SPECIFICATION FairSpec
CHECK_DEADLOCK FALSE
PROPERTY InterruptWakesWaiter
