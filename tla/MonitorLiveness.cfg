\* Two waiters and a notifier, liveness under the fairness of the scheduler and of Java code.
CONSTANTS
  Threads = {t1, t2, t3}
  Objects = {o1}
  None = None
  Budget = 3
  Notifier = t3
  TimedWaiter = t2
  Calls <- WaitersAndNotifier
SPECIFICATION FairSpec
CHECK_DEADLOCK FALSE
PROPERTY NotifyAllReleasesAll
PROPERTY NotifyReleasesOne
PROPERTY EntrantsGetIn
PROPERTY TimedWaitReturns
