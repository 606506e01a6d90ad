\* Three threads, one monitor: every interleaving of entry, exit, wait, notify
\* and interrupt.  The system stops when budgets are spent.
CONSTANTS
  Threads = {t1, t2, t3}
  Objects = {o1}
  None = None
  Budget = 3
  Notifier = None
  TimedWaiter = None
  Calls <- LegalCall
SPECIFICATION Spec
SYMMETRY Symmetry
CHECK_DEADLOCK FALSE
INVARIANT TypeOK
INVARIANT NoLostEntryWakeup
INVARIANT WaitersCounted
INVARIANT SignalReachesAWaiter
PROPERTY ImplementsJavaMonitor
