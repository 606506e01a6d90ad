\* Three classes without a cycle, two threads; every <clinit> may throw or
\* panic.  The system stops when MaxCalls are used up.
CONSTANTS
  Threads = {t1, t2}
  A = A
  B = B
  C = C
  None = None
  Classes <- TreeClasses
  Super <- TreeSuper
  Uses <- TreeUses
  Throwing <- TreeClasses
  Panicking <- TreeClasses
  MaxCalls = 2
SPECIFICATION FairSpec
CHECK_DEADLOCK FALSE
INVARIANT OneInitializer
PROPERTY UsersSeeInitializedClass
PROPERTY UsersSeeInitializedSupers
PROPERTY SuperBeforeSub
PROPERTY OutcomeIsFinal
PROPERTY EveryUseReturns
