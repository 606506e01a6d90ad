\* Main and two children, one of whom sleeps and may panic.
SPECIFICATION LifeFairSpec
CONSTANTS
  Threads = {main, a, b}
  Main = main
  None = None
  Sleepers = {b}
INVARIANTS RunningIsKnown NoHandleLost LiveThreadsExist
PROPERTIES JoinAwaitsTermination JoinersReturnUnlessPanic
CHECK_DEADLOCK FALSE
