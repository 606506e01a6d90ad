------------------------------ MODULE JavaThreads ------------------------------
(***************************************************************************)
(* The Java threads, for the modules that follow them: their monitors      *)
(* (Monitor), their lives (ThreadLifecycle) and their interrupt status     *)
(* (InterruptStatus).                                                      *)
(***************************************************************************)
CONSTANTS
  Threads,  \* Thread objects, the identities current_thread() returns
  None      \* no thread, and no object
=============================================================================
