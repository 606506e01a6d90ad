---------------------------- MODULE MC_CallStack ----------------------------
(***************************************************************************)
(* An instance of CallStack for TLC: Guarded catches most of what gets to  *)
(* it, and at its first instruction two entries of its table match a       *)
(* failed call by reflection; Plain catches nothing.                       *)
(***************************************************************************)
EXTENDS CallStack

CONSTANTS Guarded, Plain

Tables ==
  Guarded :> <<[covers |-> {0}, catches |-> {"InvocationTargetException"}, handler |-> 1],
               [covers |-> {0, 1}, catches |-> Classes \ {"NoClassDefFoundError"}, handler |-> 0]>>
  @@ Plain :> <<>>
=============================================================================
