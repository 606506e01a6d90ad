----------------------------- MODULE MC_Interning -----------------------------
(***************************************************************************)
(* Instances of Interning for TLC: the mirrors of C and of the array class *)
(* [C, the Module of both, and the string that is the name of the module.  *)
(***************************************************************************)
EXTENDS Interning, TLC

CONSTANTS String, Module, Class, Array

MirrorParts ==
  [k \in Keys |-> CASE k = String -> <<>>
                    [] k = Module -> <<String>>
                    [] k = Class  -> <<Module>>
                    [] k = Array  -> <<Class, Module>>]

Symmetry == Permutations(Threads)
=============================================================================
