---------------------------- MODULE MC_Activation ----------------------------
(***************************************************************************)
(* Methods that between them use every pair of numeric kinds, and          *)
(* references beside kinds of either size, with a deep stack and no locals *)
(* or with up to three locals and a shallower stack.                       *)
(***************************************************************************)
EXTENDS Activation

Moves(kinds, window, locals) == [kinds |-> kinds, window |-> window, locals |-> locals, computes |-> FALSE]
Computes(kinds, window, locals) == [kinds |-> kinds, window |-> window, locals |-> locals, computes |-> TRUE]

MCMethods ==
    {Moves({"Int", "Long"}, 4, 0), Moves({"Int", "Double"}, 4, 0), Moves({"Int", "Long"}, 2, 3),
     Moves({"Ref", "Double"}, 3, 1), Moves({"Int", "Ref"}, 3, 1), Moves({"Float", "Ref"}, 2, 1),
     Computes({"Int", "Long"}, 3, 0), Computes({"Int", "Ref"}, 2, 0), Computes({"Long", "Double"}, 4, 0),
     Computes({"Int", "Float"}, 2, 0), Computes({"Int", "Double"}, 2, 1), Computes({"Float", "Long"}, 3, 0),
     Computes({"Float", "Double"}, 3, 0)}
=============================================================================
