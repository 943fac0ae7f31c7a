-------------------------------- MODULE MCEval --------------------------------
(* Types of a few bits; a char and a long variable, and a user variable. *)
EXTENDS Eval

Sizes == [void |-> 0, char |-> 1, short |-> 2, int |-> 4, long |-> 4,
          float |-> 4, double |-> 8, ptr |-> 4]

Addresses == [c |-> 4, u |-> 8]
SymbolTypes == [c |-> TUChar]
Lits == {Value(TUChar, 0), Value(TUChar, 1), Value(TFuncP, 12)}
Casts == {Pointer("char")}
Laws == {0, 1, 2, 3, 4, 7, 8, 15}

ASSUME TargetOK == ExactTarget
=============================================================================
