-------------------------------- MODULE MCMap --------------------------------
(* Model-checking instance of Map: the integer 1, the float 1.0 and the    *)
(* integer 2 as keys, so that keys can compare Equal without being equal;  *)
(* the integer 1, the float 1.0 and an atom as values.                     *)
EXTENDS Map, TLC

MCKeys == {IntTerm(1), FloatTerm(1), IntTerm(2)}
MCVals == {IntTerm(1), FloatTerm(1), AtomTerm(0)}
MCMaxListLen == 2

=============================================================================
