------------------------------ MODULE Timestamps ------------------------------
(***************************************************************************)
(* The times of records are compared as text, in the sort of a timeline as *)
(* in that of the logons of several files.                                 *)
(***************************************************************************)
EXTENDS Integers

CONSTANTS
  Second,  \* ticks in a second
  Units    \* ticks in a second, in a tenth of one, and so on to one tick

ASSUME SecondAssumption == Second \in Nat \ {0}

ASSUME UnitsAssumption ==
  /\ Units \subseteq 1 .. Second
  /\ {1, Second} \subseteq Units
  /\ \A u \in Units : Second % u = 0

\* jiff writes no trailing zeros: the greatest unit of which t is a multiple
\* is that of the last digit written.
LastUnit(t) == CHOOSE u \in Units : /\ t % u = 0
                                    /\ \A w \in Units : t % w = 0 => w <= u

\* Where the text of t stands among others.  A text is followed by its "Z",
\* which sorts behind "." and every digit: so behind all that have more
\* digits, from t on to the next multiple of its last unit.  Of two that end
\* there the one in the coarser unit comes last.
TextKey(t) == (t + LastUnit(t)) * (Second + 1) + LastUnit(t)
=============================================================================
