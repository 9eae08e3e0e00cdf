------------------------------ MODULE MCTiming ------------------------------
(* Instances of Timing for TLC: a second has four nanoseconds.               *)
EXTENDS Timing

CONSTANTS t1, t2

\* Nothing, less and more than a second, with and without a remainder; inc_time_ns
\* also takes a negative number.
SomeIncrements == {0 - 1, 1, 3, 4, 6, 9}
NoIncrements == {}
=============================================================================
