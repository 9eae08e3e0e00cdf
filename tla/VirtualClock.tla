---------------------------- MODULE VirtualClock ----------------------------
(* The clock mysyscall promises the intercepted program: the commands of the *)
(* router set it, reading it moves it ahead by one resolution so that time   *)
(* is seen to pass, and the next command takes that lead into account.       *)
EXTENDS Integers

CONSTANTS
  Resolution,   \* by how much a reading moves the clock
  Increments    \* the increments the router may command

VARIABLES
  base,         \* the time the commands have set
  ahead         \* by how much readings have moved the clock since

vars == <<base, ahead>>

Init == base \in Int /\ ahead = 0

\* A reading.  A reading that follows an increment changes nothing.
Tick == ahead' = ahead + Resolution /\ UNCHANGED base

\* The clock is set ns after the last command, or left if it is there already.
Advance(ns) ==
  /\ base' = base + (IF ns > ahead THEN ns ELSE ahead)
  /\ ahead' = 0

Next == Tick \/ \E ns \in Increments : Advance(ns)

Spec == Init /\ [][Next]_vars
=============================================================================
