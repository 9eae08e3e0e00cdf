------------------------------ MODULE MCSender -------------------------------
(* An instance of Sender alone, for TLC.                                     *)
EXTENDS Sender
CONSTANTS t1, t2, s1, s2

Once == [s \in Sock |-> 1]
=============================================================================
