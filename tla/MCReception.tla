----------------------------- MODULE MCReception -----------------------------
(* Instances of Reception for TLC.                                           *)
EXTENDS Reception, TLC
CONSTANTS t1, t2, s1, s2, s3

\* Two messages on the first socket, none on the second: it may take over the
\* descriptor of the first, or leave it its own; one on the third.
Messages == s1 :> 2 @@ s2 :> 0 @@ s3 :> 1

\* Threads differ by nothing; the properties checked with it are invariants.
Threads == Permutations(Thread)
=============================================================================
