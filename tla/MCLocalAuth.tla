---------------------------- MODULE MCLocalAuth ----------------------------
(***************************************************************************)
(* Instances of LocalAuth for TLC.                                         *)
(***************************************************************************)
EXTENDS LocalAuthProperties, TLC

CONSTANTS t1, t2, n1, n2

\* Each service with all of its clients: they share no state but the clock and
\* the paired secret.
Combinations == {{"capture"}, {"pairing"}, {"library"}}

Threads == Permutations(Thread) \cup Permutations(Nonce)
=============================================================================
