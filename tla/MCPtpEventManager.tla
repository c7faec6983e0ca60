------------------------- MODULE MCPtpEventManager -------------------------
(* Instances of PtpEventManager for TLC. *)
EXTENDS PtpEventManager, TLC

CONSTANTS c1, c2, p1, p2, s1, s2

None == {}
One  == {c1}
Two  == {c1, c2}

\* c2 is the chronyd configuration in the profile of c1.
Ntp  == {c2}

\* Where only the absence of overlapping publications is of interest.
Undisturbed == ~disturbed

Symmetry == Permutations(Configs)
=============================================================================
