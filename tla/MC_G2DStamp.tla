---------------------------- MODULE MC_G2DStamp ----------------------------
(* Model-checking instance of G2DStamp.                                    *)
EXTENDS G2DStamp, TLC

CONSTANTS c1, c2

\* A 4-bit counter over a 4-slot ring: the counter wraps to negative after
\* 2^3 = 8 stamps and back to non-negative after 16, as the 32-bit one
\* does after 2^31 and 2^32.
MC_W == 4
MC_StampSize == 4
MC_CPUs == {c1, c2}
\* Enough stamps to pass through the negative half and out of it again.
MC_MaxStamps == 18

Perms == Permutations(MC_CPUs)

=============================================================================
