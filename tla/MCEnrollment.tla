---------------------------- MODULE MCEnrollment ----------------------------
(* Small instances of Enrollment for TLC.                                  *)
EXTENDS Enrollment, TLC

CONSTANTS k1, k2, p1, p2, f1, f2, u1, u2, m1, m2

\* An RGB camera with an IR camera beside it.
RgbFirst == {[mode |-> "rgb", ir |-> TRUE]}

Symmetry == Permutations({p1, p2}) \cup Permutations({k1, k2}) \cup
            Permutations({f1, f2}) \cup Permutations({m1, m2}) \cup
            Permutations({u1, u2})
=============================================================================
