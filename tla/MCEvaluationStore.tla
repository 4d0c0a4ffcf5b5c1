--------------------------- MODULE MCEvaluationStore ---------------------------
(* One job, two members of each group.  Two reviews may agree in a column,  *)
(* and so may two opinions: then an update does not write it.               *)
EXTENDS EvaluationStore, TLC

CONSTANTS j1, w1, w2, m1, m2, r1, r2, s1, s2, f1, f2, a1

Symmetry ==
  UNION { Permutations(S) :
    S \in { {w1, w2}, {m1, m2}, {r1, r2}, {s1, s2}, {f1, f2} } }
=============================================================================
