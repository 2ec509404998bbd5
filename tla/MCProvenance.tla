---------------------------- MODULE MCProvenance ----------------------------
EXTENDS Provenance, TLC

CONSTANTS ma, mb, ds, q1, q2, q3, m1, m2, boxed, fewshot

MCArm == {[model |-> ma, dataset |-> ds, variant |-> boxed, epoch |-> 0, n |-> 3],
          [model |-> mb, dataset |-> ds, variant |-> boxed, epoch |-> 0, n |-> 2],
          [model |-> ma, dataset |-> ds, variant |-> fewshot, epoch |-> 1, n |-> 1]}

\* A re-push may swap two rows, or drop one.
MCUpstream == {(0 :> q1 @@ 1 :> q2 @@ 2 :> q3), (0 :> q2 @@ 1 :> q1)}

Symmetry == Permutations({m1, m2})
=============================================================================
