---------------------------- MODULE MCEvaluation ----------------------------
(* Evaluation on small instances.  Two bases with two variants each, a     *)
(* broken variant, and a variant that changes its argument in place.       *)
EXTENDS Evaluation, TLC

CONSTANTS b1, b2, v1, v2, v3, v4, p1, p2, p3, p4

MCPrograms == {b1, b2, v1, v2, v3, v4}
MCBroken == {v3}
MCMutators == {b1, v2}

pair(i, b, v) == [id |-> i, base |-> b, variant |-> v]

(* One dataset; the second base's variants surround the first base's.      *)
MCDataset ==
  "v6" :> << pair(p1, b2, v1), pair(p2, b1, v2), pair(p3, b1, v3), pair(p4, b2, v4) >>

(* The published dataset, and one that keeps only some of its pair ids.    *)
MCTwoDatasets ==
  ("published" :> << pair(p1, b2, v1), pair(p2, b1, v2), pair(p3, b1, v3) >>)
  @@ ("v6" :> << pair(p1, b2, v4) >>)
=============================================================================
