------------------------------ MODULE ScoredFile ------------------------------
(***************************************************************************)
(* What a scoring harness promises to the evaluation that reads its file,  *)
(* whichever subprocesses stall, crash or garble their output: it ends; it *)
(* fails and writes nothing, or it writes once, with one row for each pair *)
(* of the dataset and no other.                                            *)
(***************************************************************************)
EXTENDS Naturals, FiniteSets

CONSTANT PairIds                        \* the pairs of the dataset, finitely many

VARIABLES
  job,         \* running, done or failed
  listed       \* the pair of each row of the file, in order

vars == <<job, listed>>

Lines == 1..Cardinality(PairIds)

Init == job = "running" /\ listed = <<>>

Publish ==
  /\ job = "running"
  /\ job' = "done"
  /\ listed' \in [Lines -> PairIds]
  /\ \A i, j \in Lines : listed'[i] = listed'[j] => i = j

Fail ==
  /\ job = "running"
  /\ job' = "failed"
  /\ UNCHANGED listed

End == Publish \/ Fail

Spec == Init /\ [][End]_vars /\ WF_vars(End)
=============================================================================
