------------------------------ MODULE Harnesses -------------------------------
(***************************************************************************)
(* The three ways to score a dataset, each with a subprocess per program:  *)
(* run_chunked.py (ChunkedRun), score_v6_experimental.py and run_corpus of *)
(* rescore_external_v8.py (both ScoringPool).  One job of one of them; all *)
(* implement ScoredFile, which is all that FrozenEvaluation assumes of its *)
(* scored pair file.                                                       *)
(***************************************************************************)
EXTENDS ChunkedRun, ScoringPool

VARIABLE which                          \* "chunked" or "pool"

vars == <<which, chunkedVars, poolVars>>

Init ==
  /\ which \in {"chunked", "pool"}
  /\ ChunkedInit
  /\ PoolInit
  /\ which = "chunked" => harness = "v6"

ChunkedStep == which = "chunked" /\ ChunkedNext /\ UNCHANGED <<which, poolVars>>
PoolStep == which = "pool" /\ PoolNext /\ UNCHANGED <<which, chunkedVars>>

Next == ChunkedStep \/ PoolStep

Spec == Init /\ [][Next]_vars

FairSpec ==
  /\ Spec
  /\ which = "chunked" => ChunkedFairness
  /\ which = "pool" => PoolFairness

-----------------------------------------------------------------------------
(* Properties; those of the two modules are checked here as well.          *)

(* The types of both modules, in the one that runs as in the one that      *)
(* waits in its initial state.                                             *)
TypeOK == which \in {"chunked", "pool"} /\ ChunkedTypeOK /\ PoolTypeOK

(* run_chunked.py ends its job, and a thread pool its call, although       *)
(* subprocesses may hang.                                                  *)
JobEnds == which = "chunked" => ChunkedEnds
PoolEnds == which = "pool" => CallEnds

(* Each harness implements the contract its readers assume.                *)
File == INSTANCE ScoredFile
  WITH job <- CASE pc = "done" \/ mpc = "done" -> "done"
                [] pc = "aborted" \/ mpc = "failed" -> "failed"
                [] OTHER -> "running",
       listed <- LET file == IF which = "chunked" THEN dest ELSE out
                 IN [i \in DOMAIN file |-> file[i].pair]
ScoredFileSpec == File!Spec
=============================================================================
