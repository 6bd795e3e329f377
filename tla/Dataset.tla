------------------------------- MODULE Dataset --------------------------------
(***************************************************************************)
(* The pairs of one split of a dataset, as the scoring harnesses read them *)
(* from pairs_<split>.jsonl, and the options of a job.                     *)
(***************************************************************************)
EXTENDS Naturals, Sequences, FiniteSets

CONSTANTS
  Pairs,       \* the pairs of the split, in dataset order: [id, base]
  Progs,       \* the base programs, in the order of sorted()
  Workers      \* --workers: threads of a parallel harness

PairIds == {Pairs[i].id : i \in DOMAIN Pairs}
Bases == {Pairs[i].base : i \in DOMAIN Pairs}

ASSUME DatasetAssumption ==
  /\ Pairs \in Seq([id : PairIds, base : Bases])
  /\ \A i, j \in DOMAIN Pairs : Pairs[i].id = Pairs[j].id => i = j

ASSUME JobAssumption ==
  /\ Progs \in Seq(Bases)
  /\ \A b \in Bases : \E n \in DOMAIN Progs : Progs[n] = b
  /\ \A m, n \in DOMAIN Progs : Progs[m] = Progs[n] => m = n
  /\ Workers \in Nat \ {0}

(* The pairs at the positions of I, in dataset order; those of each base.  *)
Listed(I) ==
  LET upTo[n \in 0..Len(Pairs)] ==
        CASE n = 0          -> <<>>
          [] n \in I \ {0}  -> Append(upTo[n - 1], Pairs[n])
          [] OTHER          -> upTo[n - 1]
  IN upTo[Len(Pairs)]

(* The tag of an attempt: a whole program's, or the position in By of the  *)
(* pair tried alone.                                                       *)
All == 0

By == [b \in Bases |-> Listed({i \in DOMAIN Pairs : Pairs[i].base = b})]
=============================================================================
