----------------------------- MODULE Evaluation -----------------------------
(***************************************************************************)
(* experiments/final/run_main_evaluation.py with the program cache of      *)
(* experiments/final/extraction.py: score every pair of a dataset, write   *)
(* a checkpoint after every CheckpointEvery rows, then the two output      *)
(* files, then remove the checkpoint.  Loading, tracing or scoring a pair  *)
(* may raise out of the loop or never end; the process may die at any      *)
(* point; and the operator starts it again, perhaps on another dataset     *)
(* with the same tag.                                                      *)
(*                                                                         *)
(* Path.write_text truncates and writes in place, so between its open and  *)
(* its close the file holds some prefix of what is written; the last line  *)
(* of that prefix may be cut, which is the line Torn.  A file that is      *)
(* absent is read like an empty one, and is the empty sequence here.       *)
(*                                                                         *)
(* Of a score only what it depends on is kept: for each of the pair's two  *)
(* programs, whether it was traced on pristine inputs or on inputs that    *)
(* programs traced before it in the same process had changed in place.     *)
(***************************************************************************)
EXTENDS Naturals, Sequences, FiniteSets

CONSTANTS
  Programs,         \* paths of program files
  Broken,           \* programs that fail to load or to be traced
  Mutators,         \* programs that change their argument in place
  Dataset,          \* per dataset name, its pairs in order
  CheckpointEvery,  \* checkpoint_every
  MaxStarts,        \* bound on the number of times the script is started
  Torn              \* a line cut off by a crash

Datasets == DOMAIN Dataset
PairIds == UNION {{Dataset[d][i].id : i \in DOMAIN Dataset[d]} : d \in Datasets}

Outcomes == {"pristine", "used", "failed"}
Row == [pair : PairIds, dataset : Datasets, base : Outcomes, variant : Outcomes]

ASSUME EvaluationAssumption ==
  /\ Broken \subseteq Programs /\ Mutators \subseteq Programs
  /\ Torn \notin Row
  /\ CheckpointEvery \in Nat \ {0} /\ MaxStarts \in Nat
  /\ \A d \in Datasets :
       /\ Dataset[d] \in Seq([id : PairIds, base : Programs, variant : Programs])
       /\ \A i, j \in DOMAIN Dataset[d] : Dataset[d][i].id = Dataset[d][j].id => i = j

VARIABLES
  protocol,         \* --protocol, the same at every start
  \* files in out_dir
  ckpt,             \* checkpoint_<tag>_<protocol>.jsonl
  pairsFile,        \* pairs_<tag>_<protocol>.jsonl
  programsFile,     \* the programs in programs_<tag>_<protocol>.json
  \* the process
  pc, dataset, index, rows, completed, cache,
  used,             \* some shared input has been changed by a traced program
  \* the operator
  starts            \* how often the script was started

files == <<ckpt, pairsFile, programsFile>>
memory == <<index, rows, completed, cache, used>>
vars == <<protocol, files, pc, dataset, memory, starts>>

Protocols == {"published", "output_free"}       \* the latter: v6, v7, v8
Pairs == Dataset[dataset]
Lines(s) == {s[k] : k \in DOMAIN s}

-----------------------------------------------------------------------------
(* Helpers.  A definition named ...Slip is a plausible programming error   *)
(* in the definition that follows it; no action uses it.                   *)

LoadsSlip(file) == file # <<>>          \* no test whether the file exists
Loads(file) == Torn \notin Lines(file)  \* json.loads raises on a cut line

LoadedRowsSlip(file) == <<>>            \* keeps the ids and forgets the rows
LoadedRows(file) == file                \* 61-69

LoadedIdsSlip(file) == {}
LoadedIds(file) == {r.pair : r \in Lines(file)}

(* extract_program on a program that is not in the cache.  Only protocol   *)
(* published hands the same input objects to every program.                *)
SharedInputs == protocol = "published"
ExtractedSlip(q, u) == IF q \in Broken THEN "absent" ELSE "pristine"
Extracted(q, u) ==
  IF q \in Broken THEN "failed"
  ELSE IF SharedInputs /\ u THEN "used" ELSE "pristine"
UsedBy(q) == SharedInputs /\ q \in Mutators /\ q \notin Broken

DoneSlip(id) == FALSE                   \* no test for a completed pair
Done(id) == id \in completed            \* 90-92

(* What the file may hold while write_text writes the rows rs.             *)
Partial(rs) ==
  {SubSeq(rs, 1, n) : n \in 0..Len(rs)}
  \cup {Append(SubSeq(rs, 1, n), Torn) : n \in 0..(Len(rs) - 1)}

(* rows.sort: stable, by the pair's place in the dataset, others last.     *)
Key(r) ==
  IF \E i \in DOMAIN Pairs : Pairs[i].id = r.pair
  THEN CHOOSE i \in DOMAIN Pairs : Pairs[i].id = r.pair
  ELSE Len(Pairs) + 1
Rank(rs, k) ==
  Cardinality({j \in DOMAIN rs : \/ Key(rs[j]) < Key(rs[k])
                                 \/ Key(rs[j]) = Key(rs[k]) /\ j <= k})
Sorted(rs) == [n \in DOMAIN rs |-> rs[CHOOSE k \in DOMAIN rs : Rank(rs, k) = n]]

EmptyCache == [q \in Programs |-> "absent"]

-----------------------------------------------------------------------------
Init ==
  /\ ckpt = <<>> /\ pairsFile = <<>> /\ programsFile = {}
  /\ protocol \in Protocols
  /\ pc = "off"
  /\ dataset \in Datasets
  /\ index = 1 /\ rows = <<>> /\ completed = {} /\ cache = EmptyCache /\ used = FALSE
  /\ starts = 0

(* The script is started, again if pc is not "off" or a file is there; it  *)
(* loads the checkpoint (75-87), and dies at once if a line of it is cut.  *)
Start ==
  /\ pc \in {"off", "raised", "failed", "done"}
  /\ starts < MaxStarts
  /\ starts' = starts + 1
  /\ dataset' \in Datasets
  /\ index' = 1 /\ cache' = EmptyCache /\ used' = FALSE
  /\ \/ /\ Loads(ckpt)
        /\ rows' = LoadedRows(ckpt)
        /\ completed' = LoadedIds(ckpt)
        /\ pc' = "loop"
     \/ /\ ~Loads(ckpt)
        /\ rows' = <<>>
        /\ completed' = {}
        /\ pc' = "raised"
  /\ UNCHANGED <<protocol, files>>

SkipPair ==                             \* 90-92
  /\ pc = "loop"
  /\ index <= Len(Pairs)
  /\ Done(Pairs[index].id)
  /\ index' = index + 1
  /\ UNCHANGED <<protocol, files, pc, dataset, rows, completed, cache, used, starts>>

PairDue ==                              \* 89-96
  /\ pc = "loop"
  /\ index <= Len(Pairs)
  /\ ~Done(Pairs[index].id)

(* 94-130.  The base is extracted first; what is in the cache is not       *)
(* traced again.                                                           *)
ScorePair ==
  /\ PairDue
  /\ LET p == Pairs[index]
         base == IF cache[p.base] = "absent" THEN Extracted(p.base, used)
                 ELSE cache[p.base]
         used1 == used \/ UsedBy(p.base)
         cache1 == [cache EXCEPT ![p.base] = base]
         variant == IF cache1[p.variant] = "absent" THEN Extracted(p.variant, used1)
                    ELSE cache1[p.variant]
     IN /\ rows' = Append(rows, [pair |-> p.id, dataset |-> dataset,
                                 base |-> base, variant |-> variant])
        /\ cache' = [cache1 EXCEPT ![p.variant] = variant]
        /\ used' = (used1 \/ UsedBy(p.variant))
  /\ index' = index + 1
  /\ pc' = IF Len(rows') % CheckpointEvery = 0 THEN "save" ELSE "loop"
  /\ UNCHANGED <<protocol, files, dataset, completed, starts>>

Forget ==                               \* the process is gone
  /\ index' = 1 /\ rows' = <<>> /\ completed' = {} /\ cache' = EmptyCache /\ used' = FALSE

(* An exception leaves the loop and ends the process: from score_pair, or  *)
(* from what extract_program does not catch (extraction.py 381).           *)
ScoreRaises ==                          \* 94-96
  /\ PairDue
  /\ pc' = "failed"
  /\ Forget
  /\ UNCHANGED <<protocol, files, dataset, starts>>

(* A program that is not in the cache is imported, without a timeout, and  *)
(* traced; code of it that keeps the interpreter lock stops the process    *)
(* (run_chunked.py 3-6).  Only a kill ends that, see Crash.                *)
ScoreStalls ==                          \* 94-95
  /\ PairDue
  /\ "absent" \in {cache[Pairs[index].base], cache[Pairs[index].variant]}
  /\ pc' = "stalled"
  /\ UNCHANGED <<protocol, files, dataset, memory, starts>>

SaveOpens ==                            \* 72-73, 130
  /\ pc = "save"
  /\ ckpt' \in Partial(rows)
  /\ pc' = "saving"
  /\ UNCHANGED <<protocol, pairsFile, programsFile, dataset, memory, starts>>

SaveCloses ==                           \* 72-73
  /\ pc = "saving"
  /\ ckpt' = rows
  /\ pc' = "loop"
  /\ UNCHANGED <<protocol, pairsFile, programsFile, dataset, memory, starts>>

SortRows ==                             \* 138-142
  /\ pc = "loop"
  /\ index > Len(Pairs)
  /\ rows' = Sorted(rows)
  /\ pc' = "pairs"
  /\ UNCHANGED <<protocol, files, dataset, index, completed, cache, used, starts>>

PairsOpens ==                           \* 143
  /\ pc = "pairs"
  /\ pairsFile' \in Partial(rows)
  /\ pc' = "writing"
  /\ UNCHANGED <<protocol, ckpt, programsFile, dataset, memory, starts>>

PairsCloses ==                          \* 143
  /\ pc = "writing"
  /\ pairsFile' = rows
  /\ pc' = "programs"
  /\ UNCHANGED <<protocol, ckpt, programsFile, dataset, memory, starts>>

ProgramsOpens ==                        \* 145-155
  /\ pc = "programs"
  /\ programsFile' = {Torn}
  /\ pc' = "listing"
  /\ UNCHANGED <<protocol, ckpt, pairsFile, dataset, memory, starts>>

ProgramsCloses ==                       \* 145-155
  /\ pc = "listing"
  /\ programsFile' = {q \in Programs : cache[q] # "absent"}
  /\ pc' = "unlink"
  /\ UNCHANGED <<protocol, ckpt, pairsFile, dataset, memory, starts>>

Unlink ==                               \* 157-164
  /\ pc = "unlink"
  /\ ckpt' = <<>>
  /\ pc' = "done"
  /\ UNCHANGED <<protocol, pairsFile, programsFile, dataset, memory, starts>>

(* The process is killed; the files stay as they are.  The last start      *)
(* allowed is not cut short, so that what a start achieves can be stated.  *)
Crash ==
  /\ pc \notin {"off", "raised", "failed", "done"}
  /\ starts < MaxStarts
  /\ pc' = "off"
  /\ Forget
  /\ UNCHANGED <<protocol, files, dataset, starts>>

ProcessStep ==
  \/ SkipPair
  \/ ScorePair
  \/ ScoreRaises
  \/ ScoreStalls
  \/ SaveOpens
  \/ SaveCloses
  \/ SortRows
  \/ PairsOpens
  \/ PairsCloses
  \/ ProgramsOpens
  \/ ProgramsCloses
  \/ Unlink

Next == Start \/ ProcessStep \/ Crash

Spec == Init /\ [][Next]_vars

(* A process that is neither stalled nor killed takes its next step, which *)
(* may be to stall; the operator restarts one that has died, and nobody    *)
(* has to kill a stalled one or run a finished evaluation again.           *)
FairSpec ==
  /\ Spec
  /\ WF_vars(ProcessStep)
  /\ WF_vars(pc # "done" /\ Start)

-----------------------------------------------------------------------------
(* What one uninterrupted run in an empty directory writes.  Programs are  *)
(* traced in the order base, variant, base, variant of their first use.    *)

ProgramAt(d, n) ==
  LET p == Dataset[d][(n + 1) \div 2] IN IF n % 2 = 1 THEN p.base ELSE p.variant
FirstUse(d, q) ==
  CHOOSE n \in 1..(2 * Len(Dataset[d])) :
    /\ ProgramAt(d, n) = q
    /\ \A j \in 1..(n - 1) : ProgramAt(d, j) # q
FreshOutcome(d, q) ==
  Extracted(q, \E j \in 1..(FirstUse(d, q) - 1) : UsedBy(ProgramAt(d, j)))
FreshRow(d, i) ==
  [pair |-> Dataset[d][i].id, dataset |-> d,
   base |-> FreshOutcome(d, Dataset[d][i].base),
   variant |-> FreshOutcome(d, Dataset[d][i].variant)]
FreshRows(d) == [i \in DOMAIN Dataset[d] |-> FreshRow(d, i)]

-----------------------------------------------------------------------------
(* Properties.                                                             *)

TypeOK ==
  /\ protocol \in Protocols
  /\ ckpt \in Seq(Row \cup {Torn})
  /\ pairsFile \in Seq(Row \cup {Torn})
  /\ programsFile \subseteq Programs \cup {Torn}
  /\ pc \in {"off", "raised", "failed", "stalled", "loop", "save", "saving", "pairs", "writing",
             "programs", "listing", "unlink", "done"}
  /\ dataset \in Datasets
  /\ index \in 1..(Len(Pairs) + 1)
  /\ rows \in Seq(Row)
  /\ completed \subseteq PairIds
  /\ cache \in [Programs -> Outcomes \cup {"absent"}]
  /\ used \in BOOLEAN
  /\ starts \in 0..MaxStarts

(* tests/test_tracer_isolation.py 218: however often the evaluation died   *)
(* and was started again, what it finally writes is what a fresh run       *)
(* writes, every pair of the dataset exactly once and in order.  Under     *)
(* protocol published only a start that found no checkpoint keeps this:    *)
(* after a restart the inputs are pristine again.                          *)
ResumeReproduces ==
  pc = "done" /\ (SharedInputs => completed = {}) => pairsFile = FreshRows(dataset)

(* A pair whose row is in the checkpoint file is not traced again, not     *)
(* even in vain (same test: without re-executing completed pairs).         *)
NothingRescored ==
  [][ScorePair \/ ScoreRaises \/ ScoreStalls =>
       \A r \in Lines(ckpt) \ {Torn} : r.pair # Pairs[index].id]_vars

(* At every instant, in the middle of a write too, the lines of the        *)
(* checkpoint that are whole are rows of pairs of the dataset, none of     *)
(* them twice, and under the output-free protocols those of a fresh run.   *)
CheckpointSound ==
  /\ \A r \in Lines(ckpt) \ {Torn} : \E i \in DOMAIN Pairs :
       /\ r.pair = Pairs[i].id
       /\ SharedInputs \/ r = FreshRow(dataset, i)
  /\ \A j, k \in DOMAIN ckpt :
       ckpt[j] # Torn /\ ckpt[k] # Torn /\ ckpt[j].pair = ckpt[k].pair => j = k

(* When the loop over the dataset is over, the rows in memory are those of *)
(* its pairs, each exactly once, however often the process was restarted   *)
(* (run, 89-130); sorting and writing them is all that is left.            *)
EachPairOnce ==
  pc = "loop" /\ index > Len(Pairs) =>
    /\ \A i \in DOMAIN Pairs : \E k \in DOMAIN rows : rows[k].pair = Pairs[i].id
    /\ \A k \in DOMAIN rows : \E i \in DOMAIN Pairs : rows[k].pair = Pairs[i].id
    /\ \A j, k \in DOMAIN rows : rows[j].pair = rows[k].pair => j = k

(* The evaluation ends with its outputs written, unless scoring raises     *)
(* again and again or stalls for good, or a crash has cut a line of the    *)
(* checkpoint, which no later start gets past.                             *)
EvaluationEnds ==
  \/ <>(pc = "done")
  \/ []<>(pc = "failed")
  \/ <>[](pc = "stalled")
  \/ <>[](Torn \in Lines(ckpt))

-----------------------------------------------------------------------------
(* Claims made beside the code that the code does not keep.                *)

(* run_main_evaluation.py 24-26: a restart resumes where it left off.      *)
RestartResumes == pc # "raised"

(* run_main_evaluation.py 7-8: every pair of the split is in the output    *)
(* exactly once; so nothing else is.                                       *)
EveryPairOnce ==
  pc = "done" =>
    /\ Len(pairsFile) = Len(Pairs)
    /\ \A i \in DOMAIN Pairs : pairsFile[i].pair = Pairs[i].id
=============================================================================
