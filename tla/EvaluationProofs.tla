-------------------------- MODULE EvaluationProofs --------------------------
(***************************************************************************)
(* Machine-checked proofs about Evaluation on one dataset, for every       *)
(* dataset, checkpoint interval, set of programs and sequence of crashes.  *)
(***************************************************************************)
EXTENDS Evaluation, FiniteSetTheorems, SequenceTheorems, TLAPS

(* The operator always names the same dataset.                             *)
OneDataset == \A d, e \in Datasets : d = e

GoodRow(r) == \E i \in DOMAIN Pairs :
  /\ r.pair = Pairs[i].id
  /\ SharedInputs \/ r = FreshRow(dataset, i)

(* The pairs dealt with: their rows were loaded, or they come before index *)
(* in the dataset.                                                         *)
Passed == completed \cup {Pairs[j].id : j \in 1..(index - 1)}

Scoring == pc \in {"loop", "save", "saving"}

(* What the checkpoint file holds; this is what the next start relies on.  *)
FileInv ==
  /\ protocol \in Protocols
  /\ dataset \in Datasets
  /\ ckpt \in Seq(Row \cup {Torn})
  /\ CheckpointSound

(* A program's outcome in the cache is the one it always has, unless the   *)
(* programs share their inputs.                                            *)
CacheInv ==
  /\ cache \in [Programs -> Outcomes \cup {"absent"}]
  /\ \A q \in Programs : cache[q] # "absent" /\ ~SharedInputs => cache[q] = Extracted(q, FALSE)

(* While pairs are scored, memory holds one row for every pair passed, no  *)
(* other, and every whole line of the checkpoint is of a pair passed.      *)
RowsInv ==
  Scoring =>
    /\ rows \in Seq(Row)
    /\ \A k \in DOMAIN rows : GoodRow(rows[k]) /\ rows[k].pair \in Passed
    /\ \A j, k \in DOMAIN rows : rows[j].pair = rows[k].pair => j = k
    /\ \A id \in Passed : \E k \in DOMAIN rows : rows[k].pair = id
    /\ \A r \in Lines(ckpt) \ {Torn} : r.pair \in Passed

IndexInv == index \in Nat \ {0} /\ index <= Len(Pairs) + 1

Inv == FileInv /\ CacheInv /\ IndexInv /\ RowsInv

-----------------------------------------------------------------------------
(* A partially written file holds a prefix of what is written, and perhaps *)
(* a cut line after it.                                                    *)
LEMMA PartialPrefix ==
  ASSUME NEW rs \in Seq(Row), NEW f \in Partial(rs)
  PROVE  /\ f \in Seq(Row \cup {Torn})
         /\ \A k \in DOMAIN f : f[k] = Torn \/ (k \in DOMAIN rs /\ f[k] = rs[k])
<1>1. CASE \E n \in 0..Len(rs) : f = SubSeq(rs, 1, n)
  <2>1. PICK n \in 0..Len(rs) : f = SubSeq(rs, 1, n)
    BY <1>1
  <2>2. f \in Seq(Row) /\ Len(f) = n /\ \A k \in 1..n : f[k] = rs[k]
    BY <2>1
  <2> QED
    BY <2>1, <2>2
<1>2. CASE \E n \in 0..(Len(rs) - 1) : f = Append(SubSeq(rs, 1, n), Torn)
  <2>1. PICK n \in 0..(Len(rs) - 1) : f = Append(SubSeq(rs, 1, n), Torn)
    BY <1>2
  <2> DEFINE g == SubSeq(rs, 1, n)
  <2>2. g \in Seq(Row) /\ Len(g) = n /\ \A k \in 1..n : g[k] = rs[k]
    BY <2>1
  <2> HIDE DEF g
  <2>3. g \in Seq(Row \cup {Torn})
    BY <2>2
  <2>4. f = Append(g, Torn)
    BY <2>1 DEF g
  <2>5. /\ f \in Seq(Row \cup {Torn}) /\ DOMAIN f = 1..(n + 1)
        /\ f[n + 1] = Torn /\ \A k \in 1..n : f[k] = g[k]
    BY <2>2, <2>3, <2>4
  <2> QED
    BY <2>1, <2>2, <2>5
<1> QED
  BY <1>1, <1>2 DEF Partial

(* Whatever prefix of sound rows reaches the file, the file is sound.      *)
LEMMA SoundPrefix ==
  ASSUME NEW rs \in Seq(Row), NEW f,
         \A k \in DOMAIN f : f[k] = Torn \/ (k \in DOMAIN rs /\ f[k] = rs[k]),
         \A k \in DOMAIN rs : GoodRow(rs[k]),
         \A j, k \in DOMAIN rs : rs[j].pair = rs[k].pair => j = k
  PROVE  /\ \A r \in Lines(f) \ {Torn} : GoodRow(r)
         /\ \A r \in Lines(f) \ {Torn} : \E k \in DOMAIN rs : r = rs[k]
         /\ \A j, k \in DOMAIN f :
              f[j] # Torn /\ f[k] # Torn /\ f[j].pair = f[k].pair => j = k
BY DEF Lines

(* The outcome of a program does not depend on the order of extraction     *)
(* unless the inputs are shared.                                           *)
LEMMA OutcomeFixed ==
  ASSUME NEW q \in Programs, NEW u \in BOOLEAN
  PROVE  /\ Extracted(q, u) \in Outcomes
         /\ ~SharedInputs => Extracted(q, u) = Extracted(q, FALSE)
BY DEF Extracted, Outcomes

LEMMA FreshFixed ==
  ASSUME NEW d, NEW q \in Programs, ~SharedInputs
  PROVE  FreshOutcome(d, q) = Extracted(q, FALSE)
BY DEF FreshOutcome, Extracted

-----------------------------------------------------------------------------
(* The steps.                                                              *)

LEMMA DatasetFacts ==
  ASSUME dataset \in Datasets
  PROVE  /\ Pairs \in Seq([id : PairIds, base : Programs, variant : Programs])
         /\ Len(Pairs) \in Nat /\ DOMAIN Pairs = 1..Len(Pairs)
         /\ \A i, j \in DOMAIN Pairs : Pairs[i].id = Pairs[j].id => i = j
<1>1. /\ Pairs \in Seq([id : PairIds, base : Programs, variant : Programs])
      /\ \A i, j \in DOMAIN Pairs : Pairs[i].id = Pairs[j].id => i = j
  BY EvaluationAssumption DEF Pairs
<1> QED
  BY <1>1, LenProperties

LEMMA StartStep ==
  ASSUME OneDataset, Inv, Start
  PROVE  Inv'
<1>1. /\ protocol' = protocol /\ ckpt' = ckpt /\ dataset' \in Datasets
      /\ index' = 1 /\ cache' = EmptyCache
  BY DEF Start, files
<1>2. dataset' = dataset
  BY <1>1 DEF OneDataset, Inv, FileInv
<1>3. FileInv'
  BY <1>1, <1>2 DEF Inv, FileInv, CheckpointSound, Pairs, Lines, FreshRow,
                    FreshOutcome, Extracted, UsedBy, SharedInputs
<1>4. CacheInv' /\ IndexInv'
  BY <1>1, <1>2, DatasetFacts DEF CacheInv, IndexInv, EmptyCache, Inv, FileInv, Pairs
<1>5. RowsInv'
  <2> SUFFICES ASSUME pc' \in {"loop", "save", "saving"}
               PROVE  RowsInv'
    BY DEF RowsInv, Scoring
  <2>1. /\ Torn \notin Lines(ckpt) /\ rows' = ckpt
        /\ completed' = {r.pair : r \in Lines(ckpt)}
    BY DEF Start, Loads, LoadedRows, LoadedIds
  <2>2. ckpt \in Seq(Row \cup {Torn}) /\ \A k \in DOMAIN ckpt : ckpt[k] \in Row \cup {Torn}
    BY ElementOfSeq, LenProperties DEF Inv, FileInv
  <2>3. ckpt \in Seq(Row)
    <3>1. \A k \in 1..Len(ckpt) : ckpt[k] \in Row
      BY <2>1, <2>2, LenProperties DEF Lines
    <3> QED
      BY <2>2, <3>1, SeqDef, LenProperties
  <2>5. Passed' = {ckpt[k].pair : k \in DOMAIN ckpt}
    BY <1>1, <2>1 DEF Passed, Lines
  <2>6. \A k \in DOMAIN ckpt : GoodRow(ckpt[k])'
    BY <1>1, <1>2, <2>1 DEF Inv, FileInv, CheckpointSound, GoodRow, Lines, Pairs,
       FreshRow, FreshOutcome, Extracted, UsedBy, SharedInputs
  <2>7. \A j, k \in DOMAIN ckpt : ckpt[j].pair = ckpt[k].pair => j = k
    BY <2>1 DEF Inv, FileInv, CheckpointSound, Lines
  <2> QED
    BY <1>1, <2>1, <2>3, <2>5, <2>6, <2>7 DEF RowsInv, Lines
<1> QED
  BY <1>3, <1>4, <1>5 DEF Inv

(* A step that leaves the checkpoint, the dataset, the protocol and the    *)
(* cache alone and does not score keeps Inv if index stays in its range.   *)
LEMMA Frame ==
  ASSUME Inv, UNCHANGED <<protocol, dataset, ckpt, cache>>, IndexInv', ~Scoring'
  PROVE  Inv'
<1>1. FileInv'
  BY DEF Inv, FileInv, CheckpointSound, Pairs, Lines, FreshRow, FreshOutcome,
         Extracted, UsedBy, SharedInputs
<1>2. CacheInv'
  BY DEF Inv, CacheInv, Extracted, SharedInputs
<1> QED
  BY <1>1, <1>2 DEF Inv, RowsInv

LEMMA SkipPairStep ==
  ASSUME Inv, SkipPair
  PROVE  Inv'
<1>1. /\ UNCHANGED <<protocol, dataset, ckpt, cache, rows, completed, pc>>
      /\ index <= Len(Pairs) /\ index' = index + 1
      /\ pc = "loop" /\ Pairs[index].id \in completed
  BY DEF SkipPair, Done, files
<1>2. index \in Nat \ {0} /\ Len(Pairs) \in Nat
  BY DatasetFacts DEF Inv, FileInv, IndexInv
<1>3. FileInv'
  BY <1>1 DEF Inv, FileInv, CheckpointSound, Pairs, Lines, FreshRow, FreshOutcome,
              Extracted, UsedBy, SharedInputs
<1>4. CacheInv' /\ IndexInv'
  BY <1>1, <1>2 DEF Inv, CacheInv, IndexInv, Extracted, SharedInputs, Pairs
<1>5. Passed' = Passed
  <2>1. 1..(index' - 1) = 1..(index - 1) \cup {index}
    BY <1>1, <1>2
  <2> QED
    BY <1>1, <2>1 DEF Passed, Pairs
<1>6. \A k \in DOMAIN rows : Scoring /\ GoodRow(rows[k]) => GoodRow(rows[k])'
  BY <1>1 DEF GoodRow, Pairs, FreshRow, FreshOutcome, Extracted, UsedBy, SharedInputs
<1>7. RowsInv'
  BY <1>1, <1>5, <1>6 DEF Inv, RowsInv, Scoring, Lines
<1> QED
  BY <1>3, <1>4, <1>7 DEF Inv

(* The row that ScorePair appends, named so that the step can be argued    *)
(* about without expanding the order of the two extractions.               *)
LEMMA ScorePairRow ==
  ASSUME Inv, ScorePair
  PROVE  /\ \E r \in Row : /\ rows' = Append(rows, r)
                          /\ r.pair = Pairs[index].id
                          /\ GoodRow(r)
         /\ CacheInv'
<1> DEFINE p == Pairs[index]
           freshBase == Extracted(p.base, used)
           base == IF cache[p.base] = "absent" THEN freshBase ELSE cache[p.base]
           used1 == used \/ UsedBy(p.base)
           cache1 == [cache EXCEPT ![p.base] = base]
           freshVariant == Extracted(p.variant, used1)
           variant == IF cache1[p.variant] = "absent" THEN freshVariant
                      ELSE cache1[p.variant]
           r == [pair |-> p.id, dataset |-> dataset, base |-> base, variant |-> variant]
<1>1. rows' = Append(rows, r) /\ cache' = [cache1 EXCEPT ![p.variant] = variant]
  BY DEF ScorePair
<1>2. /\ dataset \in Datasets /\ protocol' = protocol
      /\ index \in DOMAIN Pairs
  BY DatasetFacts DEF Inv, FileInv, IndexInv, ScorePair, PairDue
<1>3. /\ p \in [id : PairIds, base : Programs, variant : Programs]
      /\ p.id \in PairIds /\ p.base \in Programs /\ p.variant \in Programs
  <2>1. p \in [id : PairIds, base : Programs, variant : Programs]
    BY <1>2, DatasetFacts, ElementOfSeq
  <2> QED
    BY <2>1
<1>4. cache \in [Programs -> Outcomes \cup {"absent"}]
  BY DEF Inv, CacheInv
<1>5. \A q \in Programs : cache[q] # "absent" /\ ~SharedInputs => cache[q] = Extracted(q, FALSE)
  BY DEF Inv, CacheInv
<1>6. /\ freshBase \in Outcomes /\ freshVariant \in Outcomes
      /\ ~SharedInputs => /\ freshBase = Extracted(p.base, FALSE)
                          /\ freshVariant = Extracted(p.variant, FALSE)
  BY DEF Extracted, Outcomes
<1> HIDE DEF freshBase, freshVariant
<1>7. base \in Outcomes /\ (~SharedInputs => base = Extracted(p.base, FALSE))
  BY <1>3, <1>4, <1>5, <1>6
<1> HIDE DEF base
<1>8. /\ cache1 \in [Programs -> Outcomes \cup {"absent"}]
      /\ \A q \in Programs : cache1[q] # "absent" /\ ~SharedInputs => cache1[q] = Extracted(q, FALSE)
  BY <1>3, <1>4, <1>5, <1>7
<1> HIDE DEF cache1, used1
<1>9. variant \in Outcomes /\ (~SharedInputs => variant = Extracted(p.variant, FALSE))
  BY <1>3, <1>8, <1>6
<1> HIDE DEF variant
<1>10. r \in Row
  BY <1>2, <1>3, <1>7, <1>9 DEF Row
<1>11. GoodRow(r)
  <2>1. ASSUME ~SharedInputs PROVE r = FreshRow(dataset, index)
    <3>1. /\ base = FreshOutcome(dataset, p.base)
          /\ variant = FreshOutcome(dataset, p.variant)
      BY <2>1, <1>3, <1>7, <1>9, FreshFixed
    <3> QED
      BY <3>1 DEF FreshRow, Pairs
  <2> QED
    BY <1>2, <2>1 DEF GoodRow
<1>12. CacheInv'
  <2>1. cache' \in [Programs -> Outcomes \cup {"absent"}]
    BY <1>1, <1>3, <1>8, <1>9
  <2>2. \A q \in Programs : cache'[q] # "absent" /\ ~SharedInputs => cache'[q] = Extracted(q, FALSE)
    BY <1>1, <1>3, <1>8, <1>9
  <2> QED
    BY <2>1, <2>2, <1>2 DEF CacheInv, SharedInputs, Extracted
<1> QED
  BY <1>1, <1>10, <1>11, <1>12

(* The pair due has not been passed.                                       *)
LEMMA NotPassed ==
  ASSUME Inv, PairDue
  PROVE  Pairs[index].id \notin Passed
<1>1. index \in 1..Len(Pairs) /\ Pairs[index].id \notin completed
  BY DatasetFacts DEF Inv, FileInv, IndexInv, PairDue, Done
<1>2. \A j \in 1..(index - 1) : j \in 1..Len(Pairs) /\ j # index
  BY <1>1, DatasetFacts DEF Inv, FileInv
<1> QED
  BY <1>1, <1>2, DatasetFacts DEF Inv, FileInv, Passed

LEMMA ScorePairStep ==
  ASSUME Inv, ScorePair
  PROVE  Inv'
<1>1. /\ UNCHANGED <<protocol, dataset, ckpt, completed>>
      /\ pc = "loop" /\ pc' \in {"save", "loop"}
      /\ index \in 1..Len(Pairs) /\ index' = index + 1
  BY DatasetFacts DEF ScorePair, PairDue, files, Inv, FileInv, IndexInv
<1>2. PICK r \in Row : /\ rows' = Append(rows, r)
                       /\ r.pair = Pairs[index].id
                       /\ GoodRow(r)
  BY ScorePairRow
<1>3. FileInv'
  BY <1>1 DEF Inv, FileInv, CheckpointSound, Pairs, Lines, FreshRow, FreshOutcome,
              Extracted, UsedBy, SharedInputs
<1>4. IndexInv'
  BY <1>1, DatasetFacts DEF Inv, FileInv, IndexInv, Pairs
<1>5. Passed' = Passed \cup {r.pair}
  <2>1. 1..(index' - 1) = 1..(index - 1) \cup {index}
    BY <1>1
  <2> QED
    BY <1>1, <1>2, <2>1 DEF Passed, Pairs
<1>6. /\ rows \in Seq(Row)
      /\ \A k \in DOMAIN rows : GoodRow(rows[k]) /\ rows[k].pair \in Passed
      /\ \A j, k \in DOMAIN rows : rows[j].pair = rows[k].pair => j = k
      /\ \A id \in Passed : \E k \in DOMAIN rows : rows[k].pair = id
      /\ \A l \in Lines(ckpt) \ {Torn} : l.pair \in Passed
  BY <1>1 DEF Inv, RowsInv, Scoring
<1>7. r.pair \notin Passed
  BY <1>2, NotPassed DEF ScorePair
<1>8. /\ rows' \in Seq(Row) /\ DOMAIN rows' = DOMAIN rows \cup {Len(rows) + 1}
      /\ Len(rows) + 1 \notin DOMAIN rows
      /\ \A k \in DOMAIN rows : rows'[k] = rows[k]
      /\ rows'[Len(rows) + 1] = r
  BY <1>2, <1>6, AppendProperties, LenProperties
<1>9. \A k \in DOMAIN rows' : GoodRow(rows'[k])
  BY <1>2, <1>6, <1>8
<1>10. \A k \in DOMAIN rows' : GoodRow(rows[k])'
  BY <1>1, <1>9 DEF GoodRow, Pairs, FreshRow, FreshOutcome, Extracted, UsedBy, SharedInputs
<1>11. /\ \A k \in DOMAIN rows' : rows'[k].pair \in Passed'
       /\ \A j, k \in DOMAIN rows' : rows'[j].pair = rows'[k].pair => j = k
       /\ \A id \in Passed' : \E k \in DOMAIN rows' : rows'[k].pair = id
  BY <1>5, <1>6, <1>7, <1>8
<1>12. \A l \in Lines(ckpt') \ {Torn} : l.pair \in Passed'
  BY <1>1, <1>5, <1>6
<1>13. RowsInv'
  BY <1>8, <1>10, <1>11, <1>12 DEF RowsInv, Lines
<1> QED
  BY <1>3, <1>4, <1>13, ScorePairRow DEF Inv

LEMMA SaveStep ==
  ASSUME Inv, SaveOpens \/ SaveCloses
  PROVE  Inv'
<1>1. /\ UNCHANGED <<protocol, dataset, index, rows, completed, cache>>
      /\ Scoring
  BY DEF SaveOpens, SaveCloses, memory, Scoring
<1>2. /\ rows \in Seq(Row)
      /\ \A k \in DOMAIN rows : GoodRow(rows[k]) /\ rows[k].pair \in Passed
      /\ \A j, k \in DOMAIN rows : rows[j].pair = rows[k].pair => j = k
      /\ \A id \in Passed : \E k \in DOMAIN rows : rows[k].pair = id
  BY <1>1 DEF Inv, RowsInv
<1>3. /\ ckpt' \in Seq(Row \cup {Torn})
      /\ \A k \in DOMAIN ckpt' : \/ ckpt'[k] = Torn
                                 \/ k \in DOMAIN rows /\ ckpt'[k] = rows[k]
  <2>1. CASE SaveOpens
    BY <1>2, <2>1, PartialPrefix DEF SaveOpens
  <2>2. CASE SaveCloses
    BY <1>2, <2>2 DEF SaveCloses
  <2> QED
    BY <2>1, <2>2
<1>4. /\ \A r \in Lines(ckpt') \ {Torn} : GoodRow(r)
      /\ \A r \in Lines(ckpt') \ {Torn} : r.pair \in Passed
      /\ \A j, k \in DOMAIN ckpt' :
           ckpt'[j] # Torn /\ ckpt'[k] # Torn /\ ckpt'[j].pair = ckpt'[k].pair => j = k
  BY <1>2, <1>3 DEF Lines
<1>5. FileInv'
  BY <1>1, <1>3, <1>4 DEF Inv, FileInv, CheckpointSound, GoodRow, Pairs, FreshRow,
     FreshOutcome, Extracted, UsedBy, SharedInputs, Lines
<1>6. CacheInv' /\ IndexInv'
  BY <1>1 DEF Inv, CacheInv, IndexInv, Extracted, SharedInputs, Pairs
<1>7. Passed' = Passed
  BY <1>1 DEF Passed, Pairs
<1>8. \A k \in DOMAIN rows : GoodRow(rows[k])'
  BY <1>1, <1>2 DEF GoodRow, Pairs, FreshRow, FreshOutcome, Extracted, UsedBy, SharedInputs
<1>9. RowsInv'
  BY <1>1, <1>2, <1>4, <1>7, <1>8 DEF RowsInv, Lines
<1> QED
  BY <1>5, <1>6, <1>9 DEF Inv

(* Sorting, the output files and a crash end the scoring and leave the     *)
(* checkpoint alone; the removal of the checkpoint leaves no line at all.  *)
LEMMA OutputStep ==
  ASSUME Inv, SortRows \/ PairsOpens \/ PairsCloses \/ ProgramsOpens \/ ProgramsCloses
  PROVE  Inv'
<1>1. UNCHANGED <<protocol, dataset, ckpt, cache, index>> /\ ~Scoring'
  BY DEF SortRows, PairsOpens, PairsCloses, ProgramsOpens, ProgramsCloses, files,
         memory, Scoring
<1> QED
  BY <1>1, Frame DEF Inv, IndexInv, Pairs

(* A pair that stalls leaves everything as it is.                          *)
LEMMA StallStep ==
  ASSUME Inv, ScoreStalls
  PROVE  Inv'
<1>1. UNCHANGED <<protocol, dataset, ckpt, cache, index>> /\ ~Scoring'
  BY DEF ScoreStalls, files, memory, Scoring
<1> QED
  BY <1>1, Frame DEF Inv, IndexInv, Pairs

LEMMA UnlinkStep ==
  ASSUME Inv, Unlink
  PROVE  Inv'
<1>1. /\ UNCHANGED <<protocol, dataset, cache, index>> /\ ~Scoring'
      /\ ckpt' = <<>>
  BY DEF Unlink, memory, Scoring
<1>2. FileInv'
  BY <1>1 DEF Inv, FileInv, CheckpointSound, Lines
<1>3. CacheInv' /\ IndexInv'
  BY <1>1 DEF Inv, CacheInv, IndexInv, Extracted, SharedInputs, Pairs
<1> QED
  BY <1>1, <1>2, <1>3 DEF Inv, RowsInv

LEMMA CrashStep ==
  ASSUME Inv, Crash \/ ScoreRaises
  PROVE  Inv'
<1>1. /\ UNCHANGED <<protocol, dataset, ckpt>> /\ ~Scoring'
      /\ cache' = EmptyCache /\ index' = 1
  BY DEF Crash, ScoreRaises, Forget, files, Scoring
<1>2. FileInv'
  BY <1>1 DEF Inv, FileInv, CheckpointSound, Pairs, Lines, FreshRow, FreshOutcome,
              Extracted, UsedBy, SharedInputs
<1>3. CacheInv' /\ IndexInv'
  BY <1>1, DatasetFacts DEF Inv, FileInv, CacheInv, IndexInv, EmptyCache, Pairs
<1> QED
  BY <1>1, <1>2, <1>3 DEF Inv, RowsInv

LEMMA StutterStep ==
  ASSUME Inv, UNCHANGED vars
  PROVE  Inv'
BY DEF vars, files, memory, Inv, FileInv, CacheInv, IndexInv, RowsInv, CheckpointSound,
       Scoring, Passed, GoodRow, Pairs, Lines, FreshRow, FreshOutcome, Extracted, UsedBy,
       SharedInputs

-----------------------------------------------------------------------------
LEMMA InitInv ==
  ASSUME Init
  PROVE  Inv
<1>1. FileInv
  BY DEF Init, FileInv, CheckpointSound, Lines
<1>2. CacheInv /\ IndexInv
  BY <1>1, DatasetFacts DEF Init, FileInv, CacheInv, IndexInv, EmptyCache
<1> QED
  BY <1>1, <1>2 DEF Init, Inv, RowsInv, Scoring

LEMMA InvStep ==
  ASSUME OneDataset, Inv, [Next]_vars
  PROVE  Inv'
BY StartStep, SkipPairStep, ScorePairStep, SaveStep, OutputStep, StallStep, UnlinkStep,
   CrashStep, StutterStep DEF Next, ProcessStep

LEMMA InvAlways ==
  ASSUME OneDataset
  PROVE  Spec => []Inv
<1>1. Init => Inv
  BY InitInv
<1>2. Inv /\ [Next]_vars => Inv'
  BY InvStep
<1> QED
  BY <1>1, <1>2, PTL DEF Spec

(* Whatever the crashes, the whole lines of the checkpoint file are rows   *)
(* of the dataset's pairs, none twice, and under the output-free protocols *)
(* the rows an uninterrupted run computes (_write_checkpoint, 72-73).      *)
THEOREM CheckpointAlwaysSound ==
  ASSUME OneDataset
  PROVE  Spec => []CheckpointSound
<1>1. Inv => CheckpointSound
  BY DEF Inv, FileInv
<1> QED
  BY <1>1, InvAlways, PTL

(* No pair whose row is in the checkpoint file is traced again (75-92).    *)
THEOREM CheckpointedPairsSkipped ==
  ASSUME OneDataset
  PROVE  Spec => NothingRescored
<1>1. Inv /\ PairDue => \A r \in Lines(ckpt) \ {Torn} : r.pair # Pairs[index].id
  BY NotPassed DEF Inv, RowsInv, Scoring, PairDue
<1>2. Inv /\ [Next]_vars =>
        [ScorePair \/ ScoreRaises \/ ScoreStalls =>
           \A r \in Lines(ckpt) \ {Torn} : r.pair # Pairs[index].id]_vars
  BY <1>1 DEF ScorePair, ScoreRaises, ScoreStalls
<1> QED
  BY <1>2, InvAlways, PTL DEF Spec, NothingRescored

(* The loop is over only when every pair has been passed, so what is       *)
(* sorted are the rows of the pairs, each once.                            *)
LEMMA OnceEach ==
  ASSUME Inv
  PROVE  EachPairOnce
<1>1. ASSUME pc = "loop", index > Len(Pairs)
      PROVE  \A i \in DOMAIN Pairs : Pairs[i].id \in Passed
  <2>1. DOMAIN Pairs \subseteq 1..(index - 1)
    BY <1>1, DatasetFacts DEF Inv, FileInv, IndexInv
  <2> QED
    BY <2>1 DEF Passed
<1> QED
  BY <1>1 DEF Inv, RowsInv, Scoring, GoodRow, EachPairOnce

(* When the loop over the dataset is over, the rows in memory are those of *)
(* its pairs, each exactly once, however often the process was restarted.  *)
THEOREM LoopEndsWithEachPairOnce ==
  ASSUME OneDataset
  PROVE  Spec => []EachPairOnce
BY OnceEach, InvAlways, PTL

-----------------------------------------------------------------------------
(* What the run finally writes.                                            *)

LEMMA UpToCount ==
  ASSUME NEW n \in Nat
  PROVE  IsFiniteSet(1..n) /\ Cardinality(1..n) = n
<1>1. /\ IsFiniteSet(1..n)
      /\ Cardinality(1..n) = IF 1 > n THEN 0 ELSE n - 1 + 1
  BY FS_Interval
<1> QED
  BY <1>1

(* rows.sort puts rows that are one per pair into the order of the dataset.*)
LEMMA SortedByPair ==
  ASSUME dataset \in Datasets, NEW rs \in Seq(Row),
         \A k \in DOMAIN rs : \E i \in DOMAIN Pairs : rs[k].pair = Pairs[i].id,
         \A i \in DOMAIN Pairs : \E k \in DOMAIN rs : rs[k].pair = Pairs[i].id,
         \A j, k \in DOMAIN rs : rs[j].pair = rs[k].pair => j = k
  PROVE  /\ Sorted(rs) = [n \in DOMAIN Pairs |-> Sorted(rs)[n]]
         /\ \A n \in DOMAIN Pairs :
              \E k \in DOMAIN rs : Sorted(rs)[n] = rs[k] /\ rs[k].pair = Pairs[n].id
<1> DEFINE D == 1..Len(rs)
           N == Len(Pairs)
           K == [k \in D |-> Key(rs[k])]
<1>1. /\ DOMAIN rs = D /\ Len(rs) \in Nat /\ N \in Nat /\ DOMAIN Pairs = 1..N
      /\ \A i, j \in 1..N : Pairs[i].id = Pairs[j].id => i = j
  BY DatasetFacts, LenProperties
<1>2. \A k \in D : K[k] \in 1..N /\ rs[k].pair = Pairs[K[k]].id
  BY <1>1 DEF Key
<1>5. K \in [D -> 1..N] /\ \A k \in D : Key(rs[k]) = K[k]
  BY <1>2
<1> HIDE DEF K
<1>3. \A j, k \in D : K[j] = K[k] => j = k
  <2> SUFFICES ASSUME NEW j \in D, NEW k \in D, K[j] = K[k] PROVE j = k
    OBVIOUS
  <2>1. rs[j].pair = rs[k].pair
    BY <1>2
  <2> QED
    BY <1>1, <2>1
<1>4. \A n \in 1..N : \E k \in D : K[k] = n
  <2> SUFFICES ASSUME NEW n \in 1..N PROVE \E k \in D : K[k] = n
    OBVIOUS
  <2>1. PICK k \in D : rs[k].pair = Pairs[n].id
    BY <1>1
  <2>2. K[k] = n
    BY <1>1, <1>2, <2>1
  <2> QED
    BY <2>2
<1>9. IsFiniteSet(D) /\ Cardinality(D) = Len(rs) /\ Cardinality(1..N) = N
  BY <1>1, UpToCount
<1>6. ASSUME NEW k \in D
      PROVE  Rank(rs, k) = K[k]
  <2> DEFINE J == {j \in D : K[j] <= K[k]}
             g == [j \in J |-> K[j]]
  <2>1. {j \in DOMAIN rs : \/ Key(rs[j]) < Key(rs[k])
                           \/ Key(rs[j]) = Key(rs[k]) /\ j <= k} = J
    BY <1>1, <1>2, <1>3, <1>5, SMTT(30)
  <2>2. g \in Bijection(J, 1..K[k])
    <3>1. g \in [J -> 1..K[k]]
      BY <1>2
    <3>2. \A i, j \in J : g[i] = g[j] => i = j
      BY <1>3
    <3>3. ASSUME NEW n \in 1..K[k]
          PROVE  \E j \in J : g[j] = n
      <4>1. n \in 1..N
        BY <1>1, <1>2
      <4> QED
        BY <1>4, <4>1
    <3> HIDE DEF g, J
    <3> QED
      BY <3>1, <3>2, <3>3 DEF Bijection, Injection, IsInjective, Surjection
  <2>3. IsFiniteSet(J)
    <3>1. J \in SUBSET D
      OBVIOUS
    <3> QED
      BY <1>9, <3>1, FS_Subset
  <2>4. Cardinality(1..K[k]) = Cardinality(J)
    BY <2>2, <2>3, FS_Bijection DEF ExistsBijection
  <2>5. Cardinality(1..K[k]) = K[k]
    BY <1>1, <1>2, UpToCount
  <2> QED
    BY <2>1, <2>4, <2>5 DEF Rank
<1>7. D = 1..N
  <2>2. K \in Bijection(D, 1..N)
    BY <1>3, <1>4, <1>5 DEF Bijection, Injection, IsInjective, Surjection
  <2> QED
    BY <1>1, <1>9, <2>2, FS_Bijection DEF ExistsBijection
<1>8. ASSUME NEW n \in 1..N
      PROVE  \E k \in D : Sorted(rs)[n] = rs[k] /\ rs[k].pair = Pairs[n].id
  <2>1. PICK k \in D : K[k] = n
    BY <1>4
  <2>2. (CHOOSE j \in DOMAIN rs : Rank(rs, j) = n) = k
    BY <1>1, <1>3, <1>6, <2>1
  <2>3. Sorted(rs)[n] = rs[k]
    BY <1>1, <1>7, <2>2 DEF Sorted
  <2> QED
    BY <1>2, <2>1, <2>3
<1>10. Sorted(rs) = [n \in DOMAIN Pairs |-> Sorted(rs)[n]]
  <2>1. DOMAIN rs = DOMAIN Pairs
    BY <1>1, <1>7
  <2> DEFINE at(n) == rs[CHOOSE k \in DOMAIN rs : Rank(rs, k) = n]
  <2>2. Sorted(rs) = [n \in DOMAIN rs |-> at(n)]
    BY DEF Sorted
  <2> HIDE DEF at
  <2> QED
    BY <2>1, <2>2
<1> QED
  BY <1>1, <1>8, <1>10

-----------------------------------------------------------------------------
(* The extraction of programs in a run that began without a checkpoint.    *)

(* After the first n extractions or looks into the cache, that cache c and *)
(* state of the inputs u are those of an uninterrupted run.                *)
History(c, u, n) ==
  /\ c \in [Programs -> Outcomes \cup {"absent"}]
  /\ u \in BOOLEAN
  /\ \A q \in Programs : c[q] # "absent" <=> \E j \in 1..n : ProgramAt(dataset, j) = q
  /\ \A q \in Programs : c[q] # "absent" => c[q] = FreshOutcome(dataset, q)
  /\ u = \E j \in 1..n : UsedBy(ProgramAt(dataset, j))

(* The position of a first use is where the outcome is decided.            *)
LEMMA FirstUseHere ==
  ASSUME dataset \in Datasets, NEW n \in Nat, n < 2 * Len(Pairs),
         NEW q, ProgramAt(dataset, n + 1) = q,
         \A j \in 1..n : ProgramAt(dataset, j) # q
  PROVE  FreshOutcome(dataset, q) =
           Extracted(q, \E j \in 1..n : UsedBy(ProgramAt(dataset, j)))
<1>1. Len(Pairs) \in Nat /\ Pairs = Dataset[dataset]
  BY DatasetFacts DEF Pairs
<1>2. n + 1 \in 1..(2 * Len(Dataset[dataset])) /\ (n + 1) - 1 = n
  BY <1>1
<1>3. ASSUME NEW m \in 1..(2 * Len(Dataset[dataset])), ProgramAt(dataset, m) = q,
             \A j \in 1..(m - 1) : ProgramAt(dataset, j) # q
      PROVE  m = n + 1
  <2>1. m \in Nat \ {0}
    BY <1>1, <1>3
  <2>2. CASE m <= n
    BY <1>3, <2>1, <2>2
  <2>3. CASE m > n + 1
    <3>1. n + 1 \in 1..(m - 1)
      BY <2>1, <2>3
    <3> QED
      BY <1>3, <3>1
  <2> QED
    BY <2>1, <2>2, <2>3
<1>4. FirstUse(dataset, q) = n + 1
  BY <1>2, <1>3 DEF FirstUse
<1> QED
  BY <1>2, <1>4 DEF FreshOutcome

(* One more extraction, or look into the cache.                            *)
LEMMA OneExtraction ==
  ASSUME dataset \in Datasets, NEW c, NEW u, NEW n \in Nat, n < 2 * Len(Pairs),
         History(c, u, n), NEW q \in Programs, q = ProgramAt(dataset, n + 1),
         NEW o, o = IF c[q] = "absent" THEN Extracted(q, u) ELSE c[q]
  PROVE  /\ History([c EXCEPT ![q] = o], u \/ UsedBy(q), n + 1)
         /\ o = FreshOutcome(dataset, q)
         /\ o \in Outcomes
<1> DEFINE c1 == [c EXCEPT ![q] = o]
<1>1. /\ c \in [Programs -> Outcomes \cup {"absent"}] /\ u \in BOOLEAN
      /\ \A p \in Programs : c[p] # "absent" <=> \E j \in 1..n : ProgramAt(dataset, j) = p
      /\ \A p \in Programs : c[p] # "absent" => c[p] = FreshOutcome(dataset, p)
      /\ u = \E j \in 1..n : UsedBy(ProgramAt(dataset, j))
  BY DEF History
<1>2. o = FreshOutcome(dataset, q)
  BY <1>1, FirstUseHere
<1>3. o \in Outcomes
  <2>1. Extracted(q, u) \in Outcomes
    BY <1>1, OutcomeFixed
  <2> QED
    BY <1>1, <2>1
<1>4. 1..(n + 1) = 1..n \cup {n + 1}
  OBVIOUS
<1>5. c1 \in [Programs -> Outcomes \cup {"absent"}] /\ (u \/ UsedBy(q)) \in BOOLEAN
  BY <1>1, <1>3
<1>6. \A p \in Programs : c1[p] = IF p = q THEN o ELSE c[p]
  BY <1>1
<1>7. o # "absent"
  BY <1>3 DEF Outcomes
<1> HIDE DEF c1
<1>8. \A p \in Programs : c1[p] # "absent" <=> \E j \in 1..(n + 1) : ProgramAt(dataset, j) = p
  BY <1>1, <1>4, <1>6, <1>7
<1>9. \A p \in Programs : c1[p] # "absent" => c1[p] = FreshOutcome(dataset, p)
  BY <1>1, <1>2, <1>6
<1>10. (u \/ UsedBy(q)) = \E j \in 1..(n + 1) : UsedBy(ProgramAt(dataset, j))
  BY <1>1, <1>4
<1>11. History(c1, u \/ UsedBy(q), n + 1)
  BY <1>5, <1>8, <1>9, <1>10 DEF History
<1> QED
  BY <1>2, <1>3, <1>11 DEF c1

(* The programs of a pair are the two that the sequence of programs has    *)
(* at its place.                                                           *)
LEMMA PairPrograms ==
  ASSUME NEW i \in Nat \ {0}
  PROVE  /\ ProgramAt(dataset, 2 * (i - 1) + 1) = Pairs[i].base
         /\ ProgramAt(dataset, 2 * (i - 1) + 1 + 1) = Pairs[i].variant
<1>1. /\ ((2 * (i - 1) + 1) + 1) \div 2 = i /\ (2 * (i - 1) + 1) % 2 = 1
      /\ ((2 * (i - 1) + 1 + 1) + 1) \div 2 = i /\ (2 * (i - 1) + 1 + 1) % 2 = 0
  OBVIOUS
<1> QED
  BY <1>1 DEF ProgramAt, Pairs

(* While pairs are scored, a run that found no checkpoint has the history  *)
(* of an uninterrupted run, and its rows.  Without shared inputs the rows  *)
(* are those of such a run in any case (GoodRow).                          *)
HistoryInv ==
  Scoring /\ SharedInputs /\ completed = {} =>
    /\ History(cache, used, 2 * (index - 1))
    /\ \A k \in DOMAIN rows : \E i \in DOMAIN Pairs : rows[k] = FreshRow(dataset, i)

LEMMA HistoryOfPair ==
  ASSUME Inv, ScorePair, History(cache, used, 2 * (index - 1))
  PROVE  /\ History(cache', used', 2 * index)
         /\ rows' = Append(rows, FreshRow(dataset, index))
         /\ FreshRow(dataset, index) \in Row
<1> DEFINE p == Pairs[index]
           base == IF cache[p.base] = "absent" THEN Extracted(p.base, used)
                   ELSE cache[p.base]
           used1 == used \/ UsedBy(p.base)
           cache1 == [cache EXCEPT ![p.base] = base]
           variant == IF cache1[p.variant] = "absent" THEN Extracted(p.variant, used1)
                      ELSE cache1[p.variant]
           n == 2 * (index - 1)
<1>1. /\ rows' = Append(rows, [pair |-> p.id, dataset |-> dataset,
                               base |-> base, variant |-> variant])
      /\ cache' = [cache1 EXCEPT ![p.variant] = variant]
      /\ used' = (used1 \/ UsedBy(p.variant))
  BY DEF ScorePair
<1>2. /\ dataset \in Datasets /\ index \in DOMAIN Pairs /\ index \in Nat \ {0}
      /\ index <= Len(Pairs) /\ Len(Pairs) \in Nat
  BY DatasetFacts DEF Inv, FileInv, IndexInv, ScorePair, PairDue
<1>3. p.base \in Programs /\ p.variant \in Programs /\ p.id \in PairIds
  <2>1. p \in [id : PairIds, base : Programs, variant : Programs]
    BY <1>2, DatasetFacts, ElementOfSeq
  <2> QED
    BY <2>1
<1>4. n \in Nat /\ n + 1 \in Nat /\ n < 2 * Len(Pairs) /\ n + 1 < 2 * Len(Pairs)
      /\ n + 1 + 1 = 2 * index
  BY <1>2
<1>5. ProgramAt(dataset, n + 1) = p.base /\ ProgramAt(dataset, n + 1 + 1) = p.variant
  BY <1>2, PairPrograms
<1> HIDE DEF n, p
<1>6. /\ History(cache1, used1, n + 1)
      /\ base = FreshOutcome(dataset, p.base) /\ base \in Outcomes
  BY <1>2, <1>3, <1>4, <1>5, OneExtraction DEF n
<1> HIDE DEF base, cache1, used1
<1>7. /\ History([cache1 EXCEPT ![p.variant] = variant], used1 \/ UsedBy(p.variant), n + 1 + 1)
      /\ variant = FreshOutcome(dataset, p.variant) /\ variant \in Outcomes
  BY <1>2, <1>3, <1>4, <1>5, <1>6, OneExtraction
<1> HIDE DEF variant
<1>8. rows' = Append(rows, FreshRow(dataset, index))
  BY <1>1, <1>6, <1>7 DEF FreshRow, Pairs, p
<1>9. FreshRow(dataset, index) \in Row
  BY <1>2, <1>3, <1>6, <1>7 DEF FreshRow, Pairs, p, Row
<1> QED
  BY <1>1, <1>4, <1>7, <1>8, <1>9

(* History speaks of the dataset and the protocol only.                    *)
LEMMA HistoryStays ==
  ASSUME UNCHANGED <<dataset, protocol>>, History(cache', used', 2 * (index' - 1))
  PROVE  History(cache, used, 2 * (index - 1))'
BY DEF History, FreshOutcome, Extracted, UsedBy, SharedInputs

LEMMA HistoryStep ==
  ASSUME OneDataset, Inv, HistoryInv, [Next]_vars
  PROVE  HistoryInv'
<1> SUFFICES ASSUME Scoring', SharedInputs', completed' = {}
             PROVE  /\ History(cache, used, 2 * (index - 1))'
                    /\ \A k \in DOMAIN rows' : \E i \in DOMAIN Pairs' :
                         rows'[k] = FreshRow(dataset, i)'
  BY DEF HistoryInv
<1>1. protocol' = protocol /\ dataset' = dataset /\ SharedInputs
  <2>1. protocol' = protocol
    BY DEF Next, ProcessStep, Start, SkipPair, ScorePair, SaveOpens, SaveCloses, SortRows,
       PairsOpens, PairsCloses, ProgramsOpens, ProgramsCloses, Unlink, Crash, ScoreRaises, ScoreStalls, Forget, vars
  <2>2. dataset' = dataset
    BY DEF Next, ProcessStep, Start, SkipPair, ScorePair, SaveOpens, SaveCloses, SortRows,
       PairsOpens, PairsCloses, ProgramsOpens, ProgramsCloses, Unlink, Crash, ScoreRaises, ScoreStalls, Forget, vars,
       OneDataset, Inv, FileInv
  <2> QED
    BY <2>1, <2>2 DEF SharedInputs
<1>2. \A i : FreshRow(dataset, i)' = FreshRow(dataset, i) /\ Pairs' = Pairs
  BY <1>1 DEF FreshRow, FreshOutcome, Extracted, UsedBy, SharedInputs, Pairs
<1>3. CASE Start
  <2>1. pc' = "loop" /\ rows' = ckpt /\ completed' = {r.pair : r \in Lines(ckpt)}
        /\ cache' = EmptyCache /\ used' = FALSE /\ index' = 1
    BY <1>3 DEF Start, Scoring, LoadedRows, LoadedIds
  <2>2. DOMAIN rows' = {}
    BY <2>1 DEF Lines
  <2>3. History(EmptyCache, FALSE, 0)
    BY DEF History, EmptyCache
  <2>4. History(cache', used', 2 * (index' - 1))
    <3>1. 2 * (index' - 1) = 0
      BY <2>1
    <3> QED
      BY <2>1, <2>3, <3>1
  <2> QED
    BY <1>1, <2>2, <2>4, HistoryStays
<1>4. CASE SkipPair
  BY <1>4 DEF SkipPair, Done
<1>5. CASE ScorePair
  <2>1. /\ completed = {} /\ Scoring /\ index' = index + 1
        /\ index \in DOMAIN Pairs /\ index \in Nat
    BY <1>5, DatasetFacts DEF ScorePair, PairDue, Scoring, Inv, FileInv, IndexInv
  <2>2. /\ History(cache, used, 2 * (index - 1))
        /\ \A k \in DOMAIN rows : \E i \in DOMAIN Pairs : rows[k] = FreshRow(dataset, i)
        /\ rows \in Seq(Row)
    BY <1>1, <2>1 DEF HistoryInv, Inv, RowsInv
  <2>3. /\ History(cache', used', 2 * index)
        /\ rows' = Append(rows, FreshRow(dataset, index))
    BY <1>5, <2>2, HistoryOfPair
  <2>4. index' - 1 = index
    BY <2>1
  <2>5. \A k \in DOMAIN rows' : \E i \in DOMAIN Pairs : rows'[k] = FreshRow(dataset, i)
    <3>1. /\ DOMAIN rows' = 1..(Len(rows) + 1) /\ DOMAIN rows = 1..Len(rows)
          /\ Len(rows) \in Nat
          /\ rows'[Len(rows) + 1] = FreshRow(dataset, index)
          /\ \A k \in 1..Len(rows) : rows'[k] = rows[k]
      BY <1>5, <2>2, <2>3, HistoryOfPair, AppendProperties, LenProperties
    <3> QED
      BY <2>1, <2>2, <3>1
  <2> QED
    BY <1>1, <1>2, <2>3, <2>4, <2>5, HistoryStays
<1>6. CASE SaveOpens \/ SaveCloses \/ UNCHANGED vars
  <2>1. UNCHANGED memory /\ Scoring
    BY <1>6 DEF SaveOpens, SaveCloses, vars, Scoring
  <2>2. /\ UNCHANGED <<cache, used, index, rows>> /\ completed = {}
    BY <2>1 DEF memory
  <2>3. /\ History(cache, used, 2 * (index - 1))
        /\ \A k \in DOMAIN rows : \E i \in DOMAIN Pairs : rows[k] = FreshRow(dataset, i)
    BY <1>1, <2>1, <2>2 DEF HistoryInv
  <2>4. History(cache', used', 2 * (index' - 1))
    BY <2>2, <2>3
  <2> QED
    BY <1>1, <1>2, <2>2, <2>3, <2>4, HistoryStays
<1>7. CASE \/ SortRows \/ PairsOpens \/ PairsCloses \/ ProgramsOpens \/ ProgramsCloses
           \/ Unlink \/ Crash \/ ScoreRaises \/ ScoreStalls
  BY <1>7 DEF SortRows, PairsOpens, PairsCloses, ProgramsOpens, ProgramsCloses, Unlink,
     Crash, ScoreRaises, ScoreStalls, Scoring
<1> QED
  BY <1>3, <1>4, <1>5, <1>6, <1>7 DEF Next, ProcessStep

-----------------------------------------------------------------------------
LEMMA SortedRows ==
  ASSUME Inv, SortRows
  PROVE  /\ rows' = [n \in DOMAIN Pairs |-> rows'[n]]
         /\ \A n \in DOMAIN Pairs :
              \E k \in DOMAIN rows : rows'[n] = rows[k] /\ rows[k].pair = Pairs[n].id
         /\ rows' \in Seq(Row)
<1>1. /\ pc = "loop" /\ index > Len(Pairs) /\ rows' = Sorted(rows) /\ dataset \in Datasets
      /\ rows \in Seq(Row)
  BY DEF SortRows, Inv, FileInv, RowsInv, Scoring
<1>2. /\ rows' = [n \in DOMAIN Pairs |-> rows'[n]]
      /\ \A n \in DOMAIN Pairs :
           \E k \in DOMAIN rows : rows'[n] = rows[k] /\ rows[k].pair = Pairs[n].id
  BY <1>1, OnceEach, SortedByPair DEF EachPairOnce
<1>3. /\ DOMAIN Pairs = 1..Len(Pairs) /\ Len(Pairs) \in Nat
      /\ DOMAIN rows = 1..Len(rows) /\ \A k \in DOMAIN rows : rows[k] \in Row
  BY <1>1, DatasetFacts, LenProperties, ElementOfSeq
<1>4. \A n \in 1..Len(Pairs) : rows'[n] \in Row
  BY <1>2, <1>3
<1>5. rows' \in Seq(Row)
  <2> DEFINE r == rows'
  <2>1. r = [n \in 1..Len(Pairs) |-> r[n]] /\ \A n \in 1..Len(Pairs) : r[n] \in Row
    BY <1>2, <1>3, <1>4
  <2> HIDE DEF r
  <2>2. r \in [1..Len(Pairs) -> Row]
    BY <2>1
  <2>3. r \in Seq(Row)
    BY <1>3, <2>2, SeqDef
  <2> QED
    BY <2>3 DEF r
<1> QED
  BY <1>2, <1>5

(* What has been sorted, and then written, is what an uninterrupted run    *)
(* writes; with shared inputs, if no checkpoint was found.                 *)
OutputInv ==
  (SharedInputs => completed = {}) =>
    /\ pc \in {"pairs", "writing"} => rows = FreshRows(dataset)
    /\ pc \in {"programs", "listing", "unlink", "done"} => pairsFile = FreshRows(dataset)

LEMMA SortFresh ==
  ASSUME Inv, HistoryInv, SortRows, SharedInputs => completed = {}
  PROVE  rows' = FreshRows(dataset)
<1>1. /\ Scoring /\ dataset \in Datasets
      /\ \A k \in DOMAIN rows : \E i \in DOMAIN Pairs :
           rows[k] = FreshRow(dataset, i) /\ rows[k].pair = Pairs[i].id
  <2>1. Scoring /\ dataset \in Datasets /\ \A k \in DOMAIN rows : GoodRow(rows[k])
    BY DEF SortRows, Inv, FileInv, RowsInv, Scoring
  <2>2. \A i \in DOMAIN Pairs : FreshRow(dataset, i).pair = Pairs[i].id
    BY DEF FreshRow, Pairs
  <2> QED
    BY <2>1, <2>2 DEF HistoryInv, GoodRow
<1>2. \A n \in DOMAIN Pairs : rows'[n] = FreshRow(dataset, n)
  <2> SUFFICES ASSUME NEW n \in DOMAIN Pairs PROVE rows'[n] = FreshRow(dataset, n)
    OBVIOUS
  <2>1. PICK k \in DOMAIN rows : rows'[n] = rows[k] /\ rows[k].pair = Pairs[n].id
    BY SortedRows
  <2>2. PICK i \in DOMAIN Pairs : rows[k] = FreshRow(dataset, i) /\ rows[k].pair = Pairs[i].id
    BY <1>1
  <2>3. i = n
    BY <1>1, <2>1, <2>2, DatasetFacts
  <2> QED
    BY <2>1, <2>2, <2>3
<1> QED
  BY <1>2, SortedRows DEF FreshRows, Pairs

LEMMA OutputInvStep ==
  ASSUME OneDataset, Inv, HistoryInv, OutputInv, [Next]_vars
  PROVE  OutputInv'
<1>1. protocol' = protocol /\ dataset' = dataset
  <2>1. protocol' = protocol
    BY DEF Next, ProcessStep, Start, SkipPair, ScorePair, SaveOpens, SaveCloses, SortRows,
       PairsOpens, PairsCloses, ProgramsOpens, ProgramsCloses, Unlink, Crash, ScoreRaises, ScoreStalls, Forget, vars
  <2>2. dataset' = dataset
    BY DEF Next, ProcessStep, Start, SkipPair, ScorePair, SaveOpens, SaveCloses, SortRows,
       PairsOpens, PairsCloses, ProgramsOpens, ProgramsCloses, Unlink, Crash, ScoreRaises, ScoreStalls, Forget, vars,
       OneDataset, Inv, FileInv
  <2> QED
    BY <2>1, <2>2
<1>2. FreshRows(dataset)' = FreshRows(dataset) /\ SharedInputs' = SharedInputs
  BY <1>1 DEF FreshRows, FreshRow, FreshOutcome, Extracted, UsedBy, SharedInputs
<1>3. CASE \/ Start \/ SkipPair \/ ScorePair \/ SaveOpens \/ SaveCloses \/ Crash
           \/ ScoreRaises \/ ScoreStalls
  BY <1>3 DEF Start, SkipPair, ScorePair, SaveOpens, SaveCloses, Crash, ScoreRaises,
     ScoreStalls, OutputInv
<1>4. CASE SortRows
  <2>1. completed' = completed /\ pc' = "pairs"
    BY <1>4 DEF SortRows
  <2> QED
    BY <1>2, <1>4, <2>1, SortFresh DEF OutputInv
<1>5. CASE PairsOpens \/ ProgramsOpens \/ ProgramsCloses \/ Unlink \/ UNCHANGED vars
  <2>1. completed' = completed /\ rows' = rows
    BY <1>5 DEF PairsOpens, ProgramsOpens, ProgramsCloses, Unlink, memory, vars
  <2> QED
    BY <1>2, <1>5, <2>1 DEF PairsOpens, ProgramsOpens, ProgramsCloses, Unlink, vars, files,
       OutputInv
<1>6. CASE PairsCloses
  BY <1>2, <1>6 DEF PairsCloses, memory, OutputInv
<1> QED
  BY <1>3, <1>4, <1>5, <1>6 DEF Next, ProcessStep

(* However often the evaluation was killed, in the middle of a write too,  *)
(* and started again, what it finally writes is what an uninterrupted run  *)
(* in an empty directory writes (75-143; test_tracer_isolation.py 218).    *)
THEOREM ResumedRunReproduces ==
  ASSUME OneDataset
  PROVE  Spec => []ResumeReproduces
<1>1. Init => HistoryInv /\ OutputInv
  BY DEF Init, HistoryInv, OutputInv, Scoring
<1>2. Inv /\ HistoryInv /\ OutputInv /\ [Next]_vars => HistoryInv' /\ OutputInv'
  BY HistoryStep, OutputInvStep
<1>3. OutputInv => ResumeReproduces
  BY DEF OutputInv, ResumeReproduces
<1> QED
  BY <1>1, <1>2, <1>3, InvAlways, PTL DEF Spec

-----------------------------------------------------------------------------
(* Types.                                                                  *)

LEMMA TypeStep ==
  ASSUME OneDataset, Inv, Inv', TypeOK, [Next]_vars
  PROVE  TypeOK'
<1>1. /\ protocol' \in Protocols /\ ckpt' \in Seq(Row \cup {Torn}) /\ dataset' \in Datasets
      /\ cache' \in [Programs -> Outcomes \cup {"absent"}]
  BY DEF Inv, FileInv, CacheInv
<1>2. index' \in 1..(Len(Pairs') + 1)
  <2>1. Len(Pairs') \in Nat
    <3>1. Pairs' \in Seq([id : PairIds, base : Programs, variant : Programs])
      BY <1>1, EvaluationAssumption DEF Pairs
    <3> QED
      BY <3>1, LenProperties
  <2> QED
    BY <2>1 DEF Inv, IndexInv
<1>3. rows' \in Seq(Row)
  <2>1. CASE Scoring'
    BY <2>1 DEF Inv, RowsInv
  <2>2. CASE SortRows
    BY <2>2, SortedRows
  <2>3. CASE rows' = <<>>
    BY <2>3
  <2>4. CASE rows' = rows
    BY <2>4 DEF TypeOK
  <2> QED
    BY <2>1, <2>2, <2>3, <2>4 DEF Next, ProcessStep, Start, SkipPair, ScorePair, SaveOpens,
       SaveCloses, PairsOpens, PairsCloses, ProgramsOpens, ProgramsCloses, Unlink, Crash, ScoreRaises, ScoreStalls, Forget,
       memory, vars, Scoring
<1>4. completed' \subseteq PairIds
  <2>1. CASE Start
    <3>1. CASE completed' = {}
      BY <3>1
    <3>2. CASE completed' = {r.pair : r \in Lines(ckpt)} /\ Torn \notin Lines(ckpt)
      <4>1. \A r \in Lines(ckpt) : r \in Row
        BY <3>2, ElementOfSeq, LenProperties DEF Lines, TypeOK
      <4>2. \A r \in Row : r.pair \in PairIds
        BY DEF Row
      <4> QED
        BY <3>2, <4>1, <4>2
    <3> QED
      BY <2>1, <3>1, <3>2 DEF Start, Loads, LoadedIds
  <2>2. CASE completed' = {} \/ completed' = completed
    BY <2>2 DEF TypeOK
  <2> QED
    BY <2>1, <2>2 DEF Next, ProcessStep, SkipPair, ScorePair, SaveOpens,
       SaveCloses, SortRows, PairsOpens, PairsCloses, ProgramsOpens, ProgramsCloses,
       Unlink, Crash, ScoreRaises, ScoreStalls, Forget, memory, vars
<1>5. pairsFile' \in Seq(Row \cup {Torn})
  <2>1. CASE PairsOpens
    BY <2>1, PartialPrefix DEF PairsOpens, TypeOK
  <2>2. CASE PairsCloses
    <3>1. pairsFile' = rows /\ rows \in Seq(Row)
      BY <2>2 DEF PairsCloses, TypeOK
    <3>2. Seq(Row) \subseteq Seq(Row \cup {Torn})
      OBVIOUS
    <3> QED
      BY <3>1, <3>2
  <2>3. CASE pairsFile' = pairsFile
    BY <2>3 DEF TypeOK
  <2> QED
    BY <2>1, <2>2, <2>3 DEF Next, ProcessStep, Start, SkipPair, ScorePair, SaveOpens,
       SaveCloses, SortRows, ProgramsOpens, ProgramsCloses, Unlink, Crash, ScoreRaises, ScoreStalls, Forget, files, vars
<1>6. programsFile' \subseteq Programs \cup {Torn}
  BY DEF TypeOK, Next, ProcessStep, Start, SkipPair, ScorePair, SaveOpens, SaveCloses,
     SortRows, PairsOpens, PairsCloses, ProgramsOpens, ProgramsCloses, Unlink, Crash, ScoreRaises, ScoreStalls, Forget,
     files, vars
<1>7. used' \in BOOLEAN
  BY DEF TypeOK, Next, ProcessStep, Start, SkipPair, ScorePair, SaveOpens, SaveCloses,
     SortRows, PairsOpens, PairsCloses, ProgramsOpens, ProgramsCloses, Unlink, Crash, ScoreRaises, ScoreStalls, Forget,
     memory, vars
<1>8. /\ starts' \in 0..MaxStarts
      /\ pc' \in {"off", "raised", "failed", "stalled", "loop", "save", "saving", "pairs", "writing",
                  "programs", "listing", "unlink", "done"}
  BY EvaluationAssumption DEF TypeOK, Next, ProcessStep, Start, SkipPair, ScorePair,
     SaveOpens, SaveCloses, SortRows, PairsOpens, PairsCloses, ProgramsOpens,
     ProgramsCloses, Unlink, Crash, ScoreRaises, ScoreStalls, Forget, vars
<1> QED
  BY <1>1, <1>2, <1>3, <1>4, <1>5, <1>6, <1>7, <1>8 DEF TypeOK

(* Types hold however often the evaluation is killed and started: what is  *)
(* sorted and written are rows, and index stays within the dataset.        *)
THEOREM EvaluationTypes ==
  ASSUME OneDataset
  PROVE  Spec => []TypeOK
<1>1. Init => TypeOK
  <2> SUFFICES ASSUME Init PROVE TypeOK
    OBVIOUS
  <2>1. Inv
    BY InitInv
  <2>2. Len(Pairs) \in Nat
    BY <2>1, DatasetFacts DEF Inv, FileInv
  <2>3. <<>> \in Seq(Row) /\ <<>> \in Seq(Row \cup {Torn})
    OBVIOUS
  <2>4. index \in 1..(Len(Pairs) + 1) /\ starts \in 0..MaxStarts
    BY <2>2, EvaluationAssumption DEF Init
  <2>5. /\ protocol \in Protocols /\ dataset \in Datasets
        /\ cache \in [Programs -> Outcomes \cup {"absent"}]
    BY <2>1 DEF Inv, FileInv, CacheInv
  <2>6. /\ ckpt = <<>> /\ pairsFile = <<>> /\ programsFile = {} /\ pc = "off"
        /\ rows = <<>> /\ completed = {} /\ used = FALSE
    BY DEF Init
  <2> QED
    BY <2>3, <2>4, <2>5, <2>6 DEF TypeOK
<1>2. Inv /\ Inv' /\ TypeOK /\ [Next]_vars => TypeOK'
  BY TypeStep
<1> QED
  BY <1>1, <1>2, InvAlways, PTL DEF Spec
=============================================================================
