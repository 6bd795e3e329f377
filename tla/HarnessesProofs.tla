--------------------------- MODULE HarnessesProofs ----------------------------
(***************************************************************************)
(* Machine-checked proofs about ScoringPool and about Harnesses, the job   *)
(* of any of the three harnesses, for every dataset, order of the programs *)
(* and number of threads.                                                  *)
(***************************************************************************)
EXTENDS Harnesses, ChunkedRunProofs

-----------------------------------------------------------------------------
(* ScoringPool.                                                            *)
Running == {b \in Bases : future[b] = "running"}

(* The thread of program b: its rows are those of the pairs of b, in       *)
(* order, up to where it is, and each says which attempt it comes from.    *)
Thread(b) ==
  /\ pchild[b] <=> future[b] = "running"
  /\ ptag[b] \in 0..Len(By[b])
  /\ ptag[b] # All => harness = "v6" /\ <<b, All>> \in silent
  /\ future[b] = "queued" => ptag[b] = All /\ pgot[b] = <<>>
  /\ future[b] \in {"queued", "running"} =>
       \A u \in 0..Len(Pairs) : <<b, u>> \in silent => u < ptag[b]
  /\ future[b] = "running" =>
       Len(pgot[b]) = IF ptag[b] = All THEN 0 ELSE ptag[b] - 1
  /\ future[b] = "returned" => Len(pgot[b]) = Len(By[b])
  /\ Len(pgot[b]) <= Len(By[b])
  /\ \A k \in 1..Len(pgot[b]) :
       /\ pgot[b][k].pair = By[b][k].id
       /\ pgot[b][k].from = <<b, IF ptag[b] = All THEN All ELSE k>>
       /\ Earned(pgot[b][k])

Threads ==
  /\ Cardinality(Running) <= Workers
  /\ \A b \in Bases : Thread(b)

(* The rows collected are those of the programs before next, whose threads *)
(* have returned: each pair once, program after program.                   *)
Past == 1..(next - 1)
Gathered ==
  /\ \A m \in Past : future[Progs[m]] = "returned"
  /\ \A k \in 1..Len(prows) :
       /\ Earned(prows[k])
       /\ \E m \in Past : /\ prows[k].from[1] = Progs[m]
                          /\ \E j \in 1..Len(By[Progs[m]]) :
                                prows[k].pair = By[Progs[m]][j].id
  /\ \A k, l \in 1..Len(prows) : prows[k].pair = prows[l].pair => k = l
  /\ \A k, l \in 1..Len(prows) : k < l =>
       \E m, n \in Past : /\ m <= n /\ prows[k].from[1] = Progs[m]
                          /\ prows[l].from[1] = Progs[n]
  /\ \A m \in Past : \A j \in 1..Len(By[Progs[m]]) :
       \E k \in 1..Len(prows) : prows[k].pair = By[Progs[m]][j].id

Stage ==
  /\ mpc # "done" => out = <<>>
  /\ mpc = "done" => next = Len(Progs) + 1
  /\ mpc \in {"unwind", "failed"} => \A b \in Bases : future[b] # "queued"
  /\ mpc = "failed" => Running = {}

PoolInv == PoolTypeOK /\ Threads /\ Gathered /\ Stage /\ PoolExact /\ PoolEarned

-----------------------------------------------------------------------------
LEMMA ProgsTyped ==
  /\ Len(Progs) \in Nat /\ DOMAIN Progs = 1..Len(Progs)
  /\ \A n \in 1..Len(Progs) : Progs[n] \in Bases
  /\ \A b \in Bases : \E n \in 1..Len(Progs) : Progs[n] = b
  /\ \A m, n \in 1..Len(Progs) : Progs[m] = Progs[n] => m = n
  /\ Workers \in Nat \ {0}
BY JobAssumption, LenProperties, ElementOfSeq

(* The rows an attempt adds.                                               *)
Kinds == {"scored", "harness_timeout", "harness_error"}
LEMMA RowsOfFacts ==
  ASSUME NEW b \in Bases, ptag[b] \in 0..Len(By[b]), NEW kind \in Kinds
  PROVE  /\ RowsOf(b, kind) \in Seq(PoolRows)
         /\ Len(RowsOf(b, kind)) = IF ptag[b] = All THEN Len(By[b]) ELSE 1
         /\ \A k \in 1..Len(RowsOf(b, kind)) :
              RowsOf(b, kind)[k] =
                [pair |-> By[b][IF ptag[b] = All THEN k ELSE ptag[b]].id,
                 kind |-> kind, from |-> <<b, ptag[b]>>]
<1>1. /\ Len(By[b]) \in Nat \ {0} /\ DOMAIN By[b] = 1..Len(By[b])
      /\ Len(By[b]) <= Len(Pairs) /\ Len(Pairs) \in Nat
      /\ \A k \in 1..Len(By[b]) : By[b][k].id \in PairIds
  BY ByFacts, PairsTyped
<1> DEFINE m == IF ptag[b] = All THEN Len(By[b]) ELSE 1
           Row(k) == [pair |-> By[b][IF ptag[b] = All THEN k ELSE ptag[b]].id,
                      kind |-> kind, from |-> <<b, ptag[b]>>]
<1>2. m \in Nat /\ \A k \in 1..m : Row(k) \in PoolRows
  BY <1>1 DEF PoolRows, All, Kinds
<1>3. RowsOf(b, kind) = [k \in 1..m |-> Row(k)]
  <2>1. CASE ptag[b] = All
    BY <1>1, <2>1 DEF RowsOf, ChunkOf
  <2>2. CASE ptag[b] # All
    <3>1. ChunkOf(b) = << By[b][ptag[b]] >>
      BY <2>2 DEF ChunkOf
    <3>2. DOMAIN ChunkOf(b) = 1..1 /\ ChunkOf(b)[1] = By[b][ptag[b]]
      BY <3>1
    <3> QED
      BY <2>2, <3>2 DEF RowsOf
  <2> QED
    BY <2>1, <2>2
<1> HIDE DEF Row, m
<1>4. [k \in 1..m |-> Row(k)] \in Seq(PoolRows) /\ Len([k \in 1..m |-> Row(k)]) = m
  BY <1>2
<1>5. \A k \in 1..m : RowsOf(b, kind)[k] = Row(k)
  BY <1>3
<1> QED
  BY <1>3, <1>4, <1>5 DEF Row, m

(* An earned row stays so when another attempt falls silent.               *)
LEMMA EarnedKept ==
  ASSUME NEW r, Earned(r), NEW x, harness' = harness,
         silent' \subseteq silent \cup {x}, silent \subseteq silent', r.from # x
  PROVE  Earned(r)'
BY DEF Earned

LEMMA EarnedSame ==
  ASSUME NEW r, Earned(r), harness' = harness, silent' = silent
  PROVE  Earned(r)'
BY DEF Earned

(* The other threads do not notice what happens to program b.              *)
LEMMA OthersKeep ==
  ASSUME PoolInv, NEW b \in Bases, NEW c \in Bases, b # c, harness' = harness,
         silent \subseteq silent', silent' \subseteq silent \cup {<<b, ptag[b]>>},
         future'[c] = future[c], ptag'[c] = ptag[c],
         pchild'[c] = pchild[c], pgot'[c] = pgot[c]
  PROVE  Thread(c)'
<1>1. Thread(c)
  BY DEF PoolInv, Threads
<1>2. \A k \in 1..Len(pgot[c]) : Earned(pgot[c][k])'
  <2> SUFFICES ASSUME NEW k \in 1..Len(pgot[c]) PROVE Earned(pgot[c][k])'
    OBVIOUS
  <2>1. pgot[c][k].from # <<b, ptag[b]>> /\ Earned(pgot[c][k])
    BY <1>1 DEF Thread
  <2> QED
    BY <2>1 DEF Earned
<1> QED
  BY <1>1, <1>2 DEF Thread, Earned

(* Nor do the rows collected, when b has not returned.                     *)
LEMMA GatheredKept ==
  ASSUME PoolInv, NEW b \in Bases, future[b] # "returned", harness' = harness,
         silent \subseteq silent', silent' \subseteq silent \cup {<<b, ptag[b]>>},
         UNCHANGED <<next, prows>>,
         \A c \in Bases : c # b => future'[c] = future[c]
  PROVE  Gathered'
<1>1. Gathered /\ next \in 1..(Len(Progs) + 1)
  BY DEF PoolInv, PoolTypeOK
<1>2. \A m \in Past : Progs[m] \in Bases /\ Progs[m] # b
  BY <1>1, ProgsTyped DEF Gathered, Past
<1>3. \A k \in 1..Len(prows) : Earned(prows[k])'
  <2> SUFFICES ASSUME NEW k \in 1..Len(prows) PROVE Earned(prows[k])'
    OBVIOUS
  <2>1. prows[k].from # <<b, ptag[b]>> /\ Earned(prows[k])
    BY <1>1, <1>2 DEF Gathered
  <2> QED
    BY <2>1 DEF Earned
<1>4. Past' = Past /\ next' = next /\ prows' = prows
  BY DEF Past
<1>5. \A m \in Past : future'[Progs[m]] = "returned"
  BY <1>1, <1>2 DEF Gathered
<1>6. \A k \in 1..Len(prows) :
        \E m \in Past : /\ prows[k].from[1] = Progs[m]
                       /\ \E j \in 1..Len(By[Progs[m]]) :
                             prows[k].pair = By[Progs[m]][j].id
  BY <1>1, Zenon DEF Gathered
<1>7. /\ \A k, l \in 1..Len(prows) : prows[k].pair = prows[l].pair => k = l
      /\ \A k, l \in 1..Len(prows) : k < l =>
           \E m, n \in Past : /\ m <= n /\ prows[k].from[1] = Progs[m]
                              /\ prows[l].from[1] = Progs[n]
      /\ \A m \in Past : \A j \in 1..Len(By[Progs[m]]) :
           \E k \in 1..Len(prows) : prows[k].pair = By[Progs[m]][j].id
  BY <1>1, Zenon DEF Gathered
<1> QED
  BY <1>3, <1>4, <1>5, <1>6, <1>7 DEF Gathered

-----------------------------------------------------------------------------
(* The steps of the threads.                                               *)

(* What a step of program b's thread must show.                            *)
Only(b) ==
  /\ harness' = harness /\ UNCHANGED mainVars
  /\ silent \subseteq silent' /\ silent' \subseteq silent \cup {<<b, ptag[b]>>}
  /\ \A c \in Bases : c # b =>
       /\ future'[c] = future[c] /\ ptag'[c] = ptag[c]
       /\ pchild'[c] = pchild[c] /\ pgot'[c] = pgot[c]

(* No thread works once all its programs have returned or been cancelled.  *)
LEMMA Unfinished ==
  ASSUME PoolInv, NEW b \in Bases, future[b] \in {"queued", "running"}
  PROVE  mpc # "done" /\ (future[b] = "queued" => mpc \notin {"unwind", "failed"})
         /\ mpc # "failed"
<1>1. PICK n \in 1..Len(Progs) : Progs[n] = b
  BY ProgsTyped
<1>2. mpc = "done" => n \in Past
  BY <1>1, ProgsTyped DEF PoolInv, Stage, Past
<1>3. mpc # "done"
  BY <1>1, <1>2 DEF PoolInv, Gathered
<1> QED
  BY <1>3 DEF PoolInv, Stage, Running

LEMMA ThreadStep ==
  ASSUME PoolInv, NEW b \in Bases, future[b] \in {"queued", "running"}, Only(b),
         PoolTypeOK', Thread(b)', future'[b] # "queued",
         Cardinality(Running') <= Workers
  PROVE  PoolInv'
<1>1. /\ harness' = harness /\ UNCHANGED <<mpc, next, prows, out>>
      /\ mpc \notin {"done", "failed"}
  BY Unfinished DEF Only, mainVars
<1>2. \A c \in Bases : Thread(c)'
  BY OthersKeep DEF Only
<1>3. Threads'
  BY <1>2 DEF Threads
<1>4. Gathered'
  BY <1>1, GatheredKept DEF Only
<1>5. out = <<>> /\ out' = <<>>
  BY <1>1 DEF PoolInv, Stage
<1>6. Stage'
  BY <1>1, <1>5 DEF PoolInv, Stage, Only
<1>7. PoolExact' /\ PoolEarned'
  BY <1>1, <1>5 DEF PoolExact, PoolEarned
<1> QED
  BY <1>3, <1>4, <1>6, <1>7 DEF PoolInv

(* The threads at work do not become more unless one begins.               *)
LEMMA LoadKept ==
  ASSUME PoolInv, NEW b \in Bases, future[b] = "running", Only(b)
  PROVE  Cardinality(Running') <= Workers
<1>1. Running' \subseteq Running
  BY DEF Running, Only
<1>2. IsFiniteSet(Running) /\ Running' \in SUBSET Running
  BY <1>1, BasesFinite, FS_Subset DEF Running
<1>3. Cardinality(Running') <= Cardinality(Running)
  BY <1>2, FS_Subset
<1>4. Cardinality(Running') \in Nat /\ Cardinality(Running) \in Nat
  BY <1>2, FS_Subset, FS_CardinalityType
<1> QED
  BY <1>3, <1>4, ProgsTyped DEF PoolInv, Threads

LEMMA TakeStep ==
  ASSUME PoolInv, NEW b \in Bases, Take(b)
  PROVE  PoolInv'
<1>1. /\ future[b] = "queued" /\ Cardinality(Running) < Workers
      /\ future' = [future EXCEPT ![b] = "running"]
      /\ pchild' = [pchild EXCEPT ![b] = TRUE]
      /\ UNCHANGED <<harness, ptag, pgot, mainVars, silent>>
  BY DEF Take, Free, Running
<1>2. PoolTypeOK /\ Thread(b) /\ PoolTypeOK'
  BY <1>1 DEF PoolInv, Threads, PoolTypeOK, mainVars
<1>3. Only(b)
  BY <1>1, <1>2 DEF Only, PoolTypeOK
<1>4. Running' = Running \cup {b} /\ b \notin Running
  BY <1>1, <1>2 DEF Running, PoolTypeOK
<1>5. Cardinality(Running') <= Workers
  <2>1. IsFiniteSet(Running) /\ Cardinality(Running) \in Nat
    BY BasesFinite, FS_Subset, FS_CardinalityType DEF Running
  <2>2. Cardinality(Running \cup {b}) = Cardinality(Running) + 1
    BY <1>4, <2>1, FS_AddElement
  <2> QED
    BY <1>1, <1>4, <2>1, <2>2, ProgsTyped
<1>6. Thread(b)'
  <2>1. ptag[b] = All /\ pgot[b] = <<>> /\ future'[b] = "running" /\ pchild'[b]
    BY <1>1, <1>2 DEF Thread, PoolTypeOK
  <2>2. Len(pgot'[b]) = 0 /\ pgot'[b] = <<>> /\ Len(By[b]) \in Nat
    BY <1>1, <2>1, ByFacts
  <2> QED
    BY <1>1, <1>2, <2>1, <2>2 DEF Thread, All, Earned
<1>7. future'[b] # "queued"
  BY <1>1, <1>2 DEF PoolTypeOK
<1> QED
  BY <1>1, <1>2, <1>3, <1>5, <1>6, <1>7, ThreadStep

(* Rows of kind are added for the attempt that has ended; they are earned  *)
(* if it is.                                                               *)
LEMMA AdvanceStep ==
  ASSUME PoolInv, NEW b \in Bases, pchild[b], NEW kind \in Kinds,
         Advance(b, pgot[b] \o RowsOf(b, kind)), harness' = harness, UNCHANGED mainVars,
         silent' = silent \/ silent' = silent \cup {<<b, ptag[b]>>},
         silent' \in SUBSET (Bases \X (0..Len(Pairs))),
         NEW t, t = ptag[b],
         \A p : Earned([pair |-> p, kind |-> kind, from |-> <<b, t>>])'
  PROVE  PoolInv'
<1>0. PICK new, r : new = RowsOf(b, kind) /\ r = pgot[b] \o new
  OBVIOUS
<1>1. /\ PoolTypeOK /\ Thread(b) /\ future[b] = "running"
      /\ pgot[b] \in Seq(PoolRows) /\ Len(pgot[b]) \in Nat
      /\ Len(By[b]) \in Nat \ {0} /\ Len(By[b]) <= Len(Pairs)
      /\ ptag[b] \in 0..Len(By[b]) /\ Len(Pairs) \in Nat
  BY LenProperties, ByFacts, PairsTyped DEF PoolInv, Threads, Thread, PoolTypeOK
<1>2. /\ new \in Seq(PoolRows) /\ Len(new) = IF ptag[b] = All THEN Len(By[b]) ELSE 1
      /\ \A k \in 1..Len(new) :
           new[k] = [pair |-> By[b][IF ptag[b] = All THEN k ELSE ptag[b]].id,
                     kind |-> kind, from |-> <<b, ptag[b]>>]
  BY <1>0, <1>1, RowsOfFacts
<1>3. /\ r \in Seq(PoolRows) /\ Len(r) = Len(pgot[b]) + Len(new)
      /\ \A k \in 1..Len(r) :
           r[k] = IF k <= Len(pgot[b]) THEN pgot[b][k] ELSE new[k - Len(pgot[b])]
  <2>1. /\ pgot[b] \o new \in Seq(PoolRows)
        /\ Len(pgot[b] \o new) = Len(pgot[b]) + Len(new)
        /\ \A k \in 1..(Len(pgot[b]) + Len(new)) :
             (pgot[b] \o new)[k] = IF k <= Len(pgot[b]) THEN pgot[b][k]
                                  ELSE new[k - Len(pgot[b])]
    <3>1. pgot[b] \in Seq(PoolRows) /\ new \in Seq(PoolRows)
      BY <1>1, <1>2
    <3> QED
      BY <3>1, ConcatProperties, Zenon
  <2> QED
    BY <1>0, <2>1
<1>4. pgot' = [pgot EXCEPT ![b] = r] /\ pgot'[b] = r
  BY <1>0, <1>1 DEF Advance, PoolTypeOK
<1>5. Len(pgot[b]) = IF ptag[b] = All THEN 0 ELSE ptag[b] - 1
  BY <1>1 DEF Thread
<1>6. Len(r) = IF ptag[b] = All THEN Len(By[b]) ELSE ptag[b]
  BY <1>1, <1>2, <1>3, <1>5 DEF All
<1>7. \A k \in 1..Len(r) :
        /\ r[k].pair = By[b][k].id
        /\ r[k].from = <<b, IF ptag[b] = All THEN All ELSE k>>
        /\ Earned(r[k])'
  <2> SUFFICES ASSUME NEW k \in 1..Len(r)
               PROVE  /\ r[k].pair = By[b][k].id
                      /\ r[k].from = <<b, IF ptag[b] = All THEN All ELSE k>>
                      /\ Earned(r[k])'
    OBVIOUS
  <2>1. CASE k <= Len(pgot[b])
    <3>1. k \in 1..Len(pgot[b]) /\ r[k] = pgot[b][k] /\ ptag[b] # All /\ k < ptag[b]
      BY <1>1, <1>3, <1>5, <2>1
    <3>2. /\ r[k].pair = By[b][k].id /\ r[k].from = <<b, k>> /\ Earned(r[k])
      BY <1>1, <3>1 DEF Thread
    <3>3. r[k].from # <<b, ptag[b]>>
      BY <1>1, <3>1, <3>2
    <3>4. Earned(r[k])'
      BY <3>2, <3>3 DEF Earned
    <3> QED
      BY <3>1, <3>2, <3>4
  <2>2. CASE ~(k <= Len(pgot[b]))
    <3>0. k - Len(pgot[b]) \in 1..Len(new) /\ r[k] = new[k - Len(pgot[b])]
      <4>1. Len(new) \in Nat /\ k \in Nat
        BY <1>2, LenProperties
      <4> QED
        BY <1>1, <1>3, <2>2, <4>1
    <3>1. (IF ptag[b] = All THEN k - Len(pgot[b]) ELSE ptag[b]) = k
      <4>1. CASE ptag[b] = All
        BY <1>5, <4>1
      <4>2. CASE ptag[b] # All
        BY <1>1, <1>5, <1>6, <2>2, <4>2
      <4> QED
        BY <4>1, <4>2
    <3>2. r[k] = [pair |-> By[b][k].id, kind |-> kind, from |-> <<b, t>>]
      BY <1>2, <3>0, <3>1
    <3>3. Earned(r[k])'
      BY <3>2
    <3>4. r[k].from = <<b, IF ptag[b] = All THEN All ELSE k>>
      BY <1>1, <1>2, <1>5, <1>6, <2>2, <3>2
    <3> QED
      BY <3>2, <3>3, <3>4
  <2> QED
    BY <2>1, <2>2
<1>8. Only(b)
  BY <1>1 DEF Only, Advance, PoolTypeOK
<1>9. CASE ptag[b] # All /\ ptag[b] < Len(By[b])
  <2>1. /\ ptag' = [ptag EXCEPT ![b] = @ + 1] /\ pchild' = [pchild EXCEPT ![b] = TRUE]
        /\ future' = future
    BY <1>9 DEF Advance
  <2>2. /\ ptag'[b] = ptag[b] + 1 /\ ptag'[b] \in 1..Len(By[b]) /\ pchild'[b]
        /\ future'[b] = "running"
    BY <1>1, <1>9, <2>1 DEF PoolTypeOK, All
  <2>3. ptag'[b] # All
    BY <2>2 DEF All
  <2>4. PoolTypeOK'
    BY <1>1, <1>3, <1>4, <2>1, <2>2, SMTT(30) DEF PoolTypeOK, mainVars
  <2>5. Len(r) = ptag'[b] - 1 /\ Len(r) <= Len(By[b])
    BY <1>1, <1>6, <1>9, <2>2
  <2>6. harness = "v6" /\ <<b, All>> \in silent'
    BY <1>1, <1>9 DEF Thread
  <2>7. Thread(b)'
    <3>1. \A k \in 1..Len(pgot'[b]) : Earned(pgot[b][k])'
      BY <1>4, <1>7 DEF Earned
    <3>2. \A k \in 1..Len(pgot'[b]) :
             /\ pgot'[b][k].pair = By[b][k].id
             /\ pgot'[b][k].from = <<b, IF ptag'[b] = All THEN All ELSE k>>
      BY <1>4, <1>7, <1>9, <2>2, <2>3
    <3>3. /\ pchild'[b] <=> future'[b] = "running"
          /\ ptag'[b] \in 0..Len(By[b])
          /\ ptag'[b] # All => harness' = "v6" /\ <<b, All>> \in silent'
          /\ future'[b] = "running" =>
               Len(pgot'[b]) = IF ptag'[b] = All THEN 0 ELSE ptag'[b] - 1
          /\ future'[b] = "returned" => Len(pgot'[b]) = Len(By[b])
          /\ future'[b] # "queued"
          /\ future'[b] = "running" =>
               \A u \in 0..Len(Pairs) : <<b, u>> \in silent' => u < ptag'[b]
          /\ Len(pgot'[b]) <= Len(By[b])
      <4>1. \A u \in 0..Len(Pairs) : <<b, u>> \in silent => u < ptag[b]
        BY <1>1 DEF Thread
      <4>2. \A u \in 0..Len(Pairs) : <<b, u>> \in silent' => u < ptag'[b]
        BY <1>1, <2>2, <4>1
      <4> QED
        BY <1>1, <1>4, <2>2, <2>3, <2>5, <2>6, <4>2
    <3> QED
      BY <3>1, <3>2, <3>3 DEF Thread
  <2> QED
    BY <1>1, <1>8, <2>2, <2>4, <2>7, LoadKept, ThreadStep
<1>10. CASE ~(ptag[b] # All /\ ptag[b] < Len(By[b]))
  <2>1. /\ ptag' = ptag /\ pchild' = [pchild EXCEPT ![b] = FALSE]
        /\ future' = [future EXCEPT ![b] = "returned"]
    BY <1>10 DEF Advance
  <2>2. future'[b] = "returned" /\ ~pchild'[b] /\ ptag'[b] = ptag[b]
    BY <1>1, <2>1 DEF PoolTypeOK
  <2>3. PoolTypeOK'
    BY <1>1, <1>3, <1>4, <2>1 DEF PoolTypeOK, mainVars
  <2>4. Len(r) = Len(By[b])
    BY <1>1, <1>6, <1>10
  <2>5. ptag[b] # All => harness = "v6" /\ <<b, All>> \in silent'
    BY <1>1 DEF Thread
  <2>6. Thread(b)'
    <3>1. \A k \in 1..Len(pgot'[b]) : Earned(pgot[b][k])'
      BY <1>4, <1>7 DEF Earned
    <3>2. \A k \in 1..Len(pgot'[b]) :
             /\ pgot'[b][k].pair = By[b][k].id
             /\ pgot'[b][k].from = <<b, IF ptag'[b] = All THEN All ELSE k>>
      BY <1>1, <1>4, <1>7, <2>2
    <3>3. /\ pchild'[b] <=> future'[b] = "running"
          /\ ptag'[b] \in 0..Len(By[b])
          /\ ptag'[b] # All => harness' = "v6" /\ <<b, All>> \in silent'
          /\ future'[b] = "running" =>
               Len(pgot'[b]) = IF ptag'[b] = All THEN 0 ELSE ptag'[b] - 1
          /\ future'[b] = "returned" => Len(pgot'[b]) = Len(By[b])
          /\ future'[b] # "queued"
          /\ future'[b] = "running" =>
               \A u \in 0..Len(Pairs) : <<b, u>> \in silent' => u < ptag'[b]
          /\ Len(pgot'[b]) <= Len(By[b])
      BY <1>1, <1>4, <2>2, <2>4, <2>5
    <3> QED
      BY <3>1, <3>2, <3>3 DEF Thread
  <2> QED
    BY <1>1, <1>8, <2>2, <2>3, <2>6, LoadKept, ThreadStep
<1> QED
  BY <1>9, <1>10

(* The rows of a subprocess that has answered come from no silent attempt: *)
(* an attempt is silent at most once, and then it is over.                 *)
LEMMA Unheard ==
  ASSUME PoolInv
  PROVE  \A b \in Bases : future[b] = "running" => <<b, ptag[b]>> \notin silent
<1> SUFFICES ASSUME NEW b \in Bases, future[b] = "running"
             PROVE  <<b, ptag[b]>> \notin silent
  OBVIOUS
<1>1. ptag[b] \in 0..Len(Pairs) /\ ptag[b] \in Nat
  BY DEF PoolInv, PoolTypeOK
<1>2. Thread(b)
  BY DEF PoolInv, Threads
<1> QED
  BY <1>1, <1>2 DEF Thread

LEMMA AnswersStep ==
  ASSUME PoolInv, NEW b \in Bases, Answers(b)
  PROVE  PoolInv'
<1>1. /\ pchild[b] /\ Advance(b, pgot[b] \o RowsOf(b, "scored"))
      /\ UNCHANGED <<harness, mainVars, silent>>
  BY DEF Answers
<1>2. PICK t : t = ptag[b]
  OBVIOUS
<1>3. silent' \in SUBSET (Bases \X (0..Len(Pairs)))
  BY <1>1 DEF PoolInv, PoolTypeOK
<1>4. <<b, t>> \notin silent'
  BY <1>1, <1>2, Unheard DEF PoolInv, Threads, Thread
<1>5. \A p : Earned([pair |-> p, kind |-> "scored", from |-> <<b, t>>])'
  BY <1>4 DEF Earned
<1> QED
  BY <1>1, <1>2, <1>3, <1>5, AdvanceStep DEF Kinds

LEMMA NoResultStep ==
  ASSUME PoolInv, NEW b \in Bases, pchild[b], NoResult(b)
  PROVE  PoolInv'
<1>1. /\ silent' = silent \cup {<<b, ptag[b]>>}
      /\ UNCHANGED <<harness, mainVars>>
  BY DEF NoResult
<1>2. /\ PoolTypeOK /\ Thread(b) /\ future[b] = "running"
      /\ ptag[b] \in 0..Len(By[b]) /\ Len(By[b]) \in Nat \ {0}
      /\ Len(By[b]) <= Len(Pairs) /\ Len(Pairs) \in Nat
  BY ByFacts, PairsTyped DEF PoolInv, Threads, Thread
<1>3. silent' \in SUBSET (Bases \X (0..Len(Pairs)))
  BY <1>1, <1>2 DEF PoolTypeOK
<1>4. CASE FallsBack(b)
  <2>1. /\ harness = "v6" /\ ptag[b] = All /\ UNCHANGED future
        /\ ptag' = [ptag EXCEPT ![b] = 1] /\ pchild' = [pchild EXCEPT ![b] = TRUE]
        /\ pgot' = [pgot EXCEPT ![b] = <<>>]
    BY <1>4 DEF NoResult, FallsBack
  <2>2. PoolTypeOK'
    BY <1>1, <1>2, <1>3, <2>1 DEF PoolTypeOK, mainVars
  <2>3. Only(b)
    BY <1>1, <1>2, <2>1 DEF Only, PoolTypeOK
  <2>4. /\ ptag'[b] = 1 /\ pchild'[b] /\ pgot'[b] = <<>> /\ Len(pgot'[b]) = 0
        /\ future'[b] = "running" /\ <<b, All>> \in silent'
    BY <1>1, <1>2, <2>1 DEF PoolTypeOK
  <2>5. Thread(b)'
    BY <1>1, <1>2, <2>1, <2>4 DEF Thread, All, Earned
  <2> QED
    BY <1>2, <2>2, <2>3, <2>4, <2>5, LoadKept, ThreadStep
<1>5. CASE ~FallsBack(b)
  <2>1. PICK t : t = ptag[b]
    OBVIOUS
  <2>2. PICK kind : kind = IF harness = "v6" THEN "harness_timeout" ELSE "harness_error"
    OBVIOUS
  <2>3. Advance(b, pgot[b] \o RowsOf(b, kind)) /\ kind \in Kinds
    BY <1>5, <2>2 DEF NoResult, GaveUp, Kinds
  <2>4. harness' \in {"v6", "external"} /\ harness' = harness
    BY <1>1, <1>2 DEF PoolTypeOK
  <2>5. <<b, t>> \in silent' /\ (harness = "v6" => t # All /\ <<b, All>> \in silent')
    BY <1>1, <1>2, <1>5, <2>1 DEF FallsBack, Thread
  <2>6. \A p : Earned([pair |-> p, kind |-> kind, from |-> <<b, t>>])'
    <3>1. CASE harness = "v6"
      BY <2>2, <2>4, <2>5, <3>1 DEF Earned
    <3>2. CASE harness = "external"
      BY <2>2, <2>4, <2>5, <3>2 DEF Earned
    <3> QED
      BY <2>4, <3>1, <3>2
  <2> QED
    BY <1>1, <1>3, <2>1, <2>3, <2>6, AdvanceStep
<1> QED
  BY <1>4, <1>5

LEMMA RaisesStep ==
  ASSUME PoolInv, NEW b \in Bases, pchild[b], Raises(b)
  PROVE  PoolInv'
<1>1. /\ future' = [future EXCEPT ![b] = "raised"]
      /\ pchild' = [pchild EXCEPT ![b] = FALSE]
      /\ UNCHANGED <<harness, ptag, pgot, mainVars, silent>>
  BY DEF Raises
<1>2. PoolTypeOK /\ Thread(b) /\ future[b] = "running" /\ PoolTypeOK'
  BY <1>1 DEF PoolInv, Threads, Thread, PoolTypeOK, mainVars
<1>3. Only(b)
  BY <1>1, <1>2 DEF Only, PoolTypeOK
<1>4. future'[b] = "raised" /\ ~pchild'[b]
  BY <1>1, <1>2 DEF PoolTypeOK
<1>5. Thread(b)'
  BY <1>1, <1>2, <1>4 DEF Thread, Earned
<1> QED
  BY <1>2, <1>3, <1>4, <1>5, LoadKept, ThreadStep

LEMMA WorkStep ==
  ASSUME PoolInv, NEW b \in Bases, Take(b) \/ EndsInTime(b) \/ TimesOut(b)
  PROVE  PoolInv'
<1>1. CASE Take(b)
  BY <1>1, TakeStep
<1>2. CASE Answers(b)
  BY <1>2, AnswersStep
<1>3. CASE SaysNothing(b)
  BY <1>3, NoResultStep DEF SaysNothing
<1>4. CASE Garbles(b)
  BY <1>4, RaisesStep DEF Garbles
<1>5. CASE TimesOut(b)
  BY <1>5, NoResultStep, RaisesStep DEF TimesOut, Expires
<1> QED
  BY <1>1, <1>2, <1>3, <1>4, <1>5 DEF EndsInTime

-----------------------------------------------------------------------------
(* The steps of the main thread.                                           *)

(* They leave the threads alone, but for those they cancel.                *)
LEMMA ThreadsKept ==
  ASSUME PoolInv, UNCHANGED <<harness, threadVars, silent>>
  PROVE  Threads'
BY DEF PoolInv, Threads, Thread, Running, threadVars, Earned

LEMMA GatherStep ==
  ASSUME PoolInv, Gather
  PROVE  PoolInv'
<1> DEFINE b == Progs[next]
<1>1. /\ next \in 1..Len(Progs) /\ Len(Progs) \in Nat /\ b \in Bases
      /\ future[b] = "returned" /\ mpc = "collect" /\ next' = next + 1
      /\ UNCHANGED <<harness, threadVars, mpc, out, silent>>
  BY ProgsTyped DEF Gather
<1>2. /\ PoolTypeOK /\ Thread(b) /\ Gathered
      /\ pgot[b] \in Seq(PoolRows) /\ Len(pgot[b]) \in Nat
      /\ prows \in Seq(PoolRows) /\ Len(prows) \in Nat
      /\ Len(pgot[b]) = Len(By[b])
  BY <1>1, LenProperties DEF PoolInv, Threads, Thread, PoolTypeOK
<1>3. PICK r, g : r = prows /\ g = pgot[b]
  OBVIOUS
<1>4. /\ prows' \in Seq(PoolRows) /\ Len(prows') = Len(r) + Len(g)
      /\ \A k \in 1..Len(prows') :
           prows'[k] = IF k <= Len(r) THEN r[k] ELSE g[k - Len(r)]
  <2>1. prows' = r \o g
    BY <1>3 DEF Gather, Joined
  <2>2. r \in Seq(PoolRows) /\ g \in Seq(PoolRows)
    BY <1>2, <1>3
  <2>3. /\ r \o g \in Seq(PoolRows) /\ Len(r \o g) = Len(r) + Len(g)
        /\ \A k \in 1..(Len(r) + Len(g)) :
             (r \o g)[k] = IF k <= Len(r) THEN r[k] ELSE g[k - Len(r)]
    BY <2>2, ConcatProperties, Zenon
  <2> QED
    BY <2>1, <2>3
(* Where a row comes from: an earlier program, or b.                       *)
<1>5. \A k \in 1..Len(prows') :
        \/ k \in 1..Len(r) /\ prows'[k] = r[k]
        \/ k > Len(r) /\ k - Len(r) \in 1..Len(g) /\ prows'[k] = g[k - Len(r)]
  BY <1>2, <1>3, <1>4, SMTT(30)
<1>6. \A k \in 1..Len(g) : /\ g[k].pair = By[b][k].id /\ g[k].from[1] = b
                           /\ Earned(g[k]) /\ k \in 1..Len(By[b])
  BY <1>2, <1>3, SMTT(30) DEF Thread
<1>7. \A k \in 1..Len(r) :
        /\ Earned(r[k])
        /\ \E m \in Past : /\ r[k].from[1] = Progs[m]
                           /\ \E j \in 1..Len(By[Progs[m]]) :
                                 r[k].pair = By[Progs[m]][j].id
  <2>1. \A k \in 1..Len(prows) :
          /\ Earned(prows[k])
          /\ \E m \in Past : /\ prows[k].from[1] = Progs[m]
                             /\ \E j \in 1..Len(By[Progs[m]]) :
                                   prows[k].pair = By[Progs[m]][j].id
    BY <1>2, Zenon DEF Gathered
  <2> QED
    BY <1>3, <2>1, Zenon
<1>8. /\ Past' = Past \cup {next} /\ next \notin Past
      /\ \A m \in Past : m \in 1..Len(Progs) /\ m < next
  BY <1>1 DEF Past, PoolTypeOK
<1>9. PoolTypeOK'
  BY <1>1, <1>2, <1>4 DEF PoolTypeOK, threadVars
<1>10. Gathered'
  <2>1. \A m \in Past' : future'[Progs[m]] = "returned"
    BY <1>1, <1>2, <1>8 DEF Gathered, threadVars
  <2>2. \A k \in 1..Len(prows') :
          /\ Earned(prows[k])'
          /\ \E m \in Past' : /\ prows'[k].from[1] = Progs[m]
                              /\ \E j \in 1..Len(By[Progs[m]]) :
                                    prows'[k].pair = By[Progs[m]][j].id
    <3> SUFFICES ASSUME NEW k \in 1..Len(prows')
                 PROVE  /\ Earned(prows[k])'
                        /\ \E m \in Past' : /\ prows'[k].from[1] = Progs[m]
                                           /\ \E j \in 1..Len(By[Progs[m]]) :
                                                 prows'[k].pair = By[Progs[m]][j].id
      OBVIOUS
    <3>1. CASE k \in 1..Len(r) /\ prows'[k] = r[k]
      <4>1. Earned(prows[k])'
        BY <1>1, <1>7, <3>1 DEF Earned
      <4>2. PICK m \in Past : /\ r[k].from[1] = Progs[m]
                              /\ \E j \in 1..Len(By[Progs[m]]) :
                                    r[k].pair = By[Progs[m]][j].id
        BY <1>7, <3>1
      <4> QED
        BY <1>8, <3>1, <4>1, <4>2
    <3>2. CASE k - Len(r) \in 1..Len(g) /\ prows'[k] = g[k - Len(r)]
      <4>1. Earned(prows[k])'
        BY <1>1, <1>6, <3>2 DEF Earned
      <4>2. /\ prows'[k].from[1] = Progs[next] /\ next \in Past'
            /\ k - Len(r) \in 1..Len(By[Progs[next]])
            /\ prows'[k].pair = By[Progs[next]][k - Len(r)].id
        BY <1>6, <1>8, <3>2
      <4> QED
        BY <4>1, <4>2
    <3> QED
      BY <1>5, <3>1, <3>2
  <2>3. \A k, l \in 1..Len(prows') : prows'[k].pair = prows'[l].pair => k = l
    <3>1. ASSUME NEW k \in 1..Len(r), NEW l \in 1..Len(g), r[k].pair = g[l].pair
          PROVE  FALSE
      <4>1. PICK m \in Past : \E j \in 1..Len(By[Progs[m]]) :
                                r[k].pair = By[Progs[m]][j].id
        BY <1>7
      <4>2. PICK j \in 1..Len(By[Progs[m]]) : r[k].pair = By[Progs[m]][j].id
        BY <4>1
      <4>3. Progs[m] \in Bases /\ l \in 1..Len(By[b]) /\ By[b][l].id = By[Progs[m]][j].id
        BY <1>6, <1>8, <3>1, <4>2, ProgsTyped
      <4>4. Progs[m] = b
        BY <1>1, <4>2, <4>3, ByDisjoint
      <4> QED
        BY <1>1, <1>8, <4>4, ProgsTyped
    <3>2. \A k, l \in 1..Len(r) : r[k].pair = r[l].pair => k = l
      BY <1>2, <1>3 DEF Gathered
    <3>3. \A k, l \in 1..Len(g) : g[k].pair = g[l].pair => k = l
      BY <1>1, <1>6, ByFacts, SMTT(30)
    <3> SUFFICES ASSUME NEW k \in 1..Len(prows'), NEW l \in 1..Len(prows'),
                        prows'[k].pair = prows'[l].pair
                 PROVE  k = l
      OBVIOUS
    <3>4. CASE k \in 1..Len(r) /\ l \in 1..Len(r)
      BY <1>4, <3>2, <3>4
    <3>5. CASE k \in 1..Len(r) /\ ~(l \in 1..Len(r))
      BY <1>5, <3>1, <3>5
    <3>6. CASE ~(k \in 1..Len(r)) /\ l \in 1..Len(r)
      BY <1>5, <3>1, <3>6
    <3>7. CASE ~(k \in 1..Len(r)) /\ ~(l \in 1..Len(r))
      <4>1. k - Len(r) = l - Len(r)
        BY <1>5, <3>3, <3>7
      <4> QED
        BY <1>2, <1>3, <4>1
    <3> QED
      BY <3>4, <3>5, <3>6, <3>7
  <2>4. \A k, l \in 1..Len(prows') : k < l =>
          \E m, n \in Past' : /\ m <= n /\ prows'[k].from[1] = Progs[m]
                              /\ prows'[l].from[1] = Progs[n]
    <3> SUFFICES ASSUME NEW k \in 1..Len(prows'), NEW l \in 1..Len(prows'), k < l
                 PROVE  \E m, n \in Past' : /\ m <= n /\ prows'[k].from[1] = Progs[m]
                                            /\ prows'[l].from[1] = Progs[n]
      OBVIOUS
    <3>1. CASE l \in 1..Len(r)
      <4>1. k \in 1..Len(r)
        BY <3>1
      <4>2. \E m, n \in Past : /\ m <= n /\ r[k].from[1] = Progs[m]
                               /\ r[l].from[1] = Progs[n]
        <5>1. \A x, y \in 1..Len(r) : x < y =>
                \E m, n \in Past : /\ m <= n /\ r[x].from[1] = Progs[m]
                                   /\ r[y].from[1] = Progs[n]
          <6>1. \A x, y \in 1..Len(prows) : x < y =>
                  \E m, n \in Past : /\ m <= n /\ prows[x].from[1] = Progs[m]
                                     /\ prows[y].from[1] = Progs[n]
            BY <1>2, Zenon DEF Gathered
          <6> QED
            BY <1>3, <6>1
        <5> QED
          BY <3>1, <4>1, <5>1
      <4> QED
        BY <1>4, <1>5, <1>8, <3>1, <4>1, <4>2
    <3>2. CASE ~(l \in 1..Len(r))
      <4>1. prows'[l].from[1] = Progs[next] /\ next \in Past'
        BY <1>5, <1>6, <1>8, <3>2
      <4>2. \E m \in Past' : m <= next /\ prows'[k].from[1] = Progs[m]
        <5>1. \A m \in Past' : m <= next
          BY <1>1, <1>8
        <5>2. \E m \in Past' : prows'[k].from[1] = Progs[m]
          BY <2>2
        <5> QED
          BY <5>1, <5>2
      <4> QED
        BY <4>1, <4>2
    <3> QED
      BY <3>1, <3>2
  <2>5. \A m \in Past' : \A j \in 1..Len(By[Progs[m]]) :
          \E k \in 1..Len(prows') : prows'[k].pair = By[Progs[m]][j].id
    <3> SUFFICES ASSUME NEW m \in Past', NEW j \in 1..Len(By[Progs[m]])
                 PROVE  \E k \in 1..Len(prows') : prows'[k].pair = By[Progs[m]][j].id
      OBVIOUS
    <3>1. CASE m \in Past
      <4>1. PICK k \in 1..Len(r) : r[k].pair = By[Progs[m]][j].id
        BY <1>2, <1>3, <3>1 DEF Gathered
      <4>2. k \in 1..Len(prows') /\ prows'[k] = r[k]
        BY <1>2, <1>3, <1>4
      <4> QED
        BY <4>1, <4>2
    <3>2. CASE m = next
      <4>1. j \in 1..Len(g) /\ g[j].pair = By[Progs[m]][j].id
        BY <1>2, <1>3, <1>6, <3>2
      <4>2. PICK k : k = Len(r) + j
        OBVIOUS
      <4>3. /\ k \in 1..Len(prows') /\ ~(k <= Len(r)) /\ k - Len(r) = j
        BY <1>2, <1>3, <1>4, <4>1, <4>2
      <4>4. prows'[k] = g[j]
        BY <1>4, <4>3
      <4> QED
        BY <4>1, <4>3, <4>4
    <3> QED
      BY <1>8, <3>1, <3>2
  <2> QED
    BY <2>1, <2>2, <2>3, <2>4, <2>5 DEF Gathered
<1>11. Threads'
  BY <1>1, ThreadsKept
<1>12. out = <<>> /\ out' = <<>> /\ mpc' = "collect"
  BY <1>1 DEF PoolInv, Stage
<1> QED
  BY <1>9, <1>10, <1>11, <1>12 DEF PoolInv, Stage, PoolExact, PoolEarned

LEMMA CancelStep ==
  ASSUME PoolInv, GatherRaises
  PROVE  PoolInv'
<1>1. /\ mpc = "collect" /\ mpc' = "unwind"
      /\ future' = [b \in Bases |-> IF future[b] = "queued" THEN "cancelled" ELSE future[b]]
      /\ UNCHANGED <<harness, ptag, pchild, pgot, next, prows, out, silent>>
  BY DEF GatherRaises
<1>2. PoolTypeOK /\ PoolTypeOK'
  BY <1>1 DEF PoolInv, PoolTypeOK
<1>3. \A b \in Bases : /\ future'[b] # "queued"
                       /\ future'[b] = "running" <=> future[b] = "running"
                       /\ future'[b] = "returned" <=> future[b] = "returned"
  BY <1>1
<1>4. Threads'
  <2>1. Running' = Running
    BY <1>3 DEF Running
  <2>2. ASSUME NEW b \in Bases PROVE Thread(b)'
    <3>1. Thread(b)
      BY DEF PoolInv, Threads
    <3> QED
      BY <1>1, <1>3, <3>1 DEF Thread, Earned
  <2> QED
    BY <2>1, <2>2 DEF PoolInv, Threads
<1>5. Gathered'
  <2>1. \A m \in Past : Progs[m] \in Bases
    BY <1>2, ProgsTyped DEF Past, PoolTypeOK
  <2>2. \A m \in Past : future'[Progs[m]] = "returned"
    BY <1>3, <2>1 DEF PoolInv, Gathered
  <2>3. Past' = Past /\ \A r : Earned(r)' <=> Earned(r)
    BY <1>1 DEF Past, Earned
  <2>4. Gathered /\ prows' = prows
    BY <1>1 DEF PoolInv
  <2> QED
    BY <2>2, <2>3, <2>4 DEF Gathered
<1>6. out = <<>> /\ out' = <<>>
  BY <1>1 DEF PoolInv, Stage
<1> QED
  BY <1>1, <1>2, <1>3, <1>4, <1>5, <1>6 DEF PoolInv, Stage, PoolExact, PoolEarned

LEMMA FailStep ==
  ASSUME PoolInv, Fail
  PROVE  PoolInv'
<1>1. /\ mpc = "unwind" /\ mpc' = "failed" /\ Running = {}
      /\ UNCHANGED <<harness, threadVars, next, prows, out, silent>>
  BY DEF Fail, Quiet, Running
<1>2. PoolTypeOK'
  BY <1>1 DEF PoolInv, PoolTypeOK, threadVars
<1>3. Threads'
  BY <1>1, ThreadsKept
<1>4. Gathered'
  BY <1>1 DEF PoolInv, Gathered, Past, Earned, threadVars
<1>5. out = <<>> /\ out' = <<>>
  BY <1>1 DEF PoolInv, Stage
<1> QED
  BY <1>1, <1>2, <1>3, <1>4, <1>5 DEF PoolInv, Stage, Running, PoolExact, PoolEarned, threadVars

(* When every program has been collected, every pair has exactly one row.  *)
LEMMA AllGathered ==
  ASSUME PoolInv, next = Len(Progs) + 1
  PROVE  /\ \A b \in Bases : future[b] = "returned"
         /\ Len(prows) = Len(Pairs)
         /\ \A k \in 1..Len(prows) : \E i \in 1..Len(Pairs) : prows[k].pair = Pairs[i].id
         /\ \A i \in 1..Len(Pairs) : \E k \in 1..Len(prows) : prows[k].pair = Pairs[i].id
<1>1. Past = 1..Len(Progs) /\ Gathered /\ Len(prows) \in Nat
  BY ProgsTyped, LenProperties DEF Past, PoolInv, PoolTypeOK
<1>2. \A b \in Bases : future[b] = "returned"
  BY <1>1, ProgsTyped DEF Gathered
<1>3. ASSUME NEW k \in 1..Len(prows)
      PROVE  \E i \in 1..Len(Pairs) : prows[k].pair = Pairs[i].id
  <2>1. PICK m \in 1..Len(Progs) : \E j \in 1..Len(By[Progs[m]]) :
                                     prows[k].pair = By[Progs[m]][j].id
    BY <1>1 DEF Gathered
  <2>2. PICK j \in 1..Len(By[Progs[m]]) : prows[k].pair = By[Progs[m]][j].id
    BY <2>1
  <2>3. \E i \in 1..Len(Pairs) : By[Progs[m]][j] = Pairs[i]
    BY <2>2, ByFacts, ProgsTyped
  <2> QED
    BY <2>2, <2>3
<1>4. ASSUME NEW i \in 1..Len(Pairs)
      PROVE  \E k \in 1..Len(prows) : prows[k].pair = Pairs[i].id
  <2>1. PICK m \in 1..Len(Progs) : Progs[m] = Pairs[i].base
    BY PairsTyped, ProgsTyped DEF Picks
  <2>2. PICK j \in 1..Len(By[Progs[m]]) : By[Progs[m]][j] = Pairs[i]
    BY <2>1, ByFacts, ProgsTyped
  <2>3. \E k \in 1..Len(prows) : prows[k].pair = By[Progs[m]][j].id
    BY <1>1, <2>2 DEF Gathered
  <2> QED
    BY <2>2, <2>3
<1>5. Len(prows) = Len(Pairs)
  <2> DEFINE f == [k \in 1..Len(prows) |-> CHOOSE i \in 1..Len(Pairs) :
                                            prows[k].pair = Pairs[i].id]
             g == [i \in 1..Len(Pairs) |-> CHOOSE k \in 1..Len(prows) :
                                             prows[k].pair = Pairs[i].id]
  <2>1. f \in Injection(1..Len(prows), 1..Len(Pairs))
    <3>1. \A k \in 1..Len(prows) : f[k] \in 1..Len(Pairs) /\ prows[k].pair = Pairs[f[k]].id
      BY <1>3
    <3>2. f \in [1..Len(prows) -> 1..Len(Pairs)]
      BY <3>1
    <3> HIDE DEF f
    <3>3. \A k, l \in 1..Len(prows) : f[k] = f[l] => k = l
      BY <1>1, <3>1 DEF Gathered
    <3> QED
      BY <3>2, <3>3 DEF Injection, IsInjective
  <2>2. g \in Injection(1..Len(Pairs), 1..Len(prows))
    <3>1. \A i \in 1..Len(Pairs) : g[i] \in 1..Len(prows) /\ prows[g[i]].pair = Pairs[i].id
      BY <1>4
    <3>2. g \in [1..Len(Pairs) -> 1..Len(prows)]
      BY <3>1
    <3> HIDE DEF g
    <3>3. \A i, j \in 1..Len(Pairs) : g[i] = g[j] => i = j
      BY <3>1, PairsTyped, DatasetAssumption
    <3> QED
      BY <3>2, <3>3 DEF Injection, IsInjective
  <2>3. /\ IsFiniteSet(1..Len(prows)) /\ Cardinality(1..Len(prows)) = Len(prows)
        /\ IsFiniteSet(1..Len(Pairs)) /\ Cardinality(1..Len(Pairs)) = Len(Pairs)
    BY <1>1, PairsTyped, UpTo
  <2> HIDE DEF f, g
  <2>4. Len(prows) <= Len(Pairs)
    BY <2>1, <2>3, FS_Injection
  <2>5. Len(Pairs) <= Len(prows)
    BY <2>2, <2>3, FS_Injection
  <2> QED
    BY <1>1, <2>4, <2>5, PairsTyped
<1> QED
  BY <1>2, <1>3, <1>4, <1>5

(* The rows are then listed in dataset order (v6), or as they are.         *)
LEMMA WrittenInOrder ==
  ASSUME PoolInv, next = Len(Progs) + 1, harness = "v6"
  PROVE  /\ Written \in Seq(PoolRows) /\ Len(Written) = Len(Pairs)
         /\ \A i \in 1..Len(Pairs) : /\ Written[i].pair = Pairs[i].id
                                     /\ \E k \in 1..Len(prows) : Written[i] = prows[k]
<1> DEFINE Has(p) == \E k \in DOMAIN prows : prows[k].pair = p.id
           Row(p) == prows[CHOOSE k \in DOMAIN prows : prows[k].pair = p.id]
           file == [i \in 1..Len(Pairs) |-> Row(Pairs[i])]
<1>1. prows \in Seq(PoolRows) /\ DOMAIN prows = 1..Len(prows)
      /\ \A k \in 1..Len(prows) : prows[k] \in PoolRows
  BY LenProperties, ElementOfSeq DEF PoolInv, PoolTypeOK
<1>2. \A i \in 1..Len(Pairs) : Has(Pairs[i])
  BY <1>1, AllGathered
<1>3. \A i \in 1..Len(Pairs) : /\ Row(Pairs[i]).pair = Pairs[i].id
                               /\ \E k \in 1..Len(prows) : Row(Pairs[i]) = prows[k]
  BY <1>1, <1>2
<1>4. {i \in DOMAIN Pairs : Has(Pairs[i])} = DOMAIN Pairs
  BY <1>2, PairsTyped
<1>5. PICK s : s = Listed({i \in DOMAIN Pairs : Has(Pairs[i])})
  OBVIOUS
<1>6. Written = file
  <2>1. Written = [i \in DOMAIN s |-> Row(s[i])]
    BY <1>5 DEF Written
  <2>2. s = Pairs
    BY <1>4, <1>5, ListedAll
  <2> QED
    BY <2>1, <2>2, PairsTyped
<1>7. \A i \in 1..Len(Pairs) : file[i] = Row(Pairs[i]) /\ file[i] \in PoolRows
  BY <1>1, <1>3
<1> HIDE DEF Row, Has
<1>8. file \in Seq(PoolRows) /\ Len(file) = Len(Pairs)
  BY <1>7, PairsTyped
<1> QED
  BY <1>3, <1>6, <1>7, <1>8

LEMMA WriteStep ==
  ASSUME PoolInv, Write
  PROVE  PoolInv'
<1>1. /\ mpc = "collect" /\ mpc' = "done" /\ next > Len(Progs)
      /\ out' = Written
      /\ UNCHANGED <<harness, threadVars, next, prows, silent>>
  BY DEF Write
<1>2. /\ PoolTypeOK /\ Gathered /\ next = Len(Progs) + 1 /\ Past = 1..Len(Progs)
      /\ harness \in {"v6", "external"}
      /\ prows \in Seq(PoolRows) /\ DOMAIN prows = 1..Len(prows)
  BY <1>1, ProgsTyped, LenProperties DEF PoolInv, PoolTypeOK, Past
<1>3. /\ \A b \in Bases : future'[b] = "returned"
      /\ Len(prows) = Len(Pairs)
  BY <1>1, <1>2, AllGathered DEF threadVars
<1>4. /\ Written \in Seq(PoolRows) /\ Len(Written) = Len(Pairs)
      /\ \A i \in 1..Len(Pairs) : \E k \in 1..Len(prows) : Written[i] = prows[k]
  <2>1. CASE harness = "v6"
    BY <1>2, <2>1, WrittenInOrder
  <2>2. CASE harness = "external"
    BY <1>2, <1>3, <2>2 DEF Written
  <2> QED
    BY <1>2, <2>1, <2>2
<1>5. DOMAIN Written = 1..Len(Pairs)
  BY <1>4, LenProperties
<1>6. PICK file : file = Written
  OBVIOUS
<1>7. {file[i].pair : i \in DOMAIN file} = PairIds
  <2>1. DOMAIN file = 1..Len(Pairs) /\ PairIds = {Pairs[i].id : i \in 1..Len(Pairs)}
    BY <1>5, <1>6, PairsTyped DEF PairIds
  <2>2. \A i \in 1..Len(Pairs) : file[i].pair \in PairIds
    <3>1. \A k \in 1..Len(prows) : prows[k].pair \in PairIds
      BY <1>2, AllGathered, <2>1
    <3> QED
      BY <1>4, <1>6, <3>1
  <2>3. \A i \in 1..Len(Pairs) : \E j \in 1..Len(Pairs) : file[j].pair = Pairs[i].id
    <3>1. CASE harness = "v6"
      BY <1>2, <1>6, <3>1, WrittenInOrder
    <3>2. CASE harness = "external"
      <4>1. file = prows
        BY <1>6, <3>2 DEF Written
      <4> QED
        BY <1>2, <1>3, <4>1, AllGathered
    <3> QED
      BY <1>2, <3>1, <3>2
  <2> QED
    BY <2>1, <2>2, <2>3
<1>8. harness = "v6" => \A i \in 1..Len(Pairs) : file[i].pair = Pairs[i].id
  BY <1>2, <1>6, WrittenInOrder
<1>9. harness = "external" =>
        \A i, j \in 1..Len(Pairs) : i < j =>
          \E m, n \in 1..Len(Progs) :
            m <= n /\ file[i].from[1] = Progs[m] /\ file[j].from[1] = Progs[n]
  <2> SUFFICES ASSUME harness = "external"
               PROVE  \A i, j \in 1..Len(Pairs) : i < j =>
                        \E m, n \in 1..Len(Progs) :
                          /\ m <= n /\ file[i].from[1] = Progs[m]
                          /\ file[j].from[1] = Progs[n]
    OBVIOUS
  <2>1. file = prows
    BY <1>6 DEF Written
  <2> QED
    BY <1>2, <1>3, <2>1 DEF Gathered
<1>10. out' = file /\ harness' = harness /\ DOMAIN file = 1..Len(Pairs)
       /\ Len(file) = Len(Pairs)
  BY <1>1, <1>4, <1>5, <1>6
<1>11. PoolExact'
  <2>1. {out'[i].pair : i \in DOMAIN out'} = PairIds /\ Len(out') = Len(Pairs)
    BY <1>7, <1>10
  <2>2. harness' = "v6" => \A i \in DOMAIN Pairs : out'[i].pair = Pairs[i].id
    BY <1>8, <1>10, PairsTyped
  <2>3. harness' = "external" =>
          \A i, j \in DOMAIN out' : i < j =>
            \E m, n \in DOMAIN Progs :
              m <= n /\ out'[i].from[1] = Progs[m] /\ out'[j].from[1] = Progs[n]
    <3> SUFFICES ASSUME harness = "external", NEW i \in 1..Len(Pairs),
                        NEW j \in 1..Len(Pairs), i < j
                 PROVE  \E m, n \in DOMAIN Progs :
                          m <= n /\ file[i].from[1] = Progs[m] /\ file[j].from[1] = Progs[n]
      BY <1>10
    <3>1. DOMAIN Progs = 1..Len(Progs)
      BY ProgsTyped
    <3>2. PICK m \in 1..Len(Progs), n \in 1..Len(Progs) :
            m <= n /\ file[i].from[1] = Progs[m] /\ file[j].from[1] = Progs[n]
      BY <1>9, Zenon
    <3> QED
      BY <3>1, <3>2
  <2> QED
    BY <1>3, <2>1, <2>2, <2>3 DEF PoolExact
<1>12. PoolEarned'
  <2>1. \A k \in 1..Len(prows) : Earned(prows[k])
    BY <1>2 DEF Gathered
  <2> SUFFICES ASSUME NEW i \in 1..Len(Pairs) PROVE Earned(out[i])'
    BY <1>10 DEF PoolEarned
  <2>2. PICK k \in 1..Len(prows) : out'[i] = prows[k]
    BY <1>1, <1>4
  <2> QED
    BY <1>1, <2>1, <2>2 DEF Earned
<1>13. PoolTypeOK'
  BY <1>1, <1>2, <1>4 DEF PoolTypeOK, threadVars
<1>14. Threads'
  BY <1>1, ThreadsKept
<1>15. Gathered'
  BY <1>1, <1>2 DEF Gathered, Past, Earned, threadVars
<1> QED
  BY <1>1, <1>2, <1>11, <1>12, <1>13, <1>14, <1>15 DEF PoolInv, Stage

-----------------------------------------------------------------------------
LEMMA PoolInvInit == PoolInit => PoolInv
<1> SUFFICES ASSUME PoolInit PROVE PoolInv
  OBVIOUS
<1>1. PoolTypeOK
  BY ProgsTyped, PairsTyped DEF PoolInit, PoolTypeOK, All
<1>2. Running = {}
  BY DEF PoolInit, Running
<1>3. \A b \in Bases : Thread(b)
  BY ByFacts DEF PoolInit, Thread, All
<1>4. Threads
  BY <1>2, <1>3, FS_EmptySet, ProgsTyped DEF Threads
<1>5. Gathered
  BY DEF PoolInit, Gathered, Past
<1> QED
  BY <1>1, <1>4, <1>5 DEF PoolInit, PoolInv, Stage, PoolExact, PoolEarned

LEMMA PoolInvStep == PoolInv /\ [PoolNext]_poolVars => PoolInv'
<1> SUFFICES ASSUME PoolInv, [PoolNext]_poolVars PROVE PoolInv'
  OBVIOUS
<1>1. CASE MainStep
  BY <1>1, GatherStep, CancelStep, FailStep, WriteStep DEF MainStep
<1>2. CASE \E b \in Bases : Take(b) \/ EndsInTime(b) \/ TimesOut(b)
  BY <1>2, WorkStep
<1>3. CASE UNCHANGED poolVars
  <2>1. UNCHANGED <<harness, threadVars, mainVars, silent>>
    BY <1>3 DEF poolVars
  <2>2. Threads'
    BY <2>1, ThreadsKept
  <2>3. PoolTypeOK' /\ Stage'
    BY <2>1 DEF PoolInv, PoolTypeOK, Stage, Running, threadVars, mainVars
  <2>4. Gathered'
    BY <2>1 DEF PoolInv, Gathered, Past, Earned, threadVars, mainVars
  <2>5. PoolExact' /\ PoolEarned'
    BY <2>1 DEF PoolInv, PoolExact, PoolEarned, Earned, threadVars, mainVars
  <2> QED
    BY <2>2, <2>3, <2>4, <2>5 DEF PoolInv
<1> QED
  BY <1>1, <1>2, <1>3 DEF PoolNext, Step, PoolOver

(* The subprocesses alive are those of the running threads, and no thread  *)
(* runs when the call is over.                                             *)
LEMMA PoolInvContains == PoolInv => PoolContained
<1> SUFFICES ASSUME PoolInv PROVE PoolContained
  OBVIOUS
<1>1. {b \in Bases : pchild[b]} = Running
  BY DEF PoolInv, Threads, Thread, Running
<1>2. mpc = "done" => Running = {}
  BY DEF PoolInv, PoolExact, Running
<1> QED
  BY <1>1, <1>2 DEF PoolInv, Threads, Stage, PoolContained

-----------------------------------------------------------------------------
(* The contract of ScoredFile, seen from the pool.                         *)
PoolJob == CASE mpc = "done"   -> "done"
             [] mpc = "failed" -> "failed"
             [] OTHER          -> "running"
PoolListed == [i \in DOMAIN out |-> out[i].pair]
PoolFile == INSTANCE ScoredFile WITH job <- PoolJob, listed <- PoolListed

(* A step of the pool writes once, one row for each pair, or fails and     *)
(* writes nothing, or shows nothing to the reader of the file.             *)
LEMMA PoolFileStep ==
  ASSUME PoolInv, PoolInv', [PoolNext]_poolVars
  PROVE  [PoolFile!End]_PoolFile!vars
<1>1. CASE Write
  <2>1. mpc = "collect" /\ mpc' = "done"
    BY <1>1 DEF Write
  <2>2. PoolJob = "running" /\ PoolJob' = "done"
    BY <2>1 DEF PoolJob
  <2>3. out' \in Seq(PoolRows) /\ DOMAIN out' = 1..Len(Pairs)
        /\ {out'[i].pair : i \in 1..Len(Pairs)} = PairIds
    <3>1. out' \in Seq(PoolRows')
      BY DEF PoolInv, PoolTypeOK
    <3>2. PoolRows' = PoolRows
      BY DEF PoolRows, PairIds, Bases
    <3>3. Len(out') = Len(Pairs) /\ {out'[i].pair : i \in DOMAIN out'} = PairIds
      BY <2>1 DEF PoolInv, PoolExact, PairIds
    <3>4. DOMAIN out' = 1..Len(out')
      BY <3>1, LenProperties
    <3> QED
      BY <3>1, <3>2, <3>3, <3>4
  <2>4. PICK s : s = PoolListed'
    OBVIOUS
  <2>5. s = [i \in 1..Len(Pairs) |-> s[i]] /\ \A i \in 1..Len(Pairs) : s[i] = out'[i].pair
    BY <2>3, <2>4 DEF PoolListed
  <2>6. {s[i] : i \in 1..Len(Pairs)} = PairIds
    BY <2>3, <2>5
  <2>7. /\ s \in [1..Cardinality(PairIds) -> PairIds]
        /\ \A i, j \in 1..Cardinality(PairIds) : s[i] = s[j] => i = j
    BY <2>5, <2>6, EachListedOnce
  <2>8. PoolFile!Lines = 1..Cardinality(PairIds)
    <3>1. PoolFile!Cardinality(PairIds) = Cardinality(PairIds)
      BY Zenon DEF PoolFile!Cardinality, Cardinality
    <3> QED
      BY <3>1 DEF PoolFile!Lines
  <2>9. /\ PoolListed' \in [PoolFile!Lines -> PairIds]
        /\ \A i, j \in PoolFile!Lines : PoolListed'[i] = PoolListed'[j] => i = j
    BY <2>4, <2>7, <2>8
  <2>10. PoolFile!Publish
    BY <2>2, <2>9 DEF PoolFile!Publish
  <2> QED
    BY <2>10 DEF PoolFile!End
<1>2. CASE Fail
  <2>1. mpc = "unwind" /\ mpc' = "failed" /\ out' = out
    BY <1>2 DEF Fail
  <2> QED
    BY <2>1 DEF PoolJob, PoolListed, PoolFile!End, PoolFile!Fail
<1>3. CASE \E b \in Bases : Take(b) \/ EndsInTime(b) \/ TimesOut(b)
  <2>1. UNCHANGED <<mpc, out>>
    BY <1>3 DEF Take, EndsInTime, Answers, SaysNothing, NoResult, Garbles, Raises, TimesOut,
       mainVars
  <2> QED
    BY <2>1 DEF PoolJob, PoolListed, PoolFile!vars
<1>4. CASE Gather \/ UNCHANGED poolVars
  <2>1. UNCHANGED <<mpc, out>>
    BY <1>4 DEF Gather, poolVars, mainVars
  <2> QED
    BY <2>1 DEF PoolJob, PoolListed, PoolFile!vars
<1>5. CASE GatherRaises
  <2>1. mpc = "collect" /\ mpc' = "unwind" /\ out' = out
    BY <1>5 DEF GatherRaises
  <2> QED
    BY <2>1 DEF PoolJob, PoolListed, PoolFile!vars
<1> QED
  BY <1>1, <1>2, <1>3, <1>4, <1>5 DEF PoolNext, Step, MainStep, PoolOver

-----------------------------------------------------------------------------
(* Harnesses: one of the two modules takes the steps, the other waits in   *)
(* its initial state.                                                      *)
Waits ==
  /\ which = "chunked" => mpc = "collect"
  /\ which = "pool" => pc \in {"spawn", "merge"}

Inv == which \in {"chunked", "pool"} /\ ChunkedInv /\ PoolInv /\ Waits

(* A step of the composition is a step of one of the modules and a stutter *)
(* of the other.                                                           *)
LEMMA OneOrTheOther ==
  ASSUME [Next]_vars
  PROVE  /\ [ChunkedNext]_chunkedVars /\ [PoolNext]_poolVars /\ which' = which
         /\ which = "chunked" => UNCHANGED poolVars
         /\ which = "pool" => UNCHANGED chunkedVars
BY DEF Next, ChunkedStep, PoolStep, vars

(* The invariants of both modules hold throughout a job.                   *)
LEMMA InvAlways == Spec => []Inv
<1>1. Init => Inv
  <2> SUFFICES ASSUME Init PROVE Inv
    OBVIOUS
  <2>1. ChunkedInv /\ PoolInv
    BY ChunkedInvInit, PoolInvInit DEF Init
  <2> QED
    BY <2>1 DEF Init, Inv, Waits, ChunkedInit, PoolInit
<1>2. Inv /\ [Next]_vars => Inv'
  <2> SUFFICES ASSUME Inv, [Next]_vars PROVE Inv'
    OBVIOUS
  <2>1. ChunkedInv' /\ PoolInv'
    BY ChunkedInvStep, PoolInvStep, OneOrTheOther DEF Inv
  <2>2. Waits'
    BY OneOrTheOther DEF Inv, Waits, chunkedVars, hostVars, poolVars, mainVars
  <2> QED
    BY <2>1, <2>2, OneOrTheOther DEF Inv
<1> QED
  BY <1>1, <1>2, PTL DEF Spec

-----------------------------------------------------------------------------
(* Every variable keeps its type, in the harness that runs and in the one  *)
(* that waits; a pool's main thread never waits for a program past the     *)
(* last (run_chunked 36-103; score_v6_experimental 112-132; run_corpus     *)
(* 110-123).                                                               *)
THEOREM TypeCorrect == Spec => []TypeOK
<1>1. Inv => TypeOK
  BY DEF Inv, TypeOK, ChunkedInv, PoolInv
<1> QED
  BY <1>1, InvAlways, PTL

(* Whatever the watchdog of run_chunked kills, the merged file has one row *)
(* per pair, in dataset order (95-103).                                    *)
THEOREM ExactMerge == Spec => []MergedExact
<1>1. Inv => MergedExact
  BY DEF Inv, ChunkedInv, Ends
<1> QED
  BY <1>1, InvAlways, PTL

(* run_chunked gives a pair up only after two kills, and keeps no row of a *)
(* killed process (71-94).                                                 *)
THEOREM EarnedTimeouts == Spec => []TimeoutsEarned
<1>1. Inv => TimeoutsEarned
  BY DEF Inv, ChunkedInv, Ends
<1> QED
  BY <1>1, InvAlways, PTL

(* run_chunked starts a subprocess only when the one before it is gone     *)
(* (59-73).                                                                *)
THEOREM ChildrenInTurn == Spec => OneChild
<1>1. Inv => (Spawn => child # "running")
  BY DEF Inv, ChunkedInv, Ends, Spawn
<1> QED
  BY <1>1, InvAlways, PTL DEF OneChild

(* However many threads of a pool score the programs, in whatever order    *)
(* they end and whichever say nothing, the rows are one per pair and in    *)
(* order (score_v6_experimental 126-132; run_corpus 122-123).              *)
THEOREM ExactRows == Spec => []PoolExact
<1>1. Inv => PoolExact
  BY DEF Inv, PoolInv
<1> QED
  BY <1>1, InvAlways, PTL

(* A pool gives a pair up only after the attempts it was owed, and no      *)
(* scored row comes from an attempt without a line (109-121; run_corpus    *)
(* 113-120).                                                               *)
THEOREM EarnedRows == Spec => []PoolEarned
<1>1. Inv => PoolEarned
  BY DEF Inv, PoolInv
<1> QED
  BY <1>1, InvAlways, PTL

(* At most Workers subprocesses of a pool live at once, and none outlives  *)
(* the call (125).                                                         *)
THEOREM ContainedPool == Spec => []PoolContained
<1>1. Inv => PoolContained
  BY PoolInvContains DEF Inv
<1> QED
  BY <1>1, InvAlways, PTL

(* The job of each of the three harnesses writes its file once, one row    *)
(* for each pair, or fails and writes nothing, however its subprocesses    *)
(* end: the safety part of ScoredFileSpec, which the evaluations assume.   *)
THEOREM HarnessesImplementFile == Spec => File!Init /\ [][File!End]_File!vars
<1>1. Init => File!Init
  <2> SUFFICES ASSUME Init PROVE File!Init
    OBVIOUS
  <2>1. /\ pc \in {"spawn", "merge"} /\ mpc = "collect"
        /\ dest = <<>> /\ out = <<>>
    BY DEF Init, ChunkedInit, PoolInit
  <2> QED
    BY <2>1 DEF File!Init
<1>2. Inv /\ Inv' /\ [Next]_vars => [File!End]_File!vars
  <2> SUFFICES ASSUME Inv, Inv', [Next]_vars PROVE [File!End]_File!vars
    OBVIOUS
  <2> DEFINE job == CASE pc = "done" \/ mpc = "done" -> "done"
                      [] pc = "aborted" \/ mpc = "failed" -> "failed"
                      [] OTHER -> "running"
             file == IF which = "chunked" THEN dest ELSE out
             listed == [i \in DOMAIN file |-> file[i].pair]
  <2>1. File!Lines = ChunkedFile!Lines /\ File!Lines = PoolFile!Lines
    BY Zenon DEF File!Lines, ChunkedFile!Lines, PoolFile!Lines, File!Cardinality,
       ChunkedFile!Cardinality, PoolFile!Cardinality
  <2>2. CASE which = "chunked"
    <3>1. mpc = "collect" /\ mpc' = "collect" /\ which' = "chunked"
      BY <2>2, OneOrTheOther DEF Inv, Waits
    <3>2. job = ChunkedJob /\ listed = ChunkedListed
      BY <2>2, <3>1 DEF ChunkedJob, ChunkedListed
    <3>3. job' = ChunkedJob' /\ listed' = ChunkedListed'
      BY <3>1 DEF ChunkedJob, ChunkedListed
    <3>4. [ChunkedFile!End]_ChunkedFile!vars
      BY ChunkedFileStep, OneOrTheOther DEF Inv
    <3> HIDE DEF job, listed
    <3>5. \/ /\ job = "running" /\ job' = "done"
             /\ listed' \in [File!Lines -> PairIds]
             /\ \A i, j \in File!Lines : listed'[i] = listed'[j] => i = j
          \/ job = "running" /\ job' = "failed" /\ listed' = listed
          \/ job' = job /\ listed' = listed
      BY <2>1, <3>2, <3>3, <3>4
         DEF ChunkedFile!End, ChunkedFile!Publish, ChunkedFile!Fail, ChunkedFile!vars
    <3> QED
      BY <3>5 DEF job, listed, File!End, File!Publish, File!Fail, File!vars
  <2>3. CASE which = "pool"
    <3>1. /\ pc \in {"spawn", "merge"} /\ pc' \in {"spawn", "merge"}
          /\ which' = "pool"
      BY <2>3, OneOrTheOther DEF Inv, Waits
    <3>2. job = PoolJob /\ listed = PoolListed
      BY <2>3, <3>1 DEF PoolJob, PoolListed
    <3>3. job' = PoolJob' /\ listed' = PoolListed'
      BY <3>1 DEF PoolJob, PoolListed
    <3>4. [PoolFile!End]_PoolFile!vars
      BY PoolFileStep, OneOrTheOther DEF Inv
    <3> HIDE DEF job, listed
    <3>5. \/ /\ job = "running" /\ job' = "done"
             /\ listed' \in [File!Lines -> PairIds]
             /\ \A i, j \in File!Lines : listed'[i] = listed'[j] => i = j
          \/ job = "running" /\ job' = "failed" /\ listed' = listed
          \/ job' = job /\ listed' = listed
      BY <2>1, <3>2, <3>3, <3>4
         DEF PoolFile!End, PoolFile!Publish, PoolFile!Fail, PoolFile!vars
    <3> QED
      BY <3>5 DEF job, listed, File!End, File!Publish, File!Fail, File!vars
  <2> QED
    BY <2>2, <2>3 DEF Inv
<1> QED
  BY <1>1, <1>2, InvAlways, PTL DEF Spec
=============================================================================
