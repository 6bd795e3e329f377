--------------------------- MODULE ChunkedRunProofs ---------------------------
(***************************************************************************)
(* Machine-checked proofs about ChunkedRun, for every dataset.             *)
(***************************************************************************)
EXTENDS ChunkedRun, DatasetProofs

Active == pc \in {"spawn", "poll", "slept", "expired"}
ToDo == {todo[n] : n \in 1..Len(todo)}

(* What a row says of its attempts is what became of them.                 *)
Vouched(r) ==
  IF r.kind = "harness_timeout"
  THEN r.from[2] # All /\ {<<r.from[1], All>>, r.from} \subseteq killed
  ELSE r.from \notin killed

(* The program being scored: its rows so far are those of its first pairs, *)
(* and of its attempts only those before this one have been killed.        *)
Attempt ==
  Active =>
    /\ prog \in Bases /\ prog \notin ToDo
    /\ tag \in 0..Len(By[prog])
    /\ Len(got) = IF tag = All THEN 0 ELSE tag - 1
    /\ \A k \in 1..Len(got) :
         got[k].pair = By[prog][k].id /\ got[k].from = <<prog, k>> /\ Vouched(got[k])
    /\ tag # All => <<prog, All>> \in killed
    /\ \A u \in 0..Len(Pairs) : <<prog, u>> \in killed =>
         u < tag \/ (pc = "expired" /\ u = tag)
    /\ pc = "expired" => <<prog, tag>> \in killed

(* Programs still to do have no killed attempt; those done have their rows.*)
Stored(b) ==
  \A k \in 1..Len(By[b]) :
    LET r == rows[By[b][k].id] IN
    r.pair = By[b][k].id /\ r.from[1] = b /\ r \in ChunkedRows /\ Vouched(r)
Ledger ==
  pc # "aborted" =>
    /\ \A m, n \in 1..Len(todo) : todo[m] = todo[n] => m = n
    /\ \A b \in ToDo : \A u \in 0..Len(Pairs) : <<b, u>> \notin killed
    /\ ~Active => todo = <<>>
    /\ \A b \in Bases : b \in ToDo \/ (Active /\ b = prog) \/ Stored(b)

Ends ==
  /\ pc \in {"spawn", "expired"} => child # "running"
  /\ pc # "done" => dest = <<>>
  /\ MergedExact
  /\ TimeoutsEarned

ChunkedInv == ChunkedTypeOK /\ Attempt /\ Ledger /\ Ends

-----------------------------------------------------------------------------
(* Order lists every program once.                                         *)
LEMMA OrderFacts ==
  /\ Order \in Seq(Bases)
  /\ \A m, n \in 1..Len(Order) : Order[m] = Order[n] => m = n
  /\ \A b \in Bases : \E n \in 1..Len(Order) : Order[n] = b
<1> DEFINE I == {i \in DOMAIN Pairs : \A j \in 1..(i - 1) : Pairs[j].base # Pairs[i].base}
<1>1. PICK h : Places(I, Len(Pairs), h, FirstPairs)
  BY ListedPlaces DEF FirstPairs
<1>2. /\ FirstPairs \in Seq(Picks) /\ Len(FirstPairs) \in Nat
      /\ DOMAIN FirstPairs = 1..Len(FirstPairs)
      /\ \A n \in 1..Len(FirstPairs) :
           /\ FirstPairs[n] = Pairs[h[n]] /\ h[n] \in 1..Len(Pairs)
           /\ \A j \in 1..(h[n] - 1) : Pairs[j].base # Pairs[h[n]].base
      /\ \A m, n \in 1..Len(FirstPairs) : m < n => h[m] < h[n]
      /\ \A i \in I : \E n \in 1..Len(FirstPairs) : h[n] = i
  BY <1>1, LenProperties, PairsTyped DEF Places
<1>3. /\ Order = [n \in 1..Len(FirstPairs) |-> FirstPairs[n].base]
      /\ \A n \in 1..Len(FirstPairs) : FirstPairs[n].base \in Bases
  BY <1>2, PairsTyped DEF Order, Picks
<1>4. Order \in Seq(Bases) /\ Len(Order) = Len(FirstPairs)
  BY <1>2, <1>3
<1>5. \A m, n \in 1..Len(Order) : m < n => Order[m] # Order[n]
  <2> SUFFICES ASSUME NEW m \in 1..Len(Order), NEW n \in 1..Len(Order), m < n
               PROVE  Order[m] # Order[n]
    OBVIOUS
  <2>1. h[m] \in 1..(h[n] - 1)
    BY <1>2, <1>4
  <2>2. Pairs[h[m]].base # Pairs[h[n]].base
    BY <1>2, <1>4, <2>1
  <2> QED
    BY <1>2, <1>3, <1>4, <2>2
<1>6. \A b \in Bases : \E n \in 1..Len(Order) : Order[n] = b
  <2> SUFFICES ASSUME NEW b \in Bases PROVE \E n \in 1..Len(Order) : Order[n] = b
    OBVIOUS
  <2>1. PICK T : T = {i \in 1..Len(Pairs) : Pairs[i].base = b}
    OBVIOUS
  <2>2. T \subseteq Nat /\ T # {}
    BY <2>1, PairsTyped DEF Bases
  <2>3. PICK i \in T : \A j \in T : i <= j
    BY <2>2, Least
  <2>4. \A j \in 1..(i - 1) : Pairs[j].base # Pairs[i].base
    BY <2>1, <2>3, PairsTyped
  <2>5. i \in I /\ Pairs[i].base = b
    BY <2>1, <2>3, <2>4, PairsTyped
  <2>6. PICK n \in 1..Len(FirstPairs) : h[n] = i
    BY <1>2, <2>5
  <2> QED
    BY <1>2, <1>3, <1>4, <2>5, <2>6
<1>7. \A m, n \in 1..Len(Order) : Order[m] = Order[n] => m = n
  BY <1>4, <1>5, LenProperties
<1> QED
  BY <1>4, <1>6, <1>7

LEMMA IsSeqOf ==
  ASSUME NEW S, NEW m \in Nat, NEW s, s = [k \in 1..m |-> s[k]],
         \A k \in 1..m : s[k] \in S
  PROVE  s \in Seq(S) /\ Len(s) = m
<1>1. s \in [1..m -> S]
  OBVIOUS
<1> QED
  BY <1>1

(* The rows of an attempt.                                                 *)
LEMMA ChunkFacts ==
  ASSUME prog \in Bases, tag \in 0..Len(By[prog])
  PROVE  /\ DOMAIN Chunk = 1..(IF tag = All THEN Len(By[prog]) ELSE 1)
         /\ \A k \in DOMAIN Chunk :
              /\ Chunk[k] = By[prog][IF tag = All THEN k ELSE tag]
              /\ Chunk[k].base = prog /\ Chunk[k].id \in PairIds
<1>1. /\ Len(By[prog]) \in Nat \ {0} /\ DOMAIN By[prog] = 1..Len(By[prog])
      /\ \A k \in 1..Len(By[prog]) : By[prog][k].base = prog /\ By[prog][k].id \in PairIds
  BY ByFacts
<1>2. CASE tag = All
  BY <1>1, <1>2 DEF Chunk, All
<1>3. CASE tag # All
  <2>1. Chunk = << By[prog][tag] >>
    BY <1>3 DEF Chunk, All
  <2>2. DOMAIN Chunk = 1..1 /\ Chunk[1] = By[prog][tag] /\ tag \in 1..Len(By[prog])
    BY <1>1, <1>3, <2>1 DEF All
  <2> QED
    BY <1>1, <1>3, <2>2
<1> QED
  BY <1>2, <1>3

-----------------------------------------------------------------------------
(* A step that stores no row and kills no attempt keeps the ledger.        *)
LEMMA LedgerKept ==
  ASSUME Ledger, UNCHANGED <<prog, todo, rows, killed>>, Active' <=> Active,
         pc' # "aborted" => pc # "aborted"
  PROVE  Ledger'
<1>1. ToDo' = ToDo
  BY DEF ToDo
<1>2. \A r : Vouched(r)' = Vouched(r)
  BY DEF Vouched
<1>3. \A b : Stored(b)' = Stored(b)
  BY <1>2 DEF Stored
<1> QED
  BY <1>1, <1>3 DEF Ledger

(* Steps of the watchdog that touch nothing but where it is.               *)
LEMMA WaitStep ==
  ASSUME ChunkedInv, UNCHANGED <<prog, todo, tag, got, rows, dest, killed>>,
         pc' = pc \/ (Active /\ pc # "expired" /\ pc' \in {"spawn", "poll", "slept"}),
         ChunkedTypeOK', pc' \in {"spawn", "expired"} => child' # "running"
  PROVE  ChunkedInv'
<1>1. ToDo' = ToDo /\ (Active' <=> Active) /\ (pc' = "expired" <=> pc = "expired")
      /\ (pc' = "aborted" <=> pc = "aborted") /\ (pc' = "done" <=> pc = "done")
  BY DEF ToDo, Active
<1>2. Attempt'
  BY <1>1 DEF ChunkedInv, Attempt, Vouched
<1>3. Ledger'
  BY <1>1, LedgerKept DEF ChunkedInv
<1>4. Ends'
  BY <1>1 DEF ChunkedInv, Ends, MergedExact, TimeoutsEarned
<1> QED
  BY <1>2, <1>3, <1>4 DEF ChunkedInv

LEMMA WatchStep ==
  ASSUME ChunkedInv, Spawn \/ PollRunning \/ WithinLimit \/ ChildEnds \/ LimitPasses
  PROVE  ChunkedInv'
<1>1. CASE Spawn
  <2>1. ChunkedTypeOK'
    BY <1>1 DEF ChunkedInv, ChunkedTypeOK, Spawn
  <2> QED
    BY <1>1, <2>1, WaitStep DEF Spawn, Active
<1>2. CASE PollRunning
  <2>1. ChunkedTypeOK'
    BY <1>2 DEF ChunkedInv, ChunkedTypeOK, PollRunning
  <2> QED
    BY <1>2, <2>1, WaitStep DEF PollRunning, Active
<1>3. CASE WithinLimit
  <2>1. ChunkedTypeOK'
    BY <1>3 DEF ChunkedInv, ChunkedTypeOK, WithinLimit
  <2> QED
    BY <1>3, <2>1, WaitStep DEF WithinLimit, Active
<1>4. CASE ChildEnds
  <2>1. ChunkedTypeOK'
    BY <1>4 DEF ChunkedInv, ChunkedTypeOK, ChildEnds, hostVars
  <2> QED
    BY <1>4, <2>1, WaitStep DEF ChildEnds, hostVars
<1>5. CASE LimitPasses
  <2>1. ChunkedTypeOK'
    BY <1>5 DEF ChunkedInv, ChunkedTypeOK, LimitPasses, hostVars
  <2> QED
    BY <1>5, <2>1, WaitStep DEF LimitPasses, hostVars, ChunkedInv, Ends
<1> QED
  BY <1>1, <1>2, <1>3, <1>4, <1>5

(* The attempt killed is this one; what other programs have is not touched. *)
LEMMA KillStep ==
  ASSUME ChunkedInv, Kill
  PROVE  ChunkedInv'
<1>1. /\ pc = "slept" /\ pc' = "expired" /\ child' = "killed"
      /\ killed' = killed \cup {<<prog, tag>>}
      /\ UNCHANGED <<prog, todo, tag, got, rows, dest, over>>
  BY DEF Kill, AfterKill
<1>2. /\ Active /\ Active' /\ ToDo' = ToDo /\ ChunkedTypeOK
      /\ prog \in Bases /\ prog \notin ToDo /\ tag \in 0..Len(By[prog])
      /\ Len(By[prog]) \in Nat /\ tag \in 0..Len(Pairs)
  BY <1>1, ByFacts DEF ChunkedInv, Attempt, Active, ToDo, ChunkedTypeOK
<1>3. ChunkedTypeOK'
  BY <1>1, <1>2 DEF ChunkedTypeOK
<1>4. \A u \in 0..Len(Pairs) : <<prog, u>> \in killed => u < tag
  BY <1>1, <1>2 DEF ChunkedInv, Attempt
<1>5. Attempt'
  <2>1. \A k \in 1..Len(got) : Vouched(got[k])'
    <3> SUFFICES ASSUME NEW k \in 1..Len(got) PROVE Vouched(got[k])'
      OBVIOUS
    <3>1. Len(got) = IF tag = All THEN 0 ELSE tag - 1
      BY <1>2 DEF ChunkedInv, Attempt
    <3>2. got[k].from = <<prog, k>> /\ Vouched(got[k]) /\ k # tag
      BY <1>2, <3>1 DEF ChunkedInv, Attempt, All
    <3> QED
      BY <1>1, <3>2 DEF Vouched
  <2>2. \A u \in 0..Len(Pairs) : <<prog, u>> \in killed' => u < tag \/ u = tag
    BY <1>1, <1>4
  <2> QED
    BY <1>1, <1>2, <2>1, <2>2 DEF ChunkedInv, Attempt, Vouched
<1>6. Ledger'
  <2>1. \A b \in ToDo : \A u \in 0..Len(Pairs) : <<b, u>> \notin killed'
    BY <1>1, <1>2 DEF ChunkedInv, Ledger
  <2>2. ASSUME NEW b \in Bases, b # prog, Stored(b)
        PROVE  Stored(b)'
    <3> SUFFICES ASSUME NEW k \in 1..Len(By[b]),
                        NEW r, r = rows[By[b][k].id]
                 PROVE  r.pair = By[b][k].id /\ r.from[1] = b /\ r \in ChunkedRows /\ Vouched(r)'
      BY <1>1 DEF Stored, Vouched
    <3>1. r.pair = By[b][k].id /\ r.from[1] = b /\ r \in ChunkedRows /\ Vouched(r)
      BY <2>2 DEF Stored
    <3>2. r.from # <<prog, tag>>
      BY <2>2, <3>1
    <3> QED
      BY <1>1, <3>1, <3>2 DEF Vouched
  <2> QED
    BY <1>1, <1>2, <2>1, <2>2 DEF ChunkedInv, Ledger
<1>7. Ends'
  BY <1>1 DEF ChunkedInv, Ends, MergedExact, TimeoutsEarned
<1> QED
  BY <1>3, <1>5, <1>6, <1>7 DEF ChunkedInv

LEMMA FailedStep ==
  ASSUME ChunkedInv, ChildFailed
  PROVE  ChunkedInv'
<1>1. pc = "poll" /\ pc' = "aborted"
      /\ UNCHANGED <<prog, todo, tag, got, rows, dest, child, over, killed>>
  BY DEF ChildFailed
<1>2. ChunkedTypeOK' /\ dest = <<>>
  BY <1>1 DEF ChunkedInv, ChunkedTypeOK, Ends
<1> QED
  BY <1>1, <1>2 DEF ChunkedInv, Attempt, Active, Ledger, Ends, MergedExact, TimeoutsEarned

LEMMA FallbackStep ==
  ASSUME ChunkedInv, Fallback
  PROVE  ChunkedInv'
<1>1. /\ pc = "expired" /\ pc' = "spawn" /\ tag = All /\ tag' = 1 /\ got' = <<>>
      /\ UNCHANGED <<prog, todo, rows, dest, child, over, killed>>
  BY DEF Fallback, Retries
<1>2. /\ Active /\ Active' /\ ToDo' = ToDo /\ ChunkedTypeOK /\ prog \in Bases
      /\ Len(By[prog]) \in Nat \ {0} /\ Len(By[prog]) <= Len(Pairs) /\ Len(Pairs) \in Nat
  BY <1>1, ByFacts, PairsTyped DEF ChunkedInv, Attempt, Active, ToDo
<1>3. ChunkedTypeOK'
  BY <1>1, <1>2 DEF ChunkedTypeOK
<1>4. Attempt'
  <2>1. Len(got') = 0 /\ tag' # All /\ tag' \in 0..Len(By[prog])
    BY <1>1, <1>2 DEF All
  <2>2. \A u \in 0..Len(Pairs) : <<prog, u>> \in killed => u < tag'
    BY <1>1, <1>2 DEF ChunkedInv, Attempt, All
  <2> QED
    BY <1>1, <1>2, <2>1, <2>2 DEF ChunkedInv, Attempt, Vouched
<1>5. Ledger'
  BY <1>1, <1>2, LedgerKept DEF ChunkedInv
<1>6. Ends'
  BY <1>1 DEF ChunkedInv, Ends, MergedExact, TimeoutsEarned
<1> QED
  BY <1>3, <1>4, <1>5, <1>6 DEF ChunkedInv

-----------------------------------------------------------------------------
(* The rows collected with those of this attempt: as many as the program   *)
(* has pairs, or as many as have been tried alone.                         *)
AttemptRows(kind) ==
  [k \in DOMAIN Chunk |-> [pair |-> Chunk[k].id, kind |-> kind,
                           from |-> <<Chunk[k].base, tag>>]]
LEMMA JoinedRows ==
  ASSUME ChunkedInv, Active, NEW kind \in {"scored", "harness_timeout"},
         NEW g, g = got \o AttemptRows(kind),
         \A p : Vouched([pair |-> p, kind |-> kind, from |-> <<prog, tag>>])
  PROVE  /\ g \in Seq(ChunkedRows) /\ Len(g) = IF tag = All THEN Len(By[prog]) ELSE tag
         /\ \A k \in 1..Len(g) :
              /\ k \in 1..Len(By[prog]) /\ g[k].pair = By[prog][k].id
              /\ g[k].from = <<prog, IF tag = All THEN All ELSE k>> /\ Vouched(g[k])
<1>1. /\ ChunkedTypeOK /\ prog \in Bases /\ tag \in 0..Len(By[prog])
      /\ got \in Seq(ChunkedRows) /\ Len(got) \in Nat
      /\ Len(got) = IF tag = All THEN 0 ELSE tag - 1
      /\ \A k \in 1..Len(got) : /\ got[k].pair = By[prog][k].id
                                /\ got[k].from = <<prog, k>> /\ Vouched(got[k])
  BY LenProperties DEF ChunkedInv, Attempt, ChunkedTypeOK
<1>2. /\ Len(By[prog]) \in Nat \ {0} /\ Len(By[prog]) <= Len(Pairs) /\ Len(Pairs) \in Nat
  BY <1>1, ByFacts, PairsTyped
<1>3. PICK new, m : new = AttemptRows(kind) /\ m = IF tag = All THEN Len(By[prog]) ELSE 1
  OBVIOUS
<1>4. /\ m \in Nat /\ new = [k \in 1..m |-> new[k]]
      /\ \A k \in 1..m :
           /\ new[k] = [pair |-> By[prog][IF tag = All THEN k ELSE tag].id,
                        kind |-> kind, from |-> <<prog, tag>>]
           /\ new[k] \in ChunkedRows
  <2>1. DOMAIN Chunk = 1..m /\ m \in Nat
    BY <1>1, <1>2, <1>3, ChunkFacts
  <2>2. new = [k \in 1..m |-> [pair |-> Chunk[k].id, kind |-> kind,
                               from |-> <<Chunk[k].base, tag>>]]
    BY <1>3, <2>1 DEF AttemptRows
  <2>3. \A k \in 1..m : /\ Chunk[k] = By[prog][IF tag = All THEN k ELSE tag]
                        /\ Chunk[k].base = prog /\ Chunk[k].id \in PairIds
    BY <1>1, <2>1, ChunkFacts
  <2>4. \A k \in 1..m :
          new[k] = [pair |-> Chunk[k].id, kind |-> kind, from |-> <<prog, tag>>]
    BY <2>2, <2>3
  <2>5. tag \in 0..Len(Pairs)
    BY <1>1, <1>2
  <2>6. \A k \in 1..m : new[k] \in ChunkedRows
    <3> SUFFICES ASSUME NEW k \in 1..m PROVE new[k] \in ChunkedRows
      OBVIOUS
    <3>1. Chunk[k].id \in PairIds /\ <<prog, tag>> \in Bases \X (0..Len(Pairs))
      BY <1>1, <2>3, <2>5
    <3>2. new[k] = [pair |-> Chunk[k].id, kind |-> kind, from |-> <<prog, tag>>]
      BY <2>4
    <3> QED
      BY <3>1, <3>2 DEF ChunkedRows
  <2>7. \A k \in 1..m :
          new[k] = [pair |-> By[prog][IF tag = All THEN k ELSE tag].id,
                    kind |-> kind, from |-> <<prog, tag>>]
    BY <2>3, <2>4
  <2> QED
    BY <2>1, <2>2, <2>6, <2>7
<1>5. new \in Seq(ChunkedRows) /\ Len(new) = m
  BY <1>4, Zenon, IsSeqOf
<1>6. /\ g \in Seq(ChunkedRows) /\ Len(g) = Len(got) + m
      /\ \A k \in 1..(Len(got) + m) :
           g[k] = IF k <= Len(got) THEN got[k] ELSE new[k - Len(got)]
  <2>1. got \in Seq(ChunkedRows) /\ new \in Seq(ChunkedRows) /\ g = got \o new
    BY <1>1, <1>3, <1>5
  <2> QED
    <3>1. /\ got \o new \in Seq(ChunkedRows) /\ Len(got \o new) = Len(got) + Len(new)
          /\ \A k \in 1..(Len(got) + Len(new)) :
               (got \o new)[k] = IF k <= Len(got) THEN got[k] ELSE new[k - Len(got)]
      BY <2>1, ConcatProperties, Zenon
    <3> QED
      BY <1>5, <2>1, <3>1
<1>7. Len(g) = IF tag = All THEN Len(By[prog]) ELSE tag
  BY <1>1, <1>2, <1>3, <1>6 DEF All
<1>8. ASSUME NEW k \in 1..Len(g)
      PROVE  /\ k \in 1..Len(By[prog]) /\ g[k].pair = By[prog][k].id
             /\ g[k].from = <<prog, IF tag = All THEN All ELSE k>> /\ Vouched(g[k])
  <2>0. k \in Nat /\ k \in 1..Len(By[prog])
    BY <1>1, <1>2, <1>7 DEF All
  <2>1. CASE k <= Len(got)
    <3>1. tag # All /\ k \in 1..Len(got) /\ g[k] = got[k]
      BY <1>1, <1>6, <1>8, <2>1
    <3> QED
      BY <1>1, <2>0, <3>1
  <2>2. CASE ~(k <= Len(got))
    <3>1. k - Len(got) \in 1..m /\ g[k] = new[k - Len(got)]
      <4>1. m \in Nat /\ Len(g) = Len(got) + m /\ Len(got) \in Nat
        BY <1>1, <1>4, <1>6
      <4>2. k \in 1..(Len(got) + m) /\ k - Len(got) \in 1..m
        BY <1>8, <2>0, <2>2, <4>1
      <4> QED
        BY <1>6, <2>2, <4>2
    <3>2. (IF tag = All THEN k - Len(got) ELSE tag) = k
      <4>1. CASE tag = All
        BY <1>1, <4>1
      <4>2. CASE tag # All
        BY <1>1, <1>7, <1>8, <2>0, <2>2, <4>2
      <4> QED
        BY <4>1, <4>2
    <3>3. g[k] = [pair |-> By[prog][k].id, kind |-> kind, from |-> <<prog, tag>>]
      BY <1>4, <3>1, <3>2
    <3>4. tag = All \/ tag = k
      BY <3>2
    <3> QED
      BY <2>0, <3>3, <3>4
  <2> QED
    BY <2>1, <2>2
<1> QED
  BY <1>6, <1>7, <1>8

LEMMA GoOnStep ==
  ASSUME ChunkedInv, Active, child # "running", NEW kind \in {"scored", "harness_timeout"},
         GoOn(got \o AttemptRows(kind)), UNCHANGED <<dest, child, over, killed>>,
         \A p : Vouched([pair |-> p, kind |-> kind, from |-> <<prog, tag>>])
  PROVE  ChunkedInv'
<1>1. PICK g : g = got \o AttemptRows(kind)
  OBVIOUS
<1>2. /\ g \in Seq(ChunkedRows) /\ Len(g) = IF tag = All THEN Len(By[prog]) ELSE tag
      /\ \A k \in 1..Len(g) :
           /\ k \in 1..Len(By[prog]) /\ g[k].pair = By[prog][k].id
           /\ g[k].from = <<prog, IF tag = All THEN All ELSE k>> /\ Vouched(g[k])
  BY <1>1, JoinedRows
<1>3. GoOn(g)
  BY <1>1
<1>4. /\ ChunkedTypeOK /\ Attempt /\ Ledger /\ Ends /\ pc \notin {"aborted", "done"}
      /\ prog \in Bases /\ prog \notin ToDo /\ tag \in 0..Len(By[prog])
      /\ Len(By[prog]) \in Nat \ {0} /\ Len(By[prog]) <= Len(Pairs) /\ Len(Pairs) \in Nat
      /\ dest = <<>> /\ dest' = <<>> /\ todo \in Seq(Bases)
  BY ByFacts, PairsTyped DEF ChunkedInv, Attempt, Active, Ends, ChunkedTypeOK
<1>5. \A u \in 0..Len(Pairs) : <<prog, u>> \in killed => u <= tag
  BY <1>4 DEF Attempt, ChunkedTypeOK
<1>6. CASE tag # All /\ tag < Len(By[prog])
  <2>1. /\ got' = g /\ tag' = tag + 1 /\ pc' = "spawn"
        /\ UNCHANGED <<prog, todo, rows>>
    BY <1>3, <1>6 DEF GoOn
  <2>2. tag \in Nat /\ tag' \in 1..Len(By[prog]) /\ tag' # All /\ tag' \in 0..Len(Pairs)
    BY <1>4, <1>6, <2>1 DEF All
  <2>3. ChunkedTypeOK'
    BY <1>2, <1>4, <2>1, <2>2 DEF ChunkedTypeOK
  <2>4. ToDo' = ToDo /\ Active'
    BY <2>1 DEF ToDo, Active
  <2>5. \A k \in 1..Len(g) : g[k].from = <<prog, k>> /\ Vouched(g[k])'
    BY <1>2, <1>6 DEF Vouched
  <2>6. Len(g) = tag' - 1
    BY <1>2, <1>6, <2>1, <2>2
  <2>7. <<prog, All>> \in killed'
    BY <1>4, <1>6 DEF Attempt
  <2>8. \A u \in 0..Len(Pairs) : <<prog, u>> \in killed' => u < tag'
    BY <1>5, <2>1, <2>2
  <2>9. Attempt'
    <3>1. \A k \in 1..Len(got') :
            got'[k].pair = By[prog][k].id /\ got'[k].from = <<prog, k>> /\ Vouched(got[k])'
      BY <1>2, <2>1, <2>5 DEF Vouched
    <3> QED
      BY <1>4, <2>1, <2>2, <2>4, <2>6, <2>7, <2>8, <3>1 DEF Attempt
  <2>10. Ledger'
    BY <1>4, <2>1, <2>4, LedgerKept
  <2>11. Ends'
    BY <1>4, <2>1 DEF Ends, MergedExact, TimeoutsEarned
  <2> QED
    BY <2>3, <2>9, <2>10, <2>11 DEF ChunkedInv
<1>7. CASE ~(tag # All /\ tag < Len(By[prog]))
  <2>1. /\ rows' = [id \in PairIds |->
                      IF \E k \in DOMAIN g : g[k].pair = id
                      THEN g[CHOOSE k \in DOMAIN g : g[k].pair = id]
                      ELSE rows[id]]
        /\ got' = <<>> /\ tag' = All
        /\ pc' = IF todo = <<>> THEN "merge" ELSE "spawn"
        /\ prog' = IF todo = <<>> THEN prog ELSE Head(todo)
        /\ todo' = IF todo = <<>> THEN <<>> ELSE Tail(todo)
    BY <1>3, <1>7 DEF GoOn
  <2>2. DOMAIN g = 1..Len(g) /\ Len(g) = Len(By[prog])
        /\ \A k \in 1..Len(g) : g[k] \in ChunkedRows
    BY <1>2, <1>4, <1>7, LenProperties, ElementOfSeq
  <2>3. \A id \in PairIds :
          \/ \E k \in 1..Len(g) : rows'[id] = g[k] /\ g[k].pair = id
          \/ rows'[id] = rows[id] /\ \A k \in 1..Len(g) : g[k].pair # id
    BY <2>1, <2>2
  <2>4. PICK b \in Bases : b = prog
    BY <1>4
  <2>5. Stored(b)'
    <3> SUFFICES ASSUME NEW k \in 1..Len(By[b]), NEW r, r = rows'[By[b][k].id]
                 PROVE  /\ r.pair = By[b][k].id /\ r.from[1] = b
                        /\ r \in ChunkedRows /\ Vouched(r)'
      BY DEF Stored, Vouched
    <3>1. By[b][k].id \in PairIds /\ k \in 1..Len(g) /\ g[k].pair = By[b][k].id
      BY <1>2, <2>2, <2>4, ByFacts
    <3>2. PICK j \in 1..Len(g) : r = g[j] /\ g[j].pair = By[b][k].id
      BY <2>3, <3>1
    <3>3. r.from[1] = b /\ Vouched(r) /\ r \in ChunkedRows
      BY <1>2, <2>2, <2>4, <3>2
    <3> QED
      BY <3>2, <3>3 DEF Vouched
  <2>6. ASSUME NEW c \in Bases, c # b, Stored(c)
        PROVE  Stored(c)'
    <3> SUFFICES ASSUME NEW k \in 1..Len(By[c])
                 PROVE  rows'[By[c][k].id] = rows[By[c][k].id]
      BY <2>6 DEF Stored, Vouched
    <3>1. \A j \in 1..Len(g) : g[j].pair # By[c][k].id
      BY <1>2, <2>4, <2>6, ByDisjoint
    <3>2. By[c][k].id \in PairIds
      BY ByFacts
    <3> QED
      BY <2>3, <3>1, <3>2
  <2>7. rows' \in [PairIds -> ChunkedRows \cup {NoRow}]
    <3>1. \A id \in PairIds : rows'[id] \in ChunkedRows \cup {NoRow}
      BY <1>4, <2>2, <2>3 DEF ChunkedTypeOK
    <3> QED
      BY <2>1, <3>1
  <2>8. /\ All \in 0..Len(Pairs) /\ Len(got') = 0 /\ got' \in Seq(ChunkedRows)
        /\ \A c \in Bases : All \in 0..Len(By[c])
    BY <1>4, <2>1, ByFacts DEF All
  <2>9. CASE todo = <<>>
    <3>1. pc' = "merge" /\ prog' = b /\ todo' = <<>> /\ ToDo = {} /\ ~Active'
      BY <2>1, <2>4, <2>9 DEF ToDo, Active
    <3>2. ChunkedTypeOK'
      BY <1>4, <2>1, <2>7, <2>8, <3>1 DEF ChunkedTypeOK
    <3>3. Attempt'
      BY <3>1 DEF Attempt
    <3>4. \A c \in Bases : Stored(c)'
      BY <1>4, <2>4, <2>5, <2>6, <3>1 DEF Ledger
    <3>5. ToDo' = {}
      BY <3>1 DEF ToDo
    <3>6. Ledger'
      BY <3>1, <3>4, <3>5 DEF Ledger
    <3>7. Ends'
      BY <1>4, <3>1 DEF Ends, MergedExact, TimeoutsEarned
    <3> QED
      BY <3>2, <3>3, <3>6, <3>7 DEF ChunkedInv
  <2>10. CASE todo # <<>>
    <3>1. /\ pc' = "spawn" /\ Active' /\ prog' = Head(todo) /\ todo' = Tail(todo)
      BY <2>1, <2>10 DEF Active
    <3>2. /\ Len(todo) \in Nat \ {0} /\ Head(todo) = todo[1] /\ Head(todo) \in Bases
          /\ Tail(todo) \in Seq(Bases) /\ Len(Tail(todo)) = Len(todo) - 1
          /\ \A n \in 1..Len(Tail(todo)) : Tail(todo)[n] = todo[n + 1]
      BY <1>4, <2>10, HeadTailProperties, EmptySeq
    <3>3. \A m, n \in 1..Len(todo) : todo[m] = todo[n] => m = n
      BY <1>4 DEF Ledger
    <3>4. ToDo' \subseteq ToDo /\ prog' \in ToDo /\ prog' \notin ToDo'
      BY <3>1, <3>2, <3>3 DEF ToDo
    <3>5. \A c \in ToDo : c = prog' \/ c \in ToDo'
      <4> SUFFICES ASSUME NEW n \in 1..Len(todo), n # 1
                   PROVE  \E i \in 1..Len(Tail(todo)) : Tail(todo)[i] = todo[n]
        BY <3>1, <3>2 DEF ToDo
      <4>1. n - 1 \in 1..Len(Tail(todo)) /\ Tail(todo)[n - 1] = todo[n]
        BY <3>2
      <4> QED
        BY <4>1
    <3>6. \A m, n \in 1..Len(todo') : todo'[m] = todo'[n] => m = n
      <4> SUFFICES ASSUME NEW m \in 1..Len(Tail(todo)), NEW n \in 1..Len(Tail(todo)),
                          todo[m + 1] = todo[n + 1]
                   PROVE  m = n
        BY <3>1, <3>2
      <4>1. m + 1 \in 1..Len(todo) /\ n + 1 \in 1..Len(todo)
        BY <3>2
      <4>2. m + 1 = n + 1
        BY <3>3, <4>1
      <4> QED
        BY <4>2
    <3>7. \A c \in ToDo : \A u \in 0..Len(Pairs) : <<c, u>> \notin killed'
      BY <1>4 DEF Ledger
    <3>8. ChunkedTypeOK'
      BY <1>4, <2>1, <2>7, <2>8, <3>1, <3>2 DEF ChunkedTypeOK
    <3>9. Attempt'
      BY <2>1, <2>8, <3>1, <3>2, <3>4, <3>7 DEF Attempt, Vouched
    <3>10. \A c \in Bases : c \in ToDo' \/ c = prog' \/ Stored(c)'
      BY <1>4, <2>4, <2>5, <2>6, <3>5 DEF Ledger
    <3>11. Ledger'
      BY <3>1, <3>4, <3>6, <3>7, <3>10 DEF Ledger
    <3>12. Ends'
      BY <1>4, <3>1 DEF Ends, MergedExact, TimeoutsEarned
    <3> QED
      BY <3>8, <3>9, <3>11, <3>12 DEF ChunkedInv
  <2> QED
    BY <2>9, <2>10
<1> QED
  BY <1>6, <1>7

LEMMA CollectStep ==
  ASSUME ChunkedInv, Collect
  PROVE  ChunkedInv'
<1>1. /\ pc = "poll" /\ Active /\ child # "running"
      /\ UNCHANGED <<dest, child, over, killed>>
  BY DEF Collect, Active
<1>2. GoOn(got \o AttemptRows("scored"))
  BY DEF Collect, Collected, Scored, AttemptRows
<1>3. <<prog, tag>> \notin killed
  BY <1>1 DEF ChunkedInv, Attempt, ChunkedTypeOK
<1>4. \A p : Vouched([pair |-> p, kind |-> "scored", from |-> <<prog, tag>>])
  BY <1>3 DEF Vouched
<1> QED
  BY <1>1, <1>2, <1>4, GoOnStep

LEMMA GiveUpStep ==
  ASSUME ChunkedInv, GiveUp
  PROVE  ChunkedInv'
<1>1. /\ pc = "expired" /\ Active /\ child # "running" /\ tag # All
      /\ UNCHANGED <<dest, child, over, killed>>
  BY DEF GiveUp, Active, Retries, ChunkedInv, Ends
<1>2. GoOn(got \o AttemptRows("harness_timeout"))
  BY DEF GiveUp, TimedOut, AttemptRows
<1>3. <<prog, tag>> \in killed /\ <<prog, All>> \in killed
  BY <1>1 DEF ChunkedInv, Attempt
<1>4. \A p : Vouched([pair |-> p, kind |-> "harness_timeout", from |-> <<prog, tag>>])
  BY <1>1, <1>3 DEF Vouched
<1> QED
  BY <1>1, <1>2, <1>4, GoOnStep

LEMMA MergeStep ==
  ASSUME ChunkedInv, Merge
  PROVE  ChunkedInv'
<1>1. /\ pc = "merge" /\ pc' = "done" /\ dest' = [i \in DOMAIN Pairs |-> rows[Pairs[i].id]]
      /\ UNCHANGED <<prog, todo, tag, got, rows, child, over, killed>>
  BY DEF Merge, Merged
<1>2. ChunkedTypeOK /\ ~Active /\ ~Active' /\ todo = <<>> /\ ToDo = {} /\ ToDo' = {}
  BY <1>1 DEF ChunkedInv, Ledger, Active, ToDo
<1>3. \A b \in Bases : Stored(b)
  BY <1>1, <1>2 DEF ChunkedInv, Ledger
<1>4. \A i \in 1..Len(Pairs) :
        /\ dest'[i] = rows[Pairs[i].id] /\ dest'[i].pair = Pairs[i].id
        /\ dest'[i].from[1] = Pairs[i].base /\ dest'[i] \in ChunkedRows /\ Vouched(rows[Pairs[i].id])
  <2> SUFFICES ASSUME NEW i \in 1..Len(Pairs), NEW r, r = rows[Pairs[i].id]
               PROVE  /\ r.pair = Pairs[i].id /\ r.from[1] = Pairs[i].base
                      /\ r \in ChunkedRows /\ Vouched(r)
    BY <1>1, PairsTyped
  <2>1. Pairs[i].base \in Bases
    BY PairsTyped DEF Picks
  <2>2. PICK k \in 1..Len(By[Pairs[i].base]) : By[Pairs[i].base][k] = Pairs[i]
    BY <2>1, ByFacts
  <2> QED
    BY <1>3, <2>1, <2>2 DEF Stored
<1>5. dest' = [i \in 1..Len(Pairs) |-> dest'[i]]
  BY <1>1, PairsTyped
<1>6. dest' \in Seq(ChunkedRows) /\ Len(dest') = Len(Pairs) /\ DOMAIN dest' = 1..Len(Pairs)
  BY <1>4, <1>5, IsSeqOf, PairsTyped
<1>7. ChunkedTypeOK'
  BY <1>1, <1>2, <1>6 DEF ChunkedTypeOK
<1>8. Attempt'
  BY <1>2 DEF Attempt
<1>9. Ledger'
  <2>1. \A b : Stored(b)' = Stored(b)
    <3>1. \A r : Vouched(r)' = Vouched(r)
      BY <1>1 DEF Vouched
    <3> QED
      BY <1>1, <3>1 DEF Stored
  <2> QED
    BY <1>1, <1>2, <1>3, <2>1 DEF Ledger
<1>10. MergedExact'
  BY <1>4, <1>6, PairsTyped DEF MergedExact
<1>11. TimeoutsEarned'
  <2> SUFFICES ASSUME NEW i \in 1..Len(Pairs), NEW r, r = dest'[i]
               PROVE  IF r.kind = "harness_timeout"
                      THEN /\ r.from # <<Pairs[i].base, All>>
                           /\ {<<Pairs[i].base, All>>, r.from} \subseteq killed
                      ELSE r.from \notin killed
    BY <1>1, <1>6 DEF TimeoutsEarned
  <2>1. r.from[1] = Pairs[i].base /\ Vouched(r)
    BY <1>4
  <2> QED
    BY <2>1 DEF Vouched
<1>12. Ends'
  BY <1>1, <1>10, <1>11 DEF Ends
<1> QED
  BY <1>7, <1>8, <1>9, <1>12 DEF ChunkedInv

-----------------------------------------------------------------------------
LEMMA ChunkedInvInit == ChunkedInit => ChunkedInv
<1> SUFFICES ASSUME ChunkedInit PROVE ChunkedInv
  OBVIOUS
<1>1. /\ tag = All /\ got = <<>> /\ rows = [id \in PairIds |-> NoRow] /\ dest = <<>>
      /\ child = "none" /\ over = FALSE /\ killed = {} /\ Len(got) = 0
  BY DEF ChunkedInit
<1>0. /\ tag \in 0..Len(Pairs) /\ got \in Seq(ChunkedRows) /\ dest \in Seq(ChunkedRows)
      /\ rows \in [PairIds -> ChunkedRows \cup {NoRow}]
      /\ killed \subseteq Bases \X (0..Len(Pairs))
  BY <1>1, PairsTyped DEF All
<1>2. CASE Pairs = <<>>
  <2>1. pc = "merge" /\ prog = "none" /\ todo = <<>> /\ Bases = {} /\ ~Active
    BY <1>2 DEF ChunkedInit, Bases, Active
  <2>2. ToDo = {}
    BY <2>1 DEF ToDo
  <2>3. todo \in Seq(Bases)
    BY <2>1
  <2>4. ChunkedTypeOK
    BY <1>0, <1>1, <2>1, <2>3 DEF ChunkedTypeOK
  <2>5. Attempt /\ Ledger
    BY <2>1, <2>2 DEF Attempt, Ledger
  <2> QED
    BY <1>1, <2>1, <2>4, <2>5 DEF ChunkedInv, Ends, MergedExact, TimeoutsEarned
<1>3. CASE Pairs # <<>>
  <2>1. Len(Pairs) \in Nat \ {0} /\ Pairs[1].base \in Bases
    BY <1>3, PairsTyped, EmptySeq DEF Bases
  <2>2. Order # <<>> /\ Len(Order) \in Nat \ {0}
    BY <2>1, OrderFacts, EmptySeq
  <2>3. pc = "spawn" /\ Active /\ prog = Order[1] /\ todo = Tail(Order)
    BY <1>3, <2>2, OrderFacts, HeadTailProperties DEF ChunkedInit, Active
  <2>4. /\ todo \in Seq(Bases) /\ Len(todo) = Len(Order) - 1 /\ prog \in Bases
        /\ \A n \in 1..Len(todo) : todo[n] = Order[n + 1] /\ n + 1 \in 1..Len(Order)
    BY <2>2, <2>3, OrderFacts, HeadTailProperties, ElementOfSeq
  <2>5. prog \notin ToDo
    BY <2>2, <2>3, <2>4, OrderFacts DEF ToDo
  <2>6. \A m, n \in 1..Len(todo) : todo[m] = todo[n] => m = n
    <3> SUFFICES ASSUME NEW m \in 1..Len(todo), NEW n \in 1..Len(todo), todo[m] = todo[n]
                 PROVE  m = n
      OBVIOUS
    <3>0. /\ Order[m + 1] = Order[n + 1]
          /\ m + 1 \in 1..Len(Order) /\ n + 1 \in 1..Len(Order)
      BY <2>4
    <3>1. m + 1 = n + 1
      BY <3>0, OrderFacts
    <3> QED
      BY <3>1
  <2>7. \A b \in Bases : b \in ToDo \/ b = prog
    <3> SUFFICES ASSUME NEW b \in Bases, b # prog PROVE b \in ToDo
      OBVIOUS
    <3>1. PICK n \in 1..Len(Order) : Order[n] = b
      BY OrderFacts
    <3>2. n # 1 /\ n - 1 \in 1..Len(todo)
      BY <2>2, <2>3, <2>4, <3>1
    <3>3. todo[n - 1] = b
      BY <2>2, <2>4, <3>1, <3>2
    <3> QED
      BY <3>2, <3>3 DEF ToDo
  <2>8. ChunkedTypeOK
    BY <1>0, <1>1, <2>3, <2>4 DEF ChunkedTypeOK
  <2>9. Len(By[prog]) \in Nat
    BY <2>4, ByFacts
  <2>10. Attempt
    BY <1>1, <2>3, <2>4, <2>5, <2>9 DEF Attempt, All
  <2>11. Ledger
    BY <1>1, <2>3, <2>6, <2>7 DEF Ledger
  <2> QED
    BY <1>1, <2>3, <2>8, <2>10, <2>11 DEF ChunkedInv, Ends, MergedExact, TimeoutsEarned
<1> QED
  BY <1>2, <1>3

LEMMA ChunkedInvStep == ChunkedInv /\ [ChunkedNext]_chunkedVars => ChunkedInv'
<1> SUFFICES ASSUME ChunkedInv, [ChunkedNext]_chunkedVars PROVE ChunkedInv'
  OBVIOUS
<1>1. CASE HostStep
  BY <1>1, WatchStep, KillStep, FailedStep, CollectStep, FallbackStep, GiveUpStep,
     MergeStep DEF HostStep
<1>2. CASE ChildEnds \/ LimitPasses
  BY <1>2, WatchStep
<1>3. CASE UNCHANGED chunkedVars
  <2>1. /\ UNCHANGED <<prog, todo, tag, got, rows, dest, killed, child, over>> /\ pc' = pc
    BY <1>3 DEF chunkedVars, hostVars
  <2>2. ChunkedTypeOK'
    BY <2>1 DEF ChunkedInv, ChunkedTypeOK
  <2> QED
    BY <2>1, <2>2, WaitStep DEF ChunkedInv, Ends
<1> QED
  BY <1>1, <1>2, <1>3 DEF ChunkedNext, ChunkedOver

-----------------------------------------------------------------------------
(* The contract of ScoredFile, seen from the chunked harness.              *)
ChunkedJob == CASE pc = "done"    -> "done"
                [] pc = "aborted" -> "failed"
                [] OTHER          -> "running"
ChunkedListed == [i \in DOMAIN dest |-> dest[i].pair]
ChunkedFile == INSTANCE ScoredFile WITH job <- ChunkedJob, listed <- ChunkedListed

(* A step of the harness writes once, one row for each pair, or ends the   *)
(* job without a file, or shows nothing to the reader of the file.         *)
LEMMA ChunkedFileStep ==
  ASSUME ChunkedInv, ChunkedInv', [ChunkedNext]_chunkedVars
  PROVE  [ChunkedFile!End]_ChunkedFile!vars
<1>1. CASE Merge
  <2>1. pc = "merge" /\ pc' = "done"
    BY <1>1 DEF Merge
  <2>2. ChunkedJob = "running" /\ ChunkedJob' = "done"
    BY <2>1 DEF ChunkedJob
  <2>3. /\ dest' \in Seq(ChunkedRows) /\ DOMAIN dest' = 1..Len(Pairs)
        /\ \A i \in 1..Len(Pairs) : dest'[i].pair = Pairs[i].id
    BY <2>1, LenProperties, PairsTyped DEF ChunkedInv, ChunkedTypeOK, Ends, MergedExact
  <2>4. PICK s : s = ChunkedListed'
    OBVIOUS
  <2>5. s = [i \in 1..Len(Pairs) |-> s[i]] /\ \A i \in 1..Len(Pairs) : s[i] = Pairs[i].id
    BY <2>3, <2>4 DEF ChunkedListed
  <2>6. {s[i] : i \in 1..Len(Pairs)} = PairIds
    BY <2>5, PairIdsCount
  <2>7. /\ s \in [1..Cardinality(PairIds) -> PairIds]
        /\ \A i, j \in 1..Cardinality(PairIds) : s[i] = s[j] => i = j
    BY <2>5, <2>6, EachListedOnce
  <2>8. ChunkedFile!Lines = 1..Cardinality(PairIds)
    <3>1. ChunkedFile!Cardinality(PairIds) = Cardinality(PairIds)
      BY Zenon DEF ChunkedFile!Cardinality, Cardinality
    <3> QED
      BY <3>1 DEF ChunkedFile!Lines
  <2>9. /\ ChunkedListed' \in [ChunkedFile!Lines -> PairIds]
        /\ \A i, j \in ChunkedFile!Lines : ChunkedListed'[i] = ChunkedListed'[j] => i = j
    BY <2>4, <2>7, <2>8
  <2>10. ChunkedFile!Publish
    BY <2>2, <2>9 DEF ChunkedFile!Publish
  <2> QED
    BY <2>10 DEF ChunkedFile!End
<1>2. CASE ChildFailed
  <2>1. pc = "poll" /\ pc' = "aborted" /\ dest' = dest
    BY <1>2 DEF ChildFailed
  <2> QED
    BY <2>1 DEF ChunkedJob, ChunkedListed, ChunkedFile!End, ChunkedFile!Fail
<1>3. CASE Spawn \/ PollRunning \/ WithinLimit \/ Kill \/ Fallback
  <2>1. /\ pc \notin {"done", "aborted"} /\ pc' \notin {"done", "aborted"} /\ dest' = dest
    BY <1>3 DEF Spawn, PollRunning, WithinLimit, Kill, Fallback
  <2> QED
    BY <2>1 DEF ChunkedJob, ChunkedListed, ChunkedFile!vars
<1>4. CASE Collect \/ GiveUp
  <2>1. /\ pc \notin {"done", "aborted"} /\ pc' \notin {"done", "aborted"} /\ dest' = dest
    BY <1>4 DEF Collect, GiveUp, GoOn
  <2> QED
    BY <2>1 DEF ChunkedJob, ChunkedListed, ChunkedFile!vars
<1>5. CASE ChildEnds \/ LimitPasses \/ UNCHANGED chunkedVars
  <2>1. UNCHANGED <<pc, dest>>
    BY <1>5 DEF ChildEnds, LimitPasses, chunkedVars, hostVars
  <2> QED
    BY <2>1 DEF ChunkedJob, ChunkedListed, ChunkedFile!vars
<1> QED
  BY <1>1, <1>2, <1>3, <1>4, <1>5 DEF ChunkedNext, HostStep, ChunkedOver
=============================================================================
