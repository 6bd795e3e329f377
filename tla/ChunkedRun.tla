----------------------------- MODULE ChunkedRun -----------------------------
(***************************************************************************)
(* experiments/final/run_chunked.py: score the pairs of a split with one   *)
(* evaluation subprocess per base program, under a watchdog that kills a   *)
(* process over its time or memory limit; the pairs of a killed chunk are  *)
(* tried again one process each, and a pair whose own process is killed    *)
(* too gets a harness_timeout row.  The rows are merged in dataset order.  *)
(*                                                                         *)
(* A subprocess is one fresh, uninterrupted run of Evaluation in its own   *)
(* directory: it may write all its rows and exit with 0, exit with another *)
(* code, or never exit (a stalled tracer, a full stderr pipe).             *)
(***************************************************************************)
EXTENDS Dataset

VARIABLES
  \* the harness
  pc,          \* where main and run_chunk are
  prog,        \* the program whose pairs are being scored
  todo,        \* the programs after it, a suffix of order
  tag,         \* "all", or the position in by[prog] of the pair tried alone
  got,         \* rows collected for this program
  rows,        \* rows of the programs before it, by pair id
  dest,        \* the merged file
  \* the subprocess and its limit
  child,       \* none, running, finished (exit code 0) or failed
  over,        \* its time has run out, or its memory is above the maximum
  \* history, read by no action
  killed       \* the attempts <<program, tag>> killed by the watchdog

hostVars == <<pc, prog, todo, tag, got, rows, dest>>
chunkedVars == <<hostVars, child, over, killed>>

(* The bases in order of their first pair (42-46).                         *)
FirstPairs ==
  Listed({i \in DOMAIN Pairs : \A j \in 1..(i - 1) : Pairs[j].base # Pairs[i].base})
Order == [n \in DOMAIN FirstPairs |-> FirstPairs[n].base]

Scored(p, t) == [pair |-> p.id, kind |-> "scored", from |-> <<p.base, t>>]
TimedOut(p, t) == [pair |-> p.id, kind |-> "harness_timeout", from |-> <<p.base, t>>]

(* The pairs handed to the current subprocess.                             *)
Chunk == IF tag = 0 THEN By[prog] ELSE << By[prog][tag] >>

NoRow == [pair |-> "none", kind |-> "none", from |-> <<>>]

-----------------------------------------------------------------------------
(* Conditions and results.  A definition named ...Slip is a plausible      *)
(* programming error in the definition that follows it; no action uses it. *)

OverLimitSlip == over /\ tag = All      \* no watchdog in the fallback
OverLimit == over                       \* 71

AfterKillSlip == child                  \* SIGTERM, ignored, and no wait
AfterKill == "killed"                   \* 72: kill, then wait

RetriesSlip == FALSE                    \* no per-pair fallback
Retries == tag = All                    \* 80-85

MergedSlip(r) ==                        \* in the order the rows were added
  LET added == By[Order[1]] \o Listed({i \in DOMAIN Pairs : Pairs[i].base # Order[1]})
  IN [i \in DOMAIN Pairs |-> r[added[i].id]]
Merged(r) == [i \in DOMAIN Pairs |-> r[Pairs[i].id]]      \* 99

CollectedSlip ==                        \* got = instead of got +=
  [i \in DOMAIN Chunk |-> Scored(Chunk[i], tag)]
Collected ==                            \* 76: the rows the subprocess wrote
  got \o [i \in DOMAIN Chunk |-> Scored(Chunk[i], tag)]

-----------------------------------------------------------------------------
ChunkedInit ==
  /\ pc = IF Pairs = <<>> THEN "merge" ELSE "spawn"
  /\ prog = IF Pairs = <<>> THEN "none" ELSE Head(Order)
  /\ todo = IF Pairs = <<>> THEN <<>> ELSE Tail(Order)
  /\ tag = All
  /\ got = <<>>
  /\ rows = [id \in PairIds |-> NoRow]
  /\ dest = <<>>
  /\ child = "none"
  /\ over = FALSE
  /\ killed = {}

Spawn ==                                \* 59-67
  /\ pc = "spawn"
  /\ child' = "running"
  /\ over' = FALSE
  /\ pc' = "poll"
  /\ UNCHANGED <<prog, todo, tag, got, rows, dest, killed>>

PollRunning ==                          \* 68-69
  /\ pc = "poll"
  /\ child = "running"
  /\ pc' = "slept"
  /\ UNCHANGED <<prog, todo, tag, got, rows, dest, child, over, killed>>

WithinLimit ==                          \* 70-71
  /\ pc = "slept"
  /\ ~OverLimit
  /\ pc' = "poll"
  /\ UNCHANGED <<prog, todo, tag, got, rows, dest, child, over, killed>>

(* The subprocess is killed, even if it has ended during the sleep.        *)
Kill ==                                 \* 71-73
  /\ pc = "slept"
  /\ OverLimit
  /\ child' = AfterKill
  /\ killed' = killed \cup {<<prog, tag>>}
  /\ pc' = "expired"
  /\ UNCHANGED <<prog, todo, tag, got, rows, dest, over>>

ChildFailed ==                          \* 74-75: SystemExit ends the job
  /\ pc = "poll"
  /\ child = "failed"
  /\ pc' = "aborted"
  /\ UNCHANGED <<prog, todo, tag, got, rows, dest, child, over, killed>>

(* With g collected for this attempt, try the next pair alone, or store    *)
(* the rows of the program and go on to the next one, or to the merge.     *)
GoOn(g) ==                              \* 85, 95-99
  IF tag # All /\ tag < Len(By[prog])
  THEN /\ got' = g
       /\ tag' = tag + 1
       /\ pc' = "spawn"
       /\ UNCHANGED <<prog, todo, rows>>
  ELSE /\ rows' = [id \in PairIds |->
                     IF \E k \in DOMAIN g : g[k].pair = id
                     THEN g[CHOOSE k \in DOMAIN g : g[k].pair = id]
                     ELSE rows[id]]
       /\ got' = <<>>
       /\ tag' = All
       /\ pc' = IF todo = <<>> THEN "merge" ELSE "spawn"
       /\ prog' = IF todo = <<>> THEN prog ELSE Head(todo)
       /\ todo' = IF todo = <<>> THEN <<>> ELSE Tail(todo)

Collect ==                              \* 76, 79, 87
  /\ pc = "poll"
  /\ child = "finished"
  /\ GoOn(Collected)
  /\ UNCHANGED <<dest, child, over, killed>>

Fallback ==                             \* 80-85
  /\ pc = "expired"
  /\ Retries
  /\ got' = <<>>
  /\ tag' = 1
  /\ pc' = "spawn"
  /\ UNCHANGED <<prog, todo, rows, dest, child, over, killed>>

GiveUp ==                               \* 88-94
  /\ pc = "expired"
  /\ ~Retries
  /\ GoOn(got \o [i \in DOMAIN Chunk |-> TimedOut(Chunk[i], tag)])
  /\ UNCHANGED <<dest, child, over, killed>>

Merge ==                                \* 99-103
  /\ pc = "merge"
  /\ dest' = Merged(rows)
  /\ pc' = "done"
  /\ UNCHANGED <<prog, todo, tag, got, rows, child, over, killed>>

(* The subprocess ends, its output written or not; its limit runs out.     *)
ChildEnds ==                            \* external to this file
  /\ child = "running"
  /\ child' \in {"finished", "failed"}
  /\ UNCHANGED <<hostVars, over, killed>>

LimitPasses ==                          \* 71
  /\ child = "running"
  /\ ~over
  /\ over' = TRUE
  /\ UNCHANGED <<hostVars, child, killed>>

HostStep ==
  \/ Spawn
  \/ PollRunning
  \/ WithinLimit
  \/ Kill
  \/ ChildFailed
  \/ Collect
  \/ Fallback
  \/ GiveUp
  \/ Merge

ChunkedOver == pc \in {"done", "aborted"} /\ UNCHANGED chunkedVars

ChunkedNext == HostStep \/ ChildEnds \/ LimitPasses \/ ChunkedOver

(* The harness runs and time passes; a subprocess may hang for ever.       *)
ChunkedFairness == WF_chunkedVars(HostStep) /\ WF_chunkedVars(LimitPasses)

ChunkedSpec == ChunkedInit /\ [][ChunkedNext]_chunkedVars /\ ChunkedFairness

-----------------------------------------------------------------------------
(* Properties.                                                             *)

ChunkedRows == [pair : PairIds, kind : {"scored", "harness_timeout"},
                from : Bases \X (0..Len(Pairs))]

ChunkedTypeOK ==
  /\ pc \in {"spawn", "poll", "slept", "expired", "merge", "done", "aborted"}
  /\ prog \in Bases \cup {"none"}
  /\ todo \in Seq(Bases)
  /\ tag \in 0..Len(Pairs)
  /\ got \in Seq(ChunkedRows)
  /\ rows \in [PairIds -> ChunkedRows \cup {NoRow}]
  /\ dest \in Seq(ChunkedRows)
  /\ child \in {"none", "running", "finished", "failed", "killed"}
  /\ over \in BOOLEAN
  /\ killed \subseteq Bases \X (0..Len(Pairs))

(* The merged file has one row per pair, in dataset order, whichever       *)
(* attempts were killed; it is written only if no subprocess failed.       *)
MergedExact ==
  pc = "done" =>
    /\ Len(dest) = Len(Pairs)
    /\ \A i \in DOMAIN Pairs : dest[i].pair = Pairs[i].id

(* A pair is given up only after its program's process and its own were    *)
(* both killed; every other row was written by a process that was not      *)
(* killed, never by a killed one that had written its output in time.      *)
TimeoutsEarned ==
  \A i \in DOMAIN dest :
    LET b == Pairs[i].base IN
    IF dest[i].kind = "harness_timeout"
    THEN dest[i].from # <<b, All>> /\ {<<b, All>>, dest[i].from} \subseteq killed
    ELSE dest[i].from \notin killed

(* No two subprocesses run at once: the point of one process per program   *)
(* is to bound what runs together (docstring 3-5, kill and wait at 72).    *)
OneChild == [][Spawn => child # "running"]_chunkedVars

(* The job ends although subprocesses may hang (68-73).                    *)
ChunkedEnds == <>(pc \in {"done", "aborted"})
=============================================================================
