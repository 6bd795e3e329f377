----------------------------- MODULE ScoringPool ------------------------------
(***************************************************************************)
(* The two parallel harnesses: a thread pool scores the programs, each     *)
(* thread running one subprocess per program and waiting for its "@@" line.*)
(*                                                                         *)
(*   v6        experiments/final/score_v6_experimental.py: a program whose *)
(*             subprocess gives no line is scored again, one subprocess    *)
(*             per pair; a pair that fails again gets a harness_timeout    *)
(*             row.  The rows are written in dataset order.                *)
(*   external  experiments/final/rescore_external_v8.py, run_corpus: no    *)
(*             second attempt, a program without a line gets harness_error *)
(*             rows, a timeout is an exception.  The rows are returned     *)
(*             program by program.                                         *)
(***************************************************************************)
EXTENDS Dataset

VARIABLES
  harness,     \* "v6" or "external"
  \* the threads of the pool, by the program whose future they run
  future,      \* queued, running, returned, raised or cancelled
  ptag,        \* All, or the position of the pair tried alone
  pchild,      \* is a subprocess of this program alive?
  pgot,        \* the rows of this future
  \* the main thread
  mpc,         \* where main (v6) or run_corpus (external) is
  next,        \* the program whose result main waits for, an index of Progs
  prows,       \* the rows collected so far, by pair (v6), or in order
  out,         \* the file written (v6), the list returned (external)
  \* history, read by no action
  silent       \* the attempts <<program, tag>> that gave no line

threadVars == <<future, ptag, pchild, pgot>>
mainVars == <<mpc, next, prows, out>>
poolVars == <<harness, threadVars, mainVars, silent>>

ChunkOf(b) == IF ptag[b] = All THEN By[b] ELSE << By[b][ptag[b]] >>

RowsOf(b, kind) ==
  [i \in DOMAIN ChunkOf(b) |->
     [pair |-> ChunkOf(b)[i].id, kind |-> kind, from |-> <<b, ptag[b]>>]]

-----------------------------------------------------------------------------
(* Conditions and results.  A definition named ...Slip is a plausible      *)
(* programming error in the definition that follows it; no action uses it. *)

(* Program b is the next one a free thread takes: the queue of the pool is *)
(* first in, first out, and map has submitted every program.               *)
FreeSlip(b) == future[b] = "queued"                  \* a thread per program
Free(b) ==                              \* 125; run_corpus 122
  /\ future[b] = "queued"
  /\ Cardinality({c \in Bases : future[c] = "running"}) < Workers
  /\ \E n \in DOMAIN Progs :
       /\ Progs[n] = b
       /\ \A m \in 1..(n - 1) : future[Progs[m]] # "queued"

ExpiresSlip(b) == pchild[b] /\ ptag[b] = All \* no timeout in the fallback
Expires(b) == pchild[b]                 \* 106: timeout= 900 or 120

(* What becomes of a future whose subprocess gave no line.                 *)
FallsBackSlip(b) == harness = "v6"        \* even after the pair's own attempt
FallsBack(b) == harness = "v6" /\ ptag[b] = All         \* 113-119

GaveUpSlip(b) == pgot[b]                \* got += r or [], no row
GaveUp(b) ==                            \* 121; run_corpus 115-120
  pgot[b] \o RowsOf(b, IF harness = "v6" THEN "harness_timeout"
                       ELSE "harness_error")

(* The rows of program b join those collected before.                      *)
JoinedSlip(b) == IF harness = "v6" THEN pgot[b] ELSE prows \o pgot[b]
Joined(b) == prows \o pgot[b]           \* 128-129; run_corpus 122

(* dict(rows) listed in dataset order, or the concatenation itself.        *)
WrittenSlip == prows
Written ==                              \* 130-132; run_corpus 123
  IF harness = "external" THEN prows
  ELSE LET Has(p) == \E k \in DOMAIN prows : prows[k].pair = p.id
           Row(p) == prows[CHOOSE k \in DOMAIN prows : prows[k].pair = p.id]
           listed == Listed({i \in DOMAIN Pairs : Has(Pairs[i])})
       IN [i \in DOMAIN listed |-> Row(listed[i])]

(* When the with statement lets the exception out: no thread is running.   *)
QuietSlip == TRUE                       \* shutdown(wait=False)
Quiet == \A b \in Bases : future[b] # "running"      \* 125

-----------------------------------------------------------------------------
PoolInit ==
  /\ harness \in {"v6", "external"}
  /\ future = [b \in Bases |-> "queued"]
  /\ ptag = [b \in Bases |-> All]
  /\ pchild = [b \in Bases |-> FALSE]
  /\ pgot = [b \in Bases |-> <<>>]
  /\ mpc = "collect"
  /\ next = 1
  /\ prows = <<>>
  /\ out = <<>>
  /\ silent = {}

(* A thread takes program b and starts its subprocess.                     *)
Take(b) ==                              \* 112-113; run_corpus 110-112
  /\ Free(b)
  /\ future' = [future EXCEPT ![b] = "running"]
  /\ pchild' = [pchild EXCEPT ![b] = TRUE]
  /\ UNCHANGED <<harness, ptag, pgot, mainVars, silent>>

(* The thread adds rows r to the rows of program b, and goes on to the     *)
(* next pair of the fallback, or returns.                                  *)
Advance(b, r) ==                        \* 114-115, 118-122
  /\ pgot' = [pgot EXCEPT ![b] = r]
  /\ IF ptag[b] # All /\ ptag[b] < Len(By[b])
     THEN /\ ptag' = [ptag EXCEPT ![b] = @ + 1]
          /\ pchild' = [pchild EXCEPT ![b] = TRUE]
          /\ UNCHANGED future
     ELSE /\ future' = [future EXCEPT ![b] = "returned"]
          /\ pchild' = [pchild EXCEPT ![b] = FALSE]
          /\ UNCHANGED ptag

(* The subprocess ends by itself and its last "@@" line is a list of rows. *)
Answers(b) ==                           \* 109-110, 113-115, 120-121
  /\ pchild[b]
  /\ Advance(b, pgot[b] \o RowsOf(b, "scored"))
  /\ UNCHANGED <<harness, mainVars, silent>>

(* No result: start over pair by pair, or give the pairs of the chunk up.  *)
NoResult(b) ==                          \* 110, 116-121; run_corpus 113-120
  /\ silent' = silent \cup {<<b, ptag[b]>>}
  /\ IF FallsBack(b)
     THEN /\ ptag' = [ptag EXCEPT ![b] = 1]
          /\ pchild' = [pchild EXCEPT ![b] = TRUE]
          /\ pgot' = [pgot EXCEPT ![b] = <<>>]
          /\ UNCHANGED future
     ELSE Advance(b, GaveUp(b))
  /\ UNCHANGED <<harness, mainVars>>

Raises(b) ==
  /\ future' = [future EXCEPT ![b] = "raised"]
  /\ pchild' = [pchild EXCEPT ![b] = FALSE]
  /\ UNCHANGED <<harness, ptag, pgot, mainVars, silent>>

(* The subprocess crashes before its last print.                           *)
SaysNothing(b) == pchild[b] /\ NoResult(b)            \* 109-110

(* The last line that starts with "@@" is not JSON: a traced program that  *)
(* was abandoned prints into it.                                           *)
Garbles(b) == pchild[b] /\ Raises(b)     \* 110; run_corpus 115

(* subprocess.run kills the subprocess, waits for it and raises; v6        *)
(* catches the exception, run_corpus does not.                             *)
TimesOut(b) ==                          \* 105-108; run_corpus 111-112
  /\ Expires(b)
  /\ IF harness = "v6" THEN NoResult(b) ELSE Raises(b)

(* main takes the results in the order of Progs, whatever ended first.     *)
Gather ==                               \* 126-129
  /\ mpc = "collect"
  /\ next \in DOMAIN Progs
  /\ future[Progs[next]] = "returned"
  /\ prows' = Joined(Progs[next])
  /\ next' = next + 1
  /\ UNCHANGED <<harness, threadVars, mpc, out, silent>>

(* A result is an exception: the iterator of map cancels what is queued.   *)
GatherRaises ==                         \* 126
  /\ mpc = "collect"
  /\ next \in DOMAIN Progs
  /\ future[Progs[next]] = "raised"
  /\ future' = [b \in Bases |-> IF future[b] = "queued" THEN "cancelled"
                                                        ELSE future[b]]
  /\ mpc' = "unwind"
  /\ UNCHANGED <<harness, ptag, pchild, pgot, next, prows, out, silent>>

Fail ==                                 \* 125: __exit__ waits, then raises
  /\ mpc = "unwind"
  /\ Quiet
  /\ mpc' = "failed"
  /\ UNCHANGED <<harness, threadVars, next, prows, out, silent>>

Write ==                                \* 130-132; run_corpus 123
  /\ mpc = "collect"
  /\ next > Len(Progs)
  /\ out' = Written
  /\ mpc' = "done"
  /\ UNCHANGED <<harness, threadVars, next, prows, silent>>

MainStep == Gather \/ GatherRaises \/ Fail \/ Write

(* A subprocess ends before its time is up.                                *)
EndsInTime(b) == Answers(b) \/ SaysNothing(b) \/ Garbles(b)

Step == MainStep \/ \E b \in Bases : Take(b) \/ EndsInTime(b) \/ TimesOut(b)

PoolOver == mpc \in {"done", "failed"} /\ UNCHANGED poolVars

PoolNext == Step \/ PoolOver

(* Threads run and timeouts expire; a subprocess need not end by itself.   *)
PoolFairness ==
  /\ WF_poolVars(MainStep)
  /\ \A b \in Bases : WF_poolVars(Take(b)) /\ WF_poolVars(TimesOut(b))

PoolSpec == PoolInit /\ [][PoolNext]_poolVars /\ PoolFairness

-----------------------------------------------------------------------------
(* Properties.                                                             *)

PoolRows == [pair : PairIds, kind : {"scored", "harness_timeout", "harness_error"},
             from : Bases \X (0..Len(Pairs))]

(* Types; Progs[next] is the program main waits for, one past the end when *)
(* it has them all.                                                        *)
PoolTypeOK ==
  /\ harness \in {"v6", "external"}
  /\ future \in [Bases -> {"queued", "running", "returned", "raised", "cancelled"}]
  /\ ptag \in [Bases -> 0..Len(Pairs)]
  /\ pchild \in [Bases -> BOOLEAN]
  /\ pgot \in [Bases -> Seq(PoolRows)]
  /\ mpc \in {"collect", "unwind", "done", "failed"}
  /\ next \in 1..(Len(Progs) + 1)
  /\ prows \in Seq(PoolRows)
  /\ out \in Seq(PoolRows)
  /\ silent \subseteq Bases \X (0..Len(Pairs))

(* Whatever order the subprocesses end in and whichever give nothing, the  *)
(* rows written are one per pair: in dataset order (v6), or program after  *)
(* program (external); and only if no subprocess raised.                   *)
PoolExact ==
  mpc = "done" =>
    /\ \A b \in Bases : future[b] = "returned"
    /\ Len(out) = Len(Pairs)
    /\ {out[i].pair : i \in DOMAIN out} = PairIds
    /\ harness = "v6" => \A i \in DOMAIN Pairs : out[i].pair = Pairs[i].id
    /\ harness = "external" =>
         \A i, j \in DOMAIN out : i < j =>
           \E m, n \in DOMAIN Progs :
             m <= n /\ out[i].from[1] = Progs[m] /\ out[j].from[1] = Progs[n]

(* A pair is given up only after the attempts the harness owes it: the     *)
(* whole program's and its own in v6, the program's in run_corpus; and a   *)
(* scored row never comes from an attempt that gave no line.               *)
Earned(r) ==
  CASE r.kind = "scored" -> r.from \notin silent
    [] r.kind = "harness_timeout" ->
         r.from[2] # All /\ {<<r.from[1], All>>, r.from} \subseteq silent
    [] OTHER -> harness = "external" /\ r.from \in silent
PoolEarned == \A i \in DOMAIN out : Earned(out[i])

(* At most Workers subprocesses are alive, and none outlives the call,     *)
(* also when it fails (125, and subprocess.run kills what it gives up).    *)
PoolContained ==
  /\ Cardinality({b \in Bases : pchild[b]}) <= Workers
  /\ mpc \in {"done", "failed"} => \A b \in Bases : ~pchild[b]

(* The call ends although a subprocess may hang.                           *)
CallEnds == <>(mpc \in {"done", "failed"})
=============================================================================
