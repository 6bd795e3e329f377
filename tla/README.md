# Verification of SBG

SBG (Software Behaviour Genome) decides how similarly two Python programs behave.
It executes both on the same inputs under a tracer, folds the traces into
"genomes", and computes a distance between genomes. The evaluation executes
thousands of programs, some of which loop, block in C, exit the interpreter, print,
mutate their arguments or start threads, and the tracer runs all of them inside
the process that does the evaluation. That execution side is the part
of the repository with threads, timeouts, shared state, crashes and retries, and
it is where a wrong step silently changes a published number. It is therefore
modelled first.

Paths below are relative to `src/`.

## 1. Inventory

### 1.1 Components

| component | code | state | operations |
|---|---|---|---|
| Tracer | `sbg/extraction/dynamic/tracer.py` | `sys.stdout` (process-global), per trace a worker thread, event list, coverage set, flags and a queue of one | `trace`, `_trace_one`, `_WorkerThread.run`, the trace function |
| Execution genome (same file and `sbg/extraction/dynamic/*_genome.py`) | pure functions of finished traces | none | `extract`, `distance` |
| Sandbox runner | `sbg/v2/execution/runner.py` | list of runs, budget clock | `SandboxRunner.run`, noise floor |
| Program extraction | `experiments/final/extraction.py` | cache of program records, `CANONICAL_INPUTS` | `extract_program`, `_trace_and_record`, entry discovery, score formulas |
| Entry selection and drivers | `experiments/final/protocol.py`, `entry_policy.py`, `class_driver.py` | none | choose the callable and its inputs |
| Main evaluation | `experiments/final/run_main_evaluation.py` | checkpoint file, output files, rows in memory | score, checkpoint, resume, write, unlink |
| Chunked harness | `experiments/final/run_chunked.py` | one subprocess, rows by pair | spawn, poll, kill, fall back, merge |
| Frozen evaluations | `experiments/final/evaluate_v8.py`, `_v9`, `_v10`, `make_freeze_*.py` | sources, models, scored file, FREEZE files, result | fit, freeze, score, check the hashes, read, write the one result |
| Parallel re-scoring | `score_v6_experimental.py`, `rescore_external_v8.py` | a thread pool, one subprocess per thread, rows by program | fan out, time out, fall back, collect in order, write |
| External corpora | `external_quixbugs.py`, `_bugsinpy.py`, `_java.py` | caches on disk | as program extraction |
| Execution profile | `sbg/repair/execution_profile.py` | a second tracer: a thread and a queue per call, the numbers of the functions met | call, give up, number, repeat, distance |
| Distance, canonicalisation, serialisation | `sbg/distance.py`, `canonicalization.py`, `serialization.py` | none | structural distance, renaming, round trip |
| Statistics | `sbg/statistics.py` | none | AUROC, intervals, tests |
| Genomes V3, V5, V6, V2 | `sbg/v3`, `sbg/v5`, `sbg/v6`, `sbg/v2/execution/{normalizer,genome}.py` | none | fold traces into features |
| Static genomes | `sbg/extraction/static` | none | walks over syntax trees |
| Ground-truth validator | `benchmark/ground_truth/validator.py` | a thread and a swapped stdout | label a pair by execution |
| Benchmark generation | `benchmark/transformations` | seeded generator | rewrite source |
| Gates | `consistency_check.py`, `stanford_gate.py`, `static_baselines.py` | none | compare artifact files |
| Command line | `sbg/cli.py` | none | argument parsing |

The rest of the repository is data (`benchmark/datasets`, `artifacts`, `results`,
`external`), reports, and one-off experiment scripts of earlier phases
(`phase5`, `phase6`, `phase7`, most of `experiments`).

### 1.2 How they interact

    run_chunked --subprocess--> run_main_evaluation --call--> extract_program
        --> SandboxRunner.run --n_runs calls--> Tracer.trace
              --one thread per input--> _WorkerThread.run --> traced program

* `run_chunked` sees only an exit code and an output file; it polls, sleeps and
  kills.
* `score_v6_experimental` and `rescore_external_v8` see only the last `@@` line of a
  subprocess's output. Traced programs print into the same pipe.
* `evaluate_v9` and `_v10` see only the scored file a harness left and the hashes in the
  FREEZE files.
* `run_main_evaluation` keeps one program cache per process and writes whole files
  with `Path.write_text`, in place.
* `SandboxRunner.run` learns about time from two places: traces that come back
  marked, and its own clock between runs.
* `Tracer` and its workers share `sys.stdout`, the event list and the queue.

### 1.3 What is hard

1. **Interleaving.** A worker that has been abandoned keeps running. It may print, swap
   or restore `sys.stdout` and append to its event list at any later time, also
   while later inputs are traced or genomes are computed.
2. **Late answers.** The join may time out while the worker is about to put its
   result; the host then looks into the queue.
3. **What a timeout is.** The tracer counts as timeouts: a worker given up on, a program that raises
   `TimeoutError` or `RecursionError`, and a worker that ends before it has put its result, because the
   program left by a `BaseException`, raised something that cannot be printed, or closed `sys.stdout`. The
   runner sees only that a run is short.
4. **Leaks.** Abandoned threads cannot be killed. `max_timeouts` bounds them per
   call of `trace`, and `n_runs` multiplies that bound. Threads that programs start themselves are bounded by
   nothing; they go on printing, unseen by any trace function.
5. **Crash and restart.** Every file is rewritten in place, and nothing relates a checkpoint
   to the dataset it was computed from.
6. **State that outlives a program.** Inputs are shared between runs, and
   between programs under the protocol `published`.
7. **Watchdog races.** A subprocess may end between the poll and the kill.
8. **Completion order.** The pool's subprocesses end in any order, and one exception among them
   loses the rows of all.
9. **Check, then use.** A frozen evaluation compares hashes, and opens the files afterwards; it
   looks whether there is a result, and writes one much later. Nothing is locked.
10. **State that outlives a call.** A profiled call that was given up still changes the program's default
    arguments and globals while the next calls run. Both programs of a pair get the same input objects, so one
    that changes its input in place changes what the other is measured on, with no call given up at all.
11. **One process for everything.** The host waits with a timeout, but C code that keeps the interpreter lock
    stops every thread, the waiting one included. Single processes have stalled on this repository's own
    datasets (`run_chunked.py` 3-6, `make_freeze_amendment1.py` 16-21).

`PROJECT.json` lists these hazards one by one with the line where each bites.

### 1.4 What makes each component correct

* *Tracer*: one trace per input in input order; no trace carries another worker's
  result; `trace` returns although programs hang, unless one of them freezes the process; workers
  leaked are bounded; the host gets its own stdout back; a finished run is reported as timed out only
  if its worker could not publish it; what was accepted no longer changes; no trace exceeds `max_events`.
* *Runner and extraction*: a featurised program has only full runs; a program is
  called nonterminating only on evidence; the budget cuts between runs.
* *Main evaluation*: however often it is killed, what it finally writes is what an
  uninterrupted run writes, and nothing in the checkpoint is computed twice.
* *Chunked harness*: every pair once, in dataset order; a pair is given up only after both
  attempts were killed; never two subprocesses; the job ends.
* *Parallel harnesses*: every pair once, in order, whichever subprocess ends first; a pair is
  given up only after the attempts owed to it; no subprocess beyond the number of workers, none
  left behind; the job ends.
* *Frozen evaluations*: what a run reads is what was frozen; what its result records about its
  inputs can be relied on; there is one result, and the models on disk stay those it came from.
* *Execution profile*: a measurement is that of the calls run alone and in order, the second program's on what
  the first left of the inputs; only calls given up change that, and only from the call given up on and for
  their own program, or also for the second program if the first changes its inputs; two programs are at
  distance zero for a reason.
* *Distances*: symmetric, zero on equal genomes, independent of the names of
  variables and of the order of dictionaries.

## 2. Modules

| module | models | instance checked |
|---|---|---|
| `TraceContract` | what `trace` promises, without threads | through the modules below |
| `Tracer` | `tracer.py` 130-388: host and workers | `MCTracer` |
| `SandboxRunner` | `runner.py` `run`, `extraction.py` `_trace_and_record`; each call of `trace` is an instance of `TraceContract` | `MCSandboxRunner` |
| `Evaluation` | `run_main_evaluation.py` with the cache of `extract_program`, crashes and restarts | `MCEvaluation` |
| `Dataset` | the pairs of a split and what the harnesses list of them | through the harnesses |
| `ChunkedRun` | `run_chunked.py` around subprocesses | through `Harnesses` |
| `ScoringPool` | the thread pools of `score_v6_experimental.py` and `rescore_external_v8.py` | through `Harnesses` |
| `ScoredFile` | what every harness promises to the reader of its file | through `Harnesses` |
| `Harnesses` | one job of one of the three harnesses | `MCHarnesses` |
| `FrozenEvaluation` | `evaluate_v8.py`, `_v9`, `_v10` and the scripts that freeze | `MCFrozenEvaluation` |
| `ExecutionProfile` | `execution_profile.py`, the pure part: numbering, hashes, distance | through the next |
| `ProfileExtraction` | `execution_profile.py`, the calls of two programs, their threads and queues | `MCProfileExtraction` |
| `TracerProofs` | theorems about `Tracer` | proofs |
| `SandboxRunnerProofs` | theorems about `SandboxRunner` | proofs |
| `EvaluationProofs` | theorems about `Evaluation` | proofs |
| `DatasetProofs` | lemmas about lists of pairs | proofs |
| `ChunkedRunProofs` | the inductive invariant of `ChunkedRun` | proofs |
| `HarnessesProofs` | the inductive invariant of `ScoringPool`, theorems about `Harnesses` | proofs |
| `FrozenEvaluationProofs` | theorems about `FrozenEvaluation` | proofs |
| `ProfileExtractionProofs` | theorems about `ExecutionProfile` and `ProfileExtraction` | proofs |

The chain of abstractions is `Tracer` => `TraceContract` (checked and proved),
`SandboxRunner` built on `TraceContract`, `Evaluation` seeing a program only as an
outcome of extraction, `ChunkedRun` seeing an evaluation only as a
subprocess that finishes, fails or hangs, `ChunkedRun` => `ScoredFile` and `ScoringPool` =>
`ScoredFile` (checked and proved), and `FrozenEvaluation` seeing a harness only as something that
replaces the scored file as a whole.

A definition named `...Slip` is a plausible programming error in the definition after it.
No action uses it; it is there to show that the property meant to catch that error does.

### 2.1 Tracer

The host (`hpc`) goes through `next` (211-219), `join` (220), `restore` (221-222)
and `collect` (224-248). Worker `i` (`wpc[i]`) goes through `started` (the thread exists),
`fresh` (state made, 287), `saved` (`original_stdout` read, 295), `run` (stdout
swapped and trace function installed, 296-301), `restore` (304-308), `publish`
(310-326), `exiting`, `dead`. Steps are split where another thread can get in between
*and* shared state is touched: the read of `sys.stdout` and the swap are two
statements, hence two actions.

* `stdout` is which stream `sys.stdout` is: 0 for the host's, `i` for worker
  `i`'s `StringIO`. `captured[s]` is the set of workers that printed to stream `s`; the
  text is left out.
* `events[i]` is the length of the event list. A callback either finds the deadline
  passed (342-346), the cap reached (348-353) or records. Each records one event: a call,
  line, return or exception differ only in what is appended. Python runs
  callbacks only in the traced thread, so `tracing` is per worker.
* Time is abstract: `join` may time out whenever the worker is alive, and any callback
  may find the deadline passed. This contains every real timing.
* `Habits` is what programs may do besides printing and ending: start threads, close `sys.stdout`, or run C
  code that keeps the interpreter lock. `left` holds the programs that have started a thread: it is never
  stopped and not traced, so `ProgramPrints` stays possible for them after their call is over and its result
  was taken (`Runs`). `closed` holds the closed `StringIO`s, on which `getvalue()` raises
  (`WorkerCannotPublish`). Once `frozen` no thread takes a step.
* `fate` is how the callable ended: it returned or raised something ordinary, raised a timeout of its own,
  raised an exception whose `str()` raises again while line 303 formats it, or left by a `BaseException`. The
  last two never publish (`LosesResult`).
* `late` is a history variable: the host once restored stdout before the
  worker had swapped it. See section 6.

### 2.2 SandboxRunner

`runs` holds, for each finished run, the kinds of its traces. `overBudget` may become
true at any trace. `Short` (157) is the only sign of non-termination that the
code has. `record` keeps of a `ProgramRecord` what its callers branch on, ok and the kind
of failure, and the budget flag. `JudgeRaises` is the exception that `extract_from_traces` may raise outside
every handler (`extraction.py` 381), which leaves the program without a record.

### 2.3 Evaluation

A file is a sequence of rows; `write_text` is two actions, after the first of which the file holds any prefix
of the new content, possibly with a cut line `Torn` at its end. `Crash` may strike between any two actions, so
also inside a write. `Start` loads the checkpoint, and dies at once if a line of it is cut. Scoring a pair may
succeed (`ScorePair`), raise out of the loop and end the process (`ScoreRaises`), or stall (`ScoreStalls`: a
program not in the cache is imported without a timeout, and traced in this process); a stalled process does
nothing until it is killed. A row keeps of a score what it depends on: for each of the two programs whether it
failed, and if not whether it saw pristine inputs (`used` is true once a program has changed an input in place
under the protocol `published`, where all programs get the same objects). `FreshRows` is the reference
definition: what one uninterrupted run in an empty directory writes.

### 2.4 Dataset and ChunkedRun

`Listed(I)` is the loop that goes through the pairs in order and keeps some, `By[b]` the pairs of
one program. In `ChunkedRun` the poll, the sleep and the test of the limits are separate actions,
and the subprocess may end or exceed its limit between them. `tag` is 0 for the process that
scores all pairs of a program and `k` for the one that tries its `k`-th pair alone.
`killed` records which attempts the watchdog killed; no action reads it.

### 2.5 ScoringPool

One module for both pools, which differ in what a silent or late subprocess leads to: `v6` tries
each pair alone and then writes a `harness_timeout` row, `external` writes `harness_error` rows
or, for a timeout, lets the exception out. A program's future is `queued`, `running`, `returned`,
`raised` or `cancelled`. The main thread takes results in the order of `Progs`, whichever ended
first; on the first exception the futures still queued are cancelled (the iterator of
`Executor.map` does that) and the `with` statement waits for those that run. A subprocess answers,
says nothing, garbles its `@@` line or never ends. `silent` is a history variable.

### 2.6 ScoredFile and Harnesses

`ScoredFile` knows only the pair of each row. Its one step writes all rows, each pair of
the dataset exactly once, or ends without writing. `Harnesses` chooses one of the three harnesses
and runs it, while the variables of the other module keep their initial values. It extends both modules,
so their properties are checked and proved of it under the names they have there.

### 2.7 FrozenEvaluation

The content of a file is a version and its hash is the content. A run goes from `started`
(Python has loaded the script) over `checked`, `cleared` (no result yet), `modelled` and `read` to
`noted`, `writing` and `ended`; each arrow is an action, because each opens other files, and people may
edit, fit, freeze or score between any two. A fit loads what it fits (`FitStarts`) and
writes later (`FitWrites`). `write_text` is two actions again, between which the result is torn,
and a second run may write over it. `pinned` and `watch` are history: what the FREEZE files held
when a run had checked them, and what happened around it. The sources are grouped
by how they are used: `script`, `scorer`, `pairs`, `train`, and `rest` for those that the FREEZE
file lists and no run compares.

### 2.8 ExecutionProfile and ProfileExtraction

`ExecutionProfile` has the events that the host's own wrapper adds around a call (80-86; it is traced like the
program, so a raising call shows one event more, and the wrapper's events take up room under the cap), the cap
itself, the anonymous numbers functions get in the order of their first call, the path that is hashed
(function and line of every call and line event; the kind is left out, as in the code), the call depth, and
the five components of the distance, as fractions. A hash stands for what it is taken of.

`ProfileExtraction` profiles two programs, one after the other, on one list of input objects, as
`compute_full_eep` does (`phase8_15_repair_evaluation.py` 264-265). Every call is a thread that enters the
program and so reads its mutable state and its input (`Found`), later changes either (`Mutate`), and ends or
not; the host joins it, takes a result or gives the call up. `mutable` is a program's default arguments and
globals; `objects` are the inputs, shared by all calls of both programs, those given up included. `TakeResult`
is possible as long as the queue holds something: a thread that finishes between the join and the look into
the queue is heard. The repeats call the program without a wrapper (325), hence without its events, and raise
before the program is entered if the input is a tuple (`NotCalled`). `givenUp` is a history variable.

A program is the function `Does`: what it shows, raises and leaves behind, of its state and of the input, for
each value in each state. `ExtractionAssumption` asks of it that a line event comes after a call event of the
same function: `sys.settrace` (147, 151) makes Python trace the lines of a frame only from the call event that
begins it. The references for the properties are `Alone`, what each call does when it runs alone and in order,
the second program on what the first left of the inputs (`Start`), and what the tracer sees of that (`Seen`).

## 3. Runs

| run | bounds | shows |
|---|---|---|
| `tracer_safety` | 2 inputs, cap 1, allowance 2; programs print and start threads | results, stdout and what the traces hold of it, over every interleaving (10.4 million states) |
| `tracer_contract` | 2 inputs, cap 1, allowance 1; programs also close `sys.stdout` and freeze the process | `Tracer` implements `TraceContract`, liveness included; workers leaked are bounded; finished runs and accepted traces; `trace` returns |
| `tracer_stdout_capture` | 2 inputs, cap 1, allowance 2; programs only print | *violation*: a trace captures the output of an earlier, abandoned program |
| `runner_runs` | 3 inputs, 3 runs, allowance 2 | results of a program under every sequence of outcomes |
| `runner_budget_ledger` | same | *violation*: a program over its budget is kept as ok and not counted as a failure |
| `evaluation_restart` | 4 pairs, 6 programs, both protocols, checkpoint every 2 rows, 4 starts | restart reproduces, nothing is rescored, when the evaluation ends |
| `evaluation_torn_checkpoint` | 4 pairs, 2 starts | *violation*: a crash in the middle of a write blocks every restart |
| `evaluation_stale_checkpoint` | 2 datasets with one tag, 2 starts | *violation*: rows of another dataset are taken over |
| `harness_jobs` | 3 programs, 5 interleaved pairs, 2 workers | each harness: exact rows, given-up pairs, subprocesses, termination, the contract of the file |
| `frozen_campaign` | 2 runs, 1 edit, 2 fits, 2 scorings, 1 freeze, each design | what a run uses and records, one result, the models that stand |
| `profile_pairs` | all pairs of 8 programs, 2 inputs in both orders, 2 repeats, cap 6, 1 late call | what calls given up and changed inputs distort, when the distance is zero |
| `profile_same_program` | same | *violation*: a program that changes an input in place is not at distance zero from itself |

Properties of the passing runs, each with the hazard it is about:

* `TypeOK` (`Tracer`) contains the event cap, also for abandoned traces.
* `NoCrossedResults`: a late result is never taken for a later input's.
* `LeakBound`, `ProgramLeakBound`: abandoned threads per call and per program.
* `HostStdoutKept`: the host has its own stdout outside `_trace_one`, unless a worker
  was abandoned before its swap.
* `OnlyLeftBehindIntrude`: foreign output in a trace comes from an earlier program that was abandoned or has
  started a thread of its own; a worker whose result was taken writes nothing more itself.
* `FinishedRunNotLost`: of the workers that ended in time only those are reported as timed out whose program
  left by a `BaseException` or an unprintable exception, or whose `StringIO` was closed.
* `AcceptedTraceFrozen`: the live event list of an accepted trace no longer grows.
* `ContractSpec`, `TraceReturns`: the refinement, and that programs which hang, leave threads behind or exit do
  not keep the host; only one that freezes the process does.
* `ComparableRuns`, `NonterminatingJustified`, `BudgetCutsBetweenRuns`: which
  results are featurised, and which are failures. A program cut by its budget is kept, with whole runs; that
  the text promises otherwise is `BudgetInLedger`, a violation run.
* `ResumeReproduces`, `CheckpointSound`, `EachPairOnce`, `NothingRescored`,
  `EvaluationEnds`: restart. Under `published`, `ResumeReproduces`
  is claimed only for a start that found no checkpoint, because a restart makes inputs
  pristine again that an uninterrupted run would have found changed; under the output-free
  protocols it is claimed unconditionally.
* `MergedExact`, `TimeoutsEarned`, `OneChild`, `JobEnds`: the watchdog.
* `PoolExact`, `PoolEarned`: completion order, fallback and garbled lines; a row says which attempt
  it comes from, so a pair given up without its own attempt shows.
* `PoolContained`, `PoolEnds`: no subprocess too many and none left, and the end comes although one hangs.
* `ScoredFileSpec`: all three harnesses implement `ScoredFile`, liveness included.
* `PinnedUsed`: a run that nobody disturbed while it read used what the FREEZE files pin. The
  premise excludes changes between check and use, which the code cannot notice.
* `ResultAuditable`: for v9 not even that premise is needed to trust a result whose recorded hashes are the
  pinned ones, because the hashes are taken after the files were read and versions never come back.
* `SingleResult`: a result is replaced only by a run that was alive together with another one, or
  one told to (v8's `--allow-overwrite-never-use`). A torn result is a result.
* `ModelsStand`: the models on disk stay those of the result, unless a fit was under way around the run.
* `OnlyGivenUpDistorts`: every entry is that of the calls run alone in order, if neither that call nor an
  earlier one of the same program was given up; and so is the drift, if none was at all. For the second
  program it also needs that no call of the first was given up, or that the first leaves its inputs alone: a
  thread left behind may change them under the second program.
* `StatelessSurvives`: a program without state, on inputs that neither it nor the program before it changes,
  is measured exactly whatever was given up, apart from the numbers of its functions; drift then needs a
  repeat given up.
* `ZeroMeansSameFlow`: with no call given up, distance zero exactly if one renaming of functions makes all paths
  equal, the second program's on what the first left of the inputs, and lengths, failures and drift agree.

### 3.1 Why these bounds are enough

* *Tracer*. Every hazard is about one abandoned worker and one later trace, or one worker and the host; two
  inputs give both. A cap of 1 has a trace below, at and beyond the cap. With an allowance of 2 both workers
  may be abandoned, so the second trace can meet the first worker; with an allowance of 1 the loop stops
  early, which is what `LeakBound` and the contract are about. `Habits` says which kinds of programs a run
  has: `tracer_contract` has all of them, `tracer_safety`, whose state space is larger, only the threads that
  its properties are about. Three inputs exceed what TLC enumerates in minutes; the theorems of section 5 hold
  for every number of inputs.
* *SandboxRunner*. Three inputs with an allowance of 2 separate "used up in the
  middle" from "used up on the last input"; three runs have a first, a middle and a last one,
  which is what the budget test distinguishes.
* *Evaluation*. With four pairs and a checkpoint every two rows there is a crash before,
  between, inside and after checkpoints, and a last pair after the last one; the variants
  include a broken one and one that mutates its input, and the base of the first pair returns
  with the last, so the cache matters. Four starts allow a crash after a resumed run.
* *Harnesses*. Two interleaved programs are the least for which merged order differs from
  completion order; two pairs per program let the fallback kill one and keep the other; a third
  program has to wait for one of two workers, so it can be cancelled in the queue.
* *FrozenEvaluation*. Two runs can race for the result, and a second can come after the first. One edit,
  two fits and two scorings give each file a version before and one after the freeze. The
  theorems of section 5 hold for any numbers.
* *ProfileExtraction*. The programs are chosen for what the distance has to tell apart and what not: functions
  exchanged (distance zero), an input answered by another function (not zero), the same up to the cap, a
  mutable default argument, a raise and an exit, a hang, and a list changed in place. Both orders of the
  inputs change which function gets which number. `Tuples` makes one input one that the repeats pass wrongly.
  One late call lets a stale thread meet the next calls and the next program; with two, ten times the states,
  the same properties hold, but outside five minutes. The cap of 6 leaves room for the wrapper's three or four
  events and cuts the longest program.

### 3.2 Fairness and deadlock

* `Tracer`: weak fairness of the host only, and only of a host that can run. Python hands the interpreter lock
  to a waiting thread, so a join returns at the latest when its timeout fires, unless C code of a program
  keeps the lock. That happens (`run_chunked.py` 3-6 and `make_freeze_amendment1.py` 16-21 tell of processes
  that stalled), so the model has it: `frozen` disables every step, and `TraceReturns` and the contract's
  liveness end there. Nothing obliges a traced program to end, and no worker is fair.
* `Evaluation`: a process takes its next step, which may be to raise or to stall for good, and an operator
  starts one that has died again; nobody has to kill a stalled one. `EvaluationEnds` lists what that leaves:
  the outputs are written, or scoring raises again and again, or it stalls for good, or a line of the
  checkpoint stays cut. The last start allowed by `MaxStarts` is not killed, so "eventually" is about what the
  code does and not about an endless sequence of kills. After `done`, `raised`, `failed` or `stalled` with no
  start left, nothing happens, so deadlock is not checked there; the other modules have a stuttering step at
  their end (`Terminating`, `ChunkedOver`, `PoolOver`) and deadlock is checked.
* `ChunkedRun`: the harness runs and time passes. A subprocess need not end.
* `ScoringPool`: the main thread runs, a free thread takes the next program, and a timeout expires. Again no
  subprocess need end by itself.
* `FrozenEvaluation` and `ProfileExtraction` have safety properties only, and no fairness.
  A campaign simply stops when people stop, so deadlock is not checked there.

## 4. Bounds that are part of a model

`NInputs`, `MaxEvents`, `MaxTimeouts`, `NRuns`, `CheckpointEvery` are parameters of the code. `MaxTimeouts =
None` in the code is any value above `NInputs`. `Workers`, `Repeats` and the `MaxEvents` of `ExecutionProfile`
are parameters too, and so are its `Names`, any set of function names. The bounds the models add are

* `MaxStarts` (`Evaluation`): how often the script is started;
* `MaxEdits`, `MaxFits`, `MaxScorings`, `MaxFreezes` (`FrozenEvaluation`): how often people do each;
* `MaxLate` (`ProfileExtraction`): how many calls are given up whose thread could still end. A
  call that hangs may always be given up, so no execution is cut off by it.

`Habits` (`Tracer`) is no bound of the theorems, which hold for each set of them; the runs choose.

## 5. Proofs

### 5.1 TracerProofs

For every `NInputs`, `MaxEvents`, `MaxTimeouts` in `Nat` and all `Habits` of programs (`TracerAssumption`),
nothing else assumed:

* `TypeCorrect`: `TypeOK`. The inductive invariant `TypeInv` adds that an input is left while the loop runs
  (`LoopInv`) and that a program that left by a `BaseException` or an unprintable exception is not about to
  publish (`PublishInv`), without which the result put into the queue could have a kind no trace has.
* `LeakBounded`: `LeakInv` relates the number of abandoned traces to `nTimeouts`,
  and says that the counter is below the allowance as long as the loop goes on.
* `StdoutKept`: `StdoutInv` is the heart of the matter. As long as nobody is
  late, every worker that has saved a stream has saved the host's, so whatever abandoned worker restores
  whenever, it restores the host's stream; `BirthInv` says which workers exist. The property
  alone is not inductive: it says nothing about the stream an abandoned worker
  will restore next.
* `ResultsNotCrossed`: whatever is in queue `i` was put there by worker `i`
  (`QueueInv`).
* `FinishedRunKept`, `AcceptedFrozen`: `EndInv` says what becomes of a worker whose program has ended. It is
  no longer traced, and unless it lost its result on the way (`LosesResult`, or a closed `StringIO`) its
  result is in its queue or has been taken from there; a trace that was not abandoned has a worker that is
  over.
* `OnlyLeftBehindWrite`: `StreamInv` says that nobody knows the stream of a worker before its swap, and that
  while an input is traced only its own program, abandoned ones and those that started threads can print into
  its stream.
* `TraceImplementsContract`: every step of `Tracer` is a step of `TraceContract` or a
  stutter. `CountInv` says that `nTimeouts` is the number of timeouts
  among the traces returned, which makes the code's running counter equal to the contract's
  definition.

### 5.2 EvaluationProofs

For every dataset, checkpoint interval, set of broken and mutating programs, and every
sequence of kills and restarts, from `EvaluationAssumption` (ids in a dataset are
distinct; a cut line is not a row) and the hypothesis `OneDataset`: the operator always names the
same dataset. That hypothesis is needed; the run
`evaluation_stale_checkpoint` shows what happens without it.

* `CheckpointAlwaysSound`, `CheckpointedPairsSkipped`, `LoopEndsWithEachPairOnce`.
* `ResumedRunReproduces`: what is finally written is `FreshRows`. `SortedByPair` shows that sorting rows that
  hold each pair once gives the order of the dataset, whatever order restarts put them in; `OneExtraction`,
  `FirstUseHere` and `HistoryOfPair` that each row is the one the uninterrupted run computes at that place,
  its cache and its shared inputs included. `HistoryInv` and `OutputInv` carry it.
* `EvaluationTypes`.

The inductive invariant `Inv` has four parts. `FileInv` is what a restart can
rely on: soundness of the whole lines of the file, at every instant of a write too.
`CacheInv`: the cached outcome of a program is the one it would have in any
order, unless inputs are shared. `IndexInv`. `RowsInv`: while pairs are scored, memory
holds exactly one row for each pair passed (loaded, or before `index`), and
everything in the file has been passed. The last clause is what makes "not scored
again" inductive. `PartialPrefix` and `SoundPrefix` carry soundness from
memory to whatever prefix reaches the file.

### 5.3 SandboxRunnerProofs

For every `NInputs` and `MaxTimeouts` in `Nat` and every `NRuns` of at least one
(`RunnerAssumption`): `RunsComparable`, `NonterminatingEarned`, `BudgetBetweenRuns`, `RunnerTypes` and
`ProgramLeakBounded`. The last counts over all runs of a program: by `LeakInv` the runs kept have left behind at
most the allowance each, and `OneMoreRun` adds one run to the count.

What the caller may conclude from a short run depends on how a call of `trace` ends, so the inductive invariant
carries both sides. `CallInv` is the contract of one call: while it goes on its
timeouts stay below the allowance and inputs are left; when it returns it is either full or holds
exactly `Allowance` timeouts. `AllFull` and `Justified` are what the kept runs then satisfy,
`Verdict` ties the error reported to which of the two holds, and `RecordInv` carries the verdict
into the record that `extraction.py` writes. Without `CallInv` a short run could have any cause,
and none of the three properties is inductive.

### 5.4 DatasetProofs, ChunkedRunProofs and HarnessesProofs

For every dataset with distinct ids (`DatasetAssumption`), every order of the programs and number of
workers (`JobAssumption`).

`DatasetProofs` proves what the loop `Listed` yields: `ListsExist` and `ListedLists` that the recursive
function exists and is a sequence of the chosen pairs, `ListedPlaces` that it is in dataset order and complete,
`ByFacts` and `ByDisjoint` that the programs divide the pairs. The induction they need is
over a set of numbers: `SetInduction` takes the set of those for which the claim
holds, by way of the least number outside it (`Least`), so no operator has to be instantiated.

The theorems are about `Harnesses`, the specification the run `harness_jobs` checks; its invariant `Inv` is
that of both modules, and that the one that waits is still at its start (`Waits`). By `OneOrTheOther` a step
is a step of one module and leaves the other alone, so what each module's own lemmas show of its steps
(`ChunkedInvStep`, `PoolInvStep`, `ChunkedFileStep`, `PoolFileStep`) carries over.

* `TypeCorrect`: `TypeOK`.
* `ExactMerge`, `EarnedTimeouts`, `ChildrenInTurn`, by `ChunkedInv`. `Attempt` describes the program being
  scored: its rows so far are those of its first pairs, and of its attempts only those
  before this one have been killed. `Ledger` says that programs still to do have no killed
  attempt and that those done have a row for each of their pairs. Neither exactness nor the earned
  timeouts are inductive without both.
* `ExactRows`, `EarnedRows`, `ContainedPool`, by `PoolInv`. `Threads` says the same of each thread of the
  pool, and that those running are at most `Workers`. `Gathered` says that the rows collected are those of the
  programs before `next`, each once, program after program. `Stage` says what the end of the main thread
  implies.
* `HarnessesImplementFile`: initial states map to initial states, every step to a step of `ScoredFile` or a
  stutter, under the refinement mapping `ScoredFileSpec` is checked with.

### 5.5 FrozenEvaluationProofs

For any number of runs, edits, fits, scorings and freezes (`FrozenAssumption`: `NoFile` is not a
content).

* `TypeCorrect`. `Types` adds the fields of the records of the runs.
* `ResultStands`: `Alone` says that two runs alive together both know, and that a run that found no result
  knows of any that has come since.
* `ModelsOfResult`: `Unfitted` says that no fit is under way around a run that has seen none, and that
  the models it read stand.
* `PinnedIsUsed`: `Undisturbed` says that what an undisturbed run has checked is still what is on disk.
* `AuditableResult`: `Ordered` says that versions only grow, on disk, from the fit to the models, and
  from pinned over used to noted. Equal ends then make the middle equal.

### 5.6 ProfileExtractionProofs

For any programs, lists of inputs, numbers of repeats and caps, and any number of calls given up at any moment
(`CapAssumption`, `ExtractionAssumption`: lists are not empty, there are at least two repeats, what a program
does is typed, and in it a line event comes after a call event of the same function; only `ZeroIsSameFlow` and
the drift of `GivenUpOnly` use the last).

* `TypeCorrect`. `Typing` types what the host and the threads hold, `Booked` says that the calls
  recorded so far are exactly those before the current one: one entry per input, then one hash per repeat.
* `StatelessIsExact`: `StatelessSurvives`. A call may find any state that threads left behind have made of the
  program's, so `Threads` says no more than that each thread does what its program does with *some* context it
  could find (`Finds`), and that its queue holds what was seen of that. `Untouched` and `Later` keep the
  inputs: as long as only programs that leave them alone have run, they are those of the start. `Silent`
  closes the case of a thread that ended without a result. For a program without state all contexts with the
  same inputs look the same (`StatelessSees`), and `Tally` draws the conclusion: names and entries are those
  of the calls alone, those given up left out. `Steady` is the half about drift: once the first repeat is
  recorded every function in it has its number (`Covers`), so the later ones add none and all get the same
  path. It rests on `NumberedFacts`: numbering covers what it has seen, and numbering again changes nothing.
* `GivenUpOnly`: `OnlyGivenUpDistorts`. The property says nothing of the threads, so it is not inductive.
  `Order` is what carries it, next to `Inv`: a call that was not begun has no thread (`Unborn`), the host is
  done with a call once it has given it up (`GivenPast`), and a queue holds what its own thread was seen to do
  (`Told`). As long as no call of a program was given up, and none of a first program that changes its inputs
  (`InOrder`, `Apart`), all its finished threads are over and its numbering is that of the calls alone
  (`AfterAll`); state and inputs are then what its predecessors left, before or after the one change that the
  running thread makes (`StateNow`, `Running`; together `InTurn`). What is recorded from there is exact
  (`EntriesExact`, `PathsExact`). When the second program begins, `InTurn` of the first says what it left of
  the inputs, which is where `Start` begins. `ThreadOrder`, `NextCallOrder` and `RecordOrder` are the steps.
  The numbers in a path are those of the numbering at its call: `NamesGrow` and `LineSeqKept` say that later
  calls only append names and so never change the numbers of a path, so that paths of different calls can be
  compared. `LineSeqExact` is for the drift: two repeats with the same numbered path have the same path,
  because by then every function on it has a number of its own (`Distinct`, `PathNamed`).
* `ZeroIsSameFlow`: `ZeroMeansSameFlow`. By `OrderSays` the profiles are those of the calls alone.
  `ZeroDistance` turns the distance into five equalities, with `SumZero` for the sum of the differences in
  length. What is left is `PathsAgree`: the numbered paths agree on every input exactly if one bijection of
  the functions maps the paths. From numbers to renaming, the bijection sends each function to the one with
  its number. For the other direction `NumberedWalk` shows that the numbering depends on the path alone, since
  a function is met on its path when it is first called, and `NumberedRenames` that the numberings of renamed
  paths are renamed too. This is where lines without a call would be a counterexample: a function that only
  shows lines has no number, and two such functions could not be told apart.

`Numbered`, `Path`, `Run` and `NamesHeard` are recursive functions. `Recursion` shows that a function defined by
such steps exists, `SetInduction` proves facts about it, over the set of positions where they hold.

### 5.7 Model-checked only

Liveness, which is beyond this prover: `TraceReturns`, `EvaluationEnds`, `JobEnds`, `PoolEnds`, and the
fairness halves of `ContractSpec` and `ScoredFileSpec`, whose initial states and steps are proved. Every other
property of the passing runs is stated by a theorem.

## 6. What the code does that its text does not say

The five violation runs, each with its quotation under "findings" in `PROJECT.json`:

1. An abandoned program prints into later traces, although stdout is said to be captured per
   trace (`tracer.py` 126). A thread that a program started does the same.
2. A program over its wall-clock budget is kept as ok, its pairs are scored, and the flag
   `program_budget_exceeded` is read by nobody, although it is said to be counted in the failure ledger
   (`runner.py` 161-163, `extraction.py` 71-73).
3. A crash inside a checkpoint write blocks restart (`run_main_evaluation.py` 24-26).
4. A checkpoint of another dataset with the same tag is taken over
   (`run_main_evaluation.py` 7-8).
5. Both extractions of a pair get the same input objects, so a program that changes one in place, as the pair
   REG_09 does, is not at distance zero from itself (`test_execution_profile.py` 336), with no call given up.

Met while modelling, and described here without a run:

* If a worker is so slow to start that the host has given up before it swaps
  `sys.stdout`, the swap hits the host afterwards; the tests
  for isolation (`tests/test_tracer_isolation.py` 43) do not reach it. `late` marks exactly these
  executions, and `HostStdoutKept` excludes nothing else.
* The partial trace of an abandoned worker is returned by reference and may still grow
  (`tracer.py` 241).
* A trace whose own deadline cut it short but whose program then ended in time is
  accepted without a mark: nobody reads `timed_out` (342-346).
* `tracer.py` 18 says that an existing trace function is saved and restored; the
  worker sets it to `None`, which is the same thing only because the thread is new.
* A program that leaves by `SystemExit`, raises an exception whose `str()` raises (`tracer.py` 303), or closes
  `sys.stdout` (318) is reported as a timeout although its worker is dead; the comment at 232 says "Worker is
  still running".
* When the timeout that uses up the allowance falls on the last input, the run is full and the program is not
  recorded as nonterminating (`runner.py` 157; `extraction.py` 79-83 expects that two timeouts are enough).
* Threads that a program starts itself are counted by nothing, so `max_timeouts` bounds workers and not threads.
* C code of a program that keeps the interpreter lock defeats the timeout of `join` (`tracer.py` 220).
* `extract_from_traces` is called outside every handler (`extraction.py` 381), on traces that a live worker
  may still append to; an exception there ends the evaluation.
* A program that raises `RecursionError` on enough inputs is recorded as
  nonterminating.
* After a resume the programs file lacks the programs of checkpointed pairs, and a base program already seen
  is extracted again if one of its pairs is left: only the rows come back from the checkpoint.
  `run_main_evaluation.py` 20 says "one row per program", 27-29 that the "programs cache is rebuilt from the
  checkpoint rows".
* The stderr pipe of a chunk is not read while the harness polls.
* `FREEZE_V10.json` says that the evaluation refuses to run "unless these hashes ... match"; `evaluate_v10.py`
  77 compares nine of the files it lists, and never the hash of the tree of variants.
* Two evaluations started together may both find no result and both write one, although a result
  is "never overwritten" (`evaluate_v9.py` 11). `SingleResult` claims what does hold.
* Nothing relates `FREEZE_V10_SCORED.json` to the time of scoring, and v8's threshold may be fitted
  again after its result.
* `execution_profile.py` 325 calls the repeats without unpacking a tuple of arguments as the inputs do
  (80-86), so a function of several parameters raises in every repeat and its drift is zero.
* Its docstring says that drift compares the first and the last repeat; the code counts neighbouring pairs
  that differ (332-338).
* A call that leaves by `SystemExit` is recorded as `TimeoutError` with no events, though
  `_run_and_collect` says it returns the events.
* The docstring (47) promises that programs of identical control flow do not differ. A call given up in one of
  the two profiles is enough to break it; `ZeroMeansSameFlow` assumes that there is none.
* `sbg/v5/state_transition_genome.py` calls `canonicalize` idempotent (490); a second application
  rebuilds the totals of the event kinds from the rounded fractions that the first one made of the counts.

## 7. Not modelled, and why

Most of the repository's 59 thousand lines are experiment scripts of earlier phases and
feature arithmetic: they run once from top to bottom, on one thread, and compute floating-point numbers. A
model of them would repeat them. What has threads, processes, files shared over time, restarts or
an order of steps to get wrong is modelled.

* Feature extraction, genomes (V1, V2, V3, V5, V6), distances, canonicalisation and statistics: pure
  computations over finished traces, largely on floating-point numbers and on string patterns of `repr`.
* Entry selection, class drivers, external corpora: decided by Python's own
  semantics (introspection, scoping, imports); the part with control is that of program
  extraction.
* Static genomes and benchmark generation: walks over syntax trees.
* Ground-truth validator: one more thread with a swapped stdout, whose hazards are those of `Tracer`.
* Gates, command line, tables and figures: no state.
* Inside the modelled files: the execution-genome part of `tracer.py`; the noise floor in `runner.py` (no
  caller branches on it); entry discovery and the score formulas in `extraction.py`; the optional comparison
  at the end of `run_chunked.py` and a kill of that harness itself; the summary of `rescore_external_v8.py`.
* In `FrozenEvaluation`: torn model, scored and FREEZE files (only the result can be torn), the train and dev
  splits, which check nothing, and edits that bring an old content back.
* In `ExecutionProfile`: collisions of hashes, and the means of lengths and depths, which no distance reads.
  In `ProfileExtraction`: an input that a program keeps in its globals and changes in a later call on another
  input, two positions of the list that are one object, and `_compute_baseline_sbg`, which calls both programs
  once more on the same inputs, without a tracer.
* In `Tracer`: a program that replaces `sys.stdout` by a stream of its own, a thread that cannot be started,
  and `os._exit`, which ends the whole process (for the evaluation that is a crash).

## 8. Plan

Built, in this order: `TraceContract`, `Tracer`, `TracerProofs`, `SandboxRunner`, `Evaluation`, `ChunkedRun`,
`EvaluationProofs`, `SandboxRunnerProofs`; then `Dataset`, `ScoringPool`, `ScoredFile`, `Harnesses`,
`FrozenEvaluation`, `ExecutionProfile`, `ProfileExtraction` and the proofs about the harnesses, the frozen
evaluations, the profiles and the remaining safety properties of the tracer, the runner and the evaluation.
All safety properties of the passing runs are proved.

What is left, the most useful first:

1. `Genome`: the execution genome and the V6 state-transition genome as operators on bounded
   traces, checked for invariance under renaming.
2. The validator's thread and stdout swap as a variant of `Tracer`.
3. Rank statistics (AUROC with ties) as operators against their pair-counting definition.
4. Theorems about `ExecutionProfile` that no property states: `MaxCallDepth` never
   exceeds the number of calls, and the distance is symmetric and at most one in each component.
