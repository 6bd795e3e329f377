------------------------------- MODULE Tracer -------------------------------
(***************************************************************************)
(* sbg/extraction/dynamic/tracer.py: Tracer.trace runs a callable once per *)
(* input, each time in a dedicated daemon thread, waits for the thread at  *)
(* most `budget` seconds, and abandons it if it is still running.  The     *)
(* host and all the workers share one process-global sys.stdout; host and  *)
(* worker i share the worker's event list and a queue of capacity one.     *)
(*                                                                         *)
(* Worker i serves input i.  Time is abstract: the host's join may time    *)
(* out whenever its worker is alive, and any trace callback may find that  *)
(* the worker's own deadline has passed.  The traced program may print,    *)
(* close sys.stdout, start threads of its own, raise trace callbacks, end  *)
(* in any of four ways or never, and call C code that never gives Python's *)
(* interpreter lock back, which stops every thread of the process.         *)
(***************************************************************************)
EXTENDS Naturals, Sequences, FiniteSets

CONSTANTS
  NInputs,      \* number of inputs of the call
  MaxEvents,    \* max_events, the cap on recorded events per trace
  MaxTimeouts,  \* max_timeouts; Python's None is any value above NInputs
  Habits        \* what programs do beside printing and ending

ASSUME TracerAssumption ==
  /\ NInputs \in Nat
  /\ MaxEvents \in Nat
  /\ MaxTimeouts \in Nat
  /\ Habits \subseteq {"thread", "close", "freeze"}

VARIABLES
  \* the host thread
  hpc,          \* where the host is in trace / _trace_one
  hostSaved,    \* host_stdout, read before the worker is started
  traces,       \* the list trace returns
  nTimeouts,    \* n_timeouts
  \* shared by all threads
  stdout,       \* which stream sys.stdout is
  captured,     \* per StringIO, the programs whose output was written to it
  \* one of each per worker
  wpc,          \* where the worker is in run
  orig,         \* original_stdout
  events,       \* len(state.events)
  truncated,    \* state.truncated
  timedOut,     \* state.timed_out
  tracing,      \* the worker's trace function is installed
  fate,         \* how the callable ended
  queue,        \* result_q
  \* what the programs do to the process
  left,         \* the programs that started a thread of their own
  closed,       \* the StringIOs a program closed
  frozen,       \* C code of a program keeps the interpreter lock for good
  \* history, read by no action
  late          \* the host once restored stdout before a worker's swap

sharedVars == <<stdout, captured>>
hostVars == <<hpc, hostSaved, traces, nTimeouts, late>>
stateVars == <<events, truncated, timedOut, tracing>>
workerVars == <<wpc, orig, fate>>
programVars == <<left, closed, frozen>>
vars == <<hostVars, sharedVars, stateVars, workerVars, queue, programVars>>

Inputs == 1..NInputs

(* Streams: the one the process started with, and one StringIO per worker. *)
(* What is written to the first, or whether it is closed, no trace shows.  *)
HostStream == 0
Streams == {HostStream} \cup Inputs

(* A completed run returned or raised an ordinary exception; a timeoutLike *)
(* one raised TimeoutError or RecursionError; an unprintable one raised an *)
(* exception whose str() raises again (303); an exit one raised something  *)
(* `except Exception` does not catch, such as SystemExit.                  *)
Fates == {"completed", "timeoutLike", "unprintable", "exit"}

Trace == [by: Inputs, kind: {"completed", "timeoutLike", "abandoned"},
          truncated: BOOLEAN, out: SUBSET Inputs]

Cur == Len(traces) + 1
Abandoned == {k \in DOMAIN traces : traces[k].kind = "abandoned"}

(* The programs that may still be running once their input is over.        *)
LeftBehind == Abandoned \cup left

Unswapped == {"started", "fresh", "saved"}      \* before line 296
Alive == Unswapped \cup {"run", "restore", "publish", "exiting"}

-----------------------------------------------------------------------------
(* Helpers of the actions.  A definition named ...Slip is a plausible      *)
(* programming error in the definition that follows it; no action uses it. *)

QueueOfSlip(i) == 1                     \* result_q created once per trace()
QueueOf(i) == i                         \* line 200: a new queue per call

BufferSlip(i) == 1                      \* one StringIO shared by all traces
Buffer(i) == i                          \* line 292

CapReachedSlip(i) == events[i] > MaxEvents
CapReached(i) == events[i] >= MaxEvents

(* What leaves run before the result is made; its caller sees a timeout.   *)
LosesResult == {"exit", "unprintable"}

PublishableSlip(i) == fate[i] \notin LosesResult /\ ~timedOut[i]
Publishable(i) == fate[i] \notin LosesResult

CountsAsTimeoutSlip(kind) == kind = "abandoned"      \* forgets lines 171-178
CountsAsTimeout(kind) == kind \in {"abandoned", "timeoutLike"}

AllowanceUsedSlip(n) == n > MaxTimeouts
AllowanceUsed(n) == n >= MaxTimeouts

JoinMayTimeOutSlip(i) == FALSE          \* join() without a timeout
JoinMayTimeOut(i) == wpc[i] \in Alive

RestoredStreamSlip == stdout            \* no restore on the host side
RestoredStream == hostSaved

TracingAfterCallSlip(i) == tracing[i]   \* no sys.settrace(None) on the way out
TracingAfterCall(i) == FALSE

(* Lines 163-183: append the trace, count it, leave the loop or go on.     *)
Return(t) ==
  LET n == IF CountsAsTimeout(t.kind) THEN nTimeouts + 1 ELSE nTimeouts IN
  /\ traces' = Append(traces, t)
  /\ nTimeouts' = n
  /\ hpc' = IF \/ CountsAsTimeout(t.kind) /\ AllowanceUsed(n)
               \/ Len(traces) + 1 = NInputs
            THEN "done" ELSE "next"

(* A thread runs only while the interpreter lock is handed over.           *)
HostAt(pc) == ~frozen /\ hpc = pc
WorkerAt(i, pc) == ~frozen /\ wpc[i] = pc

(* Code of program i runs: in worker i, or in a thread it started, which   *)
(* neither the end of the call nor the host ever stops and no trace        *)
(* function sees (sys.settrace is per thread).                             *)
Runs(i) == ~frozen /\ (wpc[i] = "run" \/ i \in left)

-----------------------------------------------------------------------------
Init ==
  /\ hpc = IF NInputs = 0 THEN "done" ELSE "next"
  /\ hostSaved = HostStream
  /\ traces = <<>>
  /\ nTimeouts = 0
  /\ stdout = HostStream
  /\ captured = [i \in Inputs |-> {}]
  /\ wpc = [i \in Inputs |-> "unborn"]
  /\ orig = [i \in Inputs |-> HostStream]
  /\ events = [i \in Inputs |-> 0]
  /\ truncated = [i \in Inputs |-> FALSE]
  /\ timedOut = [i \in Inputs |-> FALSE]
  /\ tracing = [i \in Inputs |-> FALSE]
  /\ fate = [i \in Inputs |-> "completed"]
  /\ queue = [i \in Inputs |-> <<>>]
  /\ late = FALSE
  /\ left = {}
  /\ closed = {}
  /\ frozen = FALSE

-----------------------------------------------------------------------------
(* The host: trace (130-183) and _trace_one (189-248).                     *)

HostStart ==                            \* 218-219
  /\ HostAt("next")
  /\ hostSaved' = stdout
  /\ wpc' = [wpc EXCEPT ![Cur] = "started"]
  /\ hpc' = "join"
  /\ UNCHANGED <<traces, nTimeouts, late, sharedVars, stateVars, orig, fate, queue,
                 programVars>>

HostJoinReturns ==                      \* 220, the thread has ended
  /\ HostAt("join")
  /\ wpc[Cur] = "dead"
  /\ hpc' = "restore"
  /\ UNCHANGED <<hostSaved, traces, nTimeouts, late, sharedVars, stateVars,
                 workerVars, queue, programVars>>

HostJoinTimesOut ==                     \* 220, the budget is used up
  /\ HostAt("join")
  /\ JoinMayTimeOut(Cur)
  /\ hpc' = "restore"
  /\ UNCHANGED <<hostSaved, traces, nTimeouts, late, sharedVars, stateVars,
                 workerVars, queue, programVars>>

HostRestore ==                          \* 221-222
  /\ HostAt("restore")
  /\ stdout' = RestoredStream
  /\ late' = (late \/ wpc[Cur] \in Unswapped)
  /\ hpc' = "collect"
  /\ UNCHANGED <<hostSaved, traces, nTimeouts, captured, stateVars, workerVars,
                 queue, programVars>>

HostAccept ==                           \* 226-230, a late result counts too
  /\ HostAt("collect")
  /\ queue[QueueOf(Cur)] # <<>>
  /\ Return(Head(queue[QueueOf(Cur)]))
  /\ queue' = [queue EXCEPT ![QueueOf(Cur)] = Tail(@)]
  /\ UNCHANGED <<hostSaved, late, sharedVars, stateVars, workerVars, programVars>>

(* 232-248; state is None while the worker has not entered run.            *)
HostAbandon ==
  /\ HostAt("collect")
  /\ queue[QueueOf(Cur)] = <<>>
  /\ timedOut' = [timedOut EXCEPT ![Cur] = wpc[Cur] # "started"]
  /\ Return([by |-> Cur, kind |-> "abandoned",
             truncated |-> truncated[Cur], out |-> {}])
  /\ UNCHANGED <<hostSaved, late, sharedVars, events, truncated,
                 tracing, workerVars, queue, programVars>>

-----------------------------------------------------------------------------
(* A worker: _WorkerThread.run (286-326) and the trace function (336-386). *)

WorkerEnter(i) ==                       \* 287-288
  /\ WorkerAt(i, "started")
  /\ wpc' = [wpc EXCEPT ![i] = "fresh"]
  /\ UNCHANGED <<hostVars, sharedVars, stateVars, orig, fate, queue, programVars>>

WorkerSave(i) ==                        \* 295
  /\ WorkerAt(i, "fresh")
  /\ orig' = [orig EXCEPT ![i] = stdout]
  /\ wpc' = [wpc EXCEPT ![i] = "saved"]
  /\ UNCHANGED <<hostVars, sharedVars, stateVars, fate, queue, programVars>>

WorkerSwap(i) ==                        \* 296-299
  /\ WorkerAt(i, "saved")
  /\ stdout' = Buffer(i)
  /\ tracing' = [tracing EXCEPT ![i] = TRUE]
  /\ wpc' = [wpc EXCEPT ![i] = "run"]
  /\ UNCHANGED <<hostVars, captured, events, truncated, timedOut,
                 orig, fate, queue, programVars>>

(* A trace callback in worker i.  The deadline (95) is tested first; with  *)
(* abstract time it may have passed at any callback.  Frames of a harness  *)
(* (357-358) leave no mark and are left out.                               *)
Callback(i) ==
  /\ ~frozen
  /\ tracing[i]
  /\ wpc[i] \in {"run", "restore", "publish", "exiting"}
  /\ UNCHANGED <<hostVars, sharedVars, workerVars, queue, programVars>>

CallbackExpired(i) ==                   \* 342-346
  /\ Callback(i)
  /\ timedOut' = [timedOut EXCEPT ![i] = TRUE]
  /\ tracing' = [tracing EXCEPT ![i] = FALSE]
  /\ UNCHANGED <<events, truncated>>

CallbackCapped(i) ==                    \* 349-353
  /\ Callback(i)
  /\ CapReached(i)
  /\ truncated' = [truncated EXCEPT ![i] = TRUE]
  /\ tracing' = [tracing EXCEPT ![i] = FALSE]
  /\ UNCHANGED <<events, timedOut>>

CallbackRecords(i) ==                   \* 360-386
  /\ Callback(i)
  /\ ~CapReached(i)
  /\ events' = [events EXCEPT ![i] = @ + 1]
  /\ UNCHANGED <<truncated, timedOut, tracing>>

(* The program prints: to whatever sys.stdout is at that moment.  A closed *)
(* stream raises in the program instead.                                   *)
ProgramPrints(i) ==
  /\ Runs(i)
  /\ stdout \in Inputs \ closed
  /\ captured' = [captured EXCEPT ![stdout] = @ \cup {i}]
  /\ UNCHANGED <<hostVars, stdout, stateVars, workerVars, queue, programVars>>

ProgramStartsThread(i) ==
  /\ "thread" \in Habits
  /\ WorkerAt(i, "run")
  /\ left' = left \cup {i}
  /\ UNCHANGED <<hostVars, sharedVars, stateVars, workerVars, queue, closed, frozen>>

ProgramCloses(i) ==                     \* sys.stdout.close()
  /\ "close" \in Habits
  /\ Runs(i)
  /\ stdout \in Inputs
  /\ closed' = closed \cup {stdout}
  /\ UNCHANGED <<hostVars, sharedVars, stateVars, workerVars, queue, left, frozen>>

ProgramFreezes(i) ==
  /\ "freeze" \in Habits
  /\ Runs(i)
  /\ frozen' = TRUE
  /\ UNCHANGED <<hostVars, sharedVars, stateVars, workerVars, queue, left, closed>>

WorkerCallEnds(i) ==                    \* 301-306
  /\ WorkerAt(i, "run")
  /\ \E f \in Fates : fate' = [fate EXCEPT ![i] = f]
  /\ tracing' = [tracing EXCEPT ![i] = TracingAfterCall(i)]
  /\ wpc' = [wpc EXCEPT ![i] = "restore"]
  /\ UNCHANGED <<hostVars, sharedVars, events, truncated, timedOut,
                 orig, queue, programVars>>

WorkerRestore(i) ==                     \* 307-308
  /\ WorkerAt(i, "restore")
  /\ stdout' = orig[i]
  /\ wpc' = [wpc EXCEPT ![i] = IF Publishable(i) THEN "publish" ELSE "dead"]
  /\ UNCHANGED <<hostVars, captured, stateVars, orig, fate, queue, programVars>>

WorkerPublish(i) ==                     \* 312-326, a full queue is ignored
  /\ WorkerAt(i, "publish")
  /\ Buffer(i) \notin closed
  /\ queue' = IF queue[QueueOf(i)] = <<>>
              THEN [queue EXCEPT ![QueueOf(i)] =
                      << [by |-> i, kind |-> fate[i], truncated |-> truncated[i],
                          out |-> captured[Buffer(i)]] >>]
              ELSE queue
  /\ wpc' = [wpc EXCEPT ![i] = "exiting"]
  /\ UNCHANGED <<hostVars, sharedVars, stateVars, orig, fate, programVars>>

WorkerCannotPublish(i) ==               \* 318, getvalue() of a closed stream
  /\ WorkerAt(i, "publish")
  /\ Buffer(i) \in closed
  /\ wpc' = [wpc EXCEPT ![i] = "dead"]
  /\ UNCHANGED <<hostVars, sharedVars, stateVars, orig, fate, queue, programVars>>

WorkerEnds(i) ==                        \* run has returned
  /\ WorkerAt(i, "exiting")
  /\ wpc' = [wpc EXCEPT ![i] = "dead"]
  /\ UNCHANGED <<hostVars, sharedVars, stateVars, orig, fate, queue, programVars>>

-----------------------------------------------------------------------------
HostStep ==
  \/ HostStart
  \/ HostJoinReturns
  \/ HostJoinTimesOut
  \/ HostRestore
  \/ HostAccept
  \/ HostAbandon

WorkerStep(i) ==
  \/ WorkerEnter(i)
  \/ WorkerSave(i)
  \/ WorkerSwap(i)
  \/ CallbackExpired(i)
  \/ CallbackCapped(i)
  \/ CallbackRecords(i)
  \/ ProgramPrints(i)
  \/ ProgramStartsThread(i)
  \/ ProgramCloses(i)
  \/ ProgramFreezes(i)
  \/ WorkerCallEnds(i)
  \/ WorkerRestore(i)
  \/ WorkerPublish(i)
  \/ WorkerCannotPublish(i)
  \/ WorkerEnds(i)

(* trace has returned and no worker is left, or nothing runs any more.     *)
Terminating ==
  /\ \/ frozen
     \/ hpc = "done" /\ \A i \in Inputs : wpc[i] \in {"unborn", "dead"}
  /\ UNCHANGED vars

Next == HostStep \/ (\E i \in Inputs : WorkerStep(i)) \/ Terminating

Spec == Init /\ [][Next]_vars

(* Only the host is fair, and only while it can run: Python hands the      *)
(* interpreter lock to a waiting thread unless C code keeps it (frozen,    *)
(* which disables HostStep), so a join ends, at the latest when its        *)
(* timeout fires.  Nothing obliges a program to end or to give the lock up.*)
FairSpec == Spec /\ WF_vars(HostStep)

-----------------------------------------------------------------------------
(* Properties.                                                             *)

(* Type correctness; the event cap is part of it: no trace, abandoned or   *)
(* not, ever holds more than max_events events (line 349).                 *)
TypeOK ==
  /\ hpc \in {"next", "join", "restore", "collect", "done"}
  /\ hostSaved \in Streams
  /\ traces \in Seq(Trace) /\ Len(traces) <= NInputs
  /\ nTimeouts \in 0..NInputs
  /\ stdout \in Streams
  /\ captured \in [Inputs -> SUBSET Inputs]
  /\ wpc \in [Inputs -> Alive \cup {"unborn", "dead"}]
  /\ orig \in [Inputs -> Streams]
  /\ events \in [Inputs -> 0..MaxEvents]
  /\ truncated \in [Inputs -> BOOLEAN]
  /\ timedOut \in [Inputs -> BOOLEAN]
  /\ tracing \in [Inputs -> BOOLEAN]
  /\ fate \in [Inputs -> Fates]
  /\ queue \in [Inputs -> Seq(Trace)] /\ \A i \in Inputs : Len(queue[i]) <= 1
  /\ late \in BOOLEAN
  /\ left \subseteq Inputs
  /\ closed \subseteq Inputs
  /\ frozen \in BOOLEAN

(* Trace k is worker k's: the result of a worker that finishes after it    *)
(* was abandoned is never taken for a later input's.                       *)
NoCrossedResults == \A k \in DOMAIN traces : traces[k].by = k

(* max_timeouts bounds the workers one call leaks (comment at 165-169): at *)
(* most that many are ever abandoned, or one when it is 0.                 *)
LeakBound == Cardinality(Abandoned) <= (IF MaxTimeouts = 0 THEN 1 ELSE MaxTimeouts)

(* While no worker was abandoned before its swap of sys.stdout, the host   *)
(* has its own stream whenever it is outside _trace_one, whatever the      *)
(* abandoned workers do and whenever they finish (213-222, 295-308).       *)
HostStdoutKept == ~late /\ hpc \in {"next", "done"} => stdout = HostStream

(* A trace's captured stdout holds only its own program's output and that  *)
(* of earlier programs still running: abandoned, or gone on in a thread of *)
(* their own.  A worker whose result was taken writes nothing more itself  *)
(* (292-301, 318).                                                         *)
OnlyLeftBehindIntrude ==
  \A k \in DOMAIN traces : traces[k].out \subseteq {k} \cup {j \in LeftBehind : j < k}

(* A worker that ran to its end before the host looked for its result is   *)
(* reported as timed out only if its program left by a BaseException or an *)
(* exception that cannot be formatted (303), or closed its stdout (318).   *)
FinishedRunNotLost ==
  [][HostAbandon => (wpc[Cur] \in {"exiting", "dead"} =>
       fate[Cur] \in LosesResult \/ Buffer(Cur) \in closed)]_vars

(* A returned trace holds the list its worker appends to, not a copy.  The *)
(* events of one taken from the queue no longer change, although its       *)
(* worker may still be on the way out (241, 304-306, 315).                 *)
AcceptedTraceFrozen ==
  [][\A k \in DOMAIN traces :
       traces[k].kind # "abandoned" => events'[k] = events[k]]_vars

(* trace implements its contract, and goes on to its end unless a program  *)
(* freezes the process.                                                    *)
Contract == INSTANCE TraceContract
  WITH kinds <- [k \in DOMAIN traces |-> traces[k].kind], done <- (hpc = "done")

ContractSpec == Contract!Spec /\ (<>frozen \/ Contract!Live)

(* trace returns whatever the programs do, hanging, leaving threads behind *)
(* and exits included, unless one of them freezes the process (220).       *)
TraceReturns == <>(hpc = "done" \/ frozen)

-----------------------------------------------------------------------------
(* Claims made beside the code that the code does not keep.                *)

(* tracer.py:126: each trace captures its own program's stdout; claimed    *)
(* here only for runs in which every worker swapped sys.stdout in time.    *)
StdoutCapturedPerTrace ==
  ~late => \A k \in DOMAIN traces : traces[k].out \subseteq {k}

=============================================================================
