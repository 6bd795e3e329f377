---------------------------- MODULE TracerProofs ----------------------------
(***************************************************************************)
(* Machine-checked proofs about Tracer, for every number of inputs, event  *)
(* cap and timeout allowance.                                              *)
(***************************************************************************)
EXTENDS Tracer, FiniteSetTheorems, SequenceTheorems, TLAPS

(* The loop of trace: while it is running an input is left, and only       *)
(* returned traces are counted as timeouts.                                *)
LoopInv ==
  /\ hpc # "done" => Len(traces) < NInputs
  /\ nTimeouts <= Len(traces)

(* A worker that lost its result on the way never reaches the queue.       *)
PublishInv == \A i \in Inputs : wpc[i] = "publish" => fate[i] \notin LosesResult

TypeInv == TypeOK /\ LoopInv /\ PublishInv

-----------------------------------------------------------------------------
(* Type correctness.                                                       *)

LEMMA InitType == Init => TypeInv
<1> SUFFICES ASSUME Init PROVE TypeInv
  OBVIOUS
<1> USE TracerAssumption DEF Init, Inputs, Streams, HostStream
<1>1. traces \in Seq(Trace) /\ Len(traces) = 0
  OBVIOUS
<1>2. queue \in [Inputs -> Seq(Trace)] /\ \A i \in Inputs : Len(queue[i]) <= 1
  OBVIOUS
<1>3. /\ captured \in [Inputs -> SUBSET Inputs]
      /\ wpc \in [Inputs -> Alive \cup {"unborn", "dead"}]
      /\ fate \in [Inputs -> Fates]
  BY DEF Fates
<1>4. left \subseteq Inputs /\ closed \subseteq Inputs /\ frozen \in BOOLEAN
  OBVIOUS
<1>5. /\ orig \in [Inputs -> Streams] /\ events \in [Inputs -> 0..MaxEvents]
      /\ truncated \in [Inputs -> BOOLEAN] /\ timedOut \in [Inputs -> BOOLEAN]
      /\ tracing \in [Inputs -> BOOLEAN]
  OBVIOUS
<1>6. LoopInv /\ PublishInv
  BY <1>1 DEF LoopInv, PublishInv
<1>7. /\ hpc \in {"next", "join", "restore", "collect", "done"}
      /\ hostSaved \in Streams /\ stdout \in Streams /\ late \in BOOLEAN
  OBVIOUS
<1>8. nTimeouts \in 0..NInputs /\ Len(traces) <= NInputs
  BY <1>1
<1> QED
  BY <1>1, <1>2, <1>3, <1>4, <1>5, <1>6, <1>7, <1>8, Zenon DEF TypeInv, TypeOK

(* Appending one trace, counting it and leaving the loop keep the types.   *)
LEMMA ReturnType ==
  ASSUME TypeInv, hpc = "collect", NEW t \in Trace, Return(t)
  PROVE  /\ traces' \in Seq(Trace) /\ Len(traces') = Len(traces) + 1
         /\ Len(traces') <= NInputs
         /\ nTimeouts' \in 0..NInputs /\ nTimeouts' <= Len(traces')
         /\ hpc' \in {"next", "done"}
         /\ hpc' # "done" => Len(traces') < NInputs
<1> USE TracerAssumption DEF TypeInv, TypeOK, LoopInv, PublishInv
<1>1. traces' \in Seq(Trace) /\ Len(traces') = Len(traces) + 1
  BY DEF Return
<1>2. Len(traces) \in Nat
  OBVIOUS
<1>3. nTimeouts' \in {nTimeouts, nTimeouts + 1}
  BY DEF Return
<1>4. hpc' \in {"next", "done"} /\ (hpc' # "done" => Len(traces) + 1 # NInputs)
  BY DEF Return
<1> QED
  BY <1>1, <1>2, <1>3, <1>4

LEMMA HostStepType == TypeInv /\ HostStep => TypeInv'
<1> SUFFICES ASSUME TypeInv, HostStep PROVE TypeInv'
  OBVIOUS
<1> USE TracerAssumption DEF TypeInv, TypeOK, LoopInv, PublishInv
<1> USE DEF sharedVars, stateVars, workerVars, programVars, HostAt, WorkerAt, Runs
<1>1. CASE HostStart
  BY <1>1 DEF HostStart, Alive, Unswapped
<1>2. CASE HostJoinReturns
  BY <1>2 DEF HostJoinReturns
<1>3. CASE HostJoinTimesOut
  BY <1>3 DEF HostJoinTimesOut
<1>4. CASE HostRestore
  BY <1>4 DEF HostRestore, RestoredStream
<1>5. CASE HostAccept
  <2>1. Cur \in Inputs /\ queue[Cur] # <<>>
    BY <1>5 DEF HostAccept, Cur, Inputs, QueueOf
  <2>2. Head(queue[Cur]) \in Trace /\ Tail(queue[Cur]) \in Seq(Trace)
        /\ Len(Tail(queue[Cur])) <= 1
    BY <2>1
  <2>3. Return(Head(queue[Cur]))
    BY <1>5 DEF HostAccept, QueueOf
  <2>4. /\ queue' \in [Inputs -> Seq(Trace)]
        /\ \A i \in Inputs : Len(queue'[i]) <= 1
    BY <1>5, <2>1, <2>2 DEF HostAccept, QueueOf
  <2>5. UNCHANGED <<hostSaved, late, stdout, captured, events, truncated,
                    timedOut, tracing, wpc, orig, fate, left, closed, frozen>>
    BY <1>5 DEF HostAccept
  <2>6. hpc = "collect"
    BY <1>5 DEF HostAccept
  <2> QED
    BY <2>2, <2>3, <2>4, <2>5, <2>6, ReturnType
<1>6. CASE HostAbandon
  <2> DEFINE t == [by |-> Cur, kind |-> "abandoned", truncated |-> truncated[Cur],
                   out |-> {}]
  <2>1. Cur \in Inputs
    BY <1>6 DEF HostAbandon, Cur, Inputs
  <2>2. t \in Trace
    BY <2>1 DEF Trace
  <2>3. Return(t) /\ hpc = "collect"
    BY <1>6 DEF HostAbandon
  <2>4. timedOut' \in [Inputs -> BOOLEAN]
    BY <1>6 DEF HostAbandon
  <2>5. UNCHANGED <<hostSaved, late, stdout, captured, events, truncated,
                    tracing, wpc, orig, fate, queue, left, closed, frozen>>
    BY <1>6 DEF HostAbandon
  <2> HIDE DEF t
  <2> QED
    BY <2>2, <2>3, <2>4, <2>5, ReturnType
<1> QED
  BY <1>1, <1>2, <1>3, <1>4, <1>5, <1>6 DEF HostStep

LEMMA WorkerStepType ==
  ASSUME TypeInv, NEW i \in Inputs, WorkerStep(i)
  PROVE  TypeInv'
<1> USE TracerAssumption DEF TypeInv, TypeOK, LoopInv, PublishInv
<1> USE DEF hostVars, sharedVars, stateVars, workerVars, programVars, Alive, Unswapped,
            HostAt, WorkerAt, Runs
<1>1. CASE WorkerEnter(i)
  BY <1>1 DEF WorkerEnter
<1>2. CASE WorkerSave(i)
  BY <1>2 DEF WorkerSave
<1>3. CASE WorkerSwap(i)
  BY <1>3 DEF WorkerSwap, Buffer, Streams
<1>4. CASE CallbackExpired(i)
  BY <1>4 DEF CallbackExpired, Callback
<1>5. CASE CallbackCapped(i)
  BY <1>5 DEF CallbackCapped, Callback
<1>6. CASE CallbackRecords(i)
  BY <1>6 DEF CallbackRecords, Callback, CapReached
<1>7. CASE ProgramPrints(i)
  BY <1>7 DEF ProgramPrints
<1>8. CASE WorkerCallEnds(i)
  BY <1>8 DEF WorkerCallEnds, TracingAfterCall
<1>9. CASE WorkerRestore(i)
  BY <1>9 DEF WorkerRestore, Publishable
<1>10. CASE WorkerPublish(i)
  <2> DEFINE t == [by |-> i, kind |-> fate[i], truncated |-> truncated[i],
                   out |-> captured[Buffer(i)]]
  <2>1. queue' = IF queue[i] = <<>> THEN [queue EXCEPT ![i] = <<t>>] ELSE queue
    BY <1>10 DEF WorkerPublish, QueueOf
  <2>2. t \in Trace
    BY <1>10 DEF Trace, Buffer, WorkerPublish, Fates, LosesResult
  <2> HIDE DEF t
  <2>3. <<t>> \in Seq(Trace) /\ Len(<<t>>) = 1
    BY <2>2
  <2>4. /\ queue' \in [Inputs -> Seq(Trace)]
        /\ \A j \in Inputs : Len(queue'[j]) <= 1
    BY <2>1, <2>3
  <2> QED
    BY <1>10, <2>4 DEF WorkerPublish
<1>11. CASE WorkerEnds(i) \/ WorkerCannotPublish(i)
  BY <1>11 DEF WorkerEnds, WorkerCannotPublish
<1>12. CASE ProgramStartsThread(i) \/ ProgramCloses(i) \/ ProgramFreezes(i)
  BY <1>12 DEF ProgramStartsThread, ProgramCloses, ProgramFreezes
<1> QED
  BY <1>1, <1>2, <1>3, <1>4, <1>5, <1>6, <1>7, <1>8, <1>9, <1>10, <1>11, <1>12
  DEF WorkerStep

LEMMA NextType == TypeInv /\ [Next]_vars => TypeInv'
<1> SUFFICES ASSUME TypeInv, [Next]_vars PROVE TypeInv'
  OBVIOUS
<1>1. CASE UNCHANGED vars
  BY <1>1 DEF vars, hostVars, sharedVars, stateVars, workerVars, programVars, TypeInv,
              TypeOK, LoopInv, PublishInv
<1> QED
  BY <1>1, HostStepType, WorkerStepType DEF Next, Terminating

(* Every variable keeps its type; no trace ever exceeds max_events.        *)
THEOREM TypeCorrect == Spec => []TypeOK
<1>1. TypeInv => TypeOK
  BY DEF TypeInv
<1> QED
  BY <1>1, InitType, NextType, PTL DEF Spec

-----------------------------------------------------------------------------
(* The bound on leaked workers.  Abandoned traces are among the counted    *)
(* ones, and the loop goes on only while the allowance is not used up.     *)

Allowance == IF MaxTimeouts = 0 THEN 1 ELSE MaxTimeouts

LeakInv ==
  /\ IsFiniteSet(Abandoned)
  /\ Cardinality(Abandoned) <= nTimeouts
  /\ hpc # "done" => nTimeouts = 0 \/ nTimeouts < MaxTimeouts
  /\ nTimeouts <= Allowance

LEMMA ReturnLeak ==
  ASSUME TypeInv, LeakInv, hpc = "collect", NEW t \in Trace, Return(t)
  PROVE  LeakInv'
<1> USE TracerAssumption DEF TypeInv, TypeOK, LoopInv
<1>1. traces' = Append(traces, t) /\ Len(traces) \in Nat
  BY DEF Return
<1>2. CASE t.kind = "abandoned"
  <2>1. Abandoned' = Abandoned \cup {Len(traces) + 1}
    BY <1>1, <1>2 DEF Abandoned
  <2>2. Len(traces) + 1 \notin Abandoned
    BY <1>1 DEF Abandoned
  <2>3. /\ IsFiniteSet(Abandoned')
        /\ Cardinality(Abandoned') = Cardinality(Abandoned) + 1
    BY <2>1, <2>2, FS_AddElement DEF LeakInv
  <2>4. Cardinality(Abandoned) \in Nat
    BY FS_CardinalityType DEF LeakInv
  <2>5. nTimeouts' = nTimeouts + 1
    BY <1>2 DEF Return, CountsAsTimeout
  <2>6. hpc' # "done" => nTimeouts' < MaxTimeouts
    BY <1>2, <2>5 DEF Return, CountsAsTimeout, AllowanceUsed
  <2> QED
    BY <2>3, <2>4, <2>5, <2>6 DEF LeakInv, Allowance
<1>3. CASE t.kind # "abandoned"
  <2>1. Abandoned' = Abandoned
    BY <1>1, <1>3 DEF Abandoned
  <2>2. Cardinality(Abandoned) \in Nat
    BY FS_CardinalityType DEF LeakInv
  <2>3. CASE CountsAsTimeout(t.kind)
    <3>1. nTimeouts' = nTimeouts + 1
      BY <2>3 DEF Return
    <3>2. hpc' # "done" => nTimeouts' < MaxTimeouts
      BY <2>3, <3>1 DEF Return, AllowanceUsed
    <3> QED
      BY <2>1, <2>2, <3>1, <3>2 DEF LeakInv, Allowance
  <2>4. CASE ~CountsAsTimeout(t.kind)
    BY <2>1, <2>4 DEF Return, LeakInv
  <2> QED
    BY <2>3, <2>4
<1> QED
  BY <1>2, <1>3

LEMMA NextLeak == TypeInv /\ LeakInv /\ [Next]_vars => LeakInv'
<1> SUFFICES ASSUME TypeInv, LeakInv, [Next]_vars PROVE LeakInv'
  OBVIOUS
<1> USE DEF hostVars, sharedVars, stateVars, workerVars, programVars, HostAt, WorkerAt, Runs
<1>1. CASE HostAccept
  <2>1. Cur \in Inputs /\ queue[Cur] # <<>>
    BY <1>1, TracerAssumption
    DEF HostAccept, Cur, Inputs, QueueOf, TypeInv, TypeOK, LoopInv
  <2>2. Head(queue[Cur]) \in Trace
    BY <2>1 DEF TypeInv, TypeOK
  <2> QED
    BY <1>1, <2>2, ReturnLeak DEF HostAccept, QueueOf
<1>2. CASE HostAbandon
  <2> DEFINE t == [by |-> Cur, kind |-> "abandoned", truncated |-> truncated[Cur],
                   out |-> {}]
  <2>1. Cur \in Inputs
    BY <1>2, TracerAssumption
    DEF HostAbandon, Cur, Inputs, TypeInv, TypeOK, LoopInv
  <2>2. t \in Trace
    BY <2>1 DEF Trace, TypeInv, TypeOK
  <2>3. Return(t) /\ hpc = "collect"
    BY <1>2 DEF HostAbandon
  <2> HIDE DEF t
  <2> QED
    BY <2>2, <2>3, ReturnLeak
<1>3. CASE HostStart \/ HostJoinReturns \/ HostJoinTimesOut \/ HostRestore
  BY <1>3 DEF HostStart, HostJoinReturns, HostJoinTimesOut, HostRestore,
              LeakInv, Abandoned
<1>4. ASSUME NEW i \in Inputs, WorkerStep(i) PROVE LeakInv'
  BY <1>4 DEF WorkerStep, WorkerEnter, WorkerSave, WorkerSwap, Callback,
              CallbackExpired, CallbackCapped, CallbackRecords, ProgramPrints,
              ProgramStartsThread, ProgramCloses, ProgramFreezes, WorkerCannotPublish,
              WorkerCallEnds, WorkerRestore, WorkerPublish, WorkerEnds,
              LeakInv, Abandoned
<1>5. CASE UNCHANGED vars
  BY <1>5 DEF vars, LeakInv, Abandoned
<1> QED
  BY <1>1, <1>2, <1>3, <1>4, <1>5 DEF Next, HostStep, Terminating

(* At most max_timeouts workers are left behind by one call of trace.      *)
THEOREM LeakBounded == Spec => []LeakBound
<1>1. Init => LeakInv
  <2> SUFFICES ASSUME Init PROVE LeakInv
    OBVIOUS
  <2>1. Abandoned = {}
    BY DEF Init, Abandoned
  <2> QED
    BY <2>1, FS_EmptySet, TracerAssumption DEF Init, LeakInv, Allowance
<1>2. TypeInv /\ LeakInv => LeakBound
  BY FS_CardinalityType, TracerAssumption
  DEF LeakInv, LeakBound, Allowance, TypeInv, TypeOK
<1> QED
  BY <1>1, <1>2, InitType, NextType, NextLeak, PTL DEF Spec

-----------------------------------------------------------------------------
(* The host's stdout.  As long as no worker was left behind before its     *)
(* swap, only the current worker can be before it, and it reads and saves  *)
(* the host's own stream; so every later restore, however late, puts that  *)
(* same stream back.                                                       *)

BirthInv ==
  /\ \A i \in Inputs : i > Cur => wpc[i] = "unborn"
  /\ hpc \in {"next", "done"} => \A i \in Inputs : i >= Cur => wpc[i] = "unborn"

StdoutInv ==
  ~late =>
    /\ hostSaved = HostStream
    /\ \A i \in Inputs : orig[i] = HostStream
    /\ \A i \in Inputs : i < Cur => wpc[i] \notin Unswapped
    /\ hpc \in {"next", "collect", "done"} =>
         /\ stdout = HostStream
         /\ \A i \in Inputs : wpc[i] \notin Unswapped
    /\ \A i \in Inputs : wpc[i] \in Unswapped => stdout = HostStream

LEMMA HostStepStdout ==
  TypeInv /\ BirthInv /\ StdoutInv /\ HostStep => BirthInv' /\ StdoutInv'
<1> SUFFICES ASSUME TypeInv, BirthInv, StdoutInv, HostStep
             PROVE  BirthInv' /\ StdoutInv'
  OBVIOUS
<1> USE TracerAssumption
<1> USE DEF TypeInv, TypeOK, LoopInv, BirthInv, StdoutInv, Cur, Inputs
<1> USE DEF sharedVars, stateVars, workerVars, programVars, HostAt, WorkerAt, Runs
<1>1. CASE HostStart
  BY <1>1 DEF HostStart, Unswapped
<1>2. CASE HostJoinReturns \/ HostJoinTimesOut
  BY <1>2 DEF HostJoinReturns, HostJoinTimesOut
<1>3. CASE HostRestore
  <2>1. /\ stdout' = hostSaved /\ hpc' = "collect"
        /\ UNCHANGED <<hostSaved, traces, wpc, orig>>
    BY <1>3 DEF HostRestore, RestoredStream
  <2>2. ~late' => ~late /\ wpc[Cur] \notin Unswapped
    BY <1>3, Zenon DEF HostRestore
  <2>3. ASSUME ~late', NEW i \in Inputs PROVE wpc[i] \notin Unswapped
    <3>1. i < Cur \/ i = Cur \/ i > Cur
      OBVIOUS
    <3> QED
      BY <3>1, <2>2, <2>3 DEF Unswapped
  <2> QED
    BY <2>1, <2>2, <2>3
<1>4. CASE HostAccept \/ HostAbandon
  <2>1. PICK t : Return(t)
    BY <1>4 DEF HostAccept, HostAbandon
  <2>2. Len(traces') = Len(traces) + 1 /\ Len(traces) \in Nat
    BY <2>1 DEF Return
  <2>3. hpc = "collect" /\ UNCHANGED <<hostSaved, late, stdout, wpc, orig>>
    BY <1>4 DEF HostAccept, HostAbandon
  <2>4. \A i \in Inputs : i >= Len(traces) + 2 => i > Len(traces) + 1
    BY <2>2
  <2> QED
    BY <2>2, <2>3, <2>4
<1> QED
  BY <1>1, <1>2, <1>3, <1>4 DEF HostStep

LEMMA WorkerStepStdout ==
  ASSUME TypeInv, BirthInv, StdoutInv, NEW i \in Inputs, WorkerStep(i)
  PROVE  BirthInv' /\ StdoutInv'
<1> USE TracerAssumption DEF TypeInv, TypeOK, LoopInv, BirthInv, StdoutInv, Cur
<1> USE DEF hostVars, sharedVars, stateVars, workerVars, programVars, Unswapped,
            HostAt, WorkerAt, Runs
<1>0. i \in Nat /\ Len(traces) \in Nat
  BY DEF Inputs
<1>1. CASE WorkerEnter(i)
  BY <1>1 DEF WorkerEnter
<1>2. CASE WorkerSave(i)
  BY <1>2 DEF WorkerSave
<1>3. CASE WorkerSwap(i)
  <2>1. /\ wpc[i] = "saved" /\ wpc' = [wpc EXCEPT ![i] = "run"]
        /\ UNCHANGED <<hpc, hostSaved, traces, late, orig>>
    BY <1>3 DEF WorkerSwap
  <2>2. ASSUME ~late PROVE hpc \in {"join", "restore"} /\ i = Cur
    <3>1. hpc \notin {"next", "collect", "done"} /\ ~(i < Cur)
      BY <2>1, <2>2
    <3>2. ~(i > Cur)
      BY <2>1
    <3> QED
      BY <1>0, <3>1, <3>2
  <2>3. ASSUME ~late, NEW j \in Inputs PROVE wpc'[j] \notin Unswapped
    <3>1. CASE j = i
      BY <2>1, <3>1
    <3>2. CASE j # i
      <4>1. j \in Nat /\ (j < Cur \/ j > Cur)
        BY <1>0, <2>2, <2>3, <3>2 DEF Inputs
      <4> QED
        BY <2>1, <2>3, <3>2, <4>1
    <3> QED
      BY <3>1, <3>2
  <2>4. BirthInv'
    BY <2>1
  <2>5. StdoutInv'
    BY <2>1, <2>2, <2>3
  <2> QED
    BY <2>4, <2>5
<1>4. CASE CallbackExpired(i) \/ CallbackCapped(i) \/ CallbackRecords(i)
  BY <1>4 DEF CallbackExpired, CallbackCapped, CallbackRecords, Callback
<1>5. CASE ProgramPrints(i)
  BY <1>5 DEF ProgramPrints
<1>6. CASE WorkerCallEnds(i)
  BY <1>6 DEF WorkerCallEnds
<1>7. CASE WorkerRestore(i)
  BY <1>7 DEF WorkerRestore
<1>8. CASE WorkerPublish(i)
  BY <1>8 DEF WorkerPublish
<1>9. CASE WorkerEnds(i) \/ WorkerCannotPublish(i)
  BY <1>9 DEF WorkerEnds, WorkerCannotPublish
<1>10. CASE ProgramStartsThread(i) \/ ProgramCloses(i) \/ ProgramFreezes(i)
  BY <1>10 DEF ProgramStartsThread, ProgramCloses, ProgramFreezes
<1> QED
  BY <1>1, <1>2, <1>3, <1>4, <1>5, <1>6, <1>7, <1>8, <1>9, <1>10 DEF WorkerStep

LEMMA StdoutAlways == Spec => [](BirthInv /\ StdoutInv)
<1>1. Init => BirthInv /\ StdoutInv
  BY TracerAssumption DEF Init, BirthInv, StdoutInv, Cur, Inputs, Unswapped, HostStream
<1>2. TypeInv /\ BirthInv /\ StdoutInv /\ [Next]_vars => BirthInv' /\ StdoutInv'
  <2> SUFFICES ASSUME TypeInv, BirthInv, StdoutInv, [Next]_vars
               PROVE  BirthInv' /\ StdoutInv'
    OBVIOUS
  <2>1. CASE UNCHANGED vars
    BY <2>1 DEF vars, hostVars, sharedVars, stateVars, workerVars, programVars, BirthInv,
                StdoutInv, Cur
  <2> QED
    BY <2>1, HostStepStdout, WorkerStepStdout DEF Next, Terminating
<1> QED
  BY <1>1, <1>2, InitType, NextType, PTL DEF Spec

(* Outside _trace_one the host owns sys.stdout, unless a worker was left   *)
(* behind before it replaced the stream.                                   *)
THEOREM StdoutKept == Spec => []HostStdoutKept
<1>1. StdoutInv => HostStdoutKept
  BY DEF StdoutInv, HostStdoutKept
<1> QED
  BY <1>1, StdoutAlways, PTL

-----------------------------------------------------------------------------
(* Results are never crossed: what is in queue i was put there by worker i.*)

QueueInv == \A i \in Inputs : queue[i] # <<>> => Head(queue[i]).by = i

CrossInv == QueueInv /\ NoCrossedResults

LEMMA NextCross == TypeInv /\ CrossInv /\ [Next]_vars => CrossInv'
<1> SUFFICES ASSUME TypeInv, CrossInv, [Next]_vars PROVE CrossInv'
  OBVIOUS
<1> USE TracerAssumption DEF CrossInv, QueueInv, NoCrossedResults, Cur, QueueOf
<1> USE DEF hostVars, sharedVars, stateVars, workerVars, programVars, HostAt, WorkerAt, Runs
<1>0. /\ traces \in Seq(Trace) /\ Len(traces) \in Nat
      /\ queue \in [Inputs -> Seq(Trace)]
      /\ hpc # "done" => Cur \in Inputs
      /\ \A i \in Inputs : Len(queue[i]) <= 1
  BY DEF TypeInv, TypeOK, LoopInv, Inputs
<1>1. ASSUME NEW t, t.by = Cur, Return(t) PROVE NoCrossedResults'
  BY <1>0, <1>1 DEF Return
<1>2. CASE HostAccept
  <2>1. Head(queue[Cur]).by = Cur /\ Return(Head(queue[Cur]))
    BY <1>0, <1>2 DEF HostAccept
  <2>2. Tail(queue[Cur]) = <<>>
    BY <1>0, <1>2 DEF HostAccept
  <2>3. QueueInv'
    BY <1>0, <1>2, <2>2 DEF HostAccept
  <2> QED
    BY <1>1, <2>1, <2>3
<1>3. CASE HostAbandon
  <2> DEFINE t == [by |-> Cur, kind |-> "abandoned", truncated |-> truncated[Cur],
                   out |-> {}]
  <2>1. t.by = Cur /\ Return(t) /\ UNCHANGED queue
    BY <1>3 DEF HostAbandon
  <2> HIDE DEF t
  <2> QED
    BY <1>1, <2>1
<1>4. CASE HostStart \/ HostJoinReturns \/ HostJoinTimesOut \/ HostRestore
  BY <1>4 DEF HostStart, HostJoinReturns, HostJoinTimesOut, HostRestore
<1>5. ASSUME NEW i \in Inputs, WorkerStep(i) PROVE CrossInv'
  <2>1. CASE WorkerPublish(i)
    BY <1>0, <2>1 DEF WorkerPublish
  <2>2. CASE ~WorkerPublish(i)
    BY <1>5, <2>2
    DEF WorkerStep, WorkerEnter, WorkerSave, WorkerSwap, Callback,
        CallbackExpired, CallbackCapped, CallbackRecords, ProgramPrints,
        ProgramStartsThread, ProgramCloses, ProgramFreezes, WorkerCannotPublish,
        WorkerCallEnds, WorkerRestore, WorkerEnds
  <2> QED
    BY <2>1, <2>2
<1>6. CASE UNCHANGED vars
  BY <1>6 DEF vars
<1> QED
  BY <1>2, <1>3, <1>4, <1>5, <1>6 DEF Next, HostStep, Terminating

(* The trace returned for an input is the one of the worker that ran it.   *)
THEOREM ResultsNotCrossed == Spec => []NoCrossedResults
<1>1. Init => CrossInv
  BY DEF Init, CrossInv, QueueInv, NoCrossedResults
<1>2. CrossInv => NoCrossedResults
  BY DEF CrossInv
<1> QED
  BY <1>1, <1>2, InitType, NextType, NextCross, PTL DEF Spec

-----------------------------------------------------------------------------
(* trace implements its contract.  The kinds of the traces are the         *)
(* contract's list, and n_timeouts is the number of timeouts in it.        *)

KindList == [k \in DOMAIN traces |-> traces[k].kind]

CountInv ==
  /\ IsFiniteSet(Contract!Timeouts(KindList))
  /\ Cardinality(Contract!Timeouts(KindList)) = nTimeouts

(* The kinds of a list of traces form a list of the same length.           *)
LEMMA KindsOf ==
  ASSUME NEW ts \in Seq(Trace), NEW ks, ks = [k \in DOMAIN ts |-> ts[k].kind]
  PROVE  ks \in Seq(Contract!Kinds) /\ Len(ks) = Len(ts) /\ DOMAIN ks = 1..Len(ts)
<1>1. Len(ts) \in Nat /\ DOMAIN ts = 1..Len(ts) /\ \A k \in 1..Len(ts) : ts[k] \in Trace
  BY LenProperties, ElementOfSeq
<1>2. ks \in [1..Len(ts) -> Contract!Kinds]
  BY <1>1 DEF Trace, Contract!Kinds
<1>3. ks \in Seq(Contract!Kinds)
  BY <1>1, <1>2, SeqDef
<1>4. Len(ks) \in Nat /\ 1..Len(ks) = 1..Len(ts)
  BY <1>1, <1>2, <1>3, LenProperties
<1>5. Len(ks) = Len(ts)
  BY <1>1, <1>4
<1> QED
  BY <1>2, <1>3, <1>5

LEMMA ReturnRefines ==
  ASSUME TypeInv, CountInv, hpc = "collect", NEW t \in Trace, Return(t)
  PROVE  CountInv' /\ Contract!Next
<1> USE TracerAssumption DEF TypeInv, TypeOK, LoopInv
<1>1. traces' = Append(traces, t) /\ Len(traces) \in Nat /\ t.kind \in Contract!Kinds
  BY DEF Return, Trace, Contract!Kinds
<1>2. traces' \in Seq(Trace) /\ Len(traces') = Len(traces) + 1
  BY <1>1
<1>3. /\ KindList \in Seq(Contract!Kinds) /\ Len(KindList) = Len(traces)
      /\ DOMAIN KindList = 1..Len(traces)
  BY KindsOf DEF KindList
<1>4. /\ KindList' \in Seq(Contract!Kinds) /\ Len(KindList') = Len(traces) + 1
      /\ DOMAIN KindList' = 1..(Len(traces) + 1)
  BY <1>2, KindsOf DEF KindList
<1>5. /\ \A k \in 1..Len(traces) : KindList'[k] = KindList[k]
      /\ KindList'[Len(traces) + 1] = t.kind
  BY <1>1, <1>2, LenProperties DEF KindList
<1>6. /\ CountsAsTimeout(t.kind) <=> t.kind \in Contract!TimeoutKinds
      /\ Contract!Timeouts(KindList') =
           IF CountsAsTimeout(t.kind)
           THEN Contract!Timeouts(KindList) \cup {Len(traces) + 1}
           ELSE Contract!Timeouts(KindList)
  <2>1. CountsAsTimeout(t.kind) <=> t.kind \in Contract!TimeoutKinds
    BY DEF CountsAsTimeout, Contract!TimeoutKinds
  <2>2. \A k : k \in 1..(Len(traces) + 1) <=> k \in 1..Len(traces) \/ k = Len(traces) + 1
    BY <1>1
  <2> QED
    BY <1>3, <1>4, <1>5, <2>1, <2>2 DEF Contract!Timeouts
<1>7. Len(traces) + 1 \notin Contract!Timeouts(KindList)
  BY <1>3 DEF Contract!Timeouts
<1>8. CountInv'
  <2> DEFINE S == Contract!Timeouts(KindList)
  <2>0. IsFiniteSet(S) /\ Cardinality(S) = nTimeouts
    BY DEF CountInv
  <2>1. CASE CountsAsTimeout(t.kind)
    <3>1. Contract!Timeouts(KindList') = S \cup {Len(traces) + 1}
      BY <1>6, <2>1
    <3>2. nTimeouts' = nTimeouts + 1
      BY <2>1 DEF Return
    <3> HIDE DEF S
    <3>3. /\ IsFiniteSet(S \cup {Len(traces) + 1})
          /\ Cardinality(S \cup {Len(traces) + 1}) = Cardinality(S) + 1
      BY <1>7, <2>0, FS_AddElement DEF S
    <3> QED
      BY <2>0, <3>1, <3>2, <3>3 DEF CountInv
  <2>2. CASE ~CountsAsTimeout(t.kind)
    <3>1. Contract!Timeouts(KindList') = S /\ nTimeouts' = nTimeouts
      BY <1>6, <2>2 DEF Return
    <3> QED
      BY <2>0, <3>1 DEF CountInv
  <2> QED
    BY <2>1, <2>2
<1>9. KindList' = Append(KindList, t.kind)
  <2>1. Append(KindList, t.kind) \in Seq(Contract!Kinds)
    BY <1>1, <1>3
  <2> QED
    BY <1>1, <1>3, <1>4, <1>5, <2>1, SeqEqual
<1>10. Contract!Exhausted(KindList') <=> CountsAsTimeout(t.kind) /\ AllowanceUsed(nTimeouts')
  <2>1. KindList' # <<>>
    BY <1>1, <1>4
  <2>2. KindList'[Len(KindList')] = t.kind
    BY <1>4, <1>5
  <2>3. Cardinality(Contract!Timeouts(KindList')) = nTimeouts'
    BY <1>8 DEF CountInv
  <2>4. Contract!Exhausted(KindList') <=>
          t.kind \in Contract!TimeoutKinds /\ nTimeouts' >= MaxTimeouts
    BY <2>1, <2>2, <2>3, Zenon DEF Contract!Exhausted, Contract!Cardinality, Cardinality
  <2> QED
    BY <1>6, <2>4 DEF AllowanceUsed
<1>11. (hpc' = "done") <=> Contract!Finished(KindList')
  BY <1>4, <1>10 DEF Return, Contract!Finished
<1>12. (hpc' = "done") = Contract!Finished(KindList')
  BY <1>11, Zenon DEF Contract!Finished, Contract!Exhausted
<1>13. Contract!Record(t.kind)
  BY <1>9, <1>12, Zenon DEF Contract!Record, KindList
<1> QED
  BY <1>1, <1>8, <1>13 DEF Contract!Next

LEMMA NextRefines ==
  TypeInv /\ CountInv /\ [Next]_vars =>
    CountInv' /\ [Contract!Next]_(Contract!contractVars)
<1> SUFFICES ASSUME TypeInv, CountInv, [Next]_vars
             PROVE  CountInv' /\ [Contract!Next]_(Contract!contractVars)
  OBVIOUS
<1> USE DEF hostVars, sharedVars, stateVars, workerVars, programVars, HostAt, WorkerAt, Runs
<1>1. CASE HostAccept
  <2>1. Cur \in Inputs /\ queue[Cur] # <<>>
    BY <1>1, TracerAssumption
    DEF HostAccept, Cur, Inputs, QueueOf, TypeInv, TypeOK, LoopInv
  <2>2. Head(queue[Cur]) \in Trace
    BY <2>1 DEF TypeInv, TypeOK
  <2> QED
    BY <1>1, <2>2, ReturnRefines DEF HostAccept, QueueOf
<1>2. CASE HostAbandon
  <2> DEFINE t == [by |-> Cur, kind |-> "abandoned", truncated |-> truncated[Cur],
                   out |-> {}]
  <2>1. Cur \in Inputs
    BY <1>2, TracerAssumption
    DEF HostAbandon, Cur, Inputs, TypeInv, TypeOK, LoopInv
  <2>2. t \in Trace
    BY <2>1 DEF Trace, TypeInv, TypeOK
  <2>3. Return(t) /\ hpc = "collect"
    BY <1>2 DEF HostAbandon
  <2> HIDE DEF t
  <2> QED
    BY <2>2, <2>3, ReturnRefines
<1>3. CASE HostStart \/ HostJoinReturns \/ HostJoinTimesOut \/ HostRestore
  BY <1>3 DEF HostStart, HostJoinReturns, HostJoinTimesOut, HostRestore,
              CountInv, KindList, Contract!contractVars
<1>4. ASSUME NEW i \in Inputs, WorkerStep(i)
      PROVE  CountInv' /\ UNCHANGED Contract!contractVars
  BY <1>4 DEF WorkerStep, WorkerEnter, WorkerSave, WorkerSwap, Callback,
              CallbackExpired, CallbackCapped, CallbackRecords, ProgramPrints,
              ProgramStartsThread, ProgramCloses, ProgramFreezes, WorkerCannotPublish,
              WorkerCallEnds, WorkerRestore, WorkerPublish, WorkerEnds,
              CountInv, KindList, Contract!contractVars
<1>5. CASE UNCHANGED vars
  BY <1>5 DEF vars, CountInv, KindList, Contract!contractVars
<1> QED
  BY <1>1, <1>2, <1>3, <1>4, <1>5 DEF Next, HostStep, Terminating

(* The threads, queues and streams of Tracer implement the sequential      *)
(* contract: one trace per input, in order, ending early only on timeouts. *)
THEOREM TraceImplementsContract == Spec => Contract!Spec
<1>1. Init => Contract!Init /\ CountInv
  <2> SUFFICES ASSUME Init PROVE Contract!Init /\ CountInv
    OBVIOUS
  <2>1. KindList = <<>>
    BY DEF Init, KindList
  <2>2. Contract!Timeouts(KindList) = {}
    BY <2>1 DEF Contract!Timeouts
  <2> QED
    BY <2>1, <2>2, FS_EmptySet, TracerAssumption
    DEF Init, Contract!Init, CountInv, KindList
<1> QED
  BY <1>1, InitType, NextType, NextRefines, PTL DEF Spec, Contract!Spec

-----------------------------------------------------------------------------
(* What becomes of a worker whose program has ended: it is no longer       *)
(* traced, and unless it lost its result on the way the result is in its   *)
(* queue or has been taken from there.                                     *)

Over == {"exiting", "dead"}

EndInv ==
  /\ \A i \in Inputs : wpc[i] \in Over \cup {"restore", "publish"} => ~tracing[i]
  /\ \A i \in Inputs : queue[i] # <<>> => wpc[i] \in Over
  /\ \A k \in DOMAIN traces : traces[k].kind # "abandoned" => wpc[k] \in Over
  /\ \A i \in Inputs : wpc[i] \in Over /\ fate[i] \notin LosesResult /\ i \notin closed =>
       queue[i] # <<>> \/ i \in DOMAIN traces

(* What a return adds to the list.                                         *)
LEMMA ReturnList ==
  ASSUME TypeInv, hpc = "collect", NEW t, Return(t)
  PROVE  /\ Cur \in Inputs /\ Cur \notin DOMAIN traces
         /\ DOMAIN traces' = DOMAIN traces \cup {Cur}
         /\ traces'[Cur] = t /\ \A k \in DOMAIN traces : traces'[k] = traces[k]
         /\ DOMAIN traces = 1..Len(traces) /\ Len(traces) \in Nat
         /\ Cur' = Cur + 1
<1>1. /\ traces \in Seq(Trace) /\ Len(traces) \in Nat /\ DOMAIN traces = 1..Len(traces)
      /\ Len(traces) < NInputs /\ traces' = Append(traces, t)
  BY LenProperties DEF TypeInv, TypeOK, LoopInv, Return
<1>2. /\ Len(traces') = Len(traces) + 1 /\ DOMAIN traces' = 1..(Len(traces) + 1)
      /\ traces'[Len(traces) + 1] = t
      /\ \A k \in 1..Len(traces) : traces'[k] = traces[k]
  BY <1>1
<1> QED
  BY <1>1, <1>2, TracerAssumption DEF Cur, Inputs

LEMMA TracesInputs ==
  ASSUME TypeInv
  PROVE  DOMAIN traces \subseteq Inputs
<1>1. DOMAIN traces = 1..Len(traces) /\ Len(traces) \in Nat /\ Len(traces) <= NInputs
  BY LenProperties DEF TypeInv, TypeOK
<1> QED
  BY <1>1, TracerAssumption DEF Inputs

LEMMA HostStepEnd ==
  ASSUME TypeInv, BirthInv, EndInv, HostStep
  PROVE  EndInv'
<1> USE DEF EndInv, sharedVars, stateVars, workerVars, programVars, HostAt, WorkerAt, Runs
<1>1. CASE HostStart
  <2>1. /\ Cur \in Inputs /\ wpc' = [wpc EXCEPT ![Cur] = "started"]
        /\ UNCHANGED <<traces, tracing, queue, fate, closed>>
        /\ wpc \in [Inputs -> Alive \cup {"unborn", "dead"}]
    BY <1>1, TracerAssumption DEF HostStart, TypeInv, TypeOK, LoopInv, Cur, Inputs
  <2>2. wpc[Cur] = "unborn"
    BY <1>1, <2>1, TracerAssumption DEF HostStart, BirthInv, TypeInv, TypeOK, Cur, Inputs
  <2>3. \A i \in Inputs : wpc'[i] = IF i = Cur THEN "started" ELSE wpc[i]
    BY <2>1
  <2> QED
    BY <2>1, <2>2, <2>3, TracesInputs DEF Over
<1>2. CASE HostJoinReturns \/ HostJoinTimesOut \/ HostRestore
  BY <1>2 DEF HostJoinReturns, HostJoinTimesOut, HostRestore
<1>3. CASE HostAccept
  <2>1. /\ hpc = "collect" /\ queue[Cur] # <<>> /\ Return(Head(queue[Cur]))
        /\ queue' = [queue EXCEPT ![Cur] = Tail(@)]
        /\ UNCHANGED <<tracing, wpc, fate, closed>>
        /\ queue \in [Inputs -> Seq(Trace)] /\ \A i \in Inputs : Len(queue[i]) <= 1
    BY <1>3 DEF HostAccept, QueueOf, TypeInv, TypeOK
  <2>2. /\ Cur \in Inputs /\ DOMAIN traces' = DOMAIN traces \cup {Cur}
        /\ \A k \in DOMAIN traces : traces'[k] = traces[k]
    BY <2>1, ReturnList
  <2>3. wpc[Cur] \in Over
    BY <2>1, <2>2
  <2>4. Tail(queue[Cur]) = <<>>
    BY <2>1, <2>2
  <2>5. \A i \in Inputs : queue'[i] = IF i = Cur THEN <<>> ELSE queue[i]
    BY <2>1, <2>2, <2>4
  <2> QED
    BY <2>1, <2>2, <2>3, <2>5
<1>4. CASE HostAbandon
  <2> DEFINE t == [by |-> Cur, kind |-> "abandoned", truncated |-> truncated[Cur],
                   out |-> {}]
  <2>1. hpc = "collect" /\ Return(t) /\ UNCHANGED <<tracing, wpc, fate, queue, closed>>
    BY <1>4 DEF HostAbandon
  <2>2. t.kind = "abandoned"
    OBVIOUS
  <2> HIDE DEF t
  <2>3. /\ DOMAIN traces' = DOMAIN traces \cup {Cur} /\ traces'[Cur] = t
        /\ \A k \in DOMAIN traces : traces'[k] = traces[k]
    BY <2>1, ReturnList
  <2> QED
    BY <2>1, <2>2, <2>3
<1> QED
  BY <1>1, <1>2, <1>3, <1>4 DEF HostStep

LEMMA WorkerStepEnd ==
  ASSUME TypeInv, EndInv, NEW i \in Inputs, WorkerStep(i)
  PROVE  EndInv'
<1> USE DEF EndInv, hostVars, sharedVars, stateVars, workerVars, programVars, Over,
            HostAt, WorkerAt, Runs
<1>0. /\ wpc \in [Inputs -> Alive \cup {"unborn", "dead"}]
      /\ tracing \in [Inputs -> BOOLEAN] /\ fate \in [Inputs -> Fates]
      /\ queue \in [Inputs -> Seq(Trace)] /\ DOMAIN traces \subseteq Inputs
  BY TracesInputs DEF TypeInv, TypeOK
<1>1. CASE WorkerEnter(i) \/ WorkerSave(i)
  BY <1>0, <1>1 DEF WorkerEnter, WorkerSave
<1>2. CASE WorkerSwap(i)
  BY <1>0, <1>2 DEF WorkerSwap
<1>3. CASE CallbackExpired(i) \/ CallbackCapped(i) \/ CallbackRecords(i) \/ ProgramPrints(i)
  BY <1>0, <1>3 DEF CallbackExpired, CallbackCapped, CallbackRecords, Callback, ProgramPrints
<1>4. CASE WorkerCallEnds(i)
  <2>1. /\ wpc[i] = "run" /\ wpc' = [wpc EXCEPT ![i] = "restore"]
        /\ tracing' = [tracing EXCEPT ![i] = FALSE]
        /\ \E f \in Fates : fate' = [fate EXCEPT ![i] = f]
        /\ UNCHANGED <<traces, queue, closed>>
    BY <1>4 DEF WorkerCallEnds, TracingAfterCall
  <2>2. \A j \in Inputs : j # i => fate'[j] = fate[j]
    BY <1>0, <2>1
  <2> QED
    BY <1>0, <2>1, <2>2
<1>5. CASE WorkerRestore(i) \/ WorkerCannotPublish(i)
  BY <1>0, <1>5 DEF WorkerRestore, WorkerCannotPublish, Publishable, Buffer
<1>6. CASE WorkerPublish(i)
  <2>1. /\ wpc[i] = "publish" /\ wpc' = [wpc EXCEPT ![i] = "exiting"]
        /\ UNCHANGED <<traces, tracing, fate, closed>>
        /\ \A j \in Inputs : j # i => queue'[j] = queue[j]
    BY <1>0, <1>6 DEF WorkerPublish, QueueOf
  <2>2. queue'[i] # <<>>
    BY <1>0, <1>6 DEF WorkerPublish, QueueOf
  <2> QED
    BY <1>0, <2>1, <2>2
<1>7. CASE WorkerEnds(i)
  BY <1>0, <1>7 DEF WorkerEnds
<1>8. CASE ProgramStartsThread(i) \/ ProgramCloses(i) \/ ProgramFreezes(i)
  BY <1>0, <1>8 DEF ProgramStartsThread, ProgramCloses, ProgramFreezes
<1> QED
  BY <1>1, <1>2, <1>3, <1>4, <1>5, <1>6, <1>7, <1>8 DEF WorkerStep

LEMMA EndAlways == Spec => []EndInv
<1>1. Init => EndInv
  BY DEF Init, EndInv, Over
<1>2. TypeInv /\ BirthInv /\ EndInv /\ [Next]_vars => EndInv'
  <2> SUFFICES ASSUME TypeInv, BirthInv, EndInv, [Next]_vars PROVE EndInv'
    OBVIOUS
  <2>1. CASE UNCHANGED vars
    BY <2>1 DEF vars, hostVars, sharedVars, stateVars, workerVars, programVars, EndInv
  <2> QED
    BY <2>1, HostStepEnd, WorkerStepEnd DEF Next, Terminating
<1> QED
  BY <1>1, <1>2, StdoutAlways, InitType, NextType, PTL DEF Spec

(* A worker that ran to its end in time is reported as timed out only if   *)
(* its program left by a BaseException or an exception that cannot be      *)
(* formatted, or closed its StringIO (226-248, 303, 310-326).              *)
THEOREM FinishedRunKept == Spec => FinishedRunNotLost
<1>1. TypeInv /\ EndInv /\ HostAbandon =>
        (wpc[Cur] \in Over => fate[Cur] \in LosesResult \/ Buffer(Cur) \in closed)
  <2> SUFFICES ASSUME TypeInv, EndInv, HostAbandon, wpc[Cur] \in Over
               PROVE  fate[Cur] \in LosesResult \/ Buffer(Cur) \in closed
    OBVIOUS
  <2>1. hpc = "collect" /\ queue[Cur] = <<>> /\ \E t : Return(t)
    BY DEF HostAbandon, HostAt, QueueOf
  <2>2. Cur \in Inputs /\ Cur \notin DOMAIN traces
    BY <2>1, ReturnList
  <2> QED
    BY <2>1, <2>2 DEF EndInv, Buffer
<1>2. TypeInv /\ EndInv /\ [Next]_vars =>
        [HostAbandon => (wpc[Cur] \in {"exiting", "dead"} =>
           fate[Cur] \in LosesResult \/ Buffer(Cur) \in closed)]_vars
  BY <1>1 DEF Over
<1> QED
  BY <1>2, EndAlways, InitType, NextType, PTL DEF Spec, FinishedRunNotLost

(* The events of an accepted trace no longer change, although the list is  *)
(* the worker's own (241, 304-306, 315).                                   *)
THEOREM AcceptedFrozen == Spec => AcceptedTraceFrozen
<1>1. ASSUME TypeInv, EndInv, [Next]_vars, NEW k \in DOMAIN traces,
             traces[k].kind # "abandoned"
      PROVE  events'[k] = events[k]
  <2>1. /\ k \in Inputs /\ wpc[k] \in Over /\ ~tracing[k]
        /\ events \in [Inputs -> 0..MaxEvents]
    BY <1>1, TracesInputs DEF EndInv, TypeInv, TypeOK
  <2>2. CASE \E i \in Inputs : CallbackRecords(i)
    <3>1. PICK i \in Inputs : tracing[i] /\ events' = [events EXCEPT ![i] = @ + 1]
      BY <2>2 DEF CallbackRecords, Callback
    <3> QED
      BY <2>1, <3>1
  <2>3. CASE UNCHANGED events
    BY <2>3
  <2> QED
    BY <1>1, <2>2, <2>3 DEF Next, HostStep, WorkerStep, Terminating, HostStart,
       HostJoinReturns, HostJoinTimesOut, HostRestore, HostAccept, HostAbandon, WorkerEnter,
       WorkerSave, WorkerSwap, CallbackExpired, CallbackCapped, ProgramPrints,
       ProgramStartsThread, ProgramCloses, ProgramFreezes, WorkerCannotPublish,
       WorkerCallEnds, WorkerRestore, WorkerPublish, WorkerEnds, stateVars, vars
<1>2. TypeInv /\ EndInv /\ [Next]_vars =>
        [\A k \in DOMAIN traces :
           traces[k].kind # "abandoned" => events'[k] = events[k]]_vars
  BY <1>1
<1> QED
  BY <1>2, EndAlways, InitType, NextType, PTL DEF Spec, AcceptedTraceFrozen

-----------------------------------------------------------------------------
(* Who writes into which stream.  Nobody knows the stream of a worker      *)
(* before its swap; while its input is traced only its own program, the    *)
(* abandoned ones and those that started threads are left to print.        *)

Unseen == Unswapped \cup {"unborn"}

StreamInv ==
  /\ \A i \in Inputs : wpc[i] \in Unseen =>
       /\ captured[i] = {} /\ i \notin left /\ stdout # i /\ hostSaved # i
       /\ \A j \in Inputs : orig[j] # i
  /\ \A i \in Inputs : i = Cur => captured[i] \subseteq {i} \cup LeftBehind
  /\ \A i \in Inputs : i = Cur /\ queue[i] # <<>> =>
       Head(queue[i]).out \subseteq {i} \cup LeftBehind
  /\ OnlyLeftBehindIntrude

LEMMA ReturnStream ==
  ASSUME TypeInv, BirthInv, EndInv, StreamInv, hpc = "collect", NEW t, Return(t),
         t.out \subseteq {Cur} \cup LeftBehind,
         UNCHANGED <<hostSaved, stdout, captured, wpc, orig, left>>,
         \A i \in Inputs : queue'[i] # <<>> => queue'[i] = queue[i]
  PROVE  StreamInv'
<1> DEFINE c == Cur
<1>1. /\ c \in Inputs /\ c \notin DOMAIN traces /\ DOMAIN traces' = DOMAIN traces \cup {c}
      /\ traces'[c] = t /\ \A k \in DOMAIN traces : traces'[k] = traces[k]
      /\ DOMAIN traces = 1..Len(traces) /\ Len(traces) \in Nat
      /\ Cur' = c + 1 /\ c = Len(traces) + 1
  BY ReturnList DEF Cur
<1>2. LeftBehind \subseteq LeftBehind' /\ \A j \in LeftBehind : j = c \/ j < c
  <2>1. Abandoned \subseteq Abandoned' /\ \A j \in Abandoned : j < c
    BY <1>1 DEF Abandoned
  <2>2. ASSUME NEW j \in left PROVE j \in Nat /\ ~(j > c)
    <3>1. j \in Inputs /\ j \in Nat
      BY TracerAssumption DEF TypeInv, TypeOK, Inputs
    <3>2. wpc[j] # "unborn"
      BY <3>1 DEF StreamInv, Unseen
    <3> QED
      BY <3>1, <3>2 DEF BirthInv
  <2> QED
    BY <1>1, <2>1, <2>2 DEF LeftBehind
<1>3. \A k \in DOMAIN traces' : traces'[k].out \subseteq {k} \cup {j \in LeftBehind' : j < k}
  <2> SUFFICES ASSUME NEW k \in DOMAIN traces'
               PROVE  traces'[k].out \subseteq {k} \cup {j \in LeftBehind' : j < k}
    OBVIOUS
  <2>1. CASE k \in DOMAIN traces
    BY <1>1, <1>2, <2>1 DEF StreamInv, OnlyLeftBehindIntrude
  <2>2. CASE k = c
    BY <1>1, <1>2, <2>2
  <2> QED
    BY <1>1, <2>1, <2>2
<1>4. ASSUME NEW i \in Inputs, i = c + 1
      PROVE  wpc[i] = "unborn" /\ captured[i] = {} /\ queue[i] = <<>>
  <2>1. wpc[i] = "unborn"
    BY <1>1, <1>4, TracerAssumption DEF BirthInv, Inputs
  <2> QED
    BY <2>1 DEF StreamInv, EndInv, Over, Unseen
<1>5. \A i \in Inputs : i = Cur' => captured'[i] \subseteq {i} \cup LeftBehind'
  BY <1>1, <1>4
<1>6. \A i \in Inputs : i = Cur' /\ queue'[i] # <<>> =>
        Head(queue'[i]).out \subseteq {i} \cup LeftBehind'
  BY <1>1, <1>4
<1> QED
  BY <1>3, <1>5, <1>6 DEF StreamInv, OnlyLeftBehindIntrude

LEMMA HostStepStream ==
  ASSUME TypeInv, BirthInv, EndInv, StreamInv, HostStep
  PROVE  StreamInv'
<1> USE DEF sharedVars, stateVars, workerVars, programVars, HostAt, WorkerAt, Runs
<1>1. CASE HostStart
  <2>1. /\ Cur \in Inputs /\ wpc' = [wpc EXCEPT ![Cur] = "started"] /\ hostSaved' = stdout
        /\ UNCHANGED <<traces, stdout, captured, queue, orig, left>>
        /\ wpc \in [Inputs -> Alive \cup {"unborn", "dead"}]
    BY <1>1, TracerAssumption DEF HostStart, TypeInv, TypeOK, LoopInv, Cur, Inputs
  <2>2. wpc[Cur] = "unborn"
    BY <1>1, <2>1, TracerAssumption DEF HostStart, BirthInv, TypeInv, TypeOK, Cur, Inputs
  <2>3. \A i \in Inputs : wpc'[i] \in Unseen => wpc[i] \in Unseen
    BY <2>1, <2>2 DEF Unseen
  <2>4. LeftBehind' = LeftBehind /\ Cur' = Cur
    BY <2>1 DEF Abandoned, LeftBehind, Cur
  <2> QED
    BY <2>1, <2>3, <2>4 DEF StreamInv, OnlyLeftBehindIntrude
<1>2. CASE HostJoinReturns \/ HostJoinTimesOut
  BY <1>2 DEF HostJoinReturns, HostJoinTimesOut, StreamInv, OnlyLeftBehindIntrude, Abandoned,
               LeftBehind, Cur
<1>3. CASE HostRestore
  BY <1>3 DEF HostRestore, RestoredStream, StreamInv, OnlyLeftBehindIntrude,
               Abandoned, LeftBehind, Cur
<1>4. CASE HostAccept
  <2>1. /\ hpc = "collect" /\ queue[Cur] # <<>> /\ Return(Head(queue[Cur]))
        /\ queue' = [queue EXCEPT ![Cur] = Tail(@)]
        /\ UNCHANGED <<hostSaved, stdout, captured, wpc, orig, left>>
        /\ queue \in [Inputs -> Seq(Trace)] /\ \A i \in Inputs : Len(queue[i]) <= 1
    BY <1>4 DEF HostAccept, QueueOf, TypeInv, TypeOK
  <2>2. Cur \in Inputs
    BY <2>1, ReturnList
  <2>3. Tail(queue[Cur]) = <<>>
    BY <2>1, <2>2
  <2>4. \A i \in Inputs : queue'[i] # <<>> => queue'[i] = queue[i]
    BY <2>1, <2>2, <2>3
  <2>5. Head(queue[Cur]).out \subseteq {Cur} \cup LeftBehind
    BY <2>1, <2>2 DEF StreamInv
  <2> QED
    BY <2>1, <2>4, <2>5, ReturnStream
<1>5. CASE HostAbandon
  <2> DEFINE t == [by |-> Cur, kind |-> "abandoned", truncated |-> truncated[Cur],
                   out |-> {}]
  <2>1. /\ hpc = "collect" /\ Return(t)
        /\ UNCHANGED <<hostSaved, stdout, captured, wpc, orig, queue, left>>
    BY <1>5 DEF HostAbandon
  <2>2. t.out = {}
    OBVIOUS
  <2> HIDE DEF t
  <2> QED
    BY <2>1, <2>2, ReturnStream
<1> QED
  BY <1>1, <1>2, <1>3, <1>4, <1>5 DEF HostStep

(* Threads of programs are never removed.                                  *)
LEMMA WorkerStepLeft ==
  ASSUME NEW i \in Inputs, WorkerStep(i)
  PROVE  left \subseteq left'
BY DEF WorkerStep, WorkerEnter, WorkerSave, WorkerSwap, Callback, CallbackExpired,
   CallbackCapped, CallbackRecords, ProgramPrints, WorkerCallEnds,
   ProgramStartsThread, ProgramCloses, ProgramFreezes, WorkerCannotPublish,
   WorkerRestore, WorkerPublish, WorkerEnds, programVars

LEMMA WorkerStepStream ==
  ASSUME TypeInv, BirthInv, EndInv, StreamInv, NEW i \in Inputs, WorkerStep(i)
  PROVE  StreamInv'
<1> USE DEF hostVars, sharedVars, stateVars, workerVars, programVars, HostAt, WorkerAt, Runs
<1>0. /\ wpc \in [Inputs -> Alive \cup {"unborn", "dead"}]
      /\ captured \in [Inputs -> SUBSET Inputs] /\ Inputs \subseteq Streams
      /\ orig \in [Inputs -> Streams] /\ queue \in [Inputs -> Seq(Trace)]
      /\ UNCHANGED <<traces, hostSaved>>
  BY DEF TypeInv, TypeOK, Streams, WorkerStep, WorkerEnter, WorkerSave, WorkerSwap, Callback,
     CallbackExpired, CallbackCapped, CallbackRecords, ProgramPrints, WorkerCallEnds,
     ProgramStartsThread, ProgramCloses, ProgramFreezes, WorkerCannotPublish,
     WorkerRestore, WorkerPublish, WorkerEnds
<1>01. Abandoned' = Abandoned /\ Cur' = Cur
  BY <1>0 DEF Abandoned, Cur
<1>02. LeftBehind \subseteq LeftBehind'
  BY <1>01, WorkerStepLeft DEF LeftBehind
<1>03. OnlyLeftBehindIntrude'
  BY <1>0, <1>02 DEF StreamInv, OnlyLeftBehindIntrude
<1> USE <1>0, <1>01, <1>02, <1>03 DEF StreamInv, Unseen, Unswapped
<1>1. CASE WorkerEnter(i)
  BY <1>1 DEF WorkerEnter
<1>2. CASE WorkerSave(i)
  BY <1>2 DEF WorkerSave
<1>3. CASE WorkerSwap(i)
  BY <1>3 DEF WorkerSwap, Buffer
<1>4. CASE CallbackExpired(i) \/ CallbackCapped(i) \/ CallbackRecords(i)
  BY <1>4 DEF CallbackExpired, CallbackCapped, CallbackRecords, Callback
<1>5. CASE ProgramPrints(i)
  <2>1. /\ wpc[i] = "run" \/ i \in left
        /\ captured' = [captured EXCEPT ![stdout] = @ \cup {i}]
        /\ UNCHANGED <<stdout, wpc, orig, queue, left>>
    BY <1>5 DEF ProgramPrints
  <2>2. \A s \in Inputs : captured'[s] = IF s = stdout THEN captured[s] \cup {i} ELSE captured[s]
    BY <2>1
  <2>3. ASSUME Cur \in Inputs, i # Cur PROVE i \in LeftBehind
    <3>1. CASE i \in left
      BY <3>1 DEF LeftBehind
    <3>2. CASE wpc[i] = "run"
      <4>1. ~(i > Cur)
        BY <3>2 DEF BirthInv
      <4>2. i \in Nat /\ Cur \in Nat
        BY TracerAssumption, LenProperties DEF TypeInv, TypeOK, Cur, Inputs
      <4>3. i \in DOMAIN traces
        BY <2>3, <4>1, <4>2, LenProperties DEF TypeInv, TypeOK, Cur, Inputs
      <4>4. wpc[i] \notin Over
        BY <3>2 DEF Over
      <4> QED
        BY <4>3, <4>4 DEF EndInv, Abandoned, LeftBehind
    <3> QED
      BY <2>1, <3>1, <3>2
  <2> QED
    BY <2>1, <2>2, <2>3
<1>6. CASE WorkerCallEnds(i)
  BY <1>6 DEF WorkerCallEnds
<1>7. CASE WorkerRestore(i)
  BY <1>7 DEF WorkerRestore
<1>8. CASE WorkerPublish(i)
  <2> DEFINE t == [by |-> i, kind |-> fate[i], truncated |-> truncated[i],
                   out |-> captured[i]]
  <2>1. /\ wpc' = [wpc EXCEPT ![i] = "exiting"]
        /\ UNCHANGED <<stdout, captured, orig, left>>
        /\ queue' = IF queue[i] = <<>> THEN [queue EXCEPT ![i] = <<t>>] ELSE queue
    BY <1>8 DEF WorkerPublish, QueueOf, Buffer
  <2>2. t.out = captured[i] /\ Head(<<t>>) = t
    OBVIOUS
  <2> HIDE DEF t
  <2>3. i = Cur => captured[i] \subseteq {i} \cup LeftBehind
    OBVIOUS
  <2>4. \A j \in Inputs : j = Cur /\ queue'[j] # <<>> =>
          Head(queue'[j]).out \subseteq {j} \cup LeftBehind
    BY <2>1, <2>2, <2>3
  <2> QED
    BY <2>1, <2>4
<1>9. CASE WorkerEnds(i) \/ WorkerCannotPublish(i)
  BY <1>9 DEF WorkerEnds, WorkerCannotPublish
<1>10. CASE ProgramStartsThread(i) \/ ProgramCloses(i) \/ ProgramFreezes(i)
  BY <1>10 DEF ProgramStartsThread, ProgramCloses, ProgramFreezes
<1> QED
  BY <1>1, <1>2, <1>3, <1>4, <1>5, <1>6, <1>7, <1>8, <1>9, <1>10 DEF WorkerStep

(* In the output of a trace are only its own program and earlier ones that *)
(* were abandoned or started threads (292-301, 318).                       *)
THEOREM OnlyLeftBehindWrite == Spec => []OnlyLeftBehindIntrude
<1>1. Init => StreamInv
  BY TracerAssumption DEF Init, StreamInv, Streams, HostStream, Inputs, Cur, Abandoned, LeftBehind,
     OnlyLeftBehindIntrude
<1>2. TypeInv /\ BirthInv /\ EndInv /\ StreamInv /\ [Next]_vars => StreamInv'
  <2> SUFFICES ASSUME TypeInv, BirthInv, EndInv, StreamInv, [Next]_vars PROVE StreamInv'
    OBVIOUS
  <2>1. CASE UNCHANGED vars
    BY <2>1 DEF vars, hostVars, sharedVars, stateVars, workerVars, programVars, StreamInv, Cur,
       Abandoned, LeftBehind, OnlyLeftBehindIntrude
  <2> QED
    BY <2>1, HostStepStream, WorkerStepStream DEF Next, Terminating
<1>3. StreamInv => OnlyLeftBehindIntrude
  BY DEF StreamInv
<1> QED
  BY <1>1, <1>2, <1>3, EndAlways, StdoutAlways, InitType, NextType, PTL DEF Spec
=============================================================================
