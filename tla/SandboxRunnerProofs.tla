------------------------ MODULE SandboxRunnerProofs ------------------------
(***************************************************************************)
(* Machine-checked proofs about SandboxRunner, for every number of inputs, *)
(* of runs, and timeout allowance.                                         *)
(***************************************************************************)
EXTENDS SandboxRunner, FiniteSetTheorems, SequenceTheorems, TLAPS

(* The call of trace in progress: while it goes on an input is left and    *)
(* the allowance is not used up; it ends with every input traced, or with  *)
(* the timeout that uses up the allowance.                                 *)
CallInv ==
  /\ kinds \in Seq(Call!Kinds)
  /\ done \in BOOLEAN
  /\ IsFiniteSet(Call!Timeouts(kinds))
  /\ TimeoutsIn(kinds) \in Nat /\ TimeoutsIn(kinds) <= Allowance
  /\ ~done => Len(kinds) < NInputs /\ TimeoutsIn(kinds) < Allowance
  /\ done => FullRun(kinds) \/ (Len(kinds) < NInputs /\ TimeoutsIn(kinds) = Allowance)

AllFull == \A r \in DOMAIN runs : FullRun(runs[r])

Justified ==
  /\ runs # <<>>
  /\ TimeoutsIn(runs[Len(runs)]) = Allowance /\ ~FullRun(runs[Len(runs)])
  /\ \A r \in 1..(Len(runs) - 1) : FullRun(runs[r])

(* What the error says about the runs when the loop is over.               *)
Verdict ==
  /\ error = "UNSAFE_CONCURRENT_PROGRAM" => runs = <<>>
  /\ error = "NONTERMINATING" => Justified
  /\ error = "PROGRAM_BUDGET_EXCEEDED" => AllFull /\ Len(runs) \in 1..(NRuns - 1)

RunsInv ==
  /\ pc \in {"check", "run", "judge", "recorded", "raised"}
  /\ error \in Errors
  /\ runs \in Seq(Seq(Call!Kinds))
  /\ pc \in {"check", "run"} => AllFull /\ Len(runs) < NRuns /\ error = "none"
  /\ pc # "recorded" => record = NoRecord
  /\ pc = "check" => runs = <<>>
  /\ pc = "run" => CallInv
  /\ pc = "judge" /\ error = "none" => AllFull /\ Len(runs) = NRuns
  /\ Verdict

RecordInv ==
  pc = "recorded" =>
    \/ ~record.ok /\ ~record.budgetExceeded
    \/ /\ record.ok
       /\ error \in {"none", "PROGRAM_BUDGET_EXCEEDED"}
       /\ record.budgetExceeded = (error = "PROGRAM_BUDGET_EXCEEDED")
       /\ runs # <<>> /\ AllFull
       /\ error = "none" => Len(runs) = NRuns

Inv == RunsInv /\ RecordInv

-----------------------------------------------------------------------------
(* The timeouts of a run that has grown by one trace.                      *)
LEMMA TimeoutsAppend ==
  ASSUME NEW ks \in Seq(Call!Kinds), NEW k \in Call!Kinds,
         IsFiniteSet(Call!Timeouts(ks)), TimeoutsIn(ks) \in Nat
  PROVE  /\ IsFiniteSet(Call!Timeouts(Append(ks, k)))
         /\ TimeoutsIn(Append(ks, k)) =
              IF k \in Call!TimeoutKinds THEN TimeoutsIn(ks) + 1 ELSE TimeoutsIn(ks)
<1> DEFINE new == Append(ks, k)
<1>1. /\ new \in Seq(Call!Kinds) /\ DOMAIN new = 1..(Len(ks) + 1)
      /\ DOMAIN ks = 1..Len(ks) /\ Len(ks) \in Nat
      /\ new[Len(ks) + 1] = k /\ \A n \in 1..Len(ks) : new[n] = ks[n]
  BY AppendProperties, LenProperties
<1>2. Len(ks) + 1 \notin Call!Timeouts(ks)
  BY <1>1 DEF Call!Timeouts
<1>3. CASE k \in Call!TimeoutKinds
  <2>1. Call!Timeouts(new) = Call!Timeouts(ks) \cup {Len(ks) + 1}
    BY <1>1, <1>3 DEF Call!Timeouts
  <2> QED
    BY <1>2, <1>3, <2>1, FS_AddElement DEF TimeoutsIn
<1>4. CASE k \notin Call!TimeoutKinds
  <2>1. Call!Timeouts(new) = Call!Timeouts(ks)
    BY <1>1, <1>4 DEF Call!Timeouts
  <2> QED
    BY <1>4, <2>1 DEF TimeoutsIn
<1> QED
  BY <1>3, <1>4

LEMMA AllowanceFacts == Allowance \in Nat \ {0} /\ Allowance >= MaxTimeouts
                        /\ \A n \in Nat \ {0} : n >= MaxTimeouts <=> n >= Allowance
BY RunnerAssumption DEF Allowance

(* A run that has just begun: nothing traced, or nothing to trace.         *)
LEMMA BeginCall ==
  ASSUME kinds' = <<>>, done' = (NInputs = 0)
  PROVE  CallInv' /\ TimeoutsIn(<<>>) = 0
<1>1. Call!Timeouts(<<>>) = {}
  BY DEF Call!Timeouts
<1>2. TimeoutsIn(<<>>) = 0 /\ IsFiniteSet(Call!Timeouts(<<>>))
  BY <1>1, FS_EmptySet DEF TimeoutsIn
<1>3. TimeoutsIn(kinds)' = 0 /\ IsFiniteSet(Call!Timeouts(kinds))'
  BY <1>2 DEF TimeoutsIn, Call!Timeouts
<1>4. kinds' \in Seq(Call!Kinds) /\ Len(kinds') = 0
  OBVIOUS
<1>5. Allowance' = Allowance /\ FullRun(kinds)' = (Len(kinds') = NInputs)
  BY DEF Allowance, FullRun
<1>6. /\ TimeoutsIn(kinds)' \in Nat /\ TimeoutsIn(kinds)' <= Allowance
      /\ TimeoutsIn(kinds)' < Allowance
  BY <1>3, AllowanceFacts
<1>7. done' \in BOOLEAN /\ (done' <=> Len(kinds') = NInputs)
  BY <1>4
<1>8. ~done' => Len(kinds') < NInputs
  BY <1>4, <1>7, RunnerAssumption
<1> QED
  BY <1>2, <1>3, <1>4, <1>5, <1>6, <1>7, <1>8 DEF CallInv

(* One more trace keeps the facts about the call.                          *)
LEMMA RecordCall ==
  ASSUME CallInv, NEW k \in Call!Kinds, Call!Record(k)
  PROVE  CallInv'
<1>1. ~done /\ kinds' = Append(kinds, k) /\ done' = Call!Finished(kinds')
  BY DEF Call!Record
<1>2. /\ kinds' \in Seq(Call!Kinds) /\ Len(kinds') = Len(kinds) + 1 /\ Len(kinds) \in Nat
      /\ kinds' # <<>> /\ kinds'[Len(kinds')] = k
  BY <1>1, AppendProperties, LenProperties DEF CallInv
<1>3. /\ IsFiniteSet(Call!Timeouts(kinds'))
      /\ TimeoutsIn(kinds') = IF k \in Call!TimeoutKinds THEN TimeoutsIn(kinds) + 1
                              ELSE TimeoutsIn(kinds)
  BY <1>1, TimeoutsAppend DEF CallInv
<1>4. /\ TimeoutsIn(kinds) \in Nat /\ TimeoutsIn(kinds) < Allowance /\ Len(kinds) < NInputs
  BY <1>1 DEF CallInv
<1>5. done' <=> (\/ Len(kinds') = NInputs
                \/ (k \in Call!TimeoutKinds /\ TimeoutsIn(kinds') >= MaxTimeouts))
  <2>1. Call!Exhausted(kinds') <=>
          k \in Call!TimeoutKinds /\ TimeoutsIn(kinds') >= MaxTimeouts
    BY <1>2, Zenon DEF Call!Exhausted, Call!Cardinality, Cardinality, TimeoutsIn
  <2> QED
    BY <1>1, <2>1 DEF Call!Finished
<1>6. k \in Call!TimeoutKinds => (TimeoutsIn(kinds') >= MaxTimeouts <=> TimeoutsIn(kinds') = Allowance)
  BY <1>3, <1>4, AllowanceFacts
<1>7. done' \in BOOLEAN
  BY <1>1 DEF Call!Finished, Call!Exhausted
<1>8. TimeoutsIn(kinds') \in Nat /\ TimeoutsIn(kinds') <= Allowance
  BY <1>3, <1>4, AllowanceFacts
<1>9. ~done' => Len(kinds') < NInputs /\ TimeoutsIn(kinds') < Allowance
  BY <1>2, <1>3, <1>4, <1>5, <1>6, AllowanceFacts, RunnerAssumption
<1>10. done' => (\/ Len(kinds') = NInputs
                 \/ (Len(kinds') < NInputs /\ TimeoutsIn(kinds') = Allowance))
  BY <1>2, <1>4, <1>5, <1>6, RunnerAssumption
<1> QED
  BY <1>2, <1>3, <1>7, <1>8, <1>9, <1>10 DEF CallInv, FullRun, TimeoutsIn, Call!Timeouts, Allowance

-----------------------------------------------------------------------------
(* The steps.                                                              *)

LEMMA BeginStep ==
  ASSUME Inv, FirstRun
  PROVE  Inv'
<1>1. /\ pc = "check" /\ pc' = "run" /\ UNCHANGED <<runs, error, record>>
      /\ kinds' = <<>> /\ done' = (NInputs = 0)
  BY DEF FirstRun, BeginRun
<1>2. CallInv'
  BY <1>1, BeginCall
<1> QED
  BY <1>1, <1>2 DEF Inv, RunsInv, RecordInv, Verdict, AllFull, Justified, FullRun,
     TimeoutsIn, Call!Timeouts, Allowance

LEMMA RefuseStep ==
  ASSUME Inv, RefuseUnsafe
  PROVE  Inv'
<1>1. /\ pc = "check" /\ pc' = "judge" /\ UNCHANGED <<runs, record>>
      /\ error' = "UNSAFE_CONCURRENT_PROGRAM"
  BY DEF RefuseUnsafe
<1> QED
  BY <1>1 DEF Inv, RunsInv, RecordInv, Verdict, Errors

LEMMA TraceStep ==
  ASSUME Inv, TraceInput
  PROVE  Inv'
<1>1. /\ pc = "run" /\ UNCHANGED <<pc, runs, error, record>>
  BY DEF TraceInput
<1>2. PICK k \in Call!Kinds : Call!Record(k)
  BY DEF TraceInput
<1>3. CallInv'
  BY <1>1, <1>2, RecordCall DEF Inv, RunsInv
<1> QED
  BY <1>1, <1>3 DEF Inv, RunsInv, RecordInv, Verdict, AllFull, Justified, FullRun,
     TimeoutsIn, Call!Timeouts, Allowance

LEMMA RaiseStep ==
  ASSUME Inv, TraceRaises
  PROVE  Inv'
<1>1. /\ pc = "run" /\ pc' = "recorded" /\ UNCHANGED <<runs, error>>
      /\ record' = [ok |-> FALSE, failure |-> "trace_error", budgetExceeded |-> FALSE]
  BY DEF TraceRaises, Failed
<1> QED
  BY <1>1 DEF Inv, RunsInv, RecordInv, Verdict

(* A run that has returned is kept; it is full unless it came back short.  *)
LEMMA Returned ==
  ASSUME Inv, RunReturned
  PROVE  /\ runs' \in Seq(Seq(Call!Kinds)) /\ Len(runs') = Len(runs) + 1
         /\ Len(runs) \in Nat /\ Len(runs') <= NRuns
         /\ runs'[Len(runs')] = kinds /\ runs' # <<>>
         /\ \A r \in 1..(Len(runs') - 1) : FullRun(runs'[r])
         /\ Short(kinds) => TimeoutsIn(kinds) = Allowance /\ ~FullRun(kinds)
         /\ ~Short(kinds) => \A r \in DOMAIN runs' : FullRun(runs'[r])
         /\ error = "none" /\ record = NoRecord /\ UNCHANGED record
<1>1. /\ pc = "run" /\ done /\ runs' = Append(runs, kinds)
      /\ CallInv /\ AllFull /\ Len(runs) < NRuns
      /\ error = "none" /\ record = NoRecord /\ UNCHANGED record
      /\ runs \in Seq(Seq(Call!Kinds)) /\ kinds \in Seq(Call!Kinds)
  BY DEF RunReturned, Inv, RunsInv, CallInv
<1>2. /\ runs' \in Seq(Seq(Call!Kinds)) /\ Len(runs') = Len(runs) + 1
      /\ Len(runs) \in Nat /\ DOMAIN runs = 1..Len(runs)
      /\ DOMAIN runs' = 1..(Len(runs) + 1) /\ runs' # <<>>
      /\ runs'[Len(runs) + 1] = kinds
      /\ \A r \in 1..Len(runs) : runs'[r] = runs[r]
  BY <1>1, AppendProperties, LenProperties
<1>3. \A r \in 1..Len(runs) : FullRun(runs'[r])
  BY <1>1, <1>2 DEF AllFull
<1>4. Len(kinds) \in Nat /\ Len(kinds) <= NInputs
  BY <1>1, LenProperties, RunnerAssumption DEF CallInv, FullRun
<1>5. /\ Short(kinds) => TimeoutsIn(kinds) = Allowance /\ ~FullRun(kinds)
      /\ ~Short(kinds) => FullRun(kinds)
  BY <1>1, <1>4, RunnerAssumption DEF CallInv, Short, FullRun
<1> QED
  BY <1>1, <1>2, <1>3, <1>5, RunnerAssumption

LEMMA NonterminatingStep ==
  ASSUME Inv, StopNonterminating
  PROVE  Inv'
<1>1. /\ RunReturned /\ Short(kinds) /\ error' = "NONTERMINATING" /\ pc' = "judge"
  BY DEF StopNonterminating
<1>2. Justified'
  BY <1>1, Returned DEF Justified, FullRun, TimeoutsIn, Call!Timeouts, Allowance
<1> QED
  BY <1>1, <1>2, Returned DEF Inv, RunsInv, RecordInv, Verdict, Errors, NoRecord

LEMMA OverBudgetStep ==
  ASSUME Inv, StopOverBudget
  PROVE  Inv'
<1>1. /\ RunReturned /\ ~Short(kinds) /\ error' = "PROGRAM_BUDGET_EXCEEDED"
      /\ pc' = "judge" /\ Len(runs') < NRuns
  BY DEF StopOverBudget, CutOff
<1>2. AllFull'
  BY <1>1, Returned DEF AllFull, FullRun
<1>3. Len(runs') \in 1..(NRuns - 1)
  BY <1>1, Returned, RunnerAssumption
<1> QED
  BY <1>1, <1>2, <1>3, Returned DEF Inv, RunsInv, RecordInv, Verdict, Errors, NoRecord

LEMMA LastRunStep ==
  ASSUME Inv, StopAfterLastRun
  PROVE  Inv'
<1>1. /\ RunReturned /\ ~Short(kinds) /\ UNCHANGED error
      /\ pc' = "judge" /\ Len(runs') = NRuns
  BY DEF StopAfterLastRun, LastRun
<1>2. AllFull'
  BY <1>1, Returned DEF AllFull, FullRun
<1> QED
  BY <1>1, <1>2, Returned DEF Inv, RunsInv, RecordInv, Verdict, Errors, NoRecord

LEMMA NextRunStep ==
  ASSUME Inv, NextRun
  PROVE  Inv'
<1>1. /\ RunReturned /\ ~Short(kinds) /\ UNCHANGED error
      /\ pc' = "run" /\ Len(runs') # NRuns
      /\ kinds' = <<>> /\ done' = (NInputs = 0)
  BY DEF NextRun, LastRun, BeginRun
<1>2. AllFull'
  BY <1>1, Returned DEF AllFull, FullRun
<1>3. Len(runs') < NRuns
  BY <1>1, Returned, RunnerAssumption
<1>4. CallInv'
  BY <1>1, BeginCall
<1> QED
  BY <1>1, <1>2, <1>3, <1>4, Returned DEF Inv, RunsInv, RecordInv, Verdict, Errors, NoRecord

LEMMA JudgeStep ==
  ASSUME Inv, Judge
  PROVE  Inv'
<1>1. /\ pc = "judge" /\ pc' = "recorded" /\ UNCHANGED <<runs, error>>
      /\ record' = RecordOf(error, runs)
  BY DEF Judge
<1>2. RunsInv'
  BY <1>1 DEF Inv, RunsInv, Verdict, Justified, AllFull, FullRun, TimeoutsIn,
     Call!Timeouts, Allowance
<1>3. CASE error = "NONTERMINATING" \/ (\A r \in DOMAIN runs : runs[r] = <<>>)
  <2>1. \E f \in Failures : record' = Failed(f)
    BY <1>1, <1>3 DEF RecordOf, Failures
  <2> QED
    BY <1>2, <2>1 DEF Inv, RecordInv, Failed
<1>4. CASE error # "NONTERMINATING" /\ ~(\A r \in DOMAIN runs : runs[r] = <<>>)
  <2>1. record' = Ok(error = "PROGRAM_BUDGET_EXCEEDED")
    BY <1>1, <1>4 DEF RecordOf
  <2>2. runs # <<>> /\ error \in {"none", "PROGRAM_BUDGET_EXCEEDED"}
    BY <1>4 DEF Inv, RunsInv, Verdict, Errors
  <2>3. AllFull /\ (error = "none" => Len(runs) = NRuns)
    BY <1>1, <2>2 DEF Inv, RunsInv, Verdict
  <2>4. AllFull'
    BY <1>1, <2>3 DEF AllFull, FullRun
  <2>5. /\ record'.ok
        /\ record'.budgetExceeded = (error = "PROGRAM_BUDGET_EXCEEDED")
    BY <2>1 DEF Ok
  <2>6. RecordInv'
    BY <1>1, <2>2, <2>3, <2>4, <2>5 DEF RecordInv
  <2> QED
    BY <1>2, <2>6 DEF Inv
<1> QED
  BY <1>3, <1>4

LEMMA JudgeRaisesStep ==
  ASSUME Inv, JudgeRaises
  PROVE  Inv'
<1>1. pc = "judge" /\ pc' = "raised" /\ UNCHANGED <<runs, error, record>>
  BY DEF JudgeRaises
<1> QED
  BY <1>1 DEF Inv, RunsInv, RecordInv, Verdict, Justified, AllFull, FullRun,
     TimeoutsIn, Call!Timeouts, Allowance

LEMMA StutterStep ==
  ASSUME Inv, UNCHANGED vars
  PROVE  Inv'
BY DEF vars, callVars, Inv, RunsInv, RecordInv, Verdict, CallInv, Justified, AllFull,
       FullRun, TimeoutsIn, Call!Timeouts, Allowance

LEMMA InvStep == Inv /\ [Next]_vars => Inv'
BY BeginStep, RefuseStep, TraceStep, RaiseStep, NonterminatingStep, OverBudgetStep,
   LastRunStep, NextRunStep, JudgeStep, JudgeRaisesStep, StutterStep DEF Next, Terminating

LEMMA InitInv == Init => Inv
BY RunnerAssumption DEF Init, Inv, RunsInv, RecordInv, Verdict, AllFull, Errors

LEMMA InvAlways == Spec => []Inv
BY InitInv, InvStep, PTL DEF Spec

-----------------------------------------------------------------------------
(* Only full runs are ever featurised (runner.py 157-159, extraction.py    *)
(* 362-439), for every number of inputs, of runs, and allowance.           *)
THEOREM RunsComparable == Spec => []ComparableRuns
<1>1. Inv => ComparableRuns
  BY DEF Inv, RunsInv, RecordInv, ComparableRuns, NoRecord, Failed, AllFull
<1> QED
  BY <1>1, InvAlways, PTL

(* A program is called nonterminating only after a run that used up the    *)
(* allowance before its last input (157-159).                              *)
THEOREM NonterminatingEarned == Spec => []NonterminatingJustified
<1>1. Inv => NonterminatingJustified
  BY DEF Inv, RunsInv, Verdict, Justified, NonterminatingJustified
<1> QED
  BY <1>1, InvAlways, PTL

(* The wall-clock budget cuts a program only between runs, and the flag of *)
(* the record says which programs it cut (160-168, 435).                   *)
THEOREM BudgetBetweenRuns == Spec => []BudgetCutsBetweenRuns
<1>1. Inv => BudgetCutsBetweenRuns
  <2> SUFFICES ASSUME Inv PROVE BudgetCutsBetweenRuns
    OBVIOUS
  <2>1. CASE pc # "recorded"
    BY <2>1 DEF Inv, RunsInv, BudgetCutsBetweenRuns, NoRecord, Failed
  <2>2. CASE pc = "recorded" /\ ~record.ok /\ ~record.budgetExceeded
    BY <2>2 DEF BudgetCutsBetweenRuns
  <2>3. CASE /\ record.ok
             /\ error \in {"none", "PROGRAM_BUDGET_EXCEEDED"}
             /\ record.budgetExceeded = (error = "PROGRAM_BUDGET_EXCEEDED")
             /\ runs # <<>> /\ AllFull
             /\ error = "none" => Len(runs) = NRuns
    <3>1. error = "PROGRAM_BUDGET_EXCEEDED" => Len(runs) \in 1..(NRuns - 1)
      BY DEF Inv, RunsInv, Verdict
    <3>2. Len(runs) < NRuns => error = "PROGRAM_BUDGET_EXCEEDED"
      BY <2>3, RunnerAssumption
    <3> QED
      BY <2>3, <3>1, <3>2 DEF BudgetCutsBetweenRuns, AllFull
  <2> QED
    BY <2>1, <2>2, <2>3 DEF Inv, RecordInv
<1> QED
  BY <1>1, InvAlways, PTL

-----------------------------------------------------------------------------
(* Types, and what the runs leave behind.                                  *)

LEMMA RecordTypes ==
  /\ NoRecord \in Records
  /\ \A e \in Errors : \A rs : RecordOf(e, rs) \in Records
  /\ Failed("trace_error") \in Records
<1>1. \A cut \in BOOLEAN : Ok(cut) \in Records
  BY DEF Records
<1>2. \A f \in Failures : Failed(f) \in Records
  BY DEF Records
<1>3. ASSUME NEW e \in Errors, NEW rs
      PROVE  RecordOf(e, rs) \in Records
  <2>1. CASE e = "NONTERMINATING"
    BY <2>1, <1>2 DEF RecordOf, Failures
  <2>2. CASE e # "NONTERMINATING" /\ \A r \in DOMAIN rs : rs[r] = <<>>
    BY <2>2, <1>2 DEF RecordOf, Failures
  <2>3. CASE e # "NONTERMINATING" /\ ~(\A r \in DOMAIN rs : rs[r] = <<>>)
    <3>1. RecordOf(e, rs) = Ok(e = "PROGRAM_BUDGET_EXCEEDED")
      BY <2>3 DEF RecordOf
    <3> QED
      BY <3>1, <1>1
  <2> QED
    BY <2>1, <2>2, <2>3
<1> QED
  BY <1>2, <1>3 DEF Records, Failures

LEMMA TypeStep ==
  ASSUME Inv, TypeOK, [Next]_vars
  PROVE  TypeOK'
<1>1. CASE RefuseUnsafe
  BY <1>1 DEF RefuseUnsafe, callVars, TypeOK, Errors
<1>2. CASE FirstRun
  BY <1>2, RunnerAssumption DEF FirstRun, BeginRun, TypeOK
<1>3. CASE TraceInput
  <2>1. PICK k \in Call!Kinds : Call!Record(k)
    BY <1>3 DEF TraceInput
  <2>2. CallInv'
    BY <1>3, <2>1, RecordCall DEF TraceInput, Inv, RunsInv
  <2>3. Len(kinds') <= NInputs
    BY <2>2, LenProperties, RunnerAssumption DEF CallInv, FullRun
  <2>4. /\ UNCHANGED <<unsafe, pc, runs, error, record>> /\ overBudget' \in BOOLEAN
    BY <1>3 DEF TraceInput, TypeOK
  <2>5. kinds' \in Seq(Call!Kinds) /\ done' \in BOOLEAN
    BY <2>2 DEF CallInv
  <2> QED
    BY <2>3, <2>4, <2>5 DEF TypeOK
<1>4. CASE TraceRaises
  BY <1>4, RecordTypes DEF TraceRaises, callVars, TypeOK
<1>5. CASE RunReturned /\ (StopNonterminating \/ StopOverBudget \/ StopAfterLastRun \/ NextRun)
  <2>1. /\ runs' \in Seq(Seq(Call!Kinds)) /\ Len(runs') <= NRuns
        /\ UNCHANGED <<unsafe, overBudget, record>>
    BY <1>5, Returned DEF RunReturned
  <2>2. pc' \in {"check", "run", "judge", "recorded", "raised"} /\ error' \in Errors
    BY <1>5 DEF StopNonterminating, StopOverBudget, StopAfterLastRun, NextRun, BeginRun,
       TypeOK, Errors
  <2>3. kinds' \in Seq(Call!Kinds) /\ Len(kinds') <= NInputs /\ done' \in BOOLEAN
    <3>1. CASE UNCHANGED callVars
      BY <3>1 DEF callVars, TypeOK
    <3>2. CASE BeginRun
      <4>1. kinds' = <<>> /\ done' = (NInputs = 0)
        BY <3>2 DEF BeginRun
      <4>2. Len(<<>>) = 0 /\ <<>> \in Seq(Call!Kinds)
        OBVIOUS
      <4> QED
        BY <4>1, <4>2, RunnerAssumption
    <3> QED
      BY <1>5, <3>1, <3>2 DEF StopNonterminating, StopOverBudget, StopAfterLastRun, NextRun
  <2> QED
    BY <2>1, <2>2, <2>3 DEF TypeOK
<1>6. CASE Judge
  BY <1>6, RecordTypes DEF Judge, callVars, TypeOK
<1>7. CASE UNCHANGED vars \/ JudgeRaises
  BY <1>7 DEF vars, JudgeRaises, callVars, TypeOK
<1> QED
  BY <1>1, <1>2, <1>3, <1>4, <1>5, <1>6, <1>7 DEF Next, Terminating, StopNonterminating,
     StopOverBudget, StopAfterLastRun, NextRun

(* Types hold for every number of inputs, of runs, and allowance: no run   *)
(* is longer than the inputs, no more runs than n_runs are kept.           *)
THEOREM RunnerTypes == Spec => []TypeOK
<1>1. Init => TypeOK
  <2> SUFFICES ASSUME Init PROVE TypeOK
    OBVIOUS
  <2>1. /\ kinds = <<>> /\ runs = <<>> /\ done \in BOOLEAN /\ error \in Errors
        /\ pc = "check" /\ unsafe \in BOOLEAN /\ overBudget \in BOOLEAN
        /\ record \in Records
    BY RecordTypes DEF Init, Call!Init, Errors
  <2>2. /\ kinds \in Seq(Call!Kinds) /\ Len(kinds) = 0
        /\ runs \in Seq(Seq(Call!Kinds)) /\ Len(runs) = 0
    BY <2>1
  <2> QED
    BY <2>1, <2>2, RunnerAssumption DEF TypeOK
<1> QED
  BY <1>1, TypeStep, InvAlways, PTL DEF Spec

-----------------------------------------------------------------------------
(* The traces abandoned in the runs rs.                                    *)
Behind(rs) == {at \in (DOMAIN rs) \X (1..NInputs) :
                 at[2] \in DOMAIN rs[at[1]] /\ rs[at[1]][at[2]] = "abandoned"}

(* Every run kept has left behind at most the allowance.                   *)
LeakInv == /\ IsFiniteSet(Behind(runs))
           /\ Cardinality(Behind(runs)) <= Len(runs) * Allowance

(* A run that is added leaves behind at most its timeouts.                 *)
LEMMA OneMoreRun ==
  ASSUME NEW rs \in Seq(Seq(Call!Kinds)), NEW ks \in Seq(Call!Kinds),
         IsFiniteSet(Behind(rs)), IsFiniteSet(Call!Timeouts(ks))
  PROVE  /\ IsFiniteSet(Behind(Append(rs, ks)))
         /\ Cardinality(Behind(Append(rs, ks))) <= Cardinality(Behind(rs)) + TimeoutsIn(ks)
<1> DEFINE new == Append(rs, ks)
           T == Call!Timeouts(ks)
           added == {<<Len(rs) + 1, n>> : n \in T}
           f == [n \in T |-> <<Len(rs) + 1, n>>]
<1>1. /\ DOMAIN new = 1..(Len(rs) + 1) /\ DOMAIN rs = 1..Len(rs) /\ Len(rs) \in Nat
      /\ new[Len(rs) + 1] = ks /\ \A r \in 1..Len(rs) : new[r] = rs[r]
  BY AppendProperties, LenProperties
<1>2. Behind(new) \subseteq Behind(rs) \cup added
  <2> SUFFICES ASSUME NEW at \in Behind(new), at \notin Behind(rs)
               PROVE  at \in added
    OBVIOUS
  <2>1. /\ at \in (DOMAIN new) \X (1..NInputs) /\ at = <<at[1], at[2]>>
        /\ at[2] \in DOMAIN new[at[1]] /\ new[at[1]][at[2]] = "abandoned"
    BY DEF Behind
  <2>2. at[1] = Len(rs) + 1
    <3>1. CASE at[1] \in 1..Len(rs)
      BY <1>1, <2>1, <3>1 DEF Behind
    <3> QED
      BY <1>1, <2>1, <3>1
  <2>3. at[2] \in T
    BY <1>1, <2>1, <2>2 DEF Call!Timeouts, Call!TimeoutKinds
  <2> QED
    BY <2>1, <2>2, <2>3
<1>3. IsFiniteSet(added) /\ Cardinality(added) <= Cardinality(T)
  <2>1. f \in Surjection(T, added)
    BY DEF Surjection
  <2> QED
    BY <2>1, FS_Surjection
<1>4. /\ IsFiniteSet(Behind(rs) \cup added)
      /\ Cardinality(Behind(rs) \cup added) <= Cardinality(Behind(rs)) + Cardinality(added)
  <2>1. /\ IsFiniteSet(Behind(rs) \cup added)
        /\ Cardinality(Behind(rs) \cup added) = Cardinality(Behind(rs)) + Cardinality(added)
                                               - Cardinality(Behind(rs) \cap added)
    BY <1>3, FS_Union
  <2>2. IsFiniteSet(Behind(rs) \cap added)
    BY FS_Intersection
  <2>3. /\ Cardinality(Behind(rs) \cap added) \in Nat /\ Cardinality(Behind(rs)) \in Nat
        /\ Cardinality(added) \in Nat
    BY <2>2, <1>3, FS_CardinalityType
  <2> QED
    BY <2>1, <2>3
<1>5. /\ IsFiniteSet(Behind(new))
      /\ Cardinality(Behind(new)) <= Cardinality(Behind(rs) \cup added)
  BY <1>2, <1>4, FS_Subset
<1>6. /\ Cardinality(Behind(new)) \in Nat /\ Cardinality(Behind(rs) \cup added) \in Nat
      /\ Cardinality(Behind(rs)) \in Nat /\ Cardinality(added) \in Nat
      /\ Cardinality(T) \in Nat
  BY <1>3, <1>4, <1>5, FS_CardinalityType
<1> QED
  BY <1>3, <1>4, <1>5, <1>6 DEF TimeoutsIn

(* With the call in progress counted as a run, the bound grows by one      *)
(* allowance.                                                              *)
LEMMA OneMoreAllowance ==
  ASSUME TypeOK, LeakInv, CallInv
  PROVE  /\ IsFiniteSet(Behind(Append(runs, kinds)))
         /\ Cardinality(Behind(Append(runs, kinds))) <= (Len(runs) + 1) * Allowance
<1>1. runs \in Seq(Seq(Call!Kinds)) /\ Len(runs) \in Nat
  BY LenProperties DEF TypeOK
<1>2. /\ IsFiniteSet(Behind(Append(runs, kinds)))
      /\ Cardinality(Behind(Append(runs, kinds))) <= Cardinality(Behind(runs)) + TimeoutsIn(kinds)
  BY <1>1, OneMoreRun DEF CallInv, LeakInv
<1>3. /\ Cardinality(Behind(Append(runs, kinds))) \in Nat
      /\ Cardinality(Behind(runs)) \in Nat
  BY <1>2, FS_CardinalityType DEF LeakInv
<1>4. TimeoutsIn(kinds) \in Nat /\ TimeoutsIn(kinds) <= Allowance /\ Allowance \in Nat
  BY AllowanceFacts DEF CallInv
<1>5. (Len(runs) + 1) * Allowance = Len(runs) * Allowance + Allowance
  BY <1>1, <1>4
<1>6. Len(runs) * Allowance \in Nat
  BY <1>1, <1>4
<1> QED
  BY <1>2, <1>3, <1>4, <1>5, <1>6 DEF LeakInv

LEMMA LeakStep ==
  ASSUME Inv, TypeOK, LeakInv, [Next]_vars
  PROVE  LeakInv'
<1>1. CASE runs' = runs
  BY <1>1 DEF LeakInv, Behind, Allowance
<1>2. CASE RunReturned
  <2>1. runs' = Append(runs, kinds) /\ CallInv
    BY <1>2 DEF RunReturned, Inv, RunsInv
  <2>2. Len(runs') = Len(runs) + 1
    BY <1>2, Returned
  <2> QED
    BY <2>1, <2>2, OneMoreAllowance DEF LeakInv, Behind, Allowance
<1> QED
  BY <1>1, <1>2 DEF Next, Terminating, RefuseUnsafe, FirstRun, TraceInput, TraceRaises,
     StopNonterminating, StopOverBudget, StopAfterLastRun, NextRun, Judge, JudgeRaises, vars

(* All the runs of one program together abandon at most n_runs times the   *)
(* allowance of workers (runner.py 152-159, tracer.py 165-169).     *)
THEOREM ProgramLeakBounded == Spec => []ProgramLeakBound
<1>1. Init => LeakInv
  <2> SUFFICES ASSUME Init PROVE LeakInv
    OBVIOUS
  <2>1. runs = <<>>
    BY DEF Init
  <2>2. Behind(runs) = {} /\ Len(runs) = 0
    BY <2>1 DEF Behind
  <2> QED
    BY <2>2, FS_EmptySet, AllowanceFacts DEF LeakInv
<1>2. Inv /\ TypeOK /\ LeakInv => ProgramLeakBound
  <2> SUFFICES ASSUME Inv, TypeOK, LeakInv PROVE ProgramLeakBound
    OBVIOUS
  <2>1. LeftBehind = Behind(AllRuns)
    BY DEF LeftBehind, Behind
  <2>2. Len(runs) \in Nat /\ Len(runs) <= NRuns /\ NRuns \in Nat /\ Allowance \in Nat
    BY LenProperties, RunnerAssumption, AllowanceFacts DEF TypeOK
  <2>3. \A n \in Nat : n <= NRuns => n * Allowance <= NRuns * Allowance
    BY <2>2
  <2>4. CASE pc = "run"
    <3>1. CallInv /\ Len(runs) + 1 <= NRuns
      BY <2>2, <2>4 DEF Inv, RunsInv
    <3>2. /\ IsFiniteSet(Behind(AllRuns))
          /\ Cardinality(Behind(AllRuns)) <= (Len(runs) + 1) * Allowance
      BY <2>4, <3>1, OneMoreAllowance DEF AllRuns
    <3>3. (Len(runs) + 1) * Allowance <= NRuns * Allowance
      BY <2>2, <2>3, <3>1
    <3>4. /\ Cardinality(Behind(AllRuns)) \in Nat
          /\ (Len(runs) + 1) * Allowance \in Nat /\ NRuns * Allowance \in Nat
      BY <2>2, <3>2, FS_CardinalityType
    <3> QED
      BY <2>1, <3>2, <3>3, <3>4 DEF ProgramLeakBound
  <2>5. CASE pc # "run"
    <3>1. AllRuns = runs
      BY <2>5 DEF AllRuns
    <3>2. Len(runs) * Allowance <= NRuns * Allowance
      BY <2>2, <2>3
    <3>3. /\ Cardinality(Behind(runs)) \in Nat
          /\ Len(runs) * Allowance \in Nat /\ NRuns * Allowance \in Nat
      BY <2>2, FS_CardinalityType DEF LeakInv
    <3> QED
      BY <2>1, <3>1, <3>2, <3>3 DEF ProgramLeakBound, LeakInv
  <2> QED
    BY <2>4, <2>5
<1> QED
  BY <1>1, <1>2, LeakStep, RunnerTypes, InvAlways, PTL DEF Spec
=============================================================================
