--------------------------- MODULE SandboxRunner ---------------------------
(***************************************************************************)
(* sbg/v2/execution/runner.py and the half of experiments/final/           *)
(* extraction.py that judges its result: SandboxRunner.run traces one      *)
(* program over all its inputs up to n_runs times, stopping early when a   *)
(* run comes back short or the program's wall-clock budget is used up, and *)
(* _trace_and_record turns what it returns into the program's record.      *)
(*                                                                         *)
(* Each call of trace is an instance of TraceContract, which Tracer        *)
(* implements.  Time is abstract: the budget may be found used up at any   *)
(* trace.                                                                  *)
(***************************************************************************)
EXTENDS Naturals, Sequences, FiniteSets

CONSTANTS
  NInputs,      \* number of inputs of the program
  MaxTimeouts,  \* max_timeouts; Python's None is any value above NInputs
  NRuns         \* max(1, n_runs)

ASSUME RunnerAssumption ==
  /\ NInputs \in Nat
  /\ MaxTimeouts \in Nat
  /\ NRuns \in Nat \ {0}

VARIABLES
  unsafe,       \* the program is one of _UNSAFE_PROGRAMS
  pc,           \* where run and its caller are
  kinds, done,  \* the call of trace in progress, see TraceContract
  runs,         \* all_runs: the kinds of the traces of every finished run
  overBudget,   \* program_budget_s has passed since start_wall
  error,        \* SandboxResult.error
  record        \* the ProgramRecord, as far as its callers branch on it

callVars == <<kinds, done>>
vars == <<unsafe, pc, callVars, runs, overBudget, error, record>>

Call == INSTANCE TraceContract

Errors == {"none", "UNSAFE_CONCURRENT_PROGRAM", "NONTERMINATING",
           "PROGRAM_BUDGET_EXCEEDED"}
Failures == {"trace_error", "nonterminating", "empty_trace"}

Ok(cut) == [ok |-> TRUE, failure |-> "none", budgetExceeded |-> cut]
Failed(f) == [ok |-> FALSE, failure |-> f, budgetExceeded |-> FALSE]
NoRecord == Failed("none")
Records == {NoRecord} \cup {Ok(cut) : cut \in BOOLEAN} \cup {Failed(f) : f \in Failures}

-----------------------------------------------------------------------------
(* Conditions of the loop.  A definition named ...Slip is a plausible      *)
(* programming error in the definition that follows it; no action uses it. *)

ShortSlip(run) == Len(run) <= NInputs
ShortEmptySlip(run) == run = <<>>       \* `not run_traces`
Short(run) == Len(run) < NInputs        \* 157; implies max_timeouts is not None

LastRunSlip(n) == n > NRuns
LastRun(n) == n = NRuns                 \* 152, n runs have been made

CutOffSlip(n) == overBudget             \* without line 166
CutOff(n) == overBudget /\ n < NRuns    \* 164-166

RecordOf(e, rs) ==                      \* extraction.py 362-439
  CASE e = "NONTERMINATING"              -> Failed("nonterminating")
    [] e # "NONTERMINATING" /\ (\A r \in DOMAIN rs : rs[r] = <<>>)
                                         -> Failed("empty_trace")
    [] OTHER                             -> Ok(e = "PROGRAM_BUDGET_EXCEEDED")

-----------------------------------------------------------------------------
Init ==
  /\ unsafe \in BOOLEAN
  /\ pc = "check"
  /\ Call!Init
  /\ runs = <<>>
  /\ overBudget = FALSE
  /\ error = "none"
  /\ record = NoRecord

BeginRun ==
  /\ kinds' = <<>>
  /\ done' = (NInputs = 0)
  /\ pc' = "run"

RefuseUnsafe ==                         \* 137-145
  /\ pc = "check"
  /\ unsafe
  /\ error' = "UNSAFE_CONCURRENT_PROGRAM"
  /\ pc' = "judge"
  /\ UNCHANGED <<unsafe, callVars, runs, overBudget, record>>

FirstRun ==                             \* 147-152
  /\ pc = "check"
  /\ ~unsafe
  /\ BeginRun
  /\ UNCHANGED <<unsafe, runs, overBudget, error, record>>

(* One more input has been traced; meanwhile the budget may have passed.   *)
TraceInput ==                           \* 153-155
  /\ pc = "run"
  /\ \E k \in Call!Kinds : Call!Record(k)
  /\ overBudget' \in {overBudget, TRUE}
  /\ UNCHANGED <<unsafe, pc, runs, error, record>>

(* The tracer itself raises, for example because no thread can be started. *)
TraceRaises ==                          \* extraction.py 353-360
  /\ pc = "run"
  /\ ~done
  /\ record' = Failed("trace_error")
  /\ pc' = "recorded"
  /\ UNCHANGED <<unsafe, callVars, runs, overBudget, error>>

(* A call of trace has returned: its traces are kept, and run decides how  *)
(* to go on (152-168).                                                     *)
RunReturned ==
  /\ pc = "run"
  /\ done
  /\ runs' = Append(runs, kinds)
  /\ UNCHANGED <<unsafe, overBudget, record>>

StopNonterminating ==                   \* 157-159
  /\ RunReturned
  /\ Short(kinds)
  /\ error' = "NONTERMINATING"
  /\ pc' = "judge"
  /\ UNCHANGED callVars

StopOverBudget ==                       \* 164-168
  /\ RunReturned
  /\ ~Short(kinds)
  /\ CutOff(Len(runs'))
  /\ error' = "PROGRAM_BUDGET_EXCEEDED"
  /\ pc' = "judge"
  /\ UNCHANGED callVars

StopAfterLastRun ==                     \* 152
  /\ RunReturned
  /\ ~Short(kinds)
  /\ ~CutOff(Len(runs'))
  /\ LastRun(Len(runs'))
  /\ pc' = "judge"
  /\ UNCHANGED <<callVars, error>>

NextRun ==                              \* 152
  /\ RunReturned
  /\ ~Short(kinds)
  /\ ~CutOff(Len(runs'))
  /\ ~LastRun(Len(runs'))
  /\ BeginRun
  /\ UNCHANGED error

Judge ==                                \* extraction.py 362-439
  /\ pc = "judge"
  /\ record' = RecordOf(error, runs)
  /\ pc' = "recorded"
  /\ UNCHANGED <<unsafe, callVars, runs, overBudget, error>>

(* Extracting the genome raises, uncaught: a trace of an abandoned worker  *)
(* still grows while it is read.  The caller gets the exception.           *)
JudgeRaises ==                          \* extraction.py 381
  /\ pc = "judge"
  /\ RecordOf(error, runs).ok
  /\ pc' = "raised"
  /\ UNCHANGED <<unsafe, callVars, runs, overBudget, error, record>>

Terminating == pc \in {"recorded", "raised"} /\ UNCHANGED vars

Next ==
  \/ RefuseUnsafe
  \/ FirstRun
  \/ TraceInput
  \/ TraceRaises
  \/ StopNonterminating
  \/ StopOverBudget
  \/ StopAfterLastRun
  \/ NextRun
  \/ Judge
  \/ JudgeRaises
  \/ Terminating

Spec == Init /\ [][Next]_vars

-----------------------------------------------------------------------------
(* Properties.                                                             *)

TypeOK ==
  /\ unsafe \in BOOLEAN
  /\ pc \in {"check", "run", "judge", "recorded", "raised"}
  /\ kinds \in Seq(Call!Kinds) /\ Len(kinds) <= NInputs
  /\ done \in BOOLEAN
  /\ runs \in Seq(Seq(Call!Kinds)) /\ Len(runs) <= NRuns
  /\ overBudget \in BOOLEAN
  /\ error \in Errors
  /\ record \in Records

Allowance == IF MaxTimeouts = 0 THEN 1 ELSE MaxTimeouts
TimeoutsIn(run) == Cardinality(Call!Timeouts(run))
FullRun(run) == Len(run) = NInputs

(* A program is only ever featurised from runs that cover every input, so  *)
(* the runs compared for the noise floor are comparable (runner.py 157-159 *)
(* together with the early exit of tracer.py 180-181).                     *)
ComparableRuns ==
  record.ok => runs # <<>> /\ \A r \in DOMAIN runs : FullRun(runs[r])

(* A program is called nonterminating only on the evidence of its last     *)
(* run, which used up the allowance before the last input; every earlier   *)
(* run was complete.                                                       *)
NonterminatingJustified ==
  error = "NONTERMINATING" =>
    LET last == Len(runs) IN
    /\ TimeoutsIn(runs[last]) = Allowance /\ ~FullRun(runs[last])
    /\ \A r \in 1..(last - 1) : FullRun(runs[r])

(* The budget cuts a program only between runs: at least one run is whole  *)
(* and at least one is missing (160, 166); and of the programs kept these  *)
(* are the only ones with runs missing, which the flag of the record says  *)
(* (435), although nothing reads it: see BudgetInLedger.                   *)
BudgetCutsBetweenRuns ==
  /\ record.budgetExceeded =>
       Len(runs) \in 1..(NRuns - 1) /\ \A r \in DOMAIN runs : FullRun(runs[r])
  /\ record.ok /\ Len(runs) < NRuns => record.budgetExceeded

(* All the runs of one program together abandon at most n_runs times       *)
(* max_timeouts workers, whatever ends the loop: the bound of tracer.py    *)
(* 165-169 is per call, and a nonterminating run is not repeated.          *)
AllRuns == IF pc = "run" THEN Append(runs, kinds) ELSE runs
LeftBehind == {at \in (DOMAIN AllRuns) \X (1..NInputs) :
                 /\ at[2] \in DOMAIN AllRuns[at[1]]
                 /\ AllRuns[at[1]][at[2]] = "abandoned"}
ProgramLeakBound == Cardinality(LeftBehind) <= NRuns * Allowance

-----------------------------------------------------------------------------
(* A claim made beside the code that the code does not keep.               *)

(* extraction.py 71-73, runner.py 160-163: a program that hits its budget  *)
(* is recorded in the failure ledger, which holds the records that are not *)
(* ok.                                                                     *)
BudgetInLedger == record.budgetExceeded => ~record.ok
=============================================================================
