--------------------------- MODULE TraceContract ---------------------------
(***************************************************************************)
(* What Tracer.trace promises its caller, without threads: one trace per   *)
(* input, in input order, ending early only once enough of the traces      *)
(* count as timeouts.  Tracer is shown to implement this specification,    *)
(* and SandboxRunner is built on it.                                       *)
(***************************************************************************)
EXTENDS Naturals, Sequences, FiniteSets

CONSTANTS
  NInputs,      \* number of inputs handed to one call of trace
  MaxTimeouts   \* max_timeouts; Python's None is any value above NInputs

VARIABLES
  kinds,        \* the kinds of the traces produced so far, in order
  done          \* the call has returned

contractVars == <<kinds, done>>

(* How one trace ended: the program returned or raised an ordinary         *)
(* exception; it raised TimeoutError or RecursionError itself; or the host *)
(* gave up on it and made up a TimeoutError.                               *)
Kinds == {"completed", "timeoutLike", "abandoned"}
TimeoutKinds == {"timeoutLike", "abandoned"}

Timeouts(ks) == {n \in DOMAIN ks : ks[n] \in TimeoutKinds}

(* A plausible slip: the loop stops one timeout late.  No action uses it.  *)
ExhaustedSlip(ks) ==
  /\ ks # <<>>
  /\ ks[Len(ks)] \in TimeoutKinds
  /\ Cardinality(Timeouts(ks)) > MaxTimeouts

(* The loop stops after the last input, or at the timeout that uses up the *)
(* allowance.  An allowance of 0 still needs one timeout to stop.          *)
Exhausted(ks) ==
  /\ ks # <<>>
  /\ ks[Len(ks)] \in TimeoutKinds
  /\ Cardinality(Timeouts(ks)) >= MaxTimeouts

Finished(ks) == Len(ks) = NInputs \/ Exhausted(ks)

Init ==
  /\ kinds = <<>>
  /\ done = (NInputs = 0)

Record(k) ==
  /\ ~done
  /\ kinds' = Append(kinds, k)
  /\ done' = Finished(kinds')

Next == \E k \in Kinds : Record(k)

Spec == Init /\ [][Next]_contractVars
Live == WF_contractVars(Next)
=============================================================================
