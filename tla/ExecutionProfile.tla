--------------------------- MODULE ExecutionProfile ---------------------------
(***************************************************************************)
(* sbg/repair/execution_profile.py, the pure part: the features of one     *)
(* traced call, the anonymous numbering of functions and the distance of   *)
(* two profiles.                                                           *)
(*                                                                         *)
(* An event is [kind, fn, line]; line is relative to the function.  A hash *)
(* is modelled by the sequence it is taken of (no collisions), a fraction  *)
(* by its numerator over a common denominator.                             *)
(***************************************************************************)
EXTENDS Integers, Sequences, FiniteSets, SequencesExt

CONSTANTS
  MaxEvents,   \* the cap on the events of one call
  Names,       \* the names of functions
  Wrapper      \* the name of the host's own function around a call

ASSUME CapAssumption == MaxEvents \in Nat \ {0} /\ Wrapper \in Names

Event == [kind : {"call", "line", "return", "exception"}, fn : Names, line : Nat]

NoError == "None"

(* The wrapper that passes an input is traced with the program: it is      *)
(* called, runs one line, and an exception of the program passes it.       *)
Wrapped(evs, exc) ==                    \* 80-86
  LET own(kind, line) == [kind |-> kind, fn |-> Wrapper, line |-> line]
  IN  << own("call", 0), own("line", 1) >> \o evs
        \o (IF exc = NoError THEN <<>> ELSE << own("exception", 1) >>)
        \o << own("return", 1) >>

(* What the trace function keeps of the events of one call.                *)
RecordedSlip(evs) ==                    \* > for >=
  SubSeq(evs, 1, IF Len(evs) > MaxEvents THEN MaxEvents + 1 ELSE Len(evs))
Recorded(evs) ==                        \* 134-147
  SubSeq(evs, 1, IF Len(evs) > MaxEvents THEN MaxEvents ELSE Len(evs))

(* name_to_idx is the sequence of the names met so far: the functions a    *)
(* call enters are appended in the order of their first call.              *)
Has(names, f) == \E i \in DOMAIN names : names[i] = f
Numbered(names, evs) ==                 \* 238-241
  LET With(ns, e) ==
        IF e.kind = "call" /\ ~Has(ns, e.fn) THEN Append(ns, e.fn) ELSE ns
      after[n \in 0..Len(evs)] ==
        IF n = 0 THEN names ELSE With(after[n - 1], evs[n])
  IN  after[Len(evs)]

NumberIn(names, f) ==
  IF Has(names, f) THEN CHOOSE i \in DOMAIN names : names[i] = f ELSE 0

(* The path of a call: function and line of its call and line events, the  *)
(* kind left out as in the hash.                                           *)
OnPath(e) == e.kind \in {"call", "line"}
Path(evs) ==                            \* 275-279
  LET upTo[n \in 0..Len(evs)] ==
        CASE n = 0          -> <<>>
          [] n > 0 /\ OnPath(evs[n]) ->
               Append(upTo[n - 1], <<evs[n].fn, evs[n].line>>)
          [] OTHER          -> upTo[n - 1]
  IN  upTo[Len(evs)]

(* _line_seq_hash: the path with numbers for the names.                    *)
LineSeq(names, evs) ==
  LET path == Path(evs)
  IN  [i \in DOMAIN path |-> <<NumberIn(names, path[i][1]), path[i][2]>>]

(* _max_call_depth: depth is clamped at zero on every return.              *)
MaxCallDepth(evs) ==
  LET step(d, e) ==
        CASE e.kind = "call" -> [now |-> d.now + 1,
                                 top |-> Max({d.top, d.now + 1})]
          [] e.kind = "return" -> [d EXCEPT !.now = Max({0, d.now - 1})]
          [] OTHER -> d
  IN  FoldLeft(step, [now |-> 0, top |-> 0], evs).top

-----------------------------------------------------------------------------
(* compute_eep_distance.  A profile is [entries, drift], an entry the      *)
(* features of one input, drift a numerator over the pairs of repeats.     *)

Failures(p) ==                          \* exception_fraction, times n
  Cardinality({i \in DOMAIN p.entries : p.entries[i].exc # NoError})
Types(p) == {e.exc : e \in ToSet(p.entries)} \ {NoError}
Gap(x, y) == IF x > y THEN x - y ELSE y - x

(* The five components, as [num, den].                                     *)
ExcFrac(p, q) ==
  [num |-> Gap(Failures(p), Failures(q)), den |-> Len(p.entries)]
ExcJaccard(p, q) ==
  LET all == Types(p) \union Types(q) IN
  [num |-> Cardinality(all) - Cardinality(Types(p) \intersect Types(q)),
   den |-> Max({1, Cardinality(all)})]
TraceLength(p, q) ==                    \* _trace_length_distance
  LET lens == {e.length : e \in ToSet(p.entries) \union ToSet(q.entries)}
      total[n \in 0..Len(p.entries)] ==
        IF n = 0 THEN 0
        ELSE total[n - 1] + Gap(p.entries[n].length, q.entries[n].length)
  IN  [num |-> total[Len(p.entries)],
       den |-> Len(p.entries) * Max(lens \union {1})]
LineDivergence(p, q) ==                 \* _line_seq_divergence
  [num |-> Cardinality({i \in DOMAIN p.entries :
                          p.entries[i].path # q.entries[i].path}),
   den |-> Len(p.entries)]
DriftGap(p, q, pairs) == [num |-> Gap(p.drift, q.drift), den |-> pairs]

(* The weights are positive and no component is negative, so the distance  *)
(* is zero exactly when every component is.                                *)
DistanceIsZero(p, q, pairs) ==
  \A c \in {ExcFrac(p, q), ExcJaccard(p, q), TraceLength(p, q),
            LineDivergence(p, q), DriftGap(p, q, pairs)} : c.num = 0
=============================================================================
