-------------------------- MODULE ProfileExtraction ---------------------------
(***************************************************************************)
(* sbg/repair/execution_profile.py: two programs are profiled one after    *)
(* the other in one process, on the same list of inputs, as the            *)
(* evaluations that compare them do.                                       *)
(*                                                                         *)
(* Every call of a program is made by a daemon thread of its own, traced   *)
(* by a trace function of its own, with a queue of its own.  The calls of  *)
(* one program share its mutable default arguments and globals; all calls, *)
(* of both programs, share the input objects, which a program may change   *)
(* in place.  A call that is not over in time is given up and its thread   *)
(* runs on, against the state and the inputs the calls after it use.       *)
(*                                                                         *)
(* A program is what its entry point does with a value in each state:      *)
(*   [events, exc, post, left, ends]                                       *)
(* post is the state it writes and left what it makes of the input, Kept   *)
(* when it writes neither.  exc = "SystemExit" leaves the thread without a *)
(* result, since only Exception is caught; ends = FALSE is a call that     *)
(* never returns.                                                          *)
(***************************************************************************)
EXTENDS ExecutionProfile

CONSTANTS
  Programs,    \* the programs profiled
  Values,      \* the values an input can have, before and after a change
  Tuples,      \* the values that are tuples of arguments
  InputLists,  \* the lists of inputs the programs are profiled on
  States,      \* the mutable state of a program
  Fresh,       \* that state when its module is loaded
  Kept,        \* written by a call that leaves a state or an input alone
  Does,        \* [Programs -> [Values -> [States -> outcome]]]
  Repeats,     \* n_sequential_repeats
  MaxLate      \* bound: calls given up whose thread could still end

ASSUME ExtractionAssumption ==
  /\ Fresh \in States
  /\ Repeats \in Nat /\ Repeats >= 2
  /\ MaxLate \in Nat
  /\ \A l \in InputLists : l \in Seq(Values) /\ Len(l) > 0
  /\ \A p \in Programs, v \in Values, s \in States :
       LET o == Does[p][v][s] IN
       /\ o \in [events : Seq(Event), exc : STRING, post : States \union {Kept},
                 left : Values \union {Kept}, ends : BOOLEAN]
       \* a changed tuple is a tuple
       /\ o.left # Kept => (o.left \in Tuples <=> v \in Tuples)
       \* a frame is traced line by line from its call on (145-147)
       /\ \A n \in DOMAIN o.events : o.events[n].kind = "line" =>
            \E m \in 1..(n - 1) :
              o.events[m].kind = "call" /\ o.events[m].fn = o.events[n].fn

VARIABLES
  prog,        \* the two programs, for this run
  inputs,      \* the values of the inputs when the run starts
  objects,     \* their values now, read and changed by every call
  subject,     \* the one being profiled, 1 or 2; 3 when both are done
  call,        \* the number of its current call, 0 before the first
  joining,     \* is the host waiting for that call's thread?
  mutable,     \* the mutable state of each program
  thread,      \* the thread of each call: [pc, out]
  result,      \* the queue of each call: <<>> or << [events, exc] >>
  names,       \* name_to_idx of each program
  entries,     \* the features of the inputs profiled so far
  runHashes,   \* the paths of the repeats run so far
  \* history, read by no action
  givenUp      \* the calls given up while their thread was running

hostVars == <<subject, call, joining, names, entries, runHashes>>
shared == <<mutable, objects>>
vars == <<prog, inputs, hostVars, shared, thread, result, givenUp>>

Subjects == {1, 2}
Calls == 1..(Len(inputs) + Repeats)     \* one per input, then the repeats
IsRepeat(c) == c > Len(inputs)
Slot(c) == IF IsRepeat(c) THEN 1 ELSE c \* the input of call c
AllCalls == {<<k, c>> : k \in Subjects, c \in Calls}

(* What a call finds: the state of its program and the inputs.             *)
Found(k) == [state |-> mutable[k], values |-> objects]

(* A call with a tuple unpacks it, except in the repeats, which pass fn    *)
(* itself and not a wrapper: a function of several parameters then raises  *)
(* TypeError before its frame exists.                                      *)
NotCalled == [events |-> <<>>, exc |-> "TypeError", post |-> Kept,
              left |-> Kept, ends |-> TRUE]
Outcome(p, c, x) ==                     \* 80-86; 233-236; 320-325
  LET v == x.values[Slot(c)]
      o == Does[p][v][x.state]
  IN  CASE ~IsRepeat(c) -> [o EXCEPT !.events = Wrapped(@, o.exc)]
        [] IsRepeat(c) /\ v \in Tuples -> NotCalled
        [] OTHER -> o

(* What call c with outcome o makes of what it finds.                      *)
Unless(new, old) == IF new = Kept THEN old ELSE new
Leaves(c, o, x) ==
  [state |-> Unless(o.post, x.state),
   values |-> [x.values EXCEPT ![Slot(c)] = Unless(o.left, @)]]

-----------------------------------------------------------------------------
(* The queue a call's thread puts its result in, made by that call.        *)
QueueOfSlip(w) == <<1, 1>>             \* one queue for the whole process
QueueOf(w) == w                         \* 127

(* The features of the current input, from what its call left.             *)
EntrySlip(evs, exc, known) ==           \* numbered input by input
  [length |-> Len(evs), path |-> LineSeq(Numbered(<<>>, evs), evs),
   depth |-> MaxCallDepth(evs), exc |-> exc]
Entry(evs, exc, known) ==               \* 238-246
  [length |-> Len(evs), path |-> LineSeq(Numbered(known, evs), evs),
   depth |-> MaxCallDepth(evs), exc |-> exc]

(* The hash of one repeat.                                                 *)
RepeatPathSlip(evs, known) == LineSeq(known, evs)    \* before numbering
RepeatPath(evs, known) == LineSeq(Numbered(known, evs), evs)    \* 326-330

(* The numerator of the drift: neighbouring repeats that differ.           *)
Drift(hashes) ==                        \* 332-338
  Cardinality({i \in 1..(Len(hashes) - 1) : hashes[i] # hashes[i + 1]})

Profile(k) == [entries |-> entries[k], drift |-> Drift(runHashes[k])]

-----------------------------------------------------------------------------
Init ==
  /\ prog \in [Subjects -> Programs]
  /\ inputs \in InputLists
  /\ subject = 1
  /\ call = 0
  /\ joining = FALSE
  /\ objects = inputs
  /\ mutable = [k \in Subjects |-> Fresh]
  /\ thread = [w \in AllCalls |-> [pc |-> "none", out |-> NotCalled]]
  /\ result = [w \in AllCalls |-> <<>>]
  /\ names = [k \in Subjects |-> <<>>]
  /\ entries = [k \in Subjects |-> <<>>]
  /\ runHashes = [k \in Subjects |-> <<>>]
  /\ givenUp = {}

Current == <<subject, call>>
Hangs(w) == thread[w].pc = "leaving" /\ ~thread[w].out.ends

(* The host starts the thread of its next call and joins it.               *)
StartCall ==                            \* 166-168
  /\ subject \in Subjects
  /\ ~joining
  /\ call + 1 \in Calls
  /\ call' = call + 1
  /\ joining' = TRUE
  /\ thread' = [thread EXCEPT ![<<subject, call + 1>>].pc = "new"]
  /\ UNCHANGED <<prog, inputs, subject, names, entries, runHashes, shared, result,
                 givenUp>>

(* The profile of one program is complete: the other one's turn.           *)
NextSubject ==                          \* 233-251
  /\ subject \in Subjects
  /\ call + 1 \notin Calls
  /\ ~joining
  /\ subject' = subject + 1
  /\ call' = 0
  /\ UNCHANGED <<prog, inputs, joining, names, entries, runHashes, shared, thread,
                 result, givenUp>>

(* What the host makes of a call that left events evs and outcome exc.     *)
Record(evs, exc) ==                     \* 238-246; 326-330
  /\ joining' = FALSE
  /\ names' = [names EXCEPT ![subject] = Numbered(@, evs)]
  /\ IF IsRepeat(call)
     THEN /\ runHashes' = [runHashes EXCEPT ![subject] =
                             Append(@, RepeatPath(evs, names[subject]))]
          /\ UNCHANGED entries
     ELSE /\ entries' = [entries EXCEPT ![subject] =
                           Append(@, Entry(evs, exc, names[subject]))]
          /\ UNCHANGED runHashes

(* The join is over and there is a result, a late one included.            *)
TakeResult ==                           \* 168-171
  /\ joining
  /\ result[QueueOf(Current)] # <<>>
  /\ LET r == Head(result[QueueOf(Current)]) IN Record(r.events, r.exc)
  /\ result' = [result EXCEPT ![QueueOf(Current)] = Tail(@)]
  /\ UNCHANGED <<prog, inputs, subject, call, shared, thread, givenUp>>

(* The join is over and there is none: the thread is still running at the  *)
(* deadline, or it ended without a result.                                 *)
GiveUp ==                               \* 168-174
  /\ joining
  /\ result[QueueOf(Current)] = <<>>
  /\ \/ thread[Current].pc = "ended" /\ UNCHANGED givenUp
     \/ /\ thread[Current].pc # "ended"
        /\ Hangs(Current) \/ Cardinality({w \in givenUp : ~Hangs(w)}) < MaxLate
        /\ givenUp' = givenUp \union {Current}
  /\ Record(<<>>, "TimeoutError")
  /\ UNCHANGED <<prog, inputs, subject, call, shared, thread, result>>

-----------------------------------------------------------------------------
(* A thread enters the program; what it does depends on what it finds.     *)
Enter(w) ==                             \* 149-153
  /\ thread[w].pc = "new"
  /\ thread' = [thread EXCEPT ![w] =
                  [pc |-> "inside", out |-> Outcome(prog[w[1]], w[2], Found(w[1]))]]
  /\ UNCHANGED <<prog, inputs, hostVars, shared, result, givenUp>>

(* The program changes its state and its input, some time after it read    *)
(* them.                                                                   *)
Mutate(w) ==                            \* 153
  /\ thread[w].pc = "inside"
  /\ LET after == Leaves(w[2], thread[w].out, Found(w[1])) IN
     /\ mutable' = [mutable EXCEPT ![w[1]] = after.state]
     /\ objects' = after.values
  /\ thread' = [thread EXCEPT ![w].pc = "leaving"]
  /\ UNCHANGED <<prog, inputs, hostVars, result, givenUp>>

(* The call is over.  The queue has room for one result: put_nowait on a   *)
(* full queue raises, and the result is dropped.                           *)
Finish(w) ==                            \* 153-164
  /\ thread[w].pc = "leaving"
  /\ thread[w].out.ends
  /\ thread' = [thread EXCEPT ![w].pc = "ended"]
  /\ result' =
       IF thread[w].out.exc = "SystemExit" \/ result[QueueOf(w)] # <<>>
       THEN result
       ELSE [result EXCEPT ![QueueOf(w)] =
               << [events |-> Recorded(thread[w].out.events),
                   exc |-> thread[w].out.exc] >>]
  /\ UNCHANGED <<prog, inputs, hostVars, shared, givenUp>>

Done == subject \notin Subjects /\ UNCHANGED vars

Next ==
  \/ StartCall \/ NextSubject \/ TakeResult \/ GiveUp
  \/ \E w \in AllCalls : Enter(w) \/ Mutate(w) \/ Finish(w)
  \/ Done

Spec == Init /\ [][Next]_vars

-----------------------------------------------------------------------------
(* References: what the programs do when each call runs alone, in order,   *)
(* the second program on the inputs as the first one left them.            *)

(* What each call of p finds when the first one finds inputs vs.           *)
Run(p, vs) ==
  LET x[c \in 1..(Len(inputs) + Repeats + 1)] ==
        IF c = 1 THEN [state |-> Fresh, values |-> vs]
        ELSE Leaves(c - 1, Outcome(p, c - 1, x[c - 1]), x[c - 1])
  IN  x
Start(k) ==
  IF k = 1 THEN inputs
  ELSE Run(prog[1], inputs)[Len(inputs) + Repeats + 1].values
Before(k) == Run(prog[k], Start(k))
Alone(k, c) == Outcome(prog[k], c, Before(k)[c])

(* What the tracer can see of it.                                          *)
SeenOf(o) ==
  IF o.exc = "SystemExit" THEN [events |-> <<>>, exc |-> "TimeoutError"]
  ELSE [events |-> Recorded(o.events), exc |-> o.exc]
Seen(k, c) == SeenOf(Alone(k, c))

(* The names called in calls 1 to c, the missing ones left out.            *)
NamesHeard(k, missing) ==
  LET ns[c \in 0..(Len(inputs) + Repeats)] ==
        CASE c = 0 -> <<>>
          [] c \in missing -> ns[c - 1]
          [] OTHER -> Numbered(ns[c - 1], Seen(k, c).events)
  IN  ns

(* The features of input c, with functions numbered without the missing    *)
(* calls.                                                                  *)
Features(k, c, missing) ==
  [length |-> Len(Seen(k, c).events),
   path |-> LineSeq(NamesHeard(k, missing)[c], Seen(k, c).events),
   depth |-> MaxCallDepth(Seen(k, c).events),
   exc |-> Seen(k, c).exc]

PathOf(k, c) == Path(Seen(k, c).events)
Called(k) == ToSet(NamesHeard(k, {})[Len(inputs)])
DriftAlone(k) ==
  Cardinality({i \in 1..(Repeats - 1) :
                 PathOf(k, Len(inputs) + i) # PathOf(k, Len(inputs) + i + 1)})

(* One renaming of functions maps every path of k to that of j.            *)
SamePaths(k, j) ==
  \E ren \in Bijection(Called(k), Called(j)) :
    \A c \in 1..Len(inputs) :
      LET a == PathOf(k, c) IN
      PathOf(j, c) = [i \in DOMAIN a |-> <<ren[a[i][1]], a[i][2]>>]

ProfileDone(k) == Len(runHashes[k]) = Repeats
GivenUpBy(k) == {w[2] : w \in {v \in givenUp : v[1] = k}}

(* The state makes no difference to what the program is seen to do.        *)
Stateless(p) ==
  \A v \in Values, s, t \in States :
    LET a == Does[p][v][s]  b == Does[p][v][t] IN
    /\ a.events = b.events /\ a.exc = b.exc
    /\ a.ends /\ b.ends

(* The program changes no input in place.                                  *)
LeavesInputs(p) == \A v \in Values, s \in States : Does[p][v][s].left = Kept

-----------------------------------------------------------------------------
(* The host holds one entry per finished input and one hash per repeat, no *)
(* call has more than MaxEvents events, and no queue more than one result. *)
TypeOK ==
  /\ subject \in 1..3 /\ call \in Calls \union {0} /\ joining \in BOOLEAN
  /\ mutable \in [Subjects -> States] /\ objects \in [DOMAIN inputs -> Values]
  /\ \A w \in AllCalls :
       /\ thread[w].pc \in {"none", "new", "inside", "leaving", "ended"}
       /\ Len(result[w]) <= 1
       /\ result[w] # <<>> => Len(Head(result[w]).events) <= MaxEvents
  /\ \A k \in Subjects :
       /\ Len(entries[k]) <= Len(inputs) /\ Len(runHashes[k]) <= Repeats
       /\ \A c \in DOMAIN entries[k] : entries[k][c].length \in 0..MaxEvents
  /\ givenUp \subseteq AllCalls

(* Only calls given up make a measurement depend on timing: an entry, or   *)
(* the drift, is that of the calls run alone in order, unless an earlier   *)
(* call of the same program, or this one, was given up, or one of the      *)
(* first program was and that program changes its inputs in place.         *)
Reached(k) ==
  k = 2 /\ GivenUpBy(1) # {} /\ ~LeavesInputs(prog[1])
OnlyGivenUpDistorts ==
  \A k \in Subjects : ~Reached(k) =>
    /\ \A c \in DOMAIN entries[k] :
         GivenUpBy(k) \intersect 1..c = {} => entries[k][c] = Features(k, c, {})
    /\ ProfileDone(k) /\ GivenUpBy(k) = {} => Drift(runHashes[k]) = DriftAlone(k)

(* A program without state, on inputs that neither it nor a program before *)
(* it changes, is measured exactly at every input not itself given up: the *)
(* calls given up cost it the numbers of the functions only they entered,  *)
(* and it shows drift only if one of the repeats was given up.             *)
StatelessSurvives ==
  \A k \in Subjects :
    Stateless(prog[k]) /\ (\A j \in 1..k : LeavesInputs(prog[j])) =>
      /\ \A c \in DOMAIN entries[k] \ GivenUpBy(k) :
           entries[k][c] = Features(k, c, GivenUpBy(k))
      /\ ProfileDone(k) /\ Drift(runHashes[k]) # 0
           => \E c \in GivenUpBy(k) : IsRepeat(c)

(* With no call given up, two programs are at distance zero exactly when,  *)
(* the first run on the inputs and the second on what the first left of    *)
(* them, one renaming of functions makes their paths equal on every input  *)
(* and they agree on lengths, on how many inputs fail and in which ways,   *)
(* and on the drift.                                                       *)
ZeroMeansSameFlow ==
  (subject = 3 /\ givenUp = {}) =>
    LET n == 1..Len(inputs)
        fails(k) == {c \in n : Seen(k, c).exc # NoError}
        types(k) == {Seen(k, c).exc : c \in fails(k)}
    IN  DistanceIsZero(Profile(1), Profile(2), Repeats - 1) <=>
          /\ SamePaths(1, 2)
          /\ \A c \in n : Len(Seen(1, c).events) = Len(Seen(2, c).events)
          /\ Cardinality(fails(1)) = Cardinality(fails(2))
          /\ types(1) = types(2)
          /\ DriftAlone(1) = DriftAlone(2)

(* Claimed by the module's FORMAL INVARIANT (execution_profile.py:44-52)   *)
(* and by test_execution_profile.py:329-336: with no call given up, a      *)
(* program is at distance zero from itself.  The code does not keep it for *)
(* a program that changes its inputs: the second extraction measures it on *)
(* what the first one left (phase8_15_repair_evaluation.py:264-265).       *)
SameProgramAtZero ==
  (subject = 3 /\ givenUp = {} /\ prog[1] = prog[2])
    => DistanceIsZero(Profile(1), Profile(2), Repeats - 1)
=============================================================================
