----------------------- MODULE ProfileExtractionProofs ------------------------
(***************************************************************************)
(* Machine-checked proofs about ProfileExtraction, for all programs, lists *)
(* of inputs, numbers of repeats and caps.                                 *)
(***************************************************************************)
EXTENDS ProfileExtraction, SequenceTheorems, FiniteSetTheorems, WellFoundedInduction,
        TLAPS

-----------------------------------------------------------------------------
(* Recursive functions on 0..N, by induction over a set of numbers.        *)

(* A set with 0 and, after n - 1, n has all of 0..N.                       *)
LEMMA SetInduction ==
  ASSUME NEW N \in Nat, NEW T, 0 \in T,
         \A n \in 1..N : n - 1 \in T => n \in T
  PROVE  0..N \subseteq T
<1> DEFINE U == (0..N) \ T
<1> SUFFICES ASSUME U # {} PROVE FALSE
  OBVIOUS
<1>1. PICK n \in U : \A m \in U : ~(<<m, n>> \in OpToRel(<, Nat))
  <2>1. U \subseteq Nat
    OBVIOUS
  <2>2. IsWellFoundedOn(OpToRel(<, Nat), Nat)
    BY NatLessThanWellFounded
  <2> HIDE DEF U
  <2> QED
    BY <2>1, <2>2, WFMin
<1>2. n \in 1..N /\ n - 1 \in 0..N /\ n \in Nat /\ n - 1 \in Nat
  OBVIOUS
<1>3. <<n - 1, n>> \in OpToRel(<, Nat)
  BY <1>2 DEF OpToRel
<1>4. n - 1 \notin U
  BY <1>1, <1>3
<1> QED
  BY <1>2, <1>4

(* step is a function of the position and the value before it.             *)
Follows(f, b, step, N) ==
  f[0] = b /\ \A n \in 1..N : f[n] = step[<<n, f[n - 1]>>]

(* A function that follows a step from a first value exists, and is typed. *)
LEMMA Recursion ==
  ASSUME NEW N \in Nat, NEW S, NEW b \in S, NEW step \in [(1..N) \X S -> S]
  PROVE  \E f \in [0..N -> S] : Follows(f, b, step, N)
<1> DEFINE T == {n \in 0..N : \E f \in [0..n -> S] : Follows(f, b, step, n)}
<1>1. 0 \in T
  <2>1. [n \in 0..0 |-> b] \in [0..0 -> S] /\ Follows([n \in 0..0 |-> b], b, step, 0)
    BY DEF Follows
  <2> QED
    BY <2>1
<1>2. ASSUME NEW n \in 1..N, n - 1 \in T
      PROVE  n \in T
  <2>1. PICK f \in [0..(n - 1) -> S] : Follows(f, b, step, n - 1)
    BY <1>2
  <2> DEFINE g == [m \in 0..n |-> IF m = n THEN step[<<n, f[n - 1]>>] ELSE f[m]]
  <2>2. n - 1 \in 0..(n - 1) /\ n \in Nat /\ f[n - 1] \in S
    BY <2>1
  <2>3. step[<<n, f[n - 1]>>] \in S
    BY <2>2
  <2>4. g \in [0..n -> S] /\ g[n] = step[<<n, f[n - 1]>>]
    BY <2>1, <2>2, <2>3
  <2>5. \A m \in 0..(n - 1) : g[m] = f[m]
    BY <2>2
  <2> HIDE DEF g
  <2>6. \A m \in 1..n : g[m] = step[<<m, g[m - 1]>>]
    <3> TAKE m \in 1..n
    <3>1. m - 1 \in 0..(n - 1) /\ g[m - 1] = f[m - 1]
      BY <2>2, <2>5
    <3>2. CASE m = n
      BY <2>4, <3>1, <3>2
    <3>3. CASE m # n
      <4>1. m \in 1..(n - 1) /\ m \in 0..(n - 1)
        BY <2>2, <3>3
      <4> QED
        BY <2>1, <2>5, <3>1, <4>1 DEF Follows
    <3> QED
      BY <3>2, <3>3
  <2>7. Follows(g, b, step, n)
    BY <2>1, <2>2, <2>5, <2>6 DEF Follows
  <2> QED
    BY <2>4, <2>7
<1>3. 0..N \subseteq T
  <2> HIDE DEF T
  <2> QED
    BY <1>1, <1>2, SetInduction
<1> QED
  BY <1>3

-----------------------------------------------------------------------------
(* The numbering of functions.                                             *)

With(ns, e) == IF e.kind = "call" /\ ~Has(ns, e.fn) THEN Append(ns, e.fn) ELSE ns

Covers(ns, evs) ==
  \A i \in 1..Len(evs) : evs[i].kind = "call" => Has(ns, evs[i].fn)

(* One event adds at most a name, loses none, and has its own if a call.   *)
LEMMA WithKeeps ==
  ASSUME NEW ns \in Seq(Names), NEW e \in Event
  PROVE  /\ With(ns, e) \in Seq(Names)
         /\ \A g : Has(ns, g) => Has(With(ns, e), g)
         /\ e.kind = "call" => Has(With(ns, e), e.fn)
<1>1. e.fn \in Names
  BY DEF Event
<1>2. /\ Append(ns, e.fn) \in Seq(Names) /\ Len(ns) \in Nat
      /\ DOMAIN ns = 1..Len(ns)
      /\ DOMAIN Append(ns, e.fn) = 1..(Len(ns) + 1)
      /\ \A i \in 1..Len(ns) : Append(ns, e.fn)[i] = ns[i]
      /\ Append(ns, e.fn)[Len(ns) + 1] = e.fn
  BY <1>1, AppendProperties, LenProperties
<1>3. /\ \A g : Has(ns, g) => Has(Append(ns, e.fn), g)
      /\ Has(Append(ns, e.fn), e.fn)
  BY <1>2 DEF Has
<1> QED
  BY <1>2, <1>3 DEF With

(* Numbered as a function of the position reached.                         *)
After(f, ns, evs) ==
  /\ f \in [0..Len(evs) -> Seq(Names)]
  /\ f[0] = ns
  /\ \A n \in 1..Len(evs) : f[n] = With(f[n - 1], evs[n])

(* The names after a call are those after its last event.                  *)
LEMMA NumberedAfter ==
  ASSUME NEW ns \in Seq(Names), NEW evs \in Seq(Event)
  PROVE  \E f : After(f, ns, evs) /\ Numbered(ns, evs) = f[Len(evs)]
<1> DEFINE N == Len(evs)
           S == Seq(Names)
           step == [x \in (1..N) \X S |-> With(x[2], evs[x[1]])]
           Eq(f) == f = [n \in 0..N |-> IF n = 0 THEN ns ELSE With(f[n - 1], evs[n])]
           after == CHOOSE f : Eq(f)
<1>1. N \in Nat /\ \A n \in 1..N : evs[n] \in Event
  BY LenProperties, ElementOfSeq
<1>2. step \in [(1..N) \X S -> S]
  <2>1. \A x \in (1..N) \X S : With(x[2], evs[x[1]]) \in S
    BY <1>1, WithKeeps
  <2> QED
    BY <2>1
<1>3. PICK h \in [0..N -> S] : Follows(h, ns, step, N)
  <2> HIDE DEF step, N, S
  <2>1. ns \in S
    BY DEF S
  <2> QED
    BY <1>1, <1>2, <2>1, Recursion
<1>4. h[0] = ns /\ \A n \in 1..N : h[n] = With(h[n - 1], evs[n])
  <2>1. \A n \in 1..N : n - 1 \in 0..N /\ <<n, h[n - 1]>> \in (1..N) \X S
    <3> TAKE n \in 1..N
    <3>1. n - 1 \in 0..N
      BY <1>1
    <3> HIDE DEF N, S
    <3>2. h[n - 1] \in S
      BY <1>3, <3>1
    <3> QED
      BY <3>1, <3>2
  <2>2. \A n \in 1..N : step[<<n, h[n - 1]>>] = With(h[n - 1], evs[n])
    BY <2>1
  <2> QED
    BY <1>3, <2>2 DEF Follows
<1>5. Eq(h)
  <2>1. \A n \in 0..N : h[n] = IF n = 0 THEN ns ELSE With(h[n - 1], evs[n])
    BY <1>1, <1>4
  <2> QED
    BY <1>3, <2>1
<1>6. Eq(after)
  BY <1>5
<1>7. Numbered(ns, evs) = after[N]
  BY DEF Numbered, With
<1> HIDE DEF after
<1>8. /\ after[0] = ns
      /\ \A n \in 1..N : after[n] = With(after[n - 1], evs[n])
      /\ after = [n \in 0..N |-> after[n]]
  BY <1>1, <1>6
<1>9. \A n \in 0..N : after[n] \in S
  <2> DEFINE T == {n \in 0..N : after[n] \in S}
  <2>1. 0 \in T
    BY <1>1, <1>8
  <2>2. ASSUME NEW n \in 1..N, n - 1 \in T
        PROVE  n \in T
    <3>1. n \in 0..N /\ evs[n] \in Event /\ after[n - 1] \in S
      BY <1>1, <2>2
    <3>2. after[n] \in S
      BY <1>8, <3>1, WithKeeps
    <3> QED
      BY <3>1, <3>2
  <2>3. 0..N \subseteq T
    <3> HIDE DEF T, N
    <3> QED
      BY <1>1, <2>1, <2>2, SetInduction
  <2> QED
    BY <2>3
<1>10. After(after, ns, evs)
  BY <1>8, <1>9 DEF After
<1> QED
  BY <1>7, <1>10

(* Every function called has its number, and numbering is idempotent.      *)
LEMMA NumberedFacts ==
  ASSUME NEW ns \in Seq(Names), NEW evs \in Seq(Event)
  PROVE  /\ Numbered(ns, evs) \in Seq(Names)
         /\ Covers(Numbered(ns, evs), evs)
         /\ Covers(ns, evs) => Numbered(ns, evs) = ns
<1> DEFINE N == Len(evs)
<1>1. N \in Nat /\ \A n \in 1..N : evs[n] \in Event
  BY LenProperties, ElementOfSeq
<1>2. PICK f : After(f, ns, evs) /\ Numbered(ns, evs) = f[N]
  BY NumberedAfter
<1>3. /\ \A n \in 0..N : f[n] \in Seq(Names)
      /\ f[0] = ns
      /\ \A n \in 1..N : f[n] = With(f[n - 1], evs[n]) /\ f[n - 1] \in Seq(Names)
  <2>1. /\ \A n \in 0..N : f[n] \in Seq(Names)
        /\ f[0] = ns
        /\ \A n \in 1..N : f[n] = With(f[n - 1], evs[n])
    BY <1>2 DEF After
  <2>2. \A n \in 1..N : n - 1 \in 0..N
    BY <1>1
  <2> QED
    BY <2>1, <2>2
<1>4. Covers(f[N], evs)
  <2> DEFINE Sofar(n) == \A i \in 1..n : evs[i].kind = "call" => Has(f[n], evs[i].fn)
             T == {n \in 0..N : Sofar(n)}
  <2>1. 0 \in T
    BY <1>1
  <2>2. ASSUME NEW n \in 1..N, n - 1 \in T
        PROVE  n \in T
    <3>1. \A i \in 1..(n - 1) : evs[i].kind = "call" => Has(f[n - 1], evs[i].fn)
      BY <2>2
    <3>2. /\ \A g : Has(f[n - 1], g) => Has(f[n], g)
          /\ evs[n].kind = "call" => Has(f[n], evs[n].fn)
      BY <1>1, <1>3, WithKeeps
    <3>3. \A i \in 1..n : i \in 1..(n - 1) \/ i = n
      BY <1>1
    <3>4. Sofar(n)
      BY <3>1, <3>2, <3>3
    <3> QED
      BY <3>4, <1>1
  <2>3. 0..N \subseteq T
    <3> HIDE DEF T, N
    <3> QED
      BY <1>1, <2>1, <2>2, SetInduction
  <2> QED
    BY <1>1, <2>3 DEF Covers
<1>5. ASSUME Covers(ns, evs)
      PROVE  f[N] = ns
  <2> DEFINE T == {n \in 0..N : f[n] = ns}
  <2>1. 0 \in T
    BY <1>1, <1>3
  <2>2. ASSUME NEW n \in 1..N, n - 1 \in T
        PROVE  n \in T
    BY <1>1, <1>3, <1>5, <2>2 DEF With, Covers
  <2>3. 0..N \subseteq T
    <3> HIDE DEF T, N
    <3> QED
      BY <1>1, <2>1, <2>2, SetInduction
  <2> QED
    BY <1>1, <2>3
<1> QED
  BY <1>1, <1>2, <1>3, <1>4, <1>5
-----------------------------------------------------------------------------
(* The programs.                                                           *)

(* What a call can find, and what it finds when neither its program nor    *)
(* one before it changes an input.                                         *)
Contexts == [state : States, values : [DOMAIN inputs -> Values]]
Clean(k) == \A j \in 1..k : LeavesInputs(prog[j])
Legit(k) == {x \in Contexts : Clean(k) => x.values = inputs}

(* A list of inputs, its calls and what each of them passes.               *)
LEMMA InputsTyped ==
  ASSUME inputs \in InputLists
  PROVE  /\ Len(inputs) \in Nat \ {0} /\ DOMAIN inputs = 1..Len(inputs)
         /\ Calls = 1..(Len(inputs) + Repeats) /\ Repeats \in Nat /\ Repeats >= 2
         /\ \A c \in Calls : c \in Nat /\ c # 0
         /\ \A c \in Calls : Slot(c) \in DOMAIN inputs
         /\ inputs \in [DOMAIN inputs -> Values]
<1>1. /\ inputs \in Seq(Values) /\ Len(inputs) > 0
      /\ Repeats \in Nat /\ Repeats >= 2
  BY ExtractionAssumption
<1>2. /\ Len(inputs) \in Nat /\ DOMAIN inputs = 1..Len(inputs)
      /\ inputs \in [DOMAIN inputs -> Values]
  BY <1>1, LenProperties
<1>3. Calls = 1..(Len(inputs) + Repeats) /\ \A c \in Calls : c \in Nat /\ c # 0
  BY <1>1, <1>2 DEF Calls
<1>4. ASSUME NEW c \in Calls
      PROVE  Slot(c) \in DOMAIN inputs
  <2>1. CASE IsRepeat(c)
    BY <1>1, <1>2, <2>1 DEF Slot
  <2>2. CASE ~IsRepeat(c)
    BY <1>2, <1>3, <2>2 DEF Slot, IsRepeat
  <2> QED
    BY <2>1, <2>2
<1> QED
  BY <1>1, <1>2, <1>3, <1>4

(* Lines come after a call of their function.                              *)
LinesCalled(evs) ==
  \A n \in 1..Len(evs) : evs[n].kind = "line" =>
    \E m \in 1..(n - 1) : evs[m].kind = "call" /\ evs[m].fn = evs[n].fn

(* One sequence after another.                                             *)
LEMMA LinesConcat ==
  ASSUME NEW a \in Seq(Event), NEW b \in Seq(Event), LinesCalled(a), LinesCalled(b)
  PROVE  a \o b \in Seq(Event) /\ LinesCalled(a \o b)
<1> DEFINE s == a \o b
           n == Len(a)
<1>1. /\ s \in Seq(Event) /\ n \in Nat /\ Len(b) \in Nat /\ Len(s) = n + Len(b)
      /\ \A i \in 1..Len(s) : s[i] = IF i <= n THEN a[i] ELSE b[i - n]
  BY ConcatProperties, LenProperties
<1> HIDE DEF s
<1>2. ASSUME NEW i \in 1..Len(s), s[i].kind = "line"
      PROVE  \E m \in 1..(i - 1) : s[m].kind = "call" /\ s[m].fn = s[i].fn
  <2>1. CASE i <= n
    <3>1. i \in 1..n /\ s[i] = a[i]
      BY <1>1, <2>1
    <3>2. PICK m \in 1..(i - 1) : a[m].kind = "call" /\ a[m].fn = a[i].fn
      BY <1>2, <3>1 DEF LinesCalled
    <3>3. m \in 1..Len(s) /\ m <= n
      BY <1>1, <2>1
    <3>4. s[m] = a[m]
      BY <1>1, <3>3
    <3> QED
      BY <3>1, <3>2, <3>4
  <2>2. CASE i > n
    <3>1. i - n \in 1..Len(b) /\ s[i] = b[i - n]
      BY <1>1, <2>2
    <3>2. PICK m \in 1..((i - n) - 1) : b[m].kind = "call" /\ b[m].fn = b[i - n].fn
      BY <1>2, <3>1 DEF LinesCalled
    <3>3. n + m \in 1..(i - 1) /\ n + m \in 1..Len(s) /\ ~(n + m <= n) /\ (n + m) - n = m
      BY <1>1, <2>2
    <3>4. s[n + m] = b[m]
      BY <1>1, <3>3
    <3> QED
      BY <3>1, <3>2, <3>3, <3>4
  <2> QED
    BY <1>1, <2>1, <2>2
<1> QED
  BY <1>1, <1>2 DEF LinesCalled, s

(* The wrapper's own events do not come between a line and its call.       *)
LEMMA WrappedTyped ==
  ASSUME NEW evs \in Seq(Event), LinesCalled(evs), NEW exc
  PROVE  Wrapped(evs, exc) \in Seq(Event) /\ LinesCalled(Wrapped(evs, exc))
<1> DEFINE own(kind, line) == [kind |-> kind, fn |-> Wrapper, line |-> line]
           before == << own("call", 0), own("line", 1) >>
           raised == IF exc = NoError THEN <<>> ELSE << own("exception", 1) >>
           after == << own("return", 1) >>
<1>1. /\ own("call", 0) \in Event /\ own("line", 1) \in Event
      /\ own("exception", 1) \in Event /\ own("return", 1) \in Event
  BY CapAssumption DEF Event
<1>2. before \in Seq(Event) /\ LinesCalled(before)
  <2>1. before \in Seq(Event) /\ Len(before) = 2
    BY <1>1
  <2>2. before[1].kind = "call" /\ before[1].fn = before[2].fn
    OBVIOUS
  <2>3. \A n \in 1..2 : before[n].kind = "line" => n = 2
    OBVIOUS
  <2> QED
    BY <2>1, <2>2, <2>3 DEF LinesCalled
<1>3. raised \in Seq(Event) /\ LinesCalled(raised)
  <2>1. <<>> \in Seq(Event) /\ << own("exception", 1) >> \in Seq(Event)
    BY <1>1
  <2>2. LinesCalled(<<>>) /\ LinesCalled(<< own("exception", 1) >>)
    BY DEF LinesCalled
  <2> QED
    BY <2>1, <2>2
<1>4. after \in Seq(Event) /\ LinesCalled(after)
  BY <1>1 DEF LinesCalled
<1>5. Wrapped(evs, exc) = ((before \o evs) \o raised) \o after
  BY DEF Wrapped
<1> HIDE DEF before, raised, after
<1>6. before \o evs \in Seq(Event) /\ LinesCalled(before \o evs)
  BY <1>2, LinesConcat
<1>7. (before \o evs) \o raised \in Seq(Event) /\ LinesCalled((before \o evs) \o raised)
  BY <1>3, <1>6, LinesConcat
<1> QED
  BY <1>4, <1>5, <1>7, LinesConcat

(* What a call does, whatever it finds, is typed.                          *)
LEMMA OutcomeTyped ==
  ASSUME inputs \in InputLists, NEW p \in Programs, NEW c \in Calls, NEW x \in Contexts
  PROVE  /\ Outcome(p, c, x).events \in Seq(Event)
         /\ LinesCalled(Outcome(p, c, x).events)
         /\ Outcome(p, c, x).post \in States \cup {Kept}
         /\ Outcome(p, c, x).left \in Values \cup {Kept}
         /\ LeavesInputs(p) => Outcome(p, c, x).left = Kept
<1> DEFINE v == x.values[Slot(c)]
           o == Does[p][v][x.state]
<1>1. v \in Values /\ x.state \in States
  BY InputsTyped DEF Contexts
<1>2. /\ o \in [events : Seq(Event), exc : STRING, post : States \cup {Kept},
                left : Values \cup {Kept}, ends : BOOLEAN]
      /\ \A n \in DOMAIN o.events : o.events[n].kind = "line" =>
           \E m \in 1..(n - 1) :
             o.events[m].kind = "call" /\ o.events[m].fn = o.events[n].fn
      /\ LeavesInputs(p) => o.left = Kept
  <2>1. LeavesInputs(p) => o.left = Kept
    BY <1>1 DEF LeavesInputs
  <2>2. o \in [events : Seq(Event), exc : STRING, post : States \cup {Kept},
               left : Values \cup {Kept}, ends : BOOLEAN]
    BY <1>1, ExtractionAssumption
  <2>3. \A n \in DOMAIN o.events : o.events[n].kind = "line" =>
          \E m \in 1..(n - 1) :
            o.events[m].kind = "call" /\ o.events[m].fn = o.events[n].fn
    <3>1. \A u \in Values, s \in States : \A n \in DOMAIN Does[p][u][s].events :
            Does[p][u][s].events[n].kind = "line" =>
              \E m \in 1..(n - 1) :
                /\ Does[p][u][s].events[m].kind = "call"
                /\ Does[p][u][s].events[m].fn = Does[p][u][s].events[n].fn
      BY ExtractionAssumption
    <3> QED
      BY <1>1, <3>1
  <2> QED
    BY <2>1, <2>2, <2>3
<1>3. /\ Outcome(p, c, x) =
           CASE ~IsRepeat(c) -> [o EXCEPT !.events = Wrapped(@, o.exc)]
             [] IsRepeat(c) /\ v \in Tuples -> NotCalled
             [] OTHER -> o
  BY DEF Outcome
<1> HIDE DEF o, v
<1>4. o.events \in Seq(Event) /\ LinesCalled(o.events)
  <2>1. o.events \in Seq(Event) /\ DOMAIN o.events = 1..Len(o.events)
    BY <1>2, LenProperties
  <2> QED
    BY <1>2, <2>1 DEF LinesCalled
<1>5. Wrapped(o.events, o.exc) \in Seq(Event) /\ LinesCalled(Wrapped(o.events, o.exc))
  BY <1>4, WrappedTyped
<1>6. <<>> \in Seq(Event) /\ LinesCalled(<<>>)
  BY EmptySeq DEF LinesCalled
<1>7. CASE ~IsRepeat(c)
  BY <1>2, <1>3, <1>5, <1>7
<1>8. CASE IsRepeat(c) /\ v \in Tuples
  <2>1. Outcome(p, c, x) = NotCalled
    BY <1>3, <1>8
  <2> QED
    BY <1>6, <2>1 DEF NotCalled
<1>9. CASE IsRepeat(c) /\ v \notin Tuples
  BY <1>2, <1>3, <1>4, <1>9
<1> QED
  BY <1>7, <1>8, <1>9

(* What it leaves can be found by the next one.                            *)
LEMMA LeavesTyped ==
  ASSUME inputs \in InputLists, NEW c \in Calls, NEW x \in Contexts, NEW o,
         o.post \in States \cup {Kept}, o.left \in Values \cup {Kept}
  PROVE  /\ Leaves(c, o, x) \in Contexts
         /\ o.left = Kept => Leaves(c, o, x).values = x.values
<1>1. x.state \in States /\ x.values \in [DOMAIN inputs -> Values] /\ Slot(c) \in DOMAIN inputs
  BY InputsTyped DEF Contexts
<1>2. Unless(o.post, x.state) \in States
  BY <1>1 DEF Unless
<1>3. \A u \in Values : Unless(o.left, u) \in Values
  BY DEF Unless
<1>4. [x.values EXCEPT ![Slot(c)] = Unless(o.left, @)] \in [DOMAIN inputs -> Values]
  BY <1>1, <1>3
<1>5. o.left = Kept => [x.values EXCEPT ![Slot(c)] = Unless(o.left, @)] = x.values
  BY <1>1 DEF Unless
<1> QED
  BY <1>2, <1>4, <1>5 DEF Leaves, Contexts

(* What every call finds when they run alone and in order.                 *)
LEMMA RunTyped ==
  ASSUME inputs \in InputLists, NEW p \in Programs, NEW vs \in [DOMAIN inputs -> Values]
  PROVE  /\ Run(p, vs)[1] = [state |-> Fresh, values |-> vs]
         /\ \A c \in Calls :
              /\ Run(p, vs)[c] \in Contexts
              /\ Run(p, vs)[c + 1] = Leaves(c, Outcome(p, c, Run(p, vs)[c]), Run(p, vs)[c])
         /\ Run(p, vs)[Len(inputs) + Repeats + 1] \in Contexts
         /\ LeavesInputs(p) =>
              \A c \in Calls \cup {Len(inputs) + Repeats + 1} : Run(p, vs)[c].values = vs
<1> DEFINE N == Len(inputs) + Repeats
           base == [state |-> Fresh, values |-> vs]
           Next1(c, x) == Leaves(c, Outcome(p, c, x), x)
           step == [y \in (1..N) \X Contexts |-> Next1(y[1], y[2])]
           Eq(f) == f = [c \in 1..(Len(inputs) + Repeats + 1) |->
                           IF c = 1 THEN [state |-> Fresh, values |-> vs]
                           ELSE Leaves(c - 1, Outcome(p, c - 1, f[c - 1]), f[c - 1])]
           st == CHOOSE f : Eq(f)
<1>1. N \in Nat /\ Calls = 1..N /\ base \in Contexts
  BY InputsTyped, ExtractionAssumption DEF Contexts
<1>2. ASSUME NEW c \in 1..N, NEW x \in Contexts
      PROVE  Next1(c, x) \in Contexts /\ (LeavesInputs(p) => Next1(c, x).values = x.values)
  BY <1>1, OutcomeTyped, LeavesTyped
<1> HIDE DEF base
<1>3. step \in [(1..N) \X Contexts -> Contexts]
  <2> HIDE DEF Next1
  <2>1. \A y \in (1..N) \X Contexts : Next1(y[1], y[2]) \in Contexts
    BY <1>2
  <2> QED
    BY <2>1
<1>4. PICK h \in [0..N -> Contexts] : Follows(h, base, step, N)
  <2> HIDE DEF step, N
  <2> QED
    BY <1>1, <1>3, Recursion
<1> DEFINE g == [c \in 1..(Len(inputs) + Repeats + 1) |-> h[c - 1]]
<1>5. h[0] = base /\ \A n \in 1..N : h[n] = Next1(n, h[n - 1])
  <2> HIDE DEF Next1
  <2>1. \A n \in 1..N : <<n, h[n - 1]>> \in (1..N) \X Contexts
    <3> TAKE n \in 1..N
    <3>1. n - 1 \in 0..N
      BY <1>1
    <3> HIDE DEF N
    <3> QED
      BY <1>4, <3>1
  <2>2. \A n \in 1..N : step[<<n, h[n - 1]>>] = Next1(n, h[n - 1])
    BY <2>1
  <2> QED
    BY <1>4, <2>2 DEF Follows
<1>6. Eq(g)
  <2>1. ASSUME NEW c \in 1..(Len(inputs) + Repeats + 1)
        PROVE  g[c] = IF c = 1 THEN [state |-> Fresh, values |-> vs]
                      ELSE Leaves(c - 1, Outcome(p, c - 1, g[c - 1]), g[c - 1])
    <3>1. CASE c = 1
      BY <1>5, <3>1, InputsTyped DEF base
    <3>2. CASE c # 1
      <4>1. c - 1 \in 1..N /\ c - 1 \in 1..(Len(inputs) + Repeats + 1)
        BY <3>2, InputsTyped
      <4>2. g[c] = h[c - 1] /\ g[c - 1] = h[(c - 1) - 1]
        BY <4>1
      <4>3. h[c - 1] = Next1(c - 1, h[(c - 1) - 1])
        BY <1>5, <4>1
      <4> QED
        BY <3>2, <4>2, <4>3
    <3> QED
      BY <3>1, <3>2
  <2> QED
    BY <2>1
<1>7. Eq(st)
  <2> HIDE DEF g
  <2> QED
    BY <1>6
<1>8. Run(p, vs) = st
  BY DEF Run
<1>9. /\ st[1] = base
      /\ \A c \in 1..N : st[c + 1] = Next1(c, st[c])
  <2>1. st[1] = base
    <3>1. 1 \in 1..(Len(inputs) + Repeats + 1)
      BY <1>1
    <3> HIDE DEF st, N
    <3> QED
      BY <1>7, <3>1 DEF base
  <2>2. ASSUME NEW c \in 1..N PROVE st[c + 1] = Next1(c, st[c])
    <3>1. c + 1 \in 1..(Len(inputs) + Repeats + 1) /\ c + 1 # 1 /\ (c + 1) - 1 = c
      BY <1>1
    <3> HIDE DEF st, N
    <3> QED
      BY <1>7, <3>1
  <2> QED
    BY <2>1, <2>2
<1> HIDE DEF st, g, step, Next1
<1>10. \A n \in 0..N : st[n + 1] \in Contexts /\ (LeavesInputs(p) => st[n + 1].values = vs)
  <2> DEFINE T == {n \in 0..N : /\ st[n + 1] \in Contexts
                                /\ LeavesInputs(p) => st[n + 1].values = vs}
  <2>1. 0 \in T
    BY <1>1, <1>9 DEF base
  <2>2. ASSUME NEW n \in 1..N, n - 1 \in T
        PROVE  n \in T
    <3>1. n \in 0..N /\ (n - 1) + 1 = n
      BY <1>1
    <3>2. st[n] \in Contexts /\ (LeavesInputs(p) => st[n].values = vs)
      BY <2>2, <3>1
    <3>3. st[n + 1] = Next1(n, st[n])
      BY <1>9
    <3> QED
      BY <1>2, <3>1, <3>2, <3>3
  <2>3. 0..N \subseteq T
    <3> HIDE DEF T, N
    <3> QED
      BY <1>1, <2>1, <2>2, SetInduction
  <2> QED
    BY <2>3
<1>11. \A c \in Calls \cup {N + 1} : c - 1 \in 0..N /\ (c - 1) + 1 = c
  BY <1>1
<1>12. \A c \in Calls \cup {N + 1} : st[c] \in Contexts /\ (LeavesInputs(p) => st[c].values = vs)
  BY <1>10, <1>11
<1> QED
  BY <1>1, <1>8, <1>9, <1>12 DEF Next1, base

(* What the calls of a program find, the second one after the first.       *)
LEMMA BeforeTyped ==
  ASSUME inputs \in InputLists, prog \in [Subjects -> Programs], NEW k \in Subjects
  PROVE  /\ Start(k) \in [DOMAIN inputs -> Values]
         /\ Before(k)[1] = [state |-> Fresh, values |-> Start(k)]
         /\ \A c \in Calls :
              /\ Before(k)[c] \in Contexts /\ Before(k)[c] \in Legit(k)
              /\ Before(k)[c + 1] = Leaves(c, Alone(k, c), Before(k)[c])
         /\ Before(k)[Len(inputs) + Repeats + 1] \in Contexts
         /\ LeavesInputs(prog[1]) => Start(k) = inputs
<1>1. /\ 1 \in Subjects /\ prog[1] \in Programs /\ prog[k] \in Programs
      /\ inputs \in [DOMAIN inputs -> Values] /\ k \in 1..2
  BY InputsTyped DEF Subjects
<1>2. /\ Run(prog[1], inputs)[Len(inputs) + Repeats + 1] \in Contexts
      /\ LeavesInputs(prog[1]) =>
           Run(prog[1], inputs)[Len(inputs) + Repeats + 1].values = inputs
  <2> DEFINE p == prog[1]  last == Len(inputs) + Repeats + 1
  <2>1. p \in Programs /\ last \in Calls \cup {last}
    BY <1>1
  <2> HIDE DEF p
  <2>2. /\ Run(p, inputs)[last] \in Contexts
        /\ LeavesInputs(p) => \A c \in Calls \cup {last} : Run(p, inputs)[c].values = inputs
    BY <1>1, <2>1, RunTyped
  <2> QED
    BY <2>1, <2>2 DEF p
<1>3. Start(k) \in [DOMAIN inputs -> Values] /\ (LeavesInputs(prog[1]) => Start(k) = inputs)
  BY <1>1, <1>2 DEF Start, Contexts
<1>4. /\ Before(k)[1] = [state |-> Fresh, values |-> Start(k)]
      /\ \A c \in Calls :
           /\ Before(k)[c] \in Contexts
           /\ Before(k)[c + 1] = Leaves(c, Alone(k, c), Before(k)[c])
      /\ Before(k)[Len(inputs) + Repeats + 1] \in Contexts
      /\ LeavesInputs(prog[k]) => \A c \in Calls : Before(k)[c].values = Start(k)
  BY <1>1, <1>3, RunTyped DEF Before, Alone
<1>5. Clean(k) => LeavesInputs(prog[1]) /\ LeavesInputs(prog[k])
  <2>1. 1 \in 1..k /\ k \in 1..k
    BY <1>1
  <2> QED
    BY <2>1 DEF Clean
<1>6. \A c \in Calls : Before(k)[c] \in Legit(k)
  BY <1>3, <1>4, <1>5 DEF Legit
<1> QED
  BY <1>3, <1>4, <1>6

(* What the tracer sees of a call.                                         *)
LEMMA RecordedTyped ==
  ASSUME NEW evs \in Seq(Event)
  PROVE  Recorded(evs) \in Seq(Event) /\ Len(Recorded(evs)) \in 0..MaxEvents
<1>1. Len(evs) \in Nat /\ DOMAIN evs = 1..Len(evs) /\ MaxEvents \in Nat
  BY LenProperties, CapAssumption
<1>2. \A n \in 0..Len(evs) : SubSeq(evs, 1, n) \in Seq(Event) /\ Len(SubSeq(evs, 1, n)) = n
  BY <1>1, SubSeqProperties
<1> QED
  BY <1>1, <1>2 DEF Recorded

(* No more than MaxEvents events of a call are seen.                       *)
LEMMA SeenTyped ==
  ASSUME inputs \in InputLists, NEW p \in Programs, NEW c \in Calls, NEW x \in Contexts
  PROVE  LET v == SeenOf(Outcome(p, c, x)) IN
         v.events \in Seq(Event) /\ Len(v.events) \in 0..MaxEvents
<1>1. <<>> \in Seq(Event) /\ Len(<<>>) \in 0..MaxEvents
  BY EmptySeq, CapAssumption
<1> QED
  BY <1>1, OutcomeTyped, RecordedTyped DEF SeenOf

(* A program without state is seen to do the same with the same input,     *)
(* whatever the state.                                                     *)
LEMMA StatelessSees ==
  ASSUME inputs \in InputLists, NEW p \in Programs, Stateless(p),
         NEW c \in Calls, NEW x \in Contexts, NEW y \in Contexts, x.values = y.values
  PROVE  SeenOf(Outcome(p, c, x)) = SeenOf(Outcome(p, c, y))
<1> DEFINE v == x.values[Slot(c)]
           o == Does[p][v][x.state]
           q == Does[p][v][y.state]
<1>1. v \in Values /\ x.state \in States /\ y.state \in States
  BY InputsTyped DEF Contexts
<1>2. o.events = q.events /\ o.exc = q.exc
  BY <1>1 DEF Stateless
<1>3. /\ o \in [events : Seq(Event), exc : STRING, post : States \cup {Kept},
                left : Values \cup {Kept}, ends : BOOLEAN]
      /\ q \in [events : Seq(Event), exc : STRING, post : States \cup {Kept},
                left : Values \cup {Kept}, ends : BOOLEAN]
  BY <1>1, ExtractionAssumption
<1>4. /\ Outcome(p, c, x) =
           CASE ~IsRepeat(c) -> [o EXCEPT !.events = Wrapped(@, o.exc)]
             [] IsRepeat(c) /\ v \in Tuples -> NotCalled
             [] OTHER -> o
      /\ Outcome(p, c, y) =
           CASE ~IsRepeat(c) -> [q EXCEPT !.events = Wrapped(@, q.exc)]
             [] IsRepeat(c) /\ v \in Tuples -> NotCalled
             [] OTHER -> q
  BY DEF Outcome
<1> HIDE DEF v, o, q
<1>5. /\ Outcome(p, c, x).events = Outcome(p, c, y).events
      /\ Outcome(p, c, x).exc = Outcome(p, c, y).exc
  BY <1>2, <1>3, <1>4
<1> QED
  BY <1>5 DEF SeenOf

(* Every repeat is the same call.                                          *)
LEMMA RepeatsAlike ==
  ASSUME inputs \in InputLists, NEW p, NEW c \in Calls, IsRepeat(c), NEW x
  PROVE  Outcome(p, c, x) = Outcome(p, Len(inputs) + 1, x)
<1>1. IsRepeat(Len(inputs) + 1)
  BY InputsTyped DEF IsRepeat
<1> QED
  BY <1>1 DEF Outcome, Slot

-----------------------------------------------------------------------------
(* The inductive invariant.                                                *)

Pcs == {"none", "new", "inside", "leaving", "ended"}
Outs == {Outcome(p, c, x) : p \in Programs, c \in Calls, x \in Contexts}
          \cup {NotCalled}
IsSeq(s) == s \in Seq({s[i] : i \in DOMAIN s})

(* The calls of program k that the host has recorded.                      *)
Finished(k) ==
  CASE k < subject -> Len(inputs) + Repeats
    [] k = subject -> IF joining THEN call - 1 ELSE call
    [] OTHER       -> 0

Typing ==
  /\ prog \in [Subjects -> Programs] /\ inputs \in InputLists
  /\ subject \in 1..3 /\ call \in Calls \cup {0} /\ joining \in BOOLEAN
  /\ joining => subject \in Subjects /\ call \in Calls
  /\ mutable \in [Subjects -> States] /\ objects \in [DOMAIN inputs -> Values]
  /\ thread \in [AllCalls -> [pc : Pcs, out : Outs]]
  /\ result = [w \in AllCalls |-> result[w]]
  /\ names \in [Subjects -> Seq(Names)]
  /\ entries = [k \in Subjects |-> entries[k]]
  /\ runHashes = [k \in Subjects |-> runHashes[k]]
  /\ givenUp \subseteq AllCalls

(* The second program has not begun while the first is profiled, and the   *)
(* inputs are unchanged while only programs that leave them alone ran.     *)
Later ==
  /\ \A w \in AllCalls : w[1] > subject => thread[w].pc = "none" /\ result[w] = <<>>
  /\ \A k \in Subjects : k > subject => mutable[k] = Fresh
Untouched == subject \in Subjects /\ Clean(subject) => objects = inputs

(* A thread does what its program does with what it found, and its queue   *)
(* holds what was seen of that, or nothing.                                *)
Finds(w) == IF w[1] = subject THEN Legit(w[1]) ELSE Contexts
Ran(w) ==
  thread[w].pc \in {"inside", "leaving", "ended"} =>
    \E x \in Finds(w) : thread[w].out = Outcome(prog[w[1]], w[2], x)
Heard(w) ==
  \/ result[w] = <<>>
  \/ \E x \in Finds(w) :
       LET o == Outcome(prog[w[1]], w[2], x) IN
       /\ o.exc # "SystemExit"
       /\ result[w] = << [events |-> Recorded(o.events), exc |-> o.exc] >>
Threads == \A w \in AllCalls : Ran(w) /\ Heard(w)

(* A thread that has ended and left nothing has exited.                    *)
Silent ==
  joining /\ thread[Current].pc = "ended" /\ result[Current] = <<>>
    => thread[Current].out.exc = "SystemExit"

Booked ==
  \A k \in Subjects :
    /\ IsSeq(entries[k]) /\ IsSeq(runHashes[k])
    /\ Len(entries[k]) = IF Finished(k) <= Len(inputs) THEN Finished(k) ELSE Len(inputs)
    /\ Len(runHashes[k]) =
         IF Finished(k) <= Len(inputs) THEN 0 ELSE Finished(k) - Len(inputs)
    /\ \A c \in 1..Len(entries[k]) : entries[k][c].length \in 0..MaxEvents

(* The repeats of a program without state all show the same, and after the *)
(* first of them every function in it has its number.                      *)
Launch == [state |-> Fresh, values |-> inputs]
Shown(k) == SeenOf(Outcome(prog[k], Len(inputs) + 1, Launch)).events
Sound(k) == Stateless(prog[k]) /\ Clean(k)
Undisturbed(k) ==
  Sound(k) /\ \A c \in Calls : IsRepeat(c) => <<k, c>> \notin givenUp
Steady ==
  \A k \in Subjects : Undisturbed(k) =>
    /\ \A i \in 1..Len(runHashes[k]) : runHashes[k][i] = LineSeq(names[k], Shown(k))
    /\ Len(runHashes[k]) # 0 => Covers(names[k], Shown(k))

Inv == Typing /\ Later /\ Untouched /\ Threads /\ Silent /\ Booked /\ Steady

-----------------------------------------------------------------------------
(* Calls as pairs of a program and a number.                               *)
LEMMA AllCallsFacts ==
  /\ \A k \in Subjects, c \in Calls : <<k, c>> \in AllCalls
  /\ \A w \in AllCalls : w[1] \in Subjects /\ w[2] \in Calls /\ w = <<w[1], w[2]>>
  /\ \A k : givenUp \subseteq AllCalls =>
       \A c : c \in GivenUpBy(k) <=> <<k, c>> \in givenUp
<1>1. \A w \in AllCalls : w[1] \in Subjects /\ w[2] \in Calls /\ w = <<w[1], w[2]>>
  BY DEF AllCalls
<1>2. ASSUME NEW k, givenUp \subseteq AllCalls, NEW c
      PROVE  c \in GivenUpBy(k) <=> <<k, c>> \in givenUp
  <2>1. ASSUME <<k, c>> \in givenUp PROVE c \in GivenUpBy(k)
    <3>1. <<k, c>>[1] = k /\ <<k, c>>[2] = c
      OBVIOUS
    <3> QED
      BY <2>1, <3>1 DEF GivenUpBy
  <2>2. ASSUME c \in GivenUpBy(k) PROVE <<k, c>> \in givenUp
    <3>1. PICK w \in givenUp : w[1] = k /\ w[2] = c
      BY <2>2 DEF GivenUpBy
    <3> QED
      BY <1>1, <1>2, <3>1
  <2> QED
    BY <2>1, <2>2
<1> QED
  BY <1>1, <1>2 DEF AllCalls

(* Append on a sequence of anything, such as entries and hashes.           *)
LEMMA Appended ==
  ASSUME NEW s, IsSeq(s), NEW e
  PROVE  /\ IsSeq(Append(s, e)) /\ Len(s) \in Nat /\ Len(Append(s, e)) = Len(s) + 1
         /\ \A i \in 1..Len(s) : Append(s, e)[i] = s[i]
         /\ Append(s, e)[Len(s) + 1] = e
<1> DEFINE S == {s[i] : i \in DOMAIN s} \cup {e}
           a == Append(s, e)
<1>1. s \in Seq(S) /\ Len(s) \in Nat /\ DOMAIN s = 1..Len(s) /\ e \in S
  <2>1. {s[i] : i \in DOMAIN s} \subseteq S
    OBVIOUS
  <2> QED
    BY <2>1, LenProperties DEF IsSeq
<1>2. /\ a \in Seq(S) /\ Len(a) = Len(s) + 1
      /\ \A i \in 1..Len(s) : a[i] = s[i]
      /\ a[Len(s) + 1] = e
      /\ DOMAIN a = 1..Len(a)
  <2> HIDE DEF S
  <2> QED
    BY <1>1, AppendProperties, LenProperties
<1>3. a \in Seq({a[i] : i \in DOMAIN a})
  <2> DEFINE R == {a[i] : i \in DOMAIN a}
  <2>1. \A i \in 1..Len(a) : a[i] \in R
    BY <1>2
  <2>2. a \in [1..Len(a) -> S] /\ Len(a) \in Nat
    <3> HIDE DEF S, a
    <3> QED
      BY <1>2, LenProperties
  <2> HIDE DEF S, a, R
  <2>3. a \in [1..Len(a) -> R]
    BY <2>1, <2>2
  <2>4. a \in Seq(R)
    BY <2>2, <2>3, SeqDef
  <2> QED
    BY <2>4 DEF R
<1> QED
  BY <1>1, <1>2, <1>3 DEF IsSeq

(* What depends on the programs and the inputs alone.                      *)
LEMMA Fixed ==
  ASSUME UNCHANGED <<prog, inputs>>
  PROVE  /\ Calls' = Calls /\ AllCalls' = AllCalls /\ Outs' = Outs
         /\ \A c : IsRepeat(c)' = IsRepeat(c)
         /\ \A p, c, x : Outcome(p, c, x)' = Outcome(p, c, x)
         /\ Contexts' = Contexts
         /\ \A k : Sound(k)' = Sound(k) /\ Clean(k)' = Clean(k) /\ Legit(k)' = Legit(k)
         /\ \A k : Shown(k)' = Shown(k)
<1>1. /\ Calls' = Calls
      /\ \A c : IsRepeat(c)' = IsRepeat(c)
      /\ \A c : Slot(c)' = Slot(c)
      /\ Contexts' = Contexts /\ Launch' = Launch
  BY DEF Calls, IsRepeat, Slot, Contexts, Launch
<1>2. AllCalls' = AllCalls
  BY <1>1 DEF AllCalls
<1>3. \A p, c, x : Outcome(p, c, x)' = Outcome(p, c, x)
  BY <1>1 DEF Outcome
<1>4. /\ Outs' = Outs
      /\ \A k : Sound(k)' = Sound(k) /\ Clean(k)' = Clean(k) /\ Legit(k)' = Legit(k)
      /\ \A k : Shown(k)' = Shown(k)
  BY <1>1, <1>3 DEF Outs, Sound, Clean, Stateless, LeavesInputs, Legit, Shown
<1> QED
  BY <1>1, <1>2, <1>3, <1>4

(* Parts of the invariant that read only what a step leaves alone.         *)
Books == <<prog, inputs, subject, call, joining, names, entries, runHashes, givenUp>>
LEMMA BooksKept ==
  ASSUME Inv, UNCHANGED Books
  PROVE  Booked' /\ Steady'
<1> USE DEF Books
<1>1. \A k : Finished(k)' = Finished(k)
  BY DEF Finished
<1>2. Booked'
  BY <1>1 DEF Inv, Booked
<1>3. Steady'
  BY Fixed DEF Inv, Steady, Undisturbed
<1> QED
  BY <1>2, <1>3

(* A step of a call's thread, the current one or one left behind.          *)
LEMMA ThreadStep ==
  ASSUME Inv, NEW w \in AllCalls, Enter(w) \/ Mutate(w) \/ Finish(w)
  PROVE  Inv'
<1>1. /\ UNCHANGED <<prog, inputs, hostVars, givenUp>> /\ UNCHANGED Books
      /\ Current' = Current
  BY DEF Enter, Mutate, Finish, Books, hostVars, Current
<1>2. Booked' /\ Steady'
  BY <1>1, BooksKept
<1>3. /\ w[1] \in Subjects /\ w[2] \in Calls /\ w = <<w[1], w[2]>>
      /\ prog[w[1]] \in Programs /\ inputs \in InputLists
      /\ thread[w] \in [pc : Pcs, out : Outs] /\ thread \in [AllCalls -> [pc : Pcs, out : Outs]]
      /\ subject \in 1..3 /\ w[1] \in 1..2
  BY AllCallsFacts DEF Inv, Typing, Subjects
<1>4. /\ thread' = [v \in AllCalls |-> IF v = w THEN thread'[w] ELSE thread[v]]
      /\ result' = [v \in AllCalls |-> IF v = w THEN result'[w] ELSE result[v]]
      /\ thread[w].pc # "none" /\ w[1] <= subject
  <2>1. /\ thread' = [v \in AllCalls |-> IF v = w THEN thread'[w] ELSE thread[v]]
        /\ result' = [v \in AllCalls |-> IF v = w THEN result'[w] ELSE result[v]]
        /\ thread[w].pc # "none"
    BY <1>3 DEF Enter, Mutate, Finish, Inv, Typing, QueueOf
  <2>2. ~(w[1] > subject)
    BY <2>1 DEF Inv, Later
  <2> QED
    BY <1>3, <2>1, <2>2
<1>5. ASSUME thread'[w] \in [pc : Pcs, out : Outs], mutable' \in [Subjects -> States],
             objects' \in [DOMAIN inputs -> Values]
      PROVE  Typing'
  <2>1. thread' \in [AllCalls -> [pc : Pcs, out : Outs]]
    BY <1>3, <1>4, <1>5
  <2>2. result' = [v \in AllCalls |-> result'[v]]
    BY <1>4
  <2>3. /\ prog' \in [Subjects -> Programs] /\ inputs' \in InputLists
        /\ subject' \in 1..3 /\ call' \in Calls' \cup {0} /\ joining' \in BOOLEAN
        /\ (joining' => subject' \in Subjects /\ call' \in Calls')
        /\ names' \in [Subjects -> Seq(Names)]
        /\ entries' = [k \in Subjects |-> entries'[k]]
        /\ runHashes' = [k \in Subjects |-> runHashes'[k]]
        /\ givenUp' \subseteq AllCalls
    BY <1>1, Fixed DEF Inv, Typing, hostVars
  <2> QED
    BY <1>1, <1>5, <2>1, <2>2, <2>3, Fixed DEF Typing
<1>6. \A v : Finds(v)' = Finds(v)
  BY <1>1, Fixed DEF Finds, hostVars
<1>7. ASSUME Ran(w)', Heard(w)'
      PROVE  Threads'
  <2>1. ASSUME NEW v \in AllCalls, v # w
        PROVE  Ran(v)' /\ Heard(v)'
    <3>1. Ran(v) /\ Heard(v) /\ thread'[v] = thread[v] /\ result'[v] = result[v]
      BY <1>4, <2>1 DEF Inv, Threads
    <3>2. Ran(v)'
      BY <1>1, <1>6, <3>1, Fixed DEF Ran
    <3>3. Heard(v)'
      BY <1>1, <1>6, <3>1, Fixed DEF Heard
    <3> QED
      BY <3>2, <3>3
  <2> QED
    BY <1>1, <1>7, <2>1, Fixed DEF Threads
<1>8. ASSUME \A k \in Subjects : k # w[1] => mutable'[k] = mutable[k]
      PROVE  Later'
  <2>1. ASSUME NEW v \in AllCalls, v[1] > subject
        PROVE  thread'[v].pc = "none" /\ result'[v] = <<>>
    <3>1. v # w
      BY <1>3, <1>4, <2>1
    <3> QED
      BY <1>4, <2>1, <3>1 DEF Inv, Later
  <2>2. ASSUME NEW k \in Subjects, k > subject
        PROVE  mutable'[k] = Fresh
    <3>1. k # w[1]
      BY <1>3, <1>4, <2>2
    <3> QED
      BY <1>8, <2>2, <3>1 DEF Inv, Later
  <2> QED
    BY <1>1, <2>1, <2>2, Fixed DEF Later, hostVars
<1>9. ASSUME objects' = objects
      PROVE  Untouched'
  BY <1>1, <1>9, Fixed DEF Inv, Untouched, hostVars
<1>10. Found(w[1]) \in Finds(w) /\ Found(w[1]) \in Contexts /\ Finds(w) \subseteq Contexts
  <2>1. Found(w[1]) \in Contexts
    BY <1>3 DEF Inv, Typing, Found, Contexts
  <2>2. w[1] = subject /\ Clean(w[1]) => Found(w[1]).values = inputs
    BY <1>3 DEF Inv, Untouched, Found
  <2> QED
    BY <2>1, <2>2 DEF Finds, Legit
<1>11. CASE Enter(w)
  <2>1. /\ thread'[w] = [pc |-> "inside", out |-> Outcome(prog[w[1]], w[2], Found(w[1]))]
        /\ mutable' = mutable /\ objects' = objects /\ result' = result
    BY <1>3, <1>11 DEF Enter, shared
  <2>2. Outcome(prog[w[1]], w[2], Found(w[1])) \in Outs
    BY <1>3, <1>10 DEF Outs
  <2>3. Typing'
    BY <1>5, <2>1, <2>2 DEF Inv, Typing, Pcs
  <2>4. Threads'
    <3>1. Ran(w)'
      BY <1>1, <1>3, <1>6, <1>10, <2>1, Fixed DEF Ran
    <3>2. Heard(w)
      BY DEF Inv, Threads
    <3>3. Heard(w)'
      BY <1>1, <1>6, <2>1, <3>2, Fixed DEF Heard
    <3> QED
      BY <1>7, <3>1, <3>3
  <2>5. Silent'
    <3>1. CASE Current = w
      BY <1>1, <2>1, <3>1 DEF Silent
    <3>2. CASE Current # w
      BY <1>1, <1>4, <2>1, <3>2, AllCallsFacts DEF Inv, Silent, Typing, Current, hostVars
    <3> QED
      BY <3>1, <3>2
  <2>6. Later' /\ Untouched'
    BY <1>8, <1>9, <2>1
  <2> QED
    BY <1>2, <2>3, <2>4, <2>5, <2>6 DEF Inv
<1>12. CASE Mutate(w)
  <2> DEFINE after == Leaves(w[2], thread[w].out, Found(w[1]))
  <2>1. /\ thread'[w].pc = "leaving" /\ thread'[w].out = thread[w].out
        /\ thread'[w] \in [pc : Pcs, out : Outs]
        /\ thread[w].pc = "inside" /\ result' = result
        /\ mutable' = [mutable EXCEPT ![w[1]] = after.state]
        /\ objects' = after.values
    BY <1>3, <1>12 DEF Mutate, Pcs
  <2>2. PICK x \in Finds(w) : thread[w].out = Outcome(prog[w[1]], w[2], x)
    BY <2>1 DEF Inv, Threads, Ran
  <2>3. /\ thread[w].out.post \in States \cup {Kept}
        /\ thread[w].out.left \in Values \cup {Kept}
        /\ LeavesInputs(prog[w[1]]) => thread[w].out.left = Kept
    BY <1>3, <1>10, <2>2, OutcomeTyped
  <2>4. after \in Contexts /\ (LeavesInputs(prog[w[1]]) => after.values = Found(w[1]).values)
    BY <1>3, <1>10, <2>3, LeavesTyped
  <2> HIDE DEF after
  <2>5. Typing'
    <3>1. mutable' \in [Subjects -> States] /\ objects' \in [DOMAIN inputs -> Values]
      BY <1>3, <2>1, <2>4 DEF Inv, Typing, Contexts
    <3> QED
      BY <1>5, <2>1, <3>1
  <2>6. Threads'
    <3>1. Ran(w)'
      BY <1>1, <1>6, <2>1, <2>2, Fixed DEF Ran
    <3>2. Heard(w)
      BY DEF Inv, Threads
    <3>3. Heard(w)'
      BY <1>1, <1>6, <2>1, <3>2, Fixed DEF Heard
    <3> QED
      BY <1>7, <3>1, <3>3
  <2>7. Silent'
    <3>1. CASE Current = w
      BY <1>1, <2>1, <3>1 DEF Silent
    <3>2. CASE Current # w
      BY <1>1, <1>4, <2>1, <3>2, AllCallsFacts DEF Inv, Silent, Typing, Current, hostVars
    <3> QED
      BY <3>1, <3>2
  <2>8. Later'
    BY <1>8, <2>1 DEF Inv, Typing
  <2>9. Untouched'
    <3>1. ASSUME subject \in Subjects, Clean(subject) PROVE objects' = inputs
      <4>1. LeavesInputs(prog[w[1]])
        BY <1>3, <1>4, <3>1 DEF Clean
      <4> QED
        BY <2>1, <2>4, <3>1, <4>1 DEF Found, Inv, Untouched
    <3> QED
      BY <1>1, <3>1, Fixed DEF Untouched, hostVars
  <2> QED
    BY <1>2, <2>5, <2>6, <2>7, <2>8, <2>9 DEF Inv
<1>13. CASE Finish(w)
  <2>1. /\ thread'[w].pc = "ended" /\ thread'[w].out = thread[w].out
        /\ thread'[w] \in [pc : Pcs, out : Outs]
        /\ thread[w].pc = "leaving" /\ mutable' = mutable /\ objects' = objects
        /\ result'[w] = IF thread[w].out.exc = "SystemExit" \/ result[w] # <<>>
                        THEN result[w]
                        ELSE << [events |-> Recorded(thread[w].out.events),
                                 exc |-> thread[w].out.exc] >>
    BY <1>3, <1>13 DEF Finish, Pcs, QueueOf, Inv, Typing, shared
  <2>2. PICK x \in Finds(w) : thread[w].out = Outcome(prog[w[1]], w[2], x)
    BY <2>1 DEF Inv, Threads, Ran
  <2>3. Typing'
    BY <1>5, <2>1 DEF Inv, Typing
  <2>4. Threads'
    <3>1. Ran(w)'
      BY <1>1, <1>6, <2>1, <2>2, Fixed DEF Ran
    <3>2. Heard(w)
      BY DEF Inv, Threads
    <3>3. Heard(w)'
      BY <1>1, <1>6, <2>1, <2>2, <3>2, Fixed DEF Heard
    <3> QED
      BY <1>7, <3>1, <3>3
  <2>5. Silent'
    <3>1. CASE Current = w
      BY <1>1, <2>1, <3>1 DEF Silent
    <3>2. CASE Current # w
      BY <1>1, <1>4, <3>2, AllCallsFacts DEF Inv, Silent, Typing, Current, hostVars
    <3> QED
      BY <3>1, <3>2
  <2>6. Later' /\ Untouched'
    BY <1>8, <1>9, <2>1
  <2> QED
    BY <1>2, <2>3, <2>4, <2>5, <2>6 DEF Inv
<1> QED
  BY <1>11, <1>12, <1>13

(* The host goes on to its next call or to the other program.              *)
LEMMA NextCallStep ==
  ASSUME Inv, StartCall \/ NextSubject
  PROVE  Inv'
<1>1. /\ UNCHANGED <<prog, inputs, names, entries, runHashes, mutable, objects, result,
                     givenUp>>
      /\ ~joining
  BY DEF StartCall, NextSubject, shared
<1>2. /\ Len(inputs) \in Nat /\ Repeats \in Nat /\ Calls = 1..(Len(inputs) + Repeats)
      /\ subject \in 1..3 /\ call \in Nat /\ call <= Len(inputs) + Repeats
  BY InputsTyped DEF Inv, Typing
<1>3. \A k \in Subjects : Finished(k)' = Finished(k)
  <2>1. CASE StartCall
    <3>1. subject' = subject /\ call' = call + 1 /\ joining' = TRUE
      BY <2>1 DEF StartCall
    <3> QED
      BY <1>1, <1>2, <3>1 DEF Finished
  <2>2. CASE NextSubject
    <3>1. /\ subject' = subject + 1 /\ call' = 0 /\ joining' = FALSE
          /\ call = Len(inputs) + Repeats
      BY <1>1, <1>2, <2>2 DEF NextSubject
    <3>2. \A k \in Subjects : k \in 1..2
      BY DEF Subjects
    <3> QED
      BY <1>1, <1>2, <3>1, <3>2 DEF Finished
  <2> QED
    BY <2>1, <2>2
<1>4. Booked' /\ Steady'
  <2>1. Booked'
    BY <1>1, <1>3 DEF Inv, Booked
  <2>2. Steady'
    BY <1>1, Fixed DEF Inv, Steady, Undisturbed
  <2> QED
    BY <2>1, <2>2
<1>5. CASE StartCall
  <2>1. /\ subject \in Subjects /\ call + 1 \in Calls /\ subject' = subject /\ call' = call + 1
        /\ joining' = TRUE /\ <<subject, call + 1>> \in AllCalls
        /\ thread' = [thread EXCEPT ![<<subject, call + 1>>].pc = "new"]
    BY <1>5, AllCallsFacts DEF StartCall
  <2>2. /\ thread' \in [AllCalls -> [pc : Pcs, out : Outs]]
        /\ \A w \in AllCalls : thread'[w] = thread[w] \/ thread'[w].pc = "new"
        /\ \A w \in AllCalls : w[1] # subject => thread'[w] = thread[w]
        /\ thread'[<<subject, call + 1>>].pc = "new"
    <3> DEFINE v == <<subject, call + 1>>
    <3>1. v[1] = subject
      OBVIOUS
    <3>2. v \in AllCalls /\ thread' = [thread EXCEPT ![v].pc = "new"]
      BY <2>1
    <3> HIDE DEF v
    <3>3. /\ thread' \in [AllCalls -> [pc : Pcs, out : Outs]]
          /\ \A w \in AllCalls : w # v => thread'[w] = thread[w]
          /\ thread'[v].pc = "new"
      BY <3>2 DEF Inv, Typing, Pcs
    <3>4. /\ \A w \in AllCalls : w[1] # subject => thread'[w] = thread[w]
          /\ \A w \in AllCalls : thread'[w] = thread[w] \/ thread'[w].pc = "new"
      BY <3>1, <3>3
    <3> QED
      BY <3>3, <3>4 DEF v
  <2>3. Typing'
    BY <1>1, <2>1, <2>2, Fixed DEF Inv, Typing
  <2>4. Threads'
    <3>1. ASSUME NEW w \in AllCalls PROVE Ran(w)' /\ Heard(w)'
      <4>1. Ran(w) /\ Heard(w) /\ Finds(w)' = Finds(w)
        BY <1>1, <2>1, Fixed DEF Inv, Threads, Finds
      <4>2. Ran(w)'
        BY <1>1, <2>2, <4>1, Fixed DEF Ran
      <4>3. Heard(w)'
        BY <1>1, <4>1, Fixed DEF Heard
      <4> QED
        BY <4>2, <4>3
    <3> QED
      BY <1>1, <3>1, Fixed DEF Threads
  <2>5. Silent'
    BY <2>1, <2>2 DEF Silent, Current
  <2>6. Later'
    <3>1. \A w \in AllCalls : w[1] > subject => w[1] # subject
      BY <1>2
    <3> QED
      BY <1>1, <2>1, <2>2, <3>1, Fixed DEF Inv, Later
  <2>7. Untouched'
    BY <1>1, <2>1, Fixed DEF Inv, Untouched
  <2> QED
    BY <1>4, <2>3, <2>4, <2>5, <2>6, <2>7 DEF Inv
<1>6. CASE NextSubject
  <2>1. /\ subject \in Subjects /\ subject' = subject + 1 /\ call' = 0
        /\ joining' = FALSE /\ thread' = thread
    BY <1>1, <1>6 DEF NextSubject
  <2>2. subject' \in 1..3 /\ subject \in 1..2
    BY <2>1 DEF Subjects
  <2>3. Typing'
    BY <1>1, <2>1, <2>2, Fixed DEF Inv, Typing
  <2>4. Threads'
    <3>1. ASSUME NEW w \in AllCalls PROVE Ran(w)' /\ Heard(w)'
      <4>1. CASE w[1] = subject'
        <5>1. thread[w].pc = "none" /\ result[w] = <<>>
          BY <2>1, <2>2, <4>1 DEF Inv, Later
        <5> QED
          BY <1>1, <2>1, <5>1 DEF Ran, Heard
      <4>2. CASE w[1] # subject'
        <5>1. Ran(w) /\ Heard(w) /\ Finds(w) \subseteq Contexts /\ Finds(w)' = Contexts
          BY <1>1, <4>2, Fixed DEF Inv, Threads, Finds, Legit
        <5>2. Ran(w)'
          BY <1>1, <2>1, <5>1, Fixed DEF Ran
        <5>3. Heard(w)'
          BY <1>1, <5>1, Fixed DEF Heard
        <5> QED
          BY <5>2, <5>3
      <4> QED
        BY <4>1, <4>2
    <3> QED
      BY <1>1, <3>1, Fixed DEF Threads
  <2>5. Silent'
    BY <2>1 DEF Silent
  <2>6. Later'
    <3>1. /\ \A w \in AllCalls : w[1] > subject' => w[1] > subject
          /\ \A k \in Subjects : k > subject' => k > subject
      BY <2>1, <2>2, AllCallsFacts DEF Subjects
    <3> QED
      BY <1>1, <2>1, <3>1, Fixed DEF Inv, Later
  <2>7. Untouched'
    <3>1. Clean(subject') => Clean(subject)
      BY <2>1, <2>2 DEF Clean
    <3> QED
      BY <1>1, <2>1, <3>1, Fixed DEF Inv, Untouched
  <2> QED
    BY <1>4, <2>3, <2>4, <2>5, <2>6, <2>7 DEF Inv
<1> QED
  BY <1>5, <1>6

(* The books after the current call has been recorded.                     *)
LEMMA RecordStep ==
  ASSUME Inv, joining, NEW evs \in Seq(Event), NEW exc, Len(evs) \in 0..MaxEvents,
         Record(evs, exc), UNCHANGED <<prog, inputs, subject, call>>,
         givenUp \subseteq givenUp',
         Current \in givenUp' \/
           \E x \in Legit(subject) : SeenOf(Outcome(prog[subject], call, x))
                                       = [events |-> evs, exc |-> exc]
  PROVE  /\ names' \in [Subjects -> Seq(Names)]
         /\ entries' = [k \in Subjects |-> entries'[k]]
         /\ runHashes' = [k \in Subjects |-> runHashes'[k]]
         /\ Booked' /\ Steady'
<1> DEFINE e == Entry(evs, exc, names[subject])
           h == RepeatPath(evs, names[subject])
           ns == Numbered(names[subject], evs)
<1>1. /\ Len(inputs) \in Nat /\ Repeats \in Nat /\ subject \in Subjects /\ call \in Nat
      /\ call \in Calls /\ 1 <= call /\ call <= Len(inputs) + Repeats
      /\ names[subject] \in Seq(Names) /\ prog[subject] \in Programs
      /\ inputs \in InputLists
  BY InputsTyped DEF Inv, Typing
<1>2. /\ ns \in Seq(Names) /\ Covers(ns, evs)
      /\ Covers(names[subject], evs) => ns = names[subject]
  BY <1>1, NumberedFacts
<1>3. /\ names' \in [Subjects -> Seq(Names)] /\ names'[subject] = ns
      /\ \A k \in Subjects : k # subject => names'[k] = names[k]
  BY <1>1, <1>2 DEF Record, Inv, Typing
<1>4. /\ \A k \in Subjects : k # subject =>
           entries'[k] = entries[k] /\ runHashes'[k] = runHashes[k]
      /\ IsRepeat(call) => /\ entries'[subject] = entries[subject]
                           /\ runHashes'[subject] = Append(runHashes[subject], h)
      /\ ~IsRepeat(call) => /\ entries'[subject] = Append(entries[subject], e)
                            /\ runHashes'[subject] = runHashes[subject]
      /\ entries' = [k \in Subjects |-> entries'[k]]
      /\ runHashes' = [k \in Subjects |-> runHashes'[k]]
  BY <1>1 DEF Record, Inv, Typing
<1>5. /\ \A k \in Subjects : k # subject => Finished(k)' = Finished(k)
      /\ Finished(subject) = call - 1 /\ Finished(subject)' = call
  BY <1>1 DEF Finished, Record
<1>6. /\ e.length = Len(evs) /\ e.depth = MaxCallDepth(evs) /\ e.exc = exc
      /\ h = LineSeq(ns, evs)
  BY DEF Entry, RepeatPath
<1>7. /\ IsSeq(entries[subject]) /\ IsSeq(runHashes[subject])
      /\ Len(entries[subject]) = IF call - 1 <= Len(inputs) THEN call - 1 ELSE Len(inputs)
      /\ Len(runHashes[subject]) =
           IF call - 1 <= Len(inputs) THEN 0 ELSE (call - 1) - Len(inputs)
      /\ \A c \in 1..Len(entries[subject]) : entries[subject][c].length \in 0..MaxEvents
  BY <1>1, <1>5 DEF Inv, Booked
<1> HIDE DEF e, h, ns
<1>8. /\ IsSeq(Append(entries[subject], e)) /\ IsSeq(Append(runHashes[subject], h))
      /\ Len(Append(entries[subject], e)) = Len(entries[subject]) + 1
      /\ Len(Append(runHashes[subject], h)) = Len(runHashes[subject]) + 1
      /\ \A i \in 1..Len(entries[subject]) :
           Append(entries[subject], e)[i] = entries[subject][i]
      /\ Append(entries[subject], e)[Len(entries[subject]) + 1] = e
      /\ \A i \in 1..Len(runHashes[subject]) :
           Append(runHashes[subject], h)[i] = runHashes[subject][i]
      /\ Append(runHashes[subject], h)[Len(runHashes[subject]) + 1] = h
  BY <1>7, Appended
<1>9. Booked'
  <2> DEFINE Fine(k) ==
        /\ IsSeq(entries'[k]) /\ IsSeq(runHashes'[k])
        /\ Len(entries'[k]) = IF Finished(k)' <= Len(inputs) THEN Finished(k)' ELSE Len(inputs)
        /\ Len(runHashes'[k]) =
             IF Finished(k)' <= Len(inputs) THEN 0 ELSE Finished(k)' - Len(inputs)
        /\ \A c \in 1..Len(entries'[k]) : entries'[k][c].length \in 0..MaxEvents
  <2>1. ASSUME NEW k \in Subjects, k # subject PROVE Fine(k)
    BY <1>4, <1>5, <2>1 DEF Inv, Booked
  <2>2. CASE IsRepeat(call)
    <3>1. /\ call - 1 >= Len(inputs) /\ ~(call <= Len(inputs))
          /\ Len(entries[subject]) = Len(inputs)
          /\ Len(runHashes[subject]) = (call - 1) - Len(inputs)
      BY <1>1, <1>7, <2>2 DEF IsRepeat
    <3>2. /\ entries'[subject] = entries[subject] /\ IsSeq(runHashes'[subject])
          /\ Len(runHashes'[subject]) = call - Len(inputs)
      <4>1. /\ entries'[subject] = entries[subject]
            /\ runHashes'[subject] = Append(runHashes[subject], h)
        BY <1>4, <2>2
      <4>2. Len(runHashes'[subject]) = Len(runHashes[subject]) + 1
        BY <1>8, <4>1
      <4> QED
        BY <1>1, <1>8, <3>1, <4>1, <4>2
    <3>3. Fine(subject)
      BY <1>1, <1>5, <1>7, <3>1, <3>2
    <3> QED
      BY <2>1, <3>3 DEF Booked
  <2>3. CASE ~IsRepeat(call)
    <3>1. call - 1 <= Len(inputs) /\ call <= Len(inputs)
      BY <1>1, <2>3 DEF IsRepeat
    <3>2. /\ Len(entries[subject]) = call - 1 /\ Len(entries'[subject]) = call
      BY <1>1, <1>4, <1>7, <1>8, <2>3, <3>1
    <3>3. \A c \in 1..call : entries'[subject][c].length \in 0..MaxEvents
      <4> TAKE c \in 1..call
      <4>1. c = call \/ c \in 1..(call - 1)
        BY <1>1
      <4>2. entries'[subject][call] = e
        BY <1>1, <1>4, <1>8, <2>3, <3>2
      <4>3. CASE c = call
        BY <1>6, <4>2, <4>3
      <4>4. CASE c \in 1..(call - 1)
        BY <1>4, <1>7, <1>8, <2>3, <3>2, <4>4
      <4> QED
        BY <4>1, <4>3, <4>4
    <3>4. Fine(subject)
      BY <1>1, <1>4, <1>5, <1>7, <1>8, <2>3, <3>1, <3>2, <3>3
    <3> QED
      BY <2>1, <3>4 DEF Booked
  <2> QED
    BY <2>2, <2>3
<1>10. Steady'
  <2> DEFINE Flat(k) ==
        /\ \A i \in 1..Len(runHashes'[k]) : runHashes'[k][i] = LineSeq(names'[k], Shown(k))
        /\ Len(runHashes'[k]) # 0 => Covers(names'[k], Shown(k))
  <2>1. ASSUME NEW k \in Subjects, Undisturbed(k)' PROVE Flat(k)
    <3>1. Undisturbed(k)
      BY <2>1, Fixed DEF Undisturbed
    <3>2. /\ \A i \in 1..Len(runHashes[k]) : runHashes[k][i] = LineSeq(names[k], Shown(k))
          /\ Len(runHashes[k]) # 0 => Covers(names[k], Shown(k))
      BY <3>1 DEF Inv, Steady
    <3>3. CASE k # subject
      BY <1>3, <1>4, <3>2, <3>3
    <3>4. CASE k = subject /\ ~IsRepeat(call)
      <4>1. Len(runHashes'[k]) = 0
        BY <1>1, <1>4, <1>7, <3>4 DEF IsRepeat
      <4> QED
        BY <4>1
    <3>5. CASE k = subject /\ IsRepeat(call)
      <4>1. Current \notin givenUp'
        BY <1>1, <2>1, <3>5, Fixed DEF Undisturbed, Current
      <4>2. PICK x \in Legit(subject) :
              SeenOf(Outcome(prog[subject], call, x)) = [events |-> evs, exc |-> exc]
        BY <4>1
      <4>3. /\ Launch \in Contexts /\ Stateless(prog[subject])
            /\ x \in Contexts /\ x.values = Launch.values
        <5>1. Launch \in Contexts
          BY <1>1, InputsTyped, ExtractionAssumption DEF Launch, Contexts
        <5>2. Stateless(prog[subject]) /\ Clean(subject)
          BY <3>1, <3>5 DEF Undisturbed, Sound
        <5> QED
          BY <5>1, <5>2 DEF Legit, Launch
      <4>4. SeenOf(Outcome(prog[subject], call, x))
              = SeenOf(Outcome(prog[subject], call, Launch))
        BY <1>1, <4>3, StatelessSees
      <4>5. Outcome(prog[subject], call, Launch)
              = Outcome(prog[subject], Len(inputs) + 1, Launch)
        BY <1>1, <3>5, RepeatsAlike
      <4>6. evs = Shown(subject)
        BY <4>2, <4>4, <4>5 DEF Shown
      <4>7. /\ Covers(names'[k], Shown(k)) /\ h = LineSeq(names'[k], Shown(k))
            /\ Len(runHashes[k]) # 0 => names'[k] = names[k]
        BY <1>2, <1>3, <1>6, <3>2, <3>5, <4>6
      <4>8. /\ runHashes'[k] = Append(runHashes[k], h) /\ Len(runHashes[k]) \in Nat
            /\ Len(runHashes'[k]) = Len(runHashes[k]) + 1
        BY <1>1, <1>4, <1>7, <1>8, <3>5
      <4>9. ASSUME NEW i \in 1..Len(runHashes'[k])
            PROVE  runHashes'[k][i] = LineSeq(names'[k], Shown(k))
        <5>1. CASE i = Len(runHashes[k]) + 1
          BY <1>8, <3>5, <4>7, <4>8, <5>1
        <5>2. CASE i \in 1..Len(runHashes[k])
          BY <1>8, <3>2, <3>5, <4>7, <4>8, <5>2
        <5> QED
          BY <4>8, <5>1, <5>2
      <4> QED
        BY <4>7, <4>9
    <3> QED
      BY <3>3, <3>4, <3>5
  <2> QED
    BY <2>1, Fixed DEF Steady
<1> QED
  BY <1>3, <1>4, <1>9, <1>10

(* The host takes what the queue of its own call holds.                    *)
LEMMA TakeResultStep ==
  ASSUME Inv, TakeResult
  PROVE  Inv'
<1>1. /\ joining /\ result[Current] # <<>>
      /\ UNCHANGED <<prog, inputs, subject, call, shared, thread, givenUp>>
      /\ result' = [result EXCEPT ![Current] = Tail(@)]
      /\ Record(Head(result[Current]).events, Head(result[Current]).exc)
  BY DEF TakeResult, QueueOf
<1>2. /\ subject \in Subjects /\ call \in Calls /\ Current \in AllCalls
      /\ Current[1] = subject /\ Current[2] = call
      /\ prog[subject] \in Programs /\ inputs \in InputLists
  BY <1>1, AllCallsFacts DEF Inv, Typing, Current
<1>3. PICK x \in Legit(subject) :
        /\ Outcome(prog[subject], call, x).exc # "SystemExit"
        /\ result[Current] = << [events |-> Recorded(Outcome(prog[subject], call, x).events),
                                 exc |-> Outcome(prog[subject], call, x).exc] >>
  BY <1>1, <1>2 DEF Inv, Threads, Heard, Finds
<1> DEFINE r == Head(result[Current])
           v == SeenOf(Outcome(prog[subject], call, x))
<1>4. v = [events |-> r.events, exc |-> r.exc] /\ Tail(result[Current]) = <<>>
  BY <1>3 DEF SeenOf
<1>5. r.events \in Seq(Event) /\ Len(r.events) \in 0..MaxEvents
  BY <1>2, <1>4, SeenTyped DEF Legit
<1>6. /\ names' \in [Subjects -> Seq(Names)]
      /\ entries' = [k \in Subjects |-> entries'[k]]
      /\ runHashes' = [k \in Subjects |-> runHashes'[k]]
      /\ Booked' /\ Steady'
  <2> HIDE DEF r
  <2>1. \E t \in Legit(subject) : SeenOf(Outcome(prog[subject], call, t))
                                    = [events |-> r.events, exc |-> r.exc]
    BY <1>4
  <2>2. Record(r.events, r.exc)
    BY <1>1 DEF r
  <2> QED
    BY <1>1, <1>5, <2>1, <2>2, RecordStep
<1>7. joining' = FALSE
  BY <1>1 DEF Record
<1>8. /\ result' = [w \in AllCalls |-> result'[w]]
      /\ \A w \in AllCalls : result'[w] = result[w] \/ result'[w] = <<>>
  BY <1>1, <1>2, <1>4 DEF Inv, Typing
<1>9. Typing'
  BY <1>1, <1>6, <1>7, <1>8, Fixed DEF Inv, Typing, shared
<1>10. Threads'
  <2>1. ASSUME NEW w \in AllCalls PROVE Ran(w)' /\ Heard(w)'
    <3>1. Ran(w) /\ Heard(w)
      BY DEF Inv, Threads
    <3>2. Ran(w)'
      BY <1>1, <3>1, Fixed DEF Ran, Finds
    <3>3. Heard(w)'
      <4>1. CASE result'[w] = <<>>
        BY <4>1 DEF Heard
      <4>2. CASE result'[w] = result[w]
        BY <1>1, <3>1, <4>2, Fixed DEF Heard, Finds
      <4> QED
        BY <1>8, <4>1, <4>2
    <3> QED
      BY <3>2, <3>3
  <2> QED
    BY <1>1, <2>1, Fixed DEF Threads
<1>11. Silent'
  BY <1>7 DEF Silent
<1>12. Later' /\ Untouched'
  BY <1>1, <1>8, Fixed DEF Inv, Later, Untouched, shared
<1> QED
  BY <1>6, <1>9, <1>10, <1>11, <1>12 DEF Inv

(* A call without a result: given up, or its program has exited.           *)
LEMMA GiveUpStep ==
  ASSUME Inv, GiveUp
  PROVE  Inv'
<1>1. /\ joining /\ result[Current] = <<>>
      /\ UNCHANGED <<prog, inputs, subject, call, shared, thread, result>>
      /\ Record(<<>>, "TimeoutError")
      /\ \/ thread[Current].pc = "ended" /\ givenUp' = givenUp
         \/ givenUp' = givenUp \cup {Current}
  BY DEF GiveUp, QueueOf
<1>2. /\ subject \in Subjects /\ call \in Calls /\ Current \in AllCalls
      /\ Current[1] = subject /\ Current[2] = call
  BY <1>1, AllCallsFacts DEF Inv, Typing, Current
<1>3. <<>> \in Seq(Event) /\ Len(<<>>) \in 0..MaxEvents
  BY EmptySeq, CapAssumption
<1>4. Current \in givenUp' \/
        \E x \in Legit(subject) : SeenOf(Outcome(prog[subject], call, x))
                                    = [events |-> <<>>, exc |-> "TimeoutError"]
  <2>1. CASE thread[Current].pc = "ended"
    <3>1. thread[Current].out.exc = "SystemExit"
      BY <1>1, <2>1 DEF Inv, Silent
    <3>2. PICK x \in Legit(subject) : thread[Current].out = Outcome(prog[subject], call, x)
      BY <1>2, <2>1 DEF Inv, Threads, Ran, Finds
    <3> QED
      BY <3>1, <3>2 DEF SeenOf
  <2>2. CASE Current \in givenUp'
    BY <2>2
  <2> QED
    BY <1>1, <2>1, <2>2
<1>5. /\ names' \in [Subjects -> Seq(Names)]
      /\ entries' = [k \in Subjects |-> entries'[k]]
      /\ runHashes' = [k \in Subjects |-> runHashes'[k]]
      /\ Booked' /\ Steady'
  <2>1. givenUp \subseteq givenUp'
    BY <1>1
  <2> QED
    BY <1>1, <1>3, <1>4, <2>1, RecordStep
<1>6. joining' = FALSE
  BY <1>1 DEF Record
<1>7. givenUp' \subseteq AllCalls
  BY <1>1, <1>2 DEF Inv, Typing
<1>8. Typing'
  BY <1>1, <1>5, <1>6, <1>7, Fixed DEF Inv, Typing, shared
<1>9. Threads'
  <2>1. \A w : Finds(w)' = Finds(w)
    BY <1>1, Fixed DEF Finds
  <2> QED
    BY <1>1, <2>1, Fixed DEF Inv, Threads, Ran, Heard
<1>10. Silent'
  BY <1>6 DEF Silent
<1>11. Later' /\ Untouched'
  BY <1>1, Fixed DEF Inv, Later, Untouched, shared
<1> QED
  BY <1>5, <1>8, <1>9, <1>10, <1>11 DEF Inv

(* The invariant holds before the first call.                              *)
LEMMA InvInit ==
  ASSUME Init
  PROVE  Inv
<1>1. /\ Len(inputs) \in Nat /\ inputs \in InputLists /\ Repeats \in Nat /\ Fresh \in States
      /\ <<>> \in Seq(Names) /\ IsSeq(<<>>) /\ Len(<<>>) = 0
  BY InputsTyped, ExtractionAssumption, EmptySeq DEF Init, IsSeq
<1>2. Typing
  <2>1. /\ thread \in [AllCalls -> [pc : Pcs, out : Outs]]
        /\ mutable \in [Subjects -> States] /\ names \in [Subjects -> Seq(Names)]
        /\ objects \in [DOMAIN inputs -> Values]
    BY <1>1, InputsTyped DEF Init, Pcs, Outs
  <2>2. /\ result = [w \in AllCalls |-> result[w]]
        /\ entries = [k \in Subjects |-> entries[k]]
        /\ runHashes = [k \in Subjects |-> runHashes[k]]
    BY DEF Init
  <2>3. /\ prog \in [Subjects -> Programs] /\ subject \in 1..3 /\ call \in Calls \cup {0}
        /\ joining = FALSE /\ givenUp \subseteq AllCalls
    BY DEF Init
  <2> QED
    BY <1>1, <2>1, <2>2, <2>3 DEF Typing
<1>3. Threads
  BY DEF Init, Threads, Ran, Heard
<1>4. Silent
  BY DEF Init, Silent
<1>5. \A k \in Subjects : Finished(k) = 0
  BY DEF Init, Finished, Subjects
<1>6. Booked
  BY <1>1, <1>5 DEF Init, Booked
<1>7. Later /\ Untouched
  BY DEF Init, Later, Untouched
<1>8. Steady
  BY <1>1 DEF Init, Steady
<1> QED
  BY <1>2, <1>3, <1>4, <1>6, <1>7, <1>8 DEF Inv

(* Every step keeps the invariant.                                         *)
LEMMA InvStep ==
  ASSUME Inv, [Next]_vars
  PROVE  Inv'
<1>1. CASE UNCHANGED vars
  <2>1. UNCHANGED Books /\ UNCHANGED <<prog, inputs, mutable, objects, thread, result>>
    BY <1>1 DEF vars, hostVars, shared, Books
  <2>2. Booked' /\ Steady'
    BY <2>1, BooksKept
  <2>3. Typing'
    BY <2>1, Fixed DEF Books, Inv, Typing
  <2>4. Threads' /\ Silent'
    <3>1. \A w : Finds(w)' = Finds(w)
      BY <2>1, Fixed DEF Finds, Books
    <3> QED
      BY <2>1, <3>1, Fixed DEF Books, Inv, Threads, Ran, Heard, Silent, Current
  <2>5. Later' /\ Untouched'
    BY <2>1, Fixed DEF Books, Inv, Later, Untouched
  <2> QED
    BY <2>2, <2>3, <2>4, <2>5 DEF Inv
<1>2. CASE Done
  BY <1>1, <1>2 DEF Done
<1>3. CASE StartCall \/ NextSubject
  BY <1>3, NextCallStep
<1>4. CASE TakeResult
  BY <1>4, TakeResultStep
<1>5. CASE GiveUp
  BY <1>5, GiveUpStep
<1>6. CASE \E w \in AllCalls : Enter(w) \/ Mutate(w) \/ Finish(w)
  BY <1>6, ThreadStep
<1> QED
  BY <1>1, <1>2, <1>3, <1>4, <1>5, <1>6 DEF Next

(* The invariant holds throughout.                                         *)
LEMMA InvAlways == Spec => []Inv
<1>1. Init => Inv
  BY InvInit
<1>2. Inv /\ [Next]_vars => Inv'
  BY InvStep
<1> QED
  BY <1>1, <1>2, PTL DEF Spec

-----------------------------------------------------------------------------
(* The host holds at most one entry per input and one hash per repeat, no  *)
(* queue holds more than one result and no call more than MaxEvents events.*)
THEOREM TypeCorrect == Spec => []TypeOK
<1>1. ASSUME Inv PROVE TypeOK
  <2>1. /\ Len(inputs) \in Nat /\ Repeats \in Nat /\ Calls = 1..(Len(inputs) + Repeats)
        /\ inputs \in InputLists /\ prog \in [Subjects -> Programs] /\ call \in Calls \cup {0}
        /\ subject \in 1..3 /\ joining \in BOOLEAN
    BY <1>1, InputsTyped DEF Inv, Typing
  <2>2. ASSUME NEW w \in AllCalls
        PROVE  /\ thread[w].pc \in {"none", "new", "inside", "leaving", "ended"}
               /\ Len(result[w]) <= 1
               /\ result[w] # <<>> => Len(Head(result[w]).events) <= MaxEvents
    <3>1. thread[w].pc \in Pcs
      BY <1>1 DEF Inv, Typing
    <3>2. CASE result[w] = <<>>
      BY <3>1, <3>2 DEF Pcs
    <3>3. CASE result[w] # <<>>
      <4>1. PICK x \in Contexts :
              /\ Outcome(prog[w[1]], w[2], x).exc # "SystemExit"
              /\ result[w] = << [events |-> Recorded(Outcome(prog[w[1]], w[2], x).events),
                                 exc |-> Outcome(prog[w[1]], w[2], x).exc] >>
        BY <1>1, <3>3 DEF Inv, Threads, Heard, Finds, Legit
      <4>2. Len(Recorded(Outcome(prog[w[1]], w[2], x).events)) \in 0..MaxEvents
        BY <2>1, AllCallsFacts, OutcomeTyped, RecordedTyped
      <4>3. Len(Recorded(Outcome(prog[w[1]], w[2], x).events)) <= MaxEvents
        BY <4>2
      <4> QED
        BY <3>1, <4>1, <4>3 DEF Pcs
    <3> QED
      BY <3>2, <3>3
  <2>3. ASSUME NEW k \in Subjects
        PROVE  /\ Len(entries[k]) <= Len(inputs) /\ Len(runHashes[k]) <= Repeats
               /\ \A c \in DOMAIN entries[k] : entries[k][c].length \in 0..MaxEvents
    <3>1. Finished(k) \in Nat /\ Finished(k) <= Len(inputs) + Repeats
      BY <1>1, <2>1 DEF Inv, Typing, Finished
    <3>2. /\ IsSeq(entries[k])
          /\ Len(entries[k]) = IF Finished(k) <= Len(inputs) THEN Finished(k) ELSE Len(inputs)
          /\ Len(runHashes[k]) =
               IF Finished(k) <= Len(inputs) THEN 0 ELSE Finished(k) - Len(inputs)
          /\ \A c \in 1..Len(entries[k]) : entries[k][c].length \in 0..MaxEvents
      BY <1>1 DEF Inv, Booked
    <3>3. DOMAIN entries[k] = 1..Len(entries[k])
      BY <3>2, LenProperties DEF IsSeq
    <3> QED
      BY <2>1, <3>1, <3>2, <3>3
  <2>4. /\ mutable \in [Subjects -> States] /\ givenUp \subseteq AllCalls
        /\ objects \in [DOMAIN inputs -> Values]
    BY <1>1 DEF Inv, Typing
  <2> QED
    BY <2>1, <2>2, <2>3, <2>4 DEF TypeOK
<1> QED
  BY <1>1, InvAlways, PTL

-----------------------------------------------------------------------------
(* The path of a call.                                                     *)

(* A function on 0..N that starts in S and stays in it.                    *)
LEMMA StaysTyped ==
  ASSUME NEW N \in Nat, NEW S, NEW f, f = [n \in 0..N |-> f[n]], f[0] \in S,
         \A n \in 1..N : f[n - 1] \in S => f[n] \in S
  PROVE  f \in [0..N -> S]
<1> DEFINE T == {n \in 0..N : f[n] \in S}
<1>1. 0 \in T
  OBVIOUS
<1>2. ASSUME NEW n \in 1..N, n - 1 \in T
      PROVE  n \in T
  BY <1>2
<1>3. 0..N \subseteq T
  <2> HIDE DEF T
  <2> QED
    BY <1>1, <1>2, SetInduction
<1> QED
  BY <1>3

(* s is a prefix of t.                                                     *)
Begins(s, t) == Len(s) <= Len(t) /\ \A i \in 1..Len(s) : t[i] = s[i]

(* A function whose values extend each other has its values as prefixes of *)
(* the last one.                                                           *)
LEMMA PrefixesOfLast ==
  ASSUME NEW N \in Nat, NEW S, NEW f \in [0..N -> Seq(S)],
         \A n \in 1..N : Begins(f[n - 1], f[n])
  PROVE  \A n \in 0..N : \A m \in 0..n : Begins(f[m], f[n])
<1> DEFINE T == {n \in 0..N : \A m \in 0..n : Begins(f[m], f[n])}
<1>1. \A n \in 0..N : Len(f[n]) \in Nat
  BY LenProperties
<1>2. 0 \in T
  <2>1. Begins(f[0], f[0])
    BY <1>1 DEF Begins
  <2> QED
    BY <2>1
<1>3. ASSUME NEW n \in 1..N, n - 1 \in T
      PROVE  n \in T
  <2>1. n \in 0..N /\ n - 1 \in 0..N /\ n \in Nat
    OBVIOUS
  <2>2. ASSUME NEW m \in 0..n PROVE Begins(f[m], f[n])
    <3>1. CASE m = n
      BY <1>1, <3>1, <2>1 DEF Begins
    <3>2. CASE m # n
      <4>1. m \in 0..(n - 1) /\ m \in 0..N
        BY <2>1, <3>2
      <4>2. Begins(f[m], f[n - 1]) /\ Begins(f[n - 1], f[n])
        BY <1>3, <4>1
      <4>3. Len(f[m]) \in Nat /\ Len(f[n - 1]) \in Nat /\ Len(f[n]) \in Nat
        BY <1>1, <2>1, <4>1
      <4> QED
        BY <4>2, <4>3 DEF Begins
    <3> QED
      BY <3>1, <3>2
  <2> QED
    BY <2>1, <2>2
<1>4. 0..N \subseteq T
  <2> HIDE DEF T
  <2> QED
    BY <1>2, <1>3, SetInduction
<1> QED
  BY <1>4

(* What the path keeps of an event.                                        *)
Item(e) == <<e.fn, e.line>>

(* The path as a function of the event reached.                            *)
Traced(f, evs) ==
  /\ f \in [0..Len(evs) -> Seq(Names \X Nat)]
  /\ f[0] = <<>> /\ f[Len(evs)] = Path(evs)
  /\ \A n \in 1..Len(evs) :
       f[n] = IF OnPath(evs[n]) THEN Append(f[n - 1], Item(evs[n])) ELSE f[n - 1]

(* Path is such a function of the last event.                              *)
LEMMA PathTraced ==
  ASSUME NEW evs \in Seq(Event)
  PROVE  \E f : Traced(f, evs)
<1> DEFINE N == Len(evs)
           S == Seq(Names \X Nat)
           step == [x \in (1..N) \X S |->
                      IF OnPath(evs[x[1]]) THEN Append(x[2], Item(evs[x[1]])) ELSE x[2]]
           Eq(f) == f = [n \in 0..N |->
                           CASE n = 0 -> <<>>
                             [] n > 0 /\ OnPath(evs[n]) ->
                                  Append(f[n - 1], <<evs[n].fn, evs[n].line>>)
                             [] OTHER -> f[n - 1]]
           path == CHOOSE f : Eq(f)
<1>1. N \in Nat /\ <<>> \in S /\ \A n \in 1..N : Item(evs[n]) \in Names \X Nat
  <2>1. \A n \in 1..N : evs[n] \in Event
    BY LenProperties, ElementOfSeq
  <2> QED
    BY <2>1, LenProperties, EmptySeq DEF Event, Item
<1>2. \A n \in 1..N, s \in S : Append(s, Item(evs[n])) \in S
  BY <1>1, AppendProperties
<1>3. step \in [(1..N) \X S -> S]
  <2> HIDE DEF S, N
  <2>1. \A x \in (1..N) \X S : Append(x[2], Item(evs[x[1]])) \in S /\ x[2] \in S
    BY <1>2
  <2> QED
    BY <2>1
<1>4. PICK h \in [0..N -> S] : Follows(h, <<>>, step, N)
  <2> HIDE DEF step, N, S
  <2> QED
    BY <1>1, <1>3, Recursion
<1>5. /\ h[0] = <<>>
      /\ \A n \in 1..N : h[n] = IF OnPath(evs[n]) THEN Append(h[n - 1], Item(evs[n]))
                                ELSE h[n - 1]
  <2>1. \A n \in 1..N : <<n, h[n - 1]>> \in (1..N) \X S
    <3> TAKE n \in 1..N
    <3>1. n - 1 \in 0..N
      BY <1>1
    <3> HIDE DEF N, S
    <3> QED
      BY <1>4, <3>1
  <2>2. \A n \in 1..N : step[<<n, h[n - 1]>>]
                          = IF OnPath(evs[n]) THEN Append(h[n - 1], Item(evs[n])) ELSE h[n - 1]
    BY <2>1
  <2> QED
    BY <1>4, <2>2 DEF Follows
<1>6. Eq(h)
  <2>1. \A n \in 0..N : h[n] = CASE n = 0 -> <<>>
                                 [] n > 0 /\ OnPath(evs[n]) ->
                                      Append(h[n - 1], <<evs[n].fn, evs[n].line>>)
                                 [] OTHER -> h[n - 1]
    <3> TAKE n \in 0..N
    <3>1. CASE n = 0
      BY <1>5, <3>1
    <3>2. CASE n # 0
      <4>1. n \in 1..N /\ n > 0
        BY <1>1, <3>2
      <4> QED
        BY <1>5, <3>2, <4>1 DEF Item
    <3> QED
      BY <3>1, <3>2
  <2> QED
    BY <1>4, <2>1
<1>7. Eq(path)
  BY <1>6
<1>8. Path(evs) = path[N]
  BY DEF Path
<1> HIDE DEF path
<1>9. /\ path[0] = <<>> /\ path = [n \in 0..N |-> path[n]]
      /\ \A n \in 1..N : path[n] = IF OnPath(evs[n]) THEN Append(path[n - 1], Item(evs[n]))
                                   ELSE path[n - 1]
  <2>1. path = [n \in 0..N |-> path[n]] /\ path[0] = <<>>
    BY <1>1, <1>7
  <2>2. ASSUME NEW n \in 1..N
        PROVE  path[n] = IF OnPath(evs[n]) THEN Append(path[n - 1], Item(evs[n]))
                         ELSE path[n - 1]
    <3>1. n \in 0..N /\ n > 0 /\ n # 0
      BY <1>1
    <3> QED
      BY <1>7, <3>1 DEF Item
  <2> QED
    BY <2>1, <2>2
<1>10. path \in [0..N -> S]
  <2>1. \A n \in 1..N : path[n - 1] \in S => path[n] \in S
    BY <1>2, <1>9
  <2>2. path[0] \in S /\ path = [n \in 0..N |-> path[n]] /\ N \in Nat
    BY <1>1, <1>9
  <2> HIDE DEF N, S
  <2> QED
    BY <2>1, <2>2, StaysTyped
<1> QED
  BY <1>8, <1>9, <1>10 DEF Traced

(* The path has an item for each call and line, in order, and no other:    *)
(* its length after each event says where the next one goes.               *)
Places(pos, evs) ==
  /\ pos \in [0..Len(evs) -> 0..Len(Path(evs))]
  /\ pos[0] = 0 /\ pos[Len(evs)] = Len(Path(evs))
  /\ \A n \in 1..Len(evs) :
       IF OnPath(evs[n])
       THEN pos[n] = pos[n - 1] + 1 /\ Path(evs)[pos[n]] = Item(evs[n])
       ELSE pos[n] = pos[n - 1]

(* Paths are typed and have their places.                                  *)
LEMMA PathPlaces ==
  ASSUME NEW evs \in Seq(Event)
  PROVE  Path(evs) \in Seq(Names \X Nat) /\ \E pos : Places(pos, evs)
<1> DEFINE N == Len(evs)
           S == Names \X Nat
<1>1. N \in Nat /\ \A n \in 1..N : Item(evs[n]) \in S
  <2>1. \A n \in 1..N : evs[n] \in Event
    BY LenProperties, ElementOfSeq
  <2> QED
    BY <2>1, LenProperties DEF Event, Item
<1>2. PICK f : Traced(f, evs)
  BY PathTraced
<1>3. /\ f \in [0..N -> Seq(S)] /\ f[0] = <<>> /\ f[N] = Path(evs)
      /\ \A n \in 1..N : f[n] = IF OnPath(evs[n]) THEN Append(f[n - 1], Item(evs[n]))
                                ELSE f[n - 1]
  BY <1>2 DEF Traced
<1> HIDE DEF N, S
<1>4. \A n \in 0..N : f[n] \in Seq(S) /\ Len(f[n]) \in Nat
  BY <1>3, LenProperties
<1>5. ASSUME NEW n \in 1..N
      PROVE  /\ Begins(f[n - 1], f[n])
             /\ IF OnPath(evs[n])
                THEN Len(f[n]) = Len(f[n - 1]) + 1 /\ f[n][Len(f[n])] = Item(evs[n])
                ELSE Len(f[n]) = Len(f[n - 1])
  <2>1. n - 1 \in 0..N /\ n \in 0..N /\ Item(evs[n]) \in S
    BY <1>1
  <2>2. f[n - 1] \in Seq(S) /\ Len(f[n - 1]) \in Nat
    BY <1>4, <2>1
  <2>3. CASE OnPath(evs[n])
    <3>1. f[n] = Append(f[n - 1], Item(evs[n]))
      BY <1>3, <2>3
    <3>2. /\ Len(f[n]) = Len(f[n - 1]) + 1
          /\ \A i \in 1..Len(f[n - 1]) : f[n][i] = f[n - 1][i]
          /\ f[n][Len(f[n - 1]) + 1] = Item(evs[n])
      BY <2>1, <2>2, <3>1, AppendProperties
    <3> QED
      BY <2>2, <2>3, <3>2 DEF Begins
  <2>4. CASE ~OnPath(evs[n])
    BY <1>3, <2>2, <2>4 DEF Begins
  <2> QED
    BY <2>3, <2>4
<1>6. \A n \in 0..N : Begins(f[n], f[N])
  <2>1. \A n \in 0..N : \A m \in 0..n : Begins(f[m], f[n])
    BY <1>1, <1>3, <1>5, PrefixesOfLast
  <2> QED
    BY <1>1, <2>1
<1> DEFINE pos == [n \in 0..N |-> Len(f[n])]
<1>7. N \in 0..N /\ 0 \in 0..N
  BY <1>1
<1>8. pos \in [0..N -> 0..Len(Path(evs))]
  BY <1>3, <1>4, <1>6, <1>7 DEF Begins
<1>9. pos[0] = 0 /\ pos[N] = Len(Path(evs))
  BY <1>3, <1>7
<1>10. ASSUME NEW n \in 1..N
       PROVE  IF OnPath(evs[n])
              THEN pos[n] = pos[n - 1] + 1 /\ Path(evs)[pos[n]] = Item(evs[n])
              ELSE pos[n] = pos[n - 1]
  <2>1. n - 1 \in 0..N /\ n \in 0..N
    BY <1>1
  <2>2. pos[n] = Len(f[n]) /\ pos[n - 1] = Len(f[n - 1])
    BY <2>1
  <2>3. OnPath(evs[n]) => f[N][Len(f[n])] = f[n][Len(f[n])]
    <3>1. OnPath(evs[n]) => Len(f[n]) \in 1..Len(f[n])
      BY <1>4, <1>5, <2>1
    <3> QED
      BY <1>6, <2>1, <3>1 DEF Begins
  <2> HIDE DEF pos
  <2> QED
    BY <1>3, <1>5, <2>2, <2>3
<1> HIDE DEF pos
<1>11. Places(pos, evs)
  BY <1>8, <1>9, <1>10 DEF Places, N
<1> QED
  BY <1>3, <1>4, <1>7, <1>11 DEF S

(* Every item of the path is that of a call or line, and conversely.       *)
LEMMA PathItems ==
  ASSUME NEW evs \in Seq(Event)
  PROVE  /\ Path(evs) \in Seq(Names \X Nat) /\ Len(Path(evs)) \in Nat
         /\ DOMAIN Path(evs) = 1..Len(Path(evs))
         /\ \A i \in 1..Len(Path(evs)) : Path(evs)[i] \in Names \X Nat
         /\ \A i \in 1..Len(Path(evs)) :
              \E n \in 1..Len(evs) : OnPath(evs[n]) /\ Path(evs)[i] = Item(evs[n])
         /\ \A n \in 1..Len(evs) : OnPath(evs[n]) =>
              \E i \in 1..Len(Path(evs)) : Path(evs)[i] = Item(evs[n])
<1> DEFINE N == Len(evs)
           P == Path(evs)
<1>1. P \in Seq(Names \X Nat) /\ N \in Nat
  BY PathPlaces, LenProperties
<1>2. PICK pos : Places(pos, evs)
  BY PathPlaces
<1>3. /\ pos \in [0..N -> 0..Len(P)] /\ pos[0] = 0 /\ pos[N] = Len(P)
      /\ \A n \in 1..N : IF OnPath(evs[n])
                         THEN pos[n] = pos[n - 1] + 1 /\ P[pos[n]] = Item(evs[n])
                         ELSE pos[n] = pos[n - 1]
  BY <1>2 DEF Places
<1>4. /\ Len(P) \in Nat /\ DOMAIN P = 1..Len(P)
      /\ \A i \in 1..Len(P) : P[i] \in Names \X Nat
  BY <1>1, LenProperties, ElementOfSeq
<1> HIDE DEF N, P
<1>5. \A n \in 1..N : OnPath(evs[n]) =>
        pos[n] \in 1..Len(P) /\ P[pos[n]] = Item(evs[n])
  <2> TAKE n \in 1..N
  <2>1. n - 1 \in 0..N /\ n \in 0..N
    BY <1>1
  <2>2. pos[n - 1] \in 0..Len(P) /\ pos[n] \in 0..Len(P)
    BY <1>3, <2>1
  <2> QED
    BY <1>3, <1>4, <2>2
<1>6. \A i \in 1..Len(P) : \E n \in 1..N : OnPath(evs[n]) /\ P[i] = Item(evs[n])
  <2> DEFINE Met(n) == \A i \in 1..pos[n] : \E m \in 1..n :
                         OnPath(evs[m]) /\ P[i] = Item(evs[m])
             T == {n \in 0..N : Met(n)}
  <2>1. 0 \in T
    BY <1>1, <1>3
  <2>2. ASSUME NEW n \in 1..N, n - 1 \in T
        PROVE  n \in T
    <3>1. /\ n - 1 \in 0..N /\ n \in 0..N /\ n \in Nat
          /\ pos[n - 1] \in Nat /\ pos[n] \in Nat
      BY <1>1, <1>3
    <3>2. ASSUME NEW i \in 1..pos[n]
          PROVE  \E m \in 1..n : OnPath(evs[m]) /\ P[i] = Item(evs[m])
      <4>1. CASE i \in 1..pos[n - 1]
        <5>1. PICK m \in 1..(n - 1) : OnPath(evs[m]) /\ P[i] = Item(evs[m])
          BY <2>2, <4>1
        <5>2. m \in 1..n
          BY <3>1
        <5> QED
          BY <5>1, <5>2
      <4>2. CASE i \notin 1..pos[n - 1]
        <5>1. OnPath(evs[n]) /\ i = pos[n] /\ n \in 1..n
          BY <1>3, <3>1, <4>2
        <5> QED
          BY <1>5, <5>1
      <4> QED
        BY <4>1, <4>2
    <3> QED
      BY <3>1, <3>2
  <2>3. 0..N \subseteq T
    <3> HIDE DEF T
    <3> QED
      BY <1>1, <2>1, <2>2, SetInduction
  <2>4. N \in T
    BY <1>1, <2>3
  <2> QED
    BY <1>3, <2>4
<1> QED
  BY <1>1, <1>4, <1>5, <1>6 DEF N, P

-----------------------------------------------------------------------------
(* The numbers of functions.                                               *)

(* No name has two numbers.                                                *)
Distinct(ns) == \A i, j \in 1..Len(ns) : ns[i] = ns[j] => i = j

(* All of the path has numbers.                                            *)
PathNamed(ns, evs) == \A i \in 1..Len(Path(evs)) : Has(ns, Path(evs)[i][1])

(* With a number for every call there is one for every item.               *)
LEMMA CoversPath ==
  ASSUME NEW ns, NEW evs \in Seq(Event), LinesCalled(evs), Covers(ns, evs)
  PROVE  PathNamed(ns, evs)
<1>1. Len(evs) \in Nat
  BY LenProperties
<1>2. ASSUME NEW i \in 1..Len(Path(evs))
      PROVE  Has(ns, Path(evs)[i][1])
  <2>1. PICK n \in 1..Len(evs) : OnPath(evs[n]) /\ Path(evs)[i] = Item(evs[n])
    BY PathItems
  <2>2. Path(evs)[i][1] = evs[n].fn
    BY <2>1 DEF Item
  <2>3. CASE evs[n].kind = "call"
    BY <2>2, <2>3 DEF Covers
  <2>4. CASE evs[n].kind = "line"
    <3>1. PICK m \in 1..(n - 1) : evs[m].kind = "call" /\ evs[m].fn = evs[n].fn
      BY <2>4 DEF LinesCalled
    <3>2. m \in 1..Len(evs)
      BY <1>1
    <3> QED
      BY <2>2, <3>1, <3>2 DEF Covers
  <2> QED
    BY <2>1, <2>3, <2>4 DEF OnPath
<1> QED
  BY <1>2 DEF PathNamed

(* A new name goes to the end.                                             *)
LEMMA WithAppends ==
  ASSUME NEW ns \in Seq(Names), NEW e \in Event, Distinct(ns)
  PROVE  /\ Begins(ns, With(ns, e)) /\ Distinct(With(ns, e))
         /\ \A i \in 1..Len(With(ns, e)) :
              i \in 1..Len(ns) \/ (e.kind = "call" /\ With(ns, e)[i] = e.fn)
<1>1. e.fn \in Names /\ Len(ns) \in Nat /\ DOMAIN ns = 1..Len(ns)
  BY LenProperties DEF Event
<1>2. CASE With(ns, e) = ns
  BY <1>1, <1>2 DEF Begins
<1>3. CASE With(ns, e) # ns
  <2>1. With(ns, e) = Append(ns, e.fn) /\ ~Has(ns, e.fn) /\ e.kind = "call"
    BY <1>3 DEF With
  <2>2. /\ Len(With(ns, e)) = Len(ns) + 1
        /\ \A i \in 1..Len(ns) : With(ns, e)[i] = ns[i] /\ ns[i] # e.fn
        /\ With(ns, e)[Len(ns) + 1] = e.fn
    BY <1>1, <2>1, AppendProperties DEF Has
  <2>3. Begins(ns, With(ns, e))
    BY <1>1, <2>2 DEF Begins
  <2>4. \A i \in 1..Len(With(ns, e)) : i \in 1..Len(ns) \/ i = Len(ns) + 1
    BY <1>1, <2>2
  <2>5. Distinct(With(ns, e))
    BY <1>1, <2>2, <2>4 DEF Distinct
  <2> QED
    BY <2>1, <2>2, <2>3, <2>4, <2>5
<1> QED
  BY <1>2, <1>3

(* Numbering gives no function two numbers, changes none, and gives new    *)
(* ones to functions that are called only.                                 *)
LEMMA NumberedAppends ==
  ASSUME NEW ns \in Seq(Names), NEW evs \in Seq(Event), Distinct(ns)
  PROVE  /\ Begins(ns, Numbered(ns, evs)) /\ Distinct(Numbered(ns, evs))
         /\ \A i \in 1..Len(Numbered(ns, evs)) :
              \/ i \in 1..Len(ns)
              \/ \E n \in 1..Len(evs) :
                   evs[n].kind = "call" /\ Numbered(ns, evs)[i] = evs[n].fn
<1> DEFINE N == Len(evs)
<1>1. N \in Nat /\ \A n \in 1..N : evs[n] \in Event
  BY LenProperties, ElementOfSeq
<1>2. PICK f : After(f, ns, evs) /\ Numbered(ns, evs) = f[N]
  BY NumberedAfter
<1>3. /\ f \in [0..N -> Seq(Names)] /\ f[0] = ns
      /\ \A n \in 1..N : f[n] = With(f[n - 1], evs[n])
  BY <1>2 DEF After
<1> DEFINE New(n, i) == \E m \in 1..n : evs[m].kind = "call" /\ f[n][i] = evs[m].fn
           T == {n \in 0..N : /\ Begins(ns, f[n]) /\ Distinct(f[n])
                              /\ \A i \in 1..Len(f[n]) : i \in 1..Len(ns) \/ New(n, i)}
<1>4. 0 \in T
  <2>1. Begins(ns, ns)
    BY LenProperties DEF Begins
  <2> QED
    BY <1>1, <1>3, <2>1
<1>5. ASSUME NEW n \in 1..N, n - 1 \in T
      PROVE  n \in T
  <2>1. /\ n \in Nat /\ n \in 0..N /\ n - 1 \in 0..N /\ n \in 1..n
        /\ f[n - 1] \in Seq(Names) /\ f[n] \in Seq(Names)
        /\ f[n] = With(f[n - 1], evs[n]) /\ evs[n] \in Event
    BY <1>1, <1>3
  <2>2. /\ Len(f[n - 1]) \in Nat /\ Len(f[n]) \in Nat /\ Len(ns) \in Nat
    BY <2>1, LenProperties
  <2>3. /\ Begins(f[n - 1], f[n]) /\ Distinct(f[n])
        /\ \A i \in 1..Len(f[n]) :
             i \in 1..Len(f[n - 1]) \/ (evs[n].kind = "call" /\ f[n][i] = evs[n].fn)
    BY <1>5, <2>1, WithAppends
  <2>4. Begins(ns, f[n])
    BY <1>5, <2>2, <2>3 DEF Begins
  <2>5. ASSUME NEW i \in 1..Len(f[n]) PROVE i \in 1..Len(ns) \/ New(n, i)
    <3>1. CASE i \in 1..Len(f[n - 1])
      <4>1. f[n][i] = f[n - 1][i] /\ (i \in 1..Len(ns) \/ New(n - 1, i))
        BY <1>5, <2>3, <3>1 DEF Begins
      <4>2. 1..(n - 1) \subseteq 1..n
        BY <2>1
      <4> QED
        BY <4>1, <4>2
    <3>2. CASE evs[n].kind = "call" /\ f[n][i] = evs[n].fn
      BY <2>1, <3>2
    <3> QED
      BY <2>3, <3>1, <3>2
  <2> QED
    BY <2>1, <2>3, <2>4, <2>5
<1>6. 0..N \subseteq T
  <2> HIDE DEF T, N
  <2> QED
    BY <1>1, <1>4, <1>5, SetInduction
<1>7. N \in T
  BY <1>1, <1>6
<1> QED
  BY <1>2, <1>7

(* Names have one number each, which longer lists keep.                    *)
LEMMA NumberInFacts ==
  ASSUME NEW ns \in Seq(Names), Distinct(ns)
  PROVE  /\ \A f : Has(ns, f) => NumberIn(ns, f) \in 1..Len(ns) /\ ns[NumberIn(ns, f)] = f
         /\ \A i \in 1..Len(ns) : Has(ns, ns[i]) /\ NumberIn(ns, ns[i]) = i
<1>1. Len(ns) \in Nat /\ DOMAIN ns = 1..Len(ns)
  BY LenProperties
<1>2. ASSUME NEW f, Has(ns, f)
      PROVE  NumberIn(ns, f) \in 1..Len(ns) /\ ns[NumberIn(ns, f)] = f
  <2>1. \E i \in 1..Len(ns) : ns[i] = f
    BY <1>1, <1>2 DEF Has
  <2>2. NumberIn(ns, f) = CHOOSE i \in 1..Len(ns) : ns[i] = f
    BY <1>1, <1>2 DEF NumberIn
  <2> QED
    BY <2>1, <2>2
<1>3. ASSUME NEW i \in 1..Len(ns)
      PROVE  Has(ns, ns[i]) /\ NumberIn(ns, ns[i]) = i
  <2>1. Has(ns, ns[i])
    BY <1>1 DEF Has
  <2>2. NumberIn(ns, ns[i]) \in 1..Len(ns) /\ ns[NumberIn(ns, ns[i])] = ns[i]
    BY <1>2, <2>1
  <2> QED
    BY <2>1, <2>2 DEF Distinct
<1> QED
  BY <1>2, <1>3

(* A longer list keeps the numbers of a shorter one.                       *)
LEMMA NumbersKept ==
  ASSUME NEW ns \in Seq(Names), NEW ms \in Seq(Names), Distinct(ns), Distinct(ms),
         Begins(ns, ms), NEW f, Has(ns, f)
  PROVE  Has(ms, f) /\ NumberIn(ms, f) = NumberIn(ns, f)
<1>1. Len(ns) \in Nat /\ Len(ms) \in Nat /\ Len(ns) <= Len(ms)
  BY LenProperties DEF Begins
<1> DEFINE i == NumberIn(ns, f)
<1>2. i \in 1..Len(ns) /\ ns[i] = f
  BY NumberInFacts
<1> HIDE DEF i
<1>3. i \in 1..Len(ms) /\ ms[i] = f
  BY <1>1, <1>2 DEF Begins
<1> QED
  BY <1>3, NumberInFacts DEF i

(* The hash is of the path.                                                *)
LEMMA LineSeqItems ==
  ASSUME NEW ns, NEW evs \in Seq(Event)
  PROVE  LineSeq(ns, evs) = [i \in 1..Len(Path(evs)) |->
                               <<NumberIn(ns, Path(evs)[i][1]), Path(evs)[i][2]>>]
BY PathItems DEF LineSeq

(* More names change nothing.                                              *)
LEMMA LineSeqKept ==
  ASSUME NEW ns \in Seq(Names), NEW ms \in Seq(Names), Distinct(ns), Distinct(ms),
         Begins(ns, ms), NEW evs \in Seq(Event), PathNamed(ns, evs)
  PROVE  LineSeq(ms, evs) = LineSeq(ns, evs) /\ PathNamed(ms, evs)
<1>1. \A i \in 1..Len(Path(evs)) :
        /\ NumberIn(ms, Path(evs)[i][1]) = NumberIn(ns, Path(evs)[i][1])
        /\ Has(ms, Path(evs)[i][1])
  BY NumbersKept DEF PathNamed
<1>2. PathNamed(ms, evs)
  BY <1>1 DEF PathNamed
<1>3. /\ LineSeq(ns, evs) = [i \in 1..Len(Path(evs)) |->
                              <<NumberIn(ns, Path(evs)[i][1]), Path(evs)[i][2]>>]
      /\ LineSeq(ms, evs) = [i \in 1..Len(Path(evs)) |->
                              <<NumberIn(ms, Path(evs)[i][1]), Path(evs)[i][2]>>]
  BY LineSeqItems
<1> QED
  BY <1>1, <1>2, <1>3

(* The same numbers of the same names: the same path.                      *)
LEMMA LineSeqExact ==
  ASSUME NEW ns \in Seq(Names), Distinct(ns),
         NEW a \in Seq(Event), NEW b \in Seq(Event), PathNamed(ns, a), PathNamed(ns, b)
  PROVE  LineSeq(ns, a) = LineSeq(ns, b) <=> Path(a) = Path(b)
<1>1. ASSUME Path(a) = Path(b) PROVE LineSeq(ns, a) = LineSeq(ns, b)
  BY <1>1 DEF LineSeq
<1>2. ASSUME LineSeq(ns, a) = LineSeq(ns, b) PROVE Path(a) = Path(b)
  <2> DEFINE A == Path(a)  B == Path(b)
  <2>1. /\ A = [i \in 1..Len(A) |-> A[i]] /\ Len(A) \in Nat
        /\ B = [i \in 1..Len(B) |-> B[i]] /\ Len(B) \in Nat
        /\ \A i \in 1..Len(A) : A[i] = <<A[i][1], A[i][2]>>
        /\ \A i \in 1..Len(B) : B[i] = <<B[i][1], B[i][2]>>
    <3>1. ASSUME NEW evs \in Seq(Event)
          PROVE  /\ Path(evs) = [i \in 1..Len(Path(evs)) |-> Path(evs)[i]]
                 /\ Len(Path(evs)) \in Nat
                 /\ \A i \in 1..Len(Path(evs)) : Path(evs)[i] = <<Path(evs)[i][1], Path(evs)[i][2]>>
      <4>1. /\ Path(evs) \in Seq(Names \X Nat) /\ Len(Path(evs)) \in Nat
            /\ \A i \in 1..Len(Path(evs)) : Path(evs)[i] \in Names \X Nat
        BY <3>1, PathItems
      <4>2. Path(evs) \in [1..Len(Path(evs)) -> Names \X Nat]
        BY <4>1, LenProperties
      <4> QED
        BY <4>1, <4>2
    <3> QED
      BY <3>1
  <2>2. /\ 1..Len(A) = 1..Len(B)
        /\ \A i \in 1..Len(A) : /\ NumberIn(ns, A[i][1]) = NumberIn(ns, B[i][1])
                                /\ A[i][2] = B[i][2]
    <3>1. /\ LineSeq(ns, a) = [i \in 1..Len(A) |-> <<NumberIn(ns, A[i][1]), A[i][2]>>]
          /\ LineSeq(ns, b) = [i \in 1..Len(B) |-> <<NumberIn(ns, B[i][1]), B[i][2]>>]
      BY LineSeqItems
    <3> HIDE DEF A, B
    <3>2. 1..Len(A) = 1..Len(B)
      BY <1>2, <3>1
    <3>3. ASSUME NEW i \in 1..Len(A)
          PROVE  <<NumberIn(ns, A[i][1]), A[i][2]>> = <<NumberIn(ns, B[i][1]), B[i][2]>>
      BY <1>2, <3>1, <3>2
    <3> QED
      BY <3>2, <3>3
  <2>3. \A i \in 1..Len(A) : A[i][1] = B[i][1]
    <3> TAKE i \in 1..Len(A)
    <3>1. Has(ns, A[i][1]) /\ Has(ns, B[i][1])
      BY <2>2 DEF PathNamed
    <3>2. /\ ns[NumberIn(ns, A[i][1])] = A[i][1] /\ ns[NumberIn(ns, B[i][1])] = B[i][1]
      BY <3>1, NumberInFacts
    <3> QED
      BY <2>2, <3>2
  <2> HIDE DEF A, B
  <2>4. \A i \in 1..Len(A) : A[i] = B[i]
    BY <2>1, <2>2, <2>3
  <2>5. A = B
    BY <2>1, <2>2, <2>4
  <2> QED
    BY <2>5 DEF A, B
<1> QED
  BY <1>1, <1>2

-----------------------------------------------------------------------------
(* The calls of a program, alone and in order.                             *)

(* What is seen of a call has the call of every function it has a line of. *)
LEMMA SeenCalled ==
  ASSUME inputs \in InputLists, NEW p \in Programs, NEW c \in Calls, NEW x \in Contexts
  PROVE  LinesCalled(SeenOf(Outcome(p, c, x)).events)
<1> DEFINE evs == Outcome(p, c, x).events
<1>1. evs \in Seq(Event) /\ LinesCalled(evs)
  BY OutcomeTyped
<1> HIDE DEF evs
<1>2. LinesCalled(Recorded(evs))
  <2>1. Len(evs) \in Nat /\ MaxEvents \in Nat
    BY <1>1, LenProperties, CapAssumption
  <2>2. PICK n \in 0..Len(evs) : Recorded(evs) = SubSeq(evs, 1, n)
    BY <2>1 DEF Recorded
  <2>3. /\ Len(SubSeq(evs, 1, n)) = n
        /\ \A i \in 1..n : SubSeq(evs, 1, n)[i] = evs[i]
    BY <1>1, <2>1, SubSeqProperties
  <2>4. ASSUME NEW i \in 1..n, evs[i].kind = "line"
        PROVE  \E m \in 1..(i - 1) :
                 Recorded(evs)[m].kind = "call" /\ Recorded(evs)[m].fn = evs[i].fn
    <3>1. PICK m \in 1..(i - 1) : evs[m].kind = "call" /\ evs[m].fn = evs[i].fn
      BY <1>1, <2>1, <2>4 DEF LinesCalled
    <3>2. m \in 1..n
      BY <2>1
    <3> QED
      BY <2>2, <2>3, <3>1, <3>2
  <2> QED
    BY <2>2, <2>3, <2>4 DEF LinesCalled
<1>3. LinesCalled(<<>>)
  BY EmptySeq DEF LinesCalled
<1> QED
  BY <1>2, <1>3 DEF SeenOf, evs

(* What is seen of each call alone.                                        *)
LEMMA SeenFacts ==
  ASSUME inputs \in InputLists, prog \in [Subjects -> Programs],
         NEW p \in Subjects, NEW c \in Calls
  PROVE  /\ Alone(p, c) = Outcome(prog[p], c, Before(p)[c])
         /\ Seen(p, c).events \in Seq(Event) /\ LinesCalled(Seen(p, c).events)
         /\ Len(Seen(p, c).events) \in Nat
<1>1. Before(p)[c] \in Contexts /\ prog[p] \in Programs
  BY BeforeTyped
<1> QED
  BY <1>1, SeenTyped, SeenCalled DEF Alone, Seen

(* The names after each call, whichever calls are left out.                *)
LEMMA NamesHeardFollow ==
  ASSUME inputs \in InputLists, prog \in [Subjects -> Programs], NEW p \in Subjects,
         NEW missing \in SUBSET Calls
  PROVE  /\ NamesHeard(p, missing) \in [0..(Len(inputs) + Repeats) -> Seq(Names)]
         /\ NamesHeard(p, missing)[0] = <<>>
         /\ \A c \in Calls :
              /\ c - 1 \in 0..(Len(inputs) + Repeats) /\ c \in 0..(Len(inputs) + Repeats)
              /\ NamesHeard(p, missing)[c] =
                   IF c \in missing THEN NamesHeard(p, missing)[c - 1]
                   ELSE Numbered(NamesHeard(p, missing)[c - 1], Seen(p, c).events)
<1> DEFINE N == Len(inputs) + Repeats
           S == Seq(Names)
           more(s, c) == IF c \in missing THEN s ELSE Numbered(s, Seen(p, c).events)
           step == [x \in (1..N) \X S |-> more(x[2], x[1])]
           Eq(f) == f = [c \in 0..(Len(inputs) + Repeats) |->
                           CASE c = 0 -> <<>>
                             [] c \in missing -> f[c - 1]
                             [] OTHER -> Numbered(f[c - 1], Seen(p, c).events)]
           ns == CHOOSE f : Eq(f)
<1>1. N \in Nat /\ Calls = 1..N /\ <<>> \in S /\ 0 \notin Calls
  BY InputsTyped, EmptySeq
<1>2. \A c \in 1..N, s \in S : more(s, c) \in S
  BY <1>1, SeenFacts, NumberedFacts
<1>3. step \in [(1..N) \X S -> S]
  <2> HIDE DEF more
  <2>1. \A x \in (1..N) \X S : more(x[2], x[1]) \in S
    BY <1>2
  <2> QED
    BY <2>1
<1>4. PICK h \in [0..N -> S] : Follows(h, <<>>, step, N)
  <2> HIDE DEF step, N, S
  <2> QED
    BY <1>1, <1>3, Recursion
<1>5. h[0] = <<>> /\ \A c \in 1..N : h[c] = more(h[c - 1], c)
  <2> HIDE DEF more
  <2>1. \A c \in 1..N : <<c, h[c - 1]>> \in (1..N) \X S
    <3> TAKE c \in 1..N
    <3>1. c - 1 \in 0..N
      BY <1>1
    <3> HIDE DEF N, S
    <3> QED
      BY <1>4, <3>1
  <2>2. \A c \in 1..N : step[<<c, h[c - 1]>>] = more(h[c - 1], c)
    BY <2>1
  <2> QED
    BY <1>4, <2>2 DEF Follows
<1>6. Eq(h)
  <2>1. ASSUME NEW c \in 0..N
        PROVE  h[c] = CASE c = 0 -> <<>>
                        [] c \in missing -> h[c - 1]
                        [] OTHER -> Numbered(h[c - 1], Seen(p, c).events)
    <3>1. CASE c = 0
      BY <1>1, <1>5, <3>1
    <3>2. CASE c # 0
      <4>1. c \in 1..N
        BY <1>1, <3>2
      <4> QED
        BY <1>5, <3>2, <4>1
    <3> QED
      BY <3>1, <3>2
  <2> QED
    BY <1>4, <2>1
<1>7. Eq(ns)
  BY <1>6
<1>8. NamesHeard(p, missing) = ns
  BY DEF NamesHeard
<1> HIDE DEF ns, step
<1>9. /\ ns = [c \in 0..N |-> ns[c]] /\ ns[0] = <<>>
      /\ \A c \in 1..N : ns[c] = more(ns[c - 1], c)
  <2>1. ns = [c \in 0..N |-> ns[c]]
    BY <1>7
  <2>2. ns[0] = <<>>
    BY <1>1, <1>7
  <2>3. ASSUME NEW c \in 1..N
        PROVE  ns[c] = more(ns[c - 1], c)
    <3>1. c \in 0..N /\ c # 0
      BY <1>1
    <3> QED
      BY <1>7, <3>1
  <2> QED
    BY <2>1, <2>2, <2>3
<1>10. ns \in [0..N -> S]
  <2>1. \A c \in 1..N : ns[c - 1] \in S => ns[c] \in S
    BY <1>2, <1>9
  <2> HIDE DEF N, S
  <2> QED
    BY <1>1, <1>9, <2>1, StaysTyped
<1>11. \A c \in 1..N : c - 1 \in 0..N /\ c \in 0..N
  BY <1>1
<1> QED
  BY <1>1, <1>8, <1>9, <1>10, <1>11

(* Only the calls left out so far make a difference.                       *)
LEMMA NamesAgree ==
  ASSUME inputs \in InputLists, prog \in [Subjects -> Programs], NEW p \in Subjects,
         NEW G \in SUBSET Calls, NEW H \in SUBSET Calls, NEW m \in 0..(Len(inputs) + Repeats),
         \A d \in 1..m : d \in G <=> d \in H
  PROVE  \A c \in 0..m : NamesHeard(p, G)[c] = NamesHeard(p, H)[c]
<1> DEFINE T == {c \in 0..m : NamesHeard(p, G)[c] = NamesHeard(p, H)[c]}
<1>1. /\ m \in Nat /\ \A c \in 1..m : c \in Calls
  BY InputsTyped
<1>2. 0 \in T
  BY <1>1, NamesHeardFollow
<1>3. ASSUME NEW c \in 1..m, c - 1 \in T PROVE c \in T
  <2>1. c \in Calls /\ c \in 0..m
    BY <1>1
  <2>2. /\ NamesHeard(p, G)[c] = IF c \in G THEN NamesHeard(p, G)[c - 1]
                                 ELSE Numbered(NamesHeard(p, G)[c - 1], Seen(p, c).events)
        /\ NamesHeard(p, H)[c] = IF c \in H THEN NamesHeard(p, H)[c - 1]
                                 ELSE Numbered(NamesHeard(p, H)[c - 1], Seen(p, c).events)
    BY <2>1, NamesHeardFollow
  <2> QED
    BY <1>3, <2>1, <2>2
<1>4. 0..m \subseteq T
  <2> HIDE DEF T
  <2> QED
    BY <1>1, <1>2, <1>3, SetInduction
<1> QED
  BY <1>4

(* The names and the features when no call is left out.                    *)
NamesAfter(p) == NamesHeard(p, {})
Sequentially(p, c) == Features(p, c, {})

LEMMA NamesFollow ==
  ASSUME inputs \in InputLists, prog \in [Subjects -> Programs], NEW p \in Subjects
  PROVE  /\ NamesAfter(p) \in [0..(Len(inputs) + Repeats) -> Seq(Names)]
         /\ NamesAfter(p)[0] = <<>>
         /\ \A c \in Calls :
              /\ c - 1 \in 0..(Len(inputs) + Repeats) /\ c \in 0..(Len(inputs) + Repeats)
              /\ NamesAfter(p)[c] = Numbered(NamesAfter(p)[c - 1], Seen(p, c).events)
BY NamesHeardFollow DEF NamesAfter

(* Names keep their numbers from call to call, and each call has the names *)
(* of its path.                                                            *)
LEMMA NamesGrow ==
  ASSUME inputs \in InputLists, prog \in [Subjects -> Programs], NEW p \in Subjects
  PROVE  /\ \A d \in 0..(Len(inputs) + Repeats) :
              /\ NamesAfter(p)[d] \in Seq(Names) /\ Distinct(NamesAfter(p)[d])
              /\ \A c \in 0..d : Begins(NamesAfter(p)[c], NamesAfter(p)[d])
         /\ \A c \in Calls : PathNamed(NamesAfter(p)[c], Seen(p, c).events)
<1> DEFINE N == Len(inputs) + Repeats
           f == NamesAfter(p)
<1>1. N \in Nat /\ Calls = 1..N
  BY InputsTyped
<1>2. /\ f \in [0..N -> Seq(Names)] /\ f[0] = <<>>
      /\ \A c \in 1..N : c - 1 \in 0..N /\ c \in 0..N
                         /\ f[c] = Numbered(f[c - 1], Seen(p, c).events)
  BY <1>1, NamesFollow
<1> HIDE DEF f, N
<1>3. \A c \in 1..N : f[c - 1] \in Seq(Names) /\ f[c] \in Seq(Names)
  BY <1>2
<1>4. \A d \in 0..N : Distinct(f[d])
  <2> DEFINE T == {d \in 0..N : Distinct(f[d])}
  <2>1. 0 \in T
    BY <1>1, <1>2, EmptySeq DEF Distinct
  <2>2. ASSUME NEW c \in 1..N, c - 1 \in T PROVE c \in T
    BY <1>1, <1>2, <1>3, <2>2, SeenFacts, NumberedAppends
  <2>3. 0..N \subseteq T
    <3> HIDE DEF T
    <3> QED
      BY <1>1, <2>1, <2>2, SetInduction
  <2> QED
    BY <2>3
<1>5. \A c \in 1..N : Begins(f[c - 1], f[c])
  BY <1>1, <1>2, <1>3, <1>4, SeenFacts, NumberedAppends
<1>6. \A d \in 0..N : \A c \in 0..d : Begins(f[c], f[d])
  BY <1>1, <1>2, <1>5, PrefixesOfLast
<1>7. ASSUME NEW c \in 1..N PROVE PathNamed(f[c], Seen(p, c).events)
  <2>1. Covers(f[c], Seen(p, c).events)
    BY <1>1, <1>2, <1>3, SeenFacts, NumberedFacts
  <2> QED
    BY <1>1, <1>3, <2>1, SeenFacts, CoversPath
<1>8. \A d \in 0..N : f[d] \in Seq(Names)
  BY <1>2
<1> QED
  BY <1>1, <1>4, <1>6, <1>7, <1>8 DEF f, N

-----------------------------------------------------------------------------
(* While none of its calls is given up, a program runs as if alone.        *)

(* Calls started, the current one included.                                *)
Started(k) == Finished(k) + (IF joining /\ k = subject THEN 1 ELSE 0)

(* No thread left behind by the first program changes what the second one  *)
(* finds, and of the calls up to c none was given up.                      *)
Apart(k) ==
  k = 2 => (\A c \in Calls : <<1, c>> \notin givenUp) \/ LeavesInputs(prog[1])
InOrder(k, c) == Apart(k) /\ \A d \in 1..c : <<k, d>> \notin givenUp

(* No thread runs before its call is made, none is given up before it is   *)
(* waited for, and a queue holds what its own thread saw.                  *)
Unborn == \A w \in AllCalls : w[2] > Started(w[1]) => thread[w].pc = "none"
GivenPast == \A w \in givenUp : w[2] <= Finished(w[1])
Told ==
  \A w \in AllCalls : result[w] # <<>> =>
    /\ thread[w].pc = "ended" /\ thread[w].out.exc # "SystemExit"
    /\ result[w] = << [events |-> Recorded(thread[w].out.events),
                       exc |-> thread[w].out.exc] >>

(* Its threads are over when the next call is made, so that each finds     *)
(* what its predecessor left.                                              *)
AfterAll(k) ==
  /\ names[k] = NamesAfter(k)[Finished(k)]
  /\ \A c \in 1..Finished(k) : thread[<<k, c>>].pc = "ended"
Running(k, c) ==
  LET t == thread[<<k, c>>] IN
  /\ t.pc \in {"new", "inside", "leaving", "ended"}
  /\ Found(k) = IF t.pc \in {"new", "inside"} THEN Before(k)[c] ELSE Before(k)[c + 1]
  /\ t.pc # "new" => t.out = Alone(k, c)
StateNow(k) ==
  \A c : c = Finished(k) + 1 =>
    IF Started(k) = c THEN Running(k, c) ELSE Found(k) = Before(k)[c]
InTurn ==
  \A k \in Subjects : InOrder(k, Finished(k)) =>
    AfterAll(k) /\ (k = subject => StateNow(k))

(* What the host recorded is then that of the calls alone.                 *)
EntriesExact ==
  \A k \in Subjects : \A c \in 1..Len(entries[k]) :
    InOrder(k, c) => entries[k][c] = Sequentially(k, c)
PathAfter(p, c) == LineSeq(NamesAfter(p)[c], Seen(p, c).events)
PathsExact ==
  \A k \in Subjects : InOrder(k, Finished(k)) =>
    \A i \in 1..Len(runHashes[k]) :
      runHashes[k][i] = PathAfter(k, Len(inputs) + i)

(* A program without state, on unchanged inputs, is recorded as alone but  *)
(* for the calls given up.                                                 *)
Tally ==
  \A k \in Subjects : Sound(k) =>
    /\ names[k] = NamesHeard(k, GivenUpBy(k))[Finished(k)]
    /\ \A c \in 1..Len(entries[k]) :
         <<k, c>> \notin givenUp => entries[k][c] = Features(k, c, GivenUpBy(k))

Order ==
  Unborn /\ GivenPast /\ Told /\ InTurn /\ EntriesExact /\ PathsExact /\ Tally

(* What the programs do alone does not change during a run.                *)
LEMMA FixedAlone ==
  ASSUME UNCHANGED <<prog, inputs>>
  PROVE  /\ \A k : Before(k)' = Before(k)
         /\ \A k, m : NamesHeard(k, m)' = NamesHeard(k, m)
         /\ \A k : NamesAfter(k)' = NamesAfter(k)
         /\ \A k, c : Alone(k, c)' = Alone(k, c)
         /\ \A k, c, m : Features(k, c, m)' = Features(k, c, m)
         /\ \A k, c : Sequentially(k, c)' = Sequentially(k, c)
         /\ \A k, c : PathAfter(k, c)' = PathAfter(k, c)
<1>1. \A p, c, x : Outcome(p, c, x)' = Outcome(p, c, x)
  BY Fixed
<1>2. \A p, vs : Run(p, vs)' = Run(p, vs)
  BY DEF Run, Leaves, Outcome, IsRepeat, Slot
<1>3. \A k : Start(k)' = Start(k)
  BY <1>2 DEF Start
<1>4. \A k : Before(k)' = Before(k)
  BY <1>2, <1>3 DEF Before
<1>5. \A k, c : Alone(k, c)' = Alone(k, c)
  BY <1>1, <1>4 DEF Alone
<1>6. \A k, c : Seen(k, c)' = Seen(k, c)
  BY <1>5 DEF Seen
<1>7. \A k, m : NamesHeard(k, m)' = NamesHeard(k, m)
  BY <1>6 DEF NamesHeard
<1>8. \A k, c, m : Features(k, c, m)' = Features(k, c, m)
  BY <1>6, <1>7 DEF Features
<1>9. \A k : NamesAfter(k)' = NamesAfter(k)
  BY <1>7 DEF NamesAfter
<1>10. \A k, c : PathAfter(k, c)' = PathAfter(k, c)
  BY <1>6, <1>9 DEF PathAfter
<1> QED
  BY <1>4, <1>5, <1>7, <1>8, <1>9, <1>10 DEF Sequentially

(* The calls given up so far, and what they keep from being in order.      *)
LEMMA InOrderFixed ==
  ASSUME UNCHANGED <<prog, inputs>>, givenUp \subseteq givenUp'
  PROVE  /\ \A k, c : InOrder(k, c)' => InOrder(k, c)
         /\ \A k : Apart(k)' => Apart(k)
         /\ givenUp' = givenUp => /\ \A k, c : InOrder(k, c)' = InOrder(k, c)
                                  /\ \A k : Apart(k)' = Apart(k)
                                  /\ \A k : GivenUpBy(k)' = GivenUpBy(k)
<1>1. LeavesInputs(prog[1])' = LeavesInputs(prog[1]) /\ Calls' = Calls
  BY Fixed DEF LeavesInputs
<1>2. \A k : Apart(k)' => Apart(k)
  BY <1>1 DEF Apart
<1>3. givenUp' = givenUp => \A k : Apart(k)' = Apart(k)
  BY <1>1 DEF Apart
<1>4. \A k, c : InOrder(k, c)' => InOrder(k, c)
  BY <1>2 DEF InOrder
<1>5. givenUp' = givenUp => \A k, c : InOrder(k, c)' = InOrder(k, c)
  BY <1>3 DEF InOrder
<1> QED
  BY <1>2, <1>3, <1>4, <1>5 DEF GivenUpBy

(* The counts of a program are numbers.                                    *)
LEMMA CountsTyped ==
  ASSUME Inv, NEW k \in Subjects
  PROVE  /\ Finished(k) \in Nat /\ Finished(k) <= Len(inputs) + Repeats
         /\ Started(k) \in {Finished(k), Finished(k) + 1}
         /\ joining /\ k = subject =>
              Finished(k) = call - 1 /\ Started(k) = call /\ call \in Calls /\ call \in Nat
         /\ ~joining => Started(k) = Finished(k)
         /\ Len(inputs) \in Nat /\ Repeats \in Nat /\ Calls = 1..(Len(inputs) + Repeats)
<1>1. /\ Len(inputs) \in Nat /\ Repeats \in Nat /\ Calls = 1..(Len(inputs) + Repeats)
      /\ subject \in 1..3 /\ call \in Nat /\ call <= Len(inputs) + Repeats
      /\ joining => call \in Calls /\ call >= 1
  BY InputsTyped DEF Inv, Typing
<1>2. Finished(k) \in Nat /\ Finished(k) <= Len(inputs) + Repeats
  BY <1>1 DEF Finished
<1>3. joining /\ k = subject => Finished(k) = call - 1
  BY <1>1 DEF Finished
<1> QED
  BY <1>1, <1>2, <1>3 DEF Started

(* A call that has been started is one of the run.                         *)
LEMMA StartedCalls ==
  ASSUME Inv, NEW k \in Subjects, Started(k) = Finished(k) + 1
  PROVE  /\ joining /\ k = subject /\ Finished(k) + 1 = call
         /\ <<k, Finished(k) + 1>> \in AllCalls /\ <<k, Finished(k) + 1>> = Current
<1>1. joining /\ k = subject
  BY CountsTyped DEF Started
<1>2. Finished(k) + 1 = call /\ call \in Calls
  BY <1>1, CountsTyped
<1> QED
  BY <1>1, <1>2, AllCallsFacts DEF Current

(* The books are as before.                                                *)
LEMMA TallyKept ==
  ASSUME Inv, Order, UNCHANGED <<prog, inputs, names, entries, givenUp>>,
         \A k \in Subjects : Finished(k)' = Finished(k)
  PROVE  Tally'
BY Fixed, FixedAlone, InOrderFixed DEF Order, Tally

(* What a step that changes no thread and no count leaves in order.        *)
LEMMA OrderKept ==
  ASSUME Inv, Order, UNCHANGED <<prog, inputs, names, entries, runHashes, shared,
                                 thread, result, givenUp>>,
         \A k \in Subjects : Finished(k)' = Finished(k) /\ Started(k)' = Started(k),
         \A k \in Subjects : k = subject' /\ InOrder(k, Finished(k)) => StateNow(k)
  PROVE  Order'
<1>1. \A w \in AllCalls : w[1] \in Subjects
  BY AllCallsFacts
<1>2. \A w \in givenUp : w[1] \in Subjects
  BY <1>1 DEF Inv, Typing
<1>3. \A k, c : InOrder(k, c)' = InOrder(k, c)
  BY InOrderFixed
<1>4. Unborn' /\ GivenPast' /\ Told'
  BY <1>1, <1>2, Fixed DEF Order, Unborn, GivenPast, Told
<1>5. \A k \in Subjects : InOrder(k, Finished(k))' = InOrder(k, Finished(k))
  BY InOrderFixed DEF InOrder
<1>6. InTurn'
  <2>1. \A k \in Subjects : AfterAll(k)' = AfterAll(k)
    BY FixedAlone DEF AfterAll
  <2>2. \A k \in Subjects : StateNow(k)' = StateNow(k)
    <3> TAKE k \in Subjects
    <3>1. Found(k)' = Found(k)
      BY DEF Found, shared
    <3>2. Before(k)' = Before(k)
      BY FixedAlone
    <3>3. \A c : Running(k, c)' = Running(k, c)
      BY <3>1, <3>2, FixedAlone DEF Running
    <3> QED
      BY <3>1, <3>2, <3>3 DEF StateNow
  <2> QED
    BY <1>5, <2>1, <2>2 DEF Order, InTurn
<1>7. EntriesExact'
  BY <1>3, FixedAlone DEF Order, EntriesExact
<1>8. PathsExact'
  BY <1>5, FixedAlone DEF Order, PathsExact
<1> QED
  BY <1>4, <1>6, <1>7, <1>8, TallyKept DEF Order

(* A step of a thread: while the current program's calls are in order it   *)
(* is the thread of the current call, or one of the first program that     *)
(* changes nothing the second one finds.                                   *)
LEMMA ThreadOrder ==
  ASSUME Inv, Order, NEW w \in AllCalls, Enter(w) \/ Mutate(w) \/ Finish(w)
  PROVE  Order'
<1>1. /\ UNCHANGED <<prog, inputs, subject, call, joining, names, entries, runHashes, givenUp>>
      /\ \A k : Finished(k)' = Finished(k) /\ Started(k)' = Started(k)
  BY DEF Enter, Mutate, Finish, hostVars, Finished, Started
<1>2. /\ \A k, c : InOrder(k, c)' = InOrder(k, c)
      /\ \A k : InOrder(k, Finished(k))' = InOrder(k, Finished(k))
  BY <1>1, InOrderFixed DEF InOrder
<1> DEFINE p == prog[w[1]]
<1>3. /\ w[1] \in Subjects /\ w[2] \in Calls /\ w = <<w[1], w[2]>>
      /\ thread[w] \in [pc : Pcs, out : Outs] /\ thread \in [AllCalls -> [pc : Pcs, out : Outs]]
      /\ mutable \in [Subjects -> States] /\ subject \in 1..3
      /\ prog \in [Subjects -> Programs] /\ inputs \in InputLists
  BY AllCallsFacts DEF Inv, Typing
<1>4. /\ thread' = [v \in AllCalls |-> IF v = w THEN thread'[w] ELSE thread[v]]
      /\ result' = [v \in AllCalls |-> IF v = w THEN result'[w] ELSE result[v]]
      /\ \A k \in Subjects : k # w[1] => mutable'[k] = mutable[k]
  BY <1>3 DEF Enter, Mutate, Finish, shared, Inv, Typing, QueueOf
<1>5. /\ thread[w].pc \in {"new", "inside", "leaving"}
      /\ result[w] = <<>>
      /\ w[2] <= Started(w[1]) /\ w[2] \in Nat /\ ~(w[1] > subject)
  <2>1. thread[w].pc \in {"new", "inside", "leaving"}
    BY DEF Enter, Mutate, Finish
  <2>2. result[w] = <<>>
    BY <2>1 DEF Order, Told
  <2>3. ~(w[2] > Started(w[1]))
    BY <2>1 DEF Order, Unborn
  <2>4. Started(w[1]) \in Nat /\ w[2] \in Nat
    BY <1>3, CountsTyped
  <2>5. ~(w[1] > subject)
    BY <2>1 DEF Inv, Later
  <2> QED
    BY <2>1, <2>2, <2>3, <2>4, <2>5
<1>6. \/ /\ thread[w].pc = "new" /\ thread'[w].pc = "inside"
         /\ thread'[w].out = Outcome(p, w[2], Found(w[1]))
         /\ Found(w[1])' = Found(w[1]) /\ objects' = objects /\ result' = result
      \/ /\ thread[w].pc = "inside" /\ thread'[w].pc = "leaving"
         /\ thread'[w].out = thread[w].out
         /\ Found(w[1])' = Leaves(w[2], thread[w].out, Found(w[1]))
         /\ objects' = Leaves(w[2], thread[w].out, Found(w[1])).values
         /\ result' = result
      \/ /\ thread[w].pc = "leaving" /\ thread'[w].pc = "ended"
         /\ thread'[w].out = thread[w].out
         /\ Found(w[1])' = Found(w[1]) /\ objects' = objects
         /\ \/ result'[w] = <<>>
            \/ /\ thread[w].out.exc # "SystemExit"
               /\ result'[w] = << [events |-> Recorded(thread[w].out.events),
                                   exc |-> thread[w].out.exc] >>
  <2>1. CASE Enter(w)
    BY <1>3, <2>1 DEF Enter, Found, shared
  <2>2. CASE Mutate(w)
    <3>1. /\ thread[w].pc = "inside" /\ thread'[w].pc = "leaving"
          /\ thread'[w].out = thread[w].out /\ result' = result
          /\ mutable'[w[1]] = Leaves(w[2], thread[w].out, Found(w[1])).state
          /\ objects' = Leaves(w[2], thread[w].out, Found(w[1])).values
      BY <1>3, <2>2 DEF Mutate
    <3>2. Found(w[1])' = Leaves(w[2], thread[w].out, Found(w[1]))
      BY <3>1 DEF Found, Leaves
    <3> QED
      BY <3>1, <3>2
  <2>3. CASE Finish(w)
    <3>1. /\ thread[w].pc = "leaving" /\ thread'[w].pc = "ended"
          /\ thread'[w].out = thread[w].out /\ Found(w[1])' = Found(w[1]) /\ objects' = objects
      BY <1>3, <2>3 DEF Finish, Found, shared
    <3>2. \/ result'[w] = <<>>
          \/ /\ thread[w].out.exc # "SystemExit"
             /\ result'[w] = << [events |-> Recorded(thread[w].out.events),
                                 exc |-> thread[w].out.exc] >>
      BY <1>5, <2>3 DEF Finish, QueueOf, Inv, Typing
    <3> QED
      BY <3>1, <3>2
  <2> QED
    BY <2>1, <2>2, <2>3
<1>7. Unborn'
  <2>1. ASSUME NEW v \in AllCalls, v[2] > Started(v[1])
        PROVE  thread'[v].pc = "none"
    <3>1. thread[v].pc = "none"
      BY <2>1 DEF Order, Unborn
    <3> QED
      BY <1>4, <1>5, <3>1
  <2> QED
    BY <1>1, <2>1, Fixed DEF Unborn
<1>8. GivenPast'
  BY <1>1 DEF Order, GivenPast
<1>9. Told'
  <2>1. ASSUME NEW v \in AllCalls, result'[v] # <<>>
        PROVE  /\ thread'[v].pc = "ended" /\ thread'[v].out.exc # "SystemExit"
               /\ result'[v] = << [events |-> Recorded(thread'[v].out.events),
                                   exc |-> thread'[v].out.exc] >>
    <3>1. CASE v = w
      BY <1>5, <1>6, <2>1, <3>1
    <3>2. CASE v # w
      BY <1>4, <2>1, <3>2 DEF Order, Told
    <3> QED
      BY <3>1, <3>2
  <2> QED
    BY <1>1, <2>1, Fixed DEF Told
\* the threads of a program in order that has gone on are over
<1>10. ASSUME NEW k \in Subjects, InOrder(k, Finished(k))
       PROVE  /\ \A c \in 1..Finished(k) : <<k, c>> # w
              /\ AfterAll(k)'
  <2>1. AfterAll(k)
    BY <1>10 DEF Order, InTurn
  <2>2. /\ Finished(k) \in Nat /\ Finished(k) <= Len(inputs) + Repeats
        /\ Calls = 1..(Len(inputs) + Repeats) /\ Len(inputs) + Repeats \in Nat
    BY CountsTyped
  <2>3. \A c \in 1..Finished(k) : <<k, c>> # w
    <3>1. ASSUME NEW c \in 1..Finished(k) PROVE thread[<<k, c>>].pc = "ended"
      BY <2>1 DEF AfterAll
    <3> QED
      BY <1>5, <3>1
  <2>4. \A c \in 1..Finished(k) : thread'[<<k, c>>].pc = "ended"
    <3> TAKE c \in 1..Finished(k)
    <3>1. <<k, c>> \in AllCalls /\ <<k, c>> # w /\ thread[<<k, c>>].pc = "ended"
      BY <2>1, <2>2, <2>3, AllCallsFacts DEF AfterAll
    <3> QED
      BY <1>4, <3>1
  <2>5. AfterAll(k)'
    BY <1>1, <2>1, <2>4, FixedAlone DEF AfterAll
  <2> QED
    BY <2>3, <2>5
\* a thread of the first program is over, or leaves the inputs alone
<1>11. ASSUME NEW k \in Subjects, k = subject, k # w[1], InOrder(k, Finished(k))
       PROVE  Found(k)' = Found(k)
  <2>1. k = 2 /\ w[1] = 1 /\ 1 \in Subjects
    BY <1>3, <1>5, <1>11 DEF Subjects
  <2>2. mutable'[k] = mutable[k]
    BY <1>4, <1>11
  <2>3. LeavesInputs(prog[1])
    <3>1. SUFFICES ASSUME \A c \in Calls : <<1, c>> \notin givenUp
                   PROVE  FALSE
      BY <1>11, <2>1 DEF InOrder, Apart
    <3>2. Finished(1) = Len(inputs) + Repeats /\ Calls = 1..(Len(inputs) + Repeats)
      BY <1>11, <2>1, CountsTyped DEF Finished
    <3>3. InOrder(1, Finished(1))
      BY <3>1, <3>2 DEF InOrder, Apart
    <3>4. <<1, w[2]>> # w
      BY <1>3, <1>10, <2>1, <3>2, <3>3
    <3> QED
      BY <1>3, <2>1, <3>4
  <2>4. objects' = objects
    <3>1. CASE thread[w].pc # "inside"
      BY <1>6, <3>1
    <3>2. CASE thread[w].pc = "inside"
      <4>1. PICK x \in Contexts : thread[w].out = Outcome(p, w[2], x)
        BY <1>3, <1>11, <2>1, <3>2 DEF Inv, Threads, Ran, Finds
      <4>2. /\ thread[w].out.left = Kept /\ thread[w].out.left \in Values \cup {Kept}
            /\ thread[w].out.post \in States \cup {Kept}
        BY <1>3, <2>1, <2>3, <4>1, OutcomeTyped
      <4>3. Found(w[1]) \in Contexts
        BY <1>3 DEF Found, Contexts, Inv, Typing
      <4>4. Leaves(w[2], thread[w].out, Found(w[1])).values = Found(w[1]).values
        BY <1>3, <4>2, <4>3, LeavesTyped
      <4> QED
        BY <1>6, <3>2, <4>4 DEF Found
    <3> QED
      BY <3>1, <3>2
  <2> QED
    BY <2>2, <2>4 DEF Found
<1>12. InTurn'
  <2>1. ASSUME NEW k \in Subjects, k = subject, InOrder(k, Finished(k))
        PROVE  StateNow(k)'
    <3>1. StateNow(k) /\ \A c \in 1..Finished(k) : <<k, c>> # w
      BY <1>10, <2>1 DEF Order, InTurn
    <3>2. /\ Finished(k) \in Nat /\ Finished(k) <= Len(inputs) + Repeats
          /\ Started(k) \in {Finished(k), Finished(k) + 1}
          /\ Calls = 1..(Len(inputs) + Repeats) /\ Len(inputs) + Repeats \in Nat
      BY CountsTyped
    <3>3. Before(k)' = Before(k) /\ \A c : Alone(k, c)' = Alone(k, c)
      BY <1>1, FixedAlone
    <3>4. CASE k # w[1]
      <4>1. Found(k)' = Found(k)
        BY <1>11, <2>1, <3>4
      <4>2. Started(k) = Finished(k) + 1 => <<k, Finished(k) + 1>> \in AllCalls
        BY StartedCalls
      <4>3. Started(k) = Finished(k) + 1 =>
              thread'[<<k, Finished(k) + 1>>] = thread[<<k, Finished(k) + 1>>]
        BY <1>3, <1>4, <3>4, <4>2
      <4>4. \A c : c = Finished(k) + 1 /\ Started(k) = c /\ Running(k, c) => Running(k, c)'
        BY <3>3, <4>1, <4>3 DEF Running
      <4> QED
        BY <1>1, <3>1, <3>3, <4>1, <4>4 DEF StateNow
    <3>5. CASE k = w[1]
      <4>1. w[2] = Finished(k) + 1 /\ Started(k) = Finished(k) + 1
        BY <1>3, <1>5, <3>1, <3>2, <3>5
      <4>2. Running(k, w[2])
        BY <3>1, <4>1 DEF StateNow
      <4>3. /\ Alone(k, w[2]) = Outcome(p, w[2], Before(k)[w[2]])
            /\ Before(k)[w[2] + 1] = Leaves(w[2], Alone(k, w[2]), Before(k)[w[2]])
        BY <1>3, <3>5, BeforeTyped DEF Alone
      <4>4. Running(k, w[2])'
        BY <1>3, <1>6, <3>3, <3>5, <4>2, <4>3 DEF Running
      <4> QED
        BY <1>1, <4>1, <4>4 DEF StateNow
    <3> QED
      BY <3>4, <3>5
  <2> QED
    BY <1>1, <1>2, <1>10, <2>1 DEF InTurn
<1>13. EntriesExact' /\ PathsExact'
  BY <1>1, <1>2, FixedAlone DEF Order, EntriesExact, PathsExact
<1> QED
  BY <1>1, <1>7, <1>8, <1>9, <1>12, <1>13, TallyKept DEF Order

(* The host goes on: the thread it starts finds what the last one left,    *)
(* and the second program begins with what the first one left.             *)
LEMMA NextCallOrder ==
  ASSUME Inv, Order, StartCall \/ NextSubject
  PROVE  Order'
<1>1. /\ UNCHANGED <<prog, inputs, names, entries, runHashes, shared, result, givenUp>>
      /\ ~joining
  BY DEF StartCall, NextSubject
<1>2. /\ Len(inputs) \in Nat /\ Repeats \in Nat /\ Calls = 1..(Len(inputs) + Repeats)
      /\ subject \in 1..3 /\ call \in Nat /\ call <= Len(inputs) + Repeats
      /\ prog \in [Subjects -> Programs] /\ inputs \in InputLists
  BY InputsTyped DEF Inv, Typing
<1>3. CASE NextSubject
  <2>1. /\ subject \in Subjects /\ subject' = subject + 1 /\ call' = 0
        /\ joining' = FALSE /\ thread' = thread /\ call = Len(inputs) + Repeats
    BY <1>1, <1>2, <1>3 DEF NextSubject
  <2>2. \A k \in Subjects : k \in 1..2
    BY DEF Subjects
  <2>3. \A k \in Subjects : Finished(k)' = Finished(k)
    BY <1>1, <1>2, <2>1, <2>2 DEF Finished
  <2>4. \A k \in Subjects : Started(k)' = Started(k)
    BY <1>1, <2>1, <2>3 DEF Started
  <2>5. ASSUME NEW k \in Subjects, k = subject', InOrder(k, Finished(k))
        PROVE  StateNow(k)
    <3>1. k = 2 /\ subject = 1 /\ 1 \in Subjects /\ ~joining
      BY <1>1, <2>1, <2>2, <2>5 DEF Subjects
    <3>2. Finished(2) = 0 /\ Started(2) = 0 /\ Finished(1) = call
      BY <1>1, <3>1 DEF Finished, Started
    <3>3. mutable[2] = Fresh
      BY <2>5, <3>1 DEF Inv, Later
    <3>4. objects = Start(2)
      <4>1. CASE LeavesInputs(prog[1])
        <5>1. Clean(subject)
          BY <3>1, <4>1 DEF Clean
        <5>2. objects = inputs
          BY <2>1, <5>1 DEF Inv, Untouched
        <5> QED
          BY <1>2, <2>5, <3>1, <4>1, <5>2, BeforeTyped
      <4>2. CASE \A c \in Calls : <<1, c>> \notin givenUp
        <5>1. InOrder(1, Finished(1))
          BY <1>2, <2>1, <3>2, <4>2 DEF InOrder, Apart
        <5>2. StateNow(1) /\ Started(1) = call
          BY <1>2, <3>1, <3>2, <5>1 DEF Order, InTurn, Started
        <5>3. Found(1) = Before(1)[Len(inputs) + Repeats + 1]
          <6>1. call # call + 1
            BY <1>2
          <6> QED
            BY <2>1, <3>2, <5>2, <6>1 DEF StateNow
        <5>4. Before(1) = Run(prog[1], inputs)
          BY DEF Before, Start
        <5> QED
          BY <5>3, <5>4 DEF Found, Start
      <4> QED
        BY <2>5, <3>1, <4>1, <4>2 DEF InOrder, Apart
    <3>5. Found(2) = Before(2)[1]
      BY <1>2, <2>5, <3>1, <3>3, <3>4, BeforeTyped DEF Found
    <3> QED
      BY <3>1, <3>2, <3>5 DEF StateNow
  <2> QED
    BY <1>1, <2>1, <2>3, <2>4, <2>5, OrderKept
<1>4. CASE StartCall
  <2> DEFINE v == <<subject, call + 1>>
  <2>1. /\ subject \in Subjects /\ call + 1 \in Calls /\ subject' = subject /\ call' = call + 1
        /\ joining' = TRUE /\ v \in AllCalls
        /\ thread' = [thread EXCEPT ![v].pc = "new"]
    BY <1>4, AllCallsFacts DEF StartCall
  <2>2. /\ \A w \in AllCalls : w # v => thread'[w] = thread[w]
        /\ thread'[v].pc = "new" /\ v[1] = subject /\ v[2] = call + 1
    BY <2>1 DEF Inv, Typing, Pcs
  <2> HIDE DEF v
  <2>3. /\ \A k \in Subjects : Finished(k)' = Finished(k)
        /\ Finished(subject) = call /\ Started(subject) = call
        /\ \A k \in Subjects : k = subject => Started(k)' = call + 1
        /\ \A k \in Subjects : k # subject => Started(k)' = Started(k)
    <3>1. \A k \in Subjects : Finished(k)' = Finished(k)
      BY <1>1, <1>2, <2>1 DEF Finished
    <3>2. Finished(subject) = call
      BY <1>1, <1>2, <2>1 DEF Finished
    <3> QED
      BY <1>1, <1>2, <2>1, <3>1, <3>2 DEF Started
  <2>4. /\ \A k, c : InOrder(k, c)' = InOrder(k, c)
        /\ \A k \in Subjects : InOrder(k, Finished(k))' = InOrder(k, Finished(k))
    BY <1>1, <2>3, InOrderFixed DEF InOrder
  <2>5. Unborn'
    <3>1. ASSUME NEW w \in AllCalls, w[2] > Started(w[1])'
          PROVE  thread'[w].pc = "none"
      <4>1. w[1] \in Subjects /\ w[2] \in Nat /\ w = <<w[1], w[2]>>
        BY <1>2, AllCallsFacts
      <4>2. w # v /\ w[2] > Started(w[1])
        BY <1>2, <2>2, <2>3, <3>1, <4>1
      <4> QED
        BY <2>2, <4>2 DEF Order, Unborn
    <3> QED
      BY <1>1, <3>1, Fixed DEF Unborn
  <2>6. GivenPast'
    <3>1. \A w \in givenUp : w[1] \in Subjects
      BY AllCallsFacts DEF Inv, Typing
    <3> QED
      BY <1>1, <2>3, <3>1 DEF Order, GivenPast
  <2>7. Told'
    <3>1. thread[v].pc = "none"
      BY <1>2, <2>1, <2>2, <2>3 DEF Order, Unborn
    <3>2. result[v] = <<>>
      BY <2>1, <3>1 DEF Order, Told
    <3> QED
      BY <1>1, <2>2, <3>2, Fixed DEF Order, Told
  <2>8. InTurn'
    <3>1. ASSUME NEW k \in Subjects, InOrder(k, Finished(k))
          PROVE  AfterAll(k)'
      <4>1. AfterAll(k)
        BY <3>1 DEF Order, InTurn
      <4>2. /\ Finished(k) \in Nat /\ Finished(k) <= Len(inputs) + Repeats
            /\ Started(k) = Finished(k)
        BY <1>1, CountsTyped
      <4>3. \A c \in 1..Finished(k) : thread'[<<k, c>>].pc = "ended"
        <5> TAKE c \in 1..Finished(k)
        <5>1. <<k, c>> \in AllCalls /\ thread[<<k, c>>].pc = "ended"
          BY <1>2, <4>1, <4>2, AllCallsFacts DEF AfterAll
        <5>2. <<k, c>> # v
          BY <1>2, <2>2, <2>3, <4>2
        <5> QED
          BY <2>2, <5>1, <5>2
      <4> QED
        BY <1>1, <2>3, <4>1, <4>3, FixedAlone DEF AfterAll
    <3>2. ASSUME NEW k \in Subjects, InOrder(k, Finished(k)), k = subject
          PROVE  StateNow(k)'
      <4>1. StateNow(k) /\ Started(k) = Finished(k) /\ Finished(k) \in Nat
        BY <1>1, <3>2, CountsTyped DEF Order, InTurn
      <4>2. Found(k)' = Found(k) /\ Before(k)' = Before(k)
        BY <1>1, FixedAlone DEF Found, shared
      <4>3. Found(k)' = Before(k)[Finished(k) + 1]
        BY <4>1, <4>2 DEF StateNow
      <4>4. \A c : c = call + 1 => Running(k, c)'
        BY <2>2, <2>3, <3>2, <4>2, <4>3 DEF Running, v
      <4> QED
        BY <2>3, <3>2, <4>4 DEF StateNow
    <3> QED
      BY <2>1, <2>4, <3>1, <3>2 DEF InTurn
  <2>9. EntriesExact'
    BY <1>1, <2>4, FixedAlone DEF Order, EntriesExact
  <2>10. PathsExact'
    BY <1>1, <2>4, FixedAlone DEF Order, PathsExact
  <2> QED
    BY <1>1, <2>3, <2>5, <2>6, <2>7, <2>8, <2>9, <2>10, TallyKept DEF Order
<1> QED
  BY <1>3, <1>4

(* What the host notes of the current call in the books of a program       *)
(* without state: its features, unless the call is given up.               *)
LEMMA TallyRecord ==
  ASSUME Inv, Order, joining, NEW evs \in Seq(Event), NEW exc, Record(evs, exc),
         UNCHANGED <<prog, inputs, subject, call>>,
         \/ givenUp' = givenUp \cup {Current} /\ evs = <<>>
         \/ /\ givenUp' = givenUp
            /\ thread[Current].pc = "ended"
            /\ SeenOf(thread[Current].out) = [events |-> evs, exc |-> exc]
  PROVE  Tally'
<1> DEFINE s == subject
           G == GivenUpBy(s)
           H == GivenUpBy(s)'
           ns == Numbered(names[s], evs)
           e == Entry(evs, exc, names[s])
<1>1. /\ Len(inputs) \in Nat /\ Repeats \in Nat /\ s \in Subjects /\ call \in Nat
      /\ call \in Calls /\ 1 <= call /\ call <= Len(inputs) + Repeats
      /\ names[s] \in Seq(Names) /\ prog[s] \in Programs /\ inputs \in InputLists
      /\ prog \in [Subjects -> Programs] /\ givenUp \subseteq AllCalls
      /\ Calls = 1..(Len(inputs) + Repeats) /\ Current = <<s, call>>
      /\ Current \in AllCalls /\ joining' = FALSE
  BY InputsTyped, AllCallsFacts DEF Inv, Typing, Current, Record
<1>2. /\ names' = [names EXCEPT ![s] = ns]
      /\ \A k \in Subjects : k # s => names'[k] = names[k] /\ entries'[k] = entries[k]
      /\ names'[s] = ns
      /\ entries'[s] = IF IsRepeat(call) THEN entries[s] ELSE Append(entries[s], e)
  BY <1>1 DEF Record, Inv, Typing
<1>3. /\ \A k \in Subjects : k # s => Finished(k)' = Finished(k)
      /\ Finished(s) = call - 1 /\ Finished(s)' = call
  BY <1>1 DEF Finished
<1>4. givenUp' \subseteq AllCalls /\ givenUp \subseteq givenUp'
  BY <1>1
<1>5. ASSUME NEW k
      PROVE  /\ \A c : c \in GivenUpBy(k) <=> <<k, c>> \in givenUp
             /\ \A c : c \in GivenUpBy(k)' <=> <<k, c>> \in givenUp'
  <2>1. GivenUpBy(k)' = {w[2] : w \in {v \in givenUp' : v[1] = k}}
    BY DEF GivenUpBy
  <2>2. \A c : c \in GivenUpBy(k)' <=> \E w \in givenUp' : w[1] = k /\ w[2] = c
    BY <2>1
  <2>3. \A w \in givenUp' : w = <<w[1], w[2]>>
    BY <1>4, AllCallsFacts
  <2>4. \A c : <<k, c>>[1] = k /\ <<k, c>>[2] = c
    OBVIOUS
  <2> QED
    BY <1>1, <2>2, <2>3, <2>4, AllCallsFacts
<1>6. ASSUME NEW k \in Subjects, k # s PROVE GivenUpBy(k)' = GivenUpBy(k)
  <2>1. \A c : <<k, c>> # Current
    BY <1>1, <1>6
  <2>2. \A c : <<k, c>> \in givenUp' <=> <<k, c>> \in givenUp
    BY <2>1
  <2>3. \A c : c \in GivenUpBy(k)' <=> c \in GivenUpBy(k)
    BY <1>5, <2>2
  <2>4. \A c \in GivenUpBy(k)' : c \in GivenUpBy(k)
    BY <2>3
  <2>5. \A c \in GivenUpBy(k) : c \in GivenUpBy(k)'
    BY <2>3
  <2> QED
    BY <2>4, <2>5
<1>7. /\ G \in SUBSET Calls /\ H \in SUBSET Calls
      /\ \A d \in 1..(call - 1) : d \in G <=> d \in H
      /\ call \notin G
  <2>1. \A c : <<s, c>> \in AllCalls => c \in Calls
    BY DEF AllCalls
  <2>2. call \notin G
    <3>1. ASSUME Current \in givenUp PROVE FALSE
      <4>1. Current[2] = call /\ Current[1] = s
        BY <1>1
      <4>2. call <= call - 1
        BY <1>3, <3>1, <4>1 DEF Order, GivenPast
      <4> QED
        BY <1>1, <4>2
    <3> QED
      BY <1>1, <1>5, <3>1
  <2>3. ASSUME NEW d \in 1..(call - 1) PROVE d \in G <=> d \in H
    <3>1. d # call
      BY <1>1
    <3>2. <<s, d>> # Current
      BY <1>1, <3>1
    <3> QED
      BY <1>5, <3>2
  <2>4. \A d \in G : d \in Calls
    BY <1>1, <1>5, <2>1
  <2>5. \A d \in H : d \in Calls
    BY <1>4, <1>5, <2>1
  <2> QED
    BY <2>2, <2>3, <2>4, <2>5
<1> HIDE DEF G, H
<1>8. \A c \in 0..(call - 1) : NamesHeard(s, G)[c] = NamesHeard(s, H)[c]
  <2> DEFINE m == call - 1
  <2>1. /\ m \in 0..(Len(inputs) + Repeats) /\ s \in Subjects /\ inputs \in InputLists
        /\ prog \in [Subjects -> Programs]
        /\ \A d \in 1..m : d \in G <=> d \in H
    BY <1>1, <1>7
  <2> HIDE DEF m, s
  <2>2. \A c \in 0..m : NamesHeard(s, G)[c] = NamesHeard(s, H)[c]
    BY <1>7, <2>1, NamesAgree
  <2> QED
    BY <2>2 DEF m
<1>9. NamesHeard(s, H)[call] = IF call \in H THEN NamesHeard(s, H)[call - 1]
                               ELSE Numbered(NamesHeard(s, H)[call - 1], Seen(s, call).events)
  BY <1>1, <1>7, NamesHeardFollow
<1>10. ASSUME Sound(s)
       PROVE  /\ ns = NamesHeard(s, H)[call]
              /\ call \notin H => e = Features(s, call, H)
  <2>1. names[s] = NamesHeard(s, H)[call - 1]
    <3>1. names[s] = NamesHeard(s, G)[call - 1]
      BY <1>1, <1>3, <1>10 DEF Order, Tally, G
    <3>2. call - 1 \in 0..(call - 1)
      BY <1>1
    <3> QED
      BY <1>8, <3>1, <3>2
  <2>2. CASE givenUp' = givenUp \cup {Current} /\ evs = <<>>
    <3>1. call \in H
      BY <1>1, <1>5, <2>2 DEF H
    <3>2. ns = names[s]
      <4>1. Covers(names[s], <<>>)
        BY EmptySeq DEF Covers
      <4> QED
        BY <1>1, <2>2, <4>1, NumberedFacts
    <3> QED
      BY <1>9, <2>1, <3>1, <3>2
  <2>3. CASE /\ givenUp' = givenUp
             /\ thread[Current].pc = "ended"
             /\ SeenOf(thread[Current].out) = [events |-> evs, exc |-> exc]
    <3>1. call \notin H
      <4>1. <<s, call>> \notin givenUp
        BY <1>5, <1>7 DEF G
      <4> QED
        BY <1>5, <2>3, <4>1 DEF H
    <3>2. PICK x \in Legit(s) : thread[Current].out = Outcome(prog[s], call, x)
      <4>1. Current[1] = s /\ Current[2] = call
        BY <1>1
      <4> QED
        BY <1>1, <2>3, <4>1 DEF Inv, Threads, Ran, Finds
    <3>3. SeenOf(Outcome(prog[s], call, x)) = Seen(s, call)
      <4>1. Before(s)[call] \in Contexts /\ Before(s)[call] \in Legit(s) /\ x \in Contexts
        BY <1>1, BeforeTyped DEF Legit
      <4>2. x.values = Before(s)[call].values
        BY <1>10, <4>1 DEF Sound, Legit
      <4> QED
        BY <1>1, <1>10, <4>1, <4>2, StatelessSees DEF Sound, Seen, Alone
    <3>4. evs = Seen(s, call).events /\ exc = Seen(s, call).exc
      BY <2>3, <3>2, <3>3
    <3>5. ns = NamesHeard(s, H)[call]
      BY <1>9, <2>1, <3>1, <3>4
    <3> QED
      BY <3>4, <3>5 DEF Entry, Features
  <2> QED
    BY <2>2, <2>3
<1> HIDE DEF ns, e
<1>11. ASSUME NEW k \in Subjects, Sound(k)
       PROVE  /\ names'[k] = NamesHeard(k, GivenUpBy(k)')[Finished(k)']
              /\ \A c \in 1..Len(entries'[k]) :
                   <<k, c>> \notin givenUp' => entries'[k][c] = Features(k, c, GivenUpBy(k)')
  <2>1. CASE k # s
    <3>1. /\ names[k] = NamesHeard(k, GivenUpBy(k))[Finished(k)]
          /\ \A c \in 1..Len(entries[k]) :
               <<k, c>> \notin givenUp => entries[k][c] = Features(k, c, GivenUpBy(k))
      BY <1>11 DEF Order, Tally
    <3>2. names'[k] = names[k] /\ entries'[k] = entries[k] /\ Finished(k)' = Finished(k)
          /\ GivenUpBy(k)' = GivenUpBy(k)
      BY <1>2, <1>3, <1>6, <2>1
    <3> QED
      BY <1>4, <3>1, <3>2
  <2>2. CASE k = s
    <3>1. names'[s] = NamesHeard(s, H)[Finished(s)']
      BY <1>2, <1>3, <1>10, <1>11, <2>2
    <3>2. /\ IsSeq(entries[s])
          /\ Len(entries[s]) = IF call - 1 <= Len(inputs) THEN call - 1 ELSE Len(inputs)
      BY <1>1, <1>3 DEF Inv, Booked
    <3>3. ASSUME NEW c \in 1..Len(entries[s]), <<s, c>> \notin givenUp'
          PROVE  entries[s][c] = Features(s, c, H)
      <4>1. entries[s][c] = Features(s, c, G)
        BY <1>1, <1>4, <1>11, <2>2, <3>3 DEF Order, Tally, G
      <4>2. c \in 0..(call - 1)
        BY <1>1, <3>2
      <4> QED
        BY <1>8, <4>1, <4>2 DEF Features
    <3>4. ASSUME NEW c \in 1..Len(entries'[s]), <<s, c>> \notin givenUp'
          PROVE  entries'[s][c] = Features(s, c, H)
      <4>1. CASE IsRepeat(call)
        BY <1>2, <3>3, <3>4, <4>1
      <4>2. CASE ~IsRepeat(call)
        <5>1. /\ Len(entries[s]) = call - 1 /\ Len(Append(entries[s], e)) = Len(entries[s]) + 1
              /\ \A i \in 1..Len(entries[s]) : Append(entries[s], e)[i] = entries[s][i]
              /\ Append(entries[s], e)[Len(entries[s]) + 1] = e
          <6>1. Len(entries[s]) = call - 1
            BY <1>1, <3>2, <4>2 DEF IsRepeat
          <6> QED
            BY <3>2, <6>1, Appended
        <5>2. CASE c = call
          <6>1. entries'[s][c] = e
            BY <1>1, <1>2, <4>2, <5>1, <5>2
          <6>2. call \notin H
            BY <1>5, <3>4, <5>2 DEF H
          <6> QED
            BY <1>10, <1>11, <2>2, <5>2, <6>1, <6>2
        <5>3. CASE c # call
          <6>1. c \in 1..Len(entries[s])
            BY <1>1, <1>2, <3>4, <4>2, <5>1, <5>3
          <6>2. entries'[s][c] = entries[s][c]
            BY <1>2, <4>2, <5>1, <6>1
          <6> QED
            BY <3>3, <3>4, <6>1, <6>2
        <5> QED
          BY <5>2, <5>3
      <4> QED
        BY <4>1, <4>2
    <3> QED
      BY <2>2, <3>1, <3>4 DEF H
  <2> QED
    BY <2>1, <2>2
<1> QED
  BY <1>11, Fixed, FixedAlone DEF Tally

(* The host records the current call: what it showed alone, unless it is   *)
(* given up.                                                               *)
LEMMA RecordOrder ==
  ASSUME Inv, Order, joining, NEW evs \in Seq(Event), NEW exc, Record(evs, exc),
         UNCHANGED <<prog, inputs, subject, call, shared, thread>>,
         \/ givenUp' = givenUp \cup {Current} /\ evs = <<>>
         \/ /\ givenUp' = givenUp
            /\ thread[Current].pc = "ended"
            /\ SeenOf(thread[Current].out) = [events |-> evs, exc |-> exc],
         \A w \in AllCalls : result'[w] = result[w] \/ result'[w] = <<>>
  PROVE  Order'
<1> DEFINE p == subject
           ns == Numbered(names[subject], evs)
           Unmarked == InOrder(subject, call)'
<1>1. /\ Len(inputs) \in Nat /\ Repeats \in Nat /\ subject \in Subjects /\ call \in Nat
      /\ call \in Calls /\ 1 <= call /\ call <= Len(inputs) + Repeats
      /\ names[subject] \in Seq(Names) /\ prog \in [Subjects -> Programs]
      /\ inputs \in InputLists /\ p \in Subjects
      /\ Calls = 1..(Len(inputs) + Repeats) /\ Current = <<subject, call>>
      /\ Current \in AllCalls /\ joining' = FALSE
  BY InputsTyped, AllCallsFacts DEF Inv, Typing, Current, Record
<1>2. /\ names'[subject] = ns
      /\ \A k \in Subjects : k # subject => names'[k] = names[k]
  BY <1>1 DEF Record, Inv, Typing
<1>3. /\ \A k \in Subjects : k # subject => Finished(k)' = Finished(k)
      /\ \A k \in Subjects : k # subject => Started(k)' = Started(k)
      /\ \A k \in Subjects : k = subject =>
           /\ Finished(k) = call - 1 /\ Finished(k)' = call
           /\ Started(k) = call /\ Started(k)' = call
  <2>1. /\ \A k \in Subjects : k # subject => Finished(k)' = Finished(k)
        /\ \A k \in Subjects : k = subject => Finished(k) = call - 1 /\ Finished(k)' = call
    BY <1>1 DEF Finished
  <2> QED
    BY <1>1, <2>1 DEF Started
<1>4. /\ \A k, c : InOrder(k, c)' => InOrder(k, c)
      /\ \A k \in Subjects : k # subject /\ InOrder(k, Finished(k))' => InOrder(k, Finished(k))
      /\ \A k \in Subjects : k = subject /\ InOrder(k, Finished(k))' =>
           Unmarked /\ InOrder(k, Finished(k)) /\ Current \notin givenUp'
  <2>1. givenUp \subseteq givenUp'
    OBVIOUS
  <2>2. \A k, c : InOrder(k, c)' => InOrder(k, c)
    BY <2>1, InOrderFixed
  <2>3. ASSUME NEW k \in Subjects, k # subject, InOrder(k, Finished(k))'
        PROVE  InOrder(k, Finished(k))
    <3>1. InOrder(k, Finished(k))' <=> Apart(k)' /\ \A d \in 1..Finished(k)' : <<k, d>> \notin givenUp'
      BY DEF InOrder
    <3>2. Apart(k)' => Apart(k)
      BY <2>1, InOrderFixed
    <3> QED
      BY <1>3, <2>1, <2>3, <3>1, <3>2 DEF InOrder
  <2>4. ASSUME NEW k \in Subjects, k = subject, InOrder(k, Finished(k))'
        PROVE  Unmarked /\ InOrder(k, Finished(k)) /\ Current \notin givenUp'
    <3>1. Finished(k)' = call /\ Finished(k) = call - 1
      BY <1>3, <2>4
    <3>2. Unmarked
      BY <2>4, <3>1 DEF InOrder
    <3>3. InOrder(subject, call)
      BY <2>2, <3>2
    <3>4. InOrder(k, Finished(k))
      BY <1>1, <2>4, <3>1, <3>3 DEF InOrder
    <3>5. Current \notin givenUp'
      BY <1>1, <3>2 DEF InOrder
    <3> QED
      BY <3>2, <3>4, <3>5
  <2> QED
    BY <2>2, <2>3, <2>4
<1>5. Unborn'
  <2>1. ASSUME NEW w \in AllCalls PROVE Started(w[1])' = Started(w[1])
    BY <1>3, AllCallsFacts
  <2> QED
    BY <2>1, Fixed DEF Order, Unborn
<1>6. GivenPast'
  <2>1. ASSUME NEW w \in givenUp' PROVE w[2] <= Finished(w[1])'
    <3>1. CASE w \in givenUp
      <4>1. w[1] \in Subjects /\ w[2] \in Nat /\ w[2] <= Finished(w[1])
        BY <1>1, <3>1, AllCallsFacts DEF Inv, Typing, Order, GivenPast
      <4> QED
        BY <1>1, <1>3, <4>1
    <3>2. CASE w = Current
      <4>1. w[1] \in Subjects /\ w[1] = subject /\ w[2] = call
        BY <1>1, <3>2
      <4> QED
        BY <1>1, <1>3, <4>1
    <3> QED
      BY <3>1, <3>2
  <2> QED
    BY <2>1 DEF GivenPast
<1>7. Told'
  BY Fixed DEF Order, Told
<1>8. ASSUME Unmarked
      PROVE  /\ names[subject] = NamesAfter(p)[call - 1]
             /\ evs = Seen(p, call).events /\ exc = Seen(p, call).exc
             /\ ns = NamesAfter(p)[call] /\ thread[Current].pc = "ended"
             /\ Found(subject) = Before(p)[call + 1]
  <2>1. Current \notin givenUp' /\ InOrder(subject, Finished(subject))
    <3>1. InOrder(subject, Finished(subject))'
      BY <1>1, <1>3, <1>8 DEF InOrder
    <3> QED
      BY <1>1, <1>4, <3>1
  <2>2. AfterAll(subject) /\ StateNow(subject)
    BY <1>1, <2>1 DEF Order, InTurn
  <2>3. Running(subject, call)
    BY <1>1, <1>3, <2>2 DEF StateNow
  <2>4. /\ thread[Current].out = Alone(p, call) /\ thread[Current].pc = "ended"
        /\ Found(subject) = Before(p)[call + 1]
    BY <1>1, <2>1, <2>3 DEF Running
  <2>5. Seen(p, call) = [events |-> evs, exc |-> exc]
    BY <2>1, <2>4 DEF Seen
  <2>6. names[subject] = NamesAfter(p)[call - 1]
    BY <1>1, <1>3, <2>2 DEF AfterAll
  <2>7. NamesAfter(p)[call] = Numbered(NamesAfter(p)[call - 1], Seen(p, call).events)
    BY <1>1, NamesFollow
  <2> QED
    BY <2>4, <2>5, <2>6, <2>7
<1> HIDE DEF ns
<1>9. InTurn'
  <2>1. ASSUME NEW k \in Subjects, k # subject, InOrder(k, Finished(k))'
        PROVE  AfterAll(k)'
    <3>1. AfterAll(k)
      BY <1>4, <2>1 DEF Order, InTurn
    <3> QED
      BY <1>2, <1>3, <2>1, <3>1, FixedAlone DEF AfterAll
  <2>2. ASSUME NEW k \in Subjects, k = subject, InOrder(k, Finished(k))'
        PROVE  AfterAll(k)' /\ StateNow(k)'
    <3>1. Unmarked /\ InOrder(k, Finished(k))
      BY <1>4, <2>2
    <3>2. AfterAll(k)
      BY <1>1, <3>1 DEF Order, InTurn
    <3>3. \A c \in 1..call : thread[<<k, c>>].pc = "ended"
      <4> TAKE c \in 1..call
      <4>1. c = call \/ c \in 1..(call - 1)
        BY <1>1
      <4> QED
        BY <1>1, <1>3, <1>8, <2>2, <3>1, <3>2, <4>1 DEF AfterAll
    <3>4. names'[k] = NamesAfter(p)[call]
      BY <1>2, <1>8, <2>2, <3>1
    <3>5. Before(k)' = Before(p) /\ NamesAfter(k)' = NamesAfter(p)
      BY <2>2, FixedAlone
    <3>6. AfterAll(k)'
      BY <1>3, <2>2, <3>3, <3>4, <3>5 DEF AfterAll
    <3>7. Found(k)' = Before(p)[call + 1]
      BY <1>8, <2>2, <3>1 DEF Found, shared
    <3>8. StateNow(k)'
      BY <1>1, <1>3, <2>2, <3>5, <3>7 DEF StateNow
    <3> QED
      BY <3>6, <3>8
  <2>3. subject' = subject
    OBVIOUS
  <2> QED
    BY <2>1, <2>2, <2>3 DEF InTurn
<1> DEFINE e == Entry(evs, exc, names[subject])
           h == RepeatPath(evs, names[subject])
<1>10. /\ \A k \in Subjects : k # subject =>
            entries'[k] = entries[k] /\ runHashes'[k] = runHashes[k]
       /\ IsRepeat(call) => /\ entries'[subject] = entries[subject]
                            /\ runHashes'[subject] = Append(runHashes[subject], h)
       /\ ~IsRepeat(call) => /\ entries'[subject] = Append(entries[subject], e)
                             /\ runHashes'[subject] = runHashes[subject]
  BY <1>1 DEF Record, Inv, Typing
<1>11. Unmarked => e = Sequentially(p, call) /\ h = PathAfter(p, call)
  BY <1>8 DEF Entry, RepeatPath, Sequentially, Features, NamesAfter, PathAfter, ns
<1>12. /\ IsSeq(entries[subject]) /\ IsSeq(runHashes[subject])
       /\ Len(entries[subject]) = IF call - 1 <= Len(inputs) THEN call - 1 ELSE Len(inputs)
       /\ Len(runHashes[subject]) =
            IF call - 1 <= Len(inputs) THEN 0 ELSE (call - 1) - Len(inputs)
  BY <1>1, <1>3 DEF Inv, Booked
<1> HIDE DEF e, h
<1>13. /\ Len(Append(entries[subject], e)) = Len(entries[subject]) + 1
       /\ Len(Append(runHashes[subject], h)) = Len(runHashes[subject]) + 1
       /\ \A i \in 1..Len(entries[subject]) :
            Append(entries[subject], e)[i] = entries[subject][i]
       /\ Append(entries[subject], e)[Len(entries[subject]) + 1] = e
       /\ \A i \in 1..Len(runHashes[subject]) :
            Append(runHashes[subject], h)[i] = runHashes[subject][i]
       /\ Append(runHashes[subject], h)[Len(runHashes[subject]) + 1] = h
  BY <1>12, Appended
<1>14. EntriesExact'
  <2>1. ASSUME NEW k \in Subjects, NEW c \in 1..Len(entries[k]), InOrder(k, c)'
        PROVE  entries[k][c] = Sequentially(k, c)
    BY <1>4, <2>1 DEF Order, EntriesExact
  <2>2. ASSUME NEW k \in Subjects, NEW c \in 1..Len(entries'[k]), InOrder(k, c)'
        PROVE  entries'[k][c] = Sequentially(k, c)
    <3>1. CASE k # subject \/ IsRepeat(call)
      BY <1>10, <2>1, <2>2, <3>1
    <3>2. CASE k = subject /\ ~IsRepeat(call)
      <4>1. Len(entries[subject]) = call - 1 /\ Len(entries'[subject]) = call
        BY <1>1, <1>10, <1>12, <1>13, <3>2 DEF IsRepeat
      <4>2. CASE c = call
        <5>1. entries'[k][c] = e
          BY <1>1, <1>10, <1>13, <3>2, <4>1, <4>2
        <5>2. Unmarked
          BY <2>2, <3>2, <4>2
        <5> QED
          BY <1>11, <3>2, <4>2, <5>1, <5>2
      <4>3. CASE c # call
        <5>1. c \in 1..Len(entries[k])
          BY <1>1, <2>2, <3>2, <4>1, <4>3
        <5>2. entries'[k][c] = entries[k][c]
          BY <1>10, <1>13, <3>2, <5>1
        <5> QED
          BY <2>1, <2>2, <5>1, <5>2
      <4> QED
        BY <4>2, <4>3
    <3> QED
      BY <3>1, <3>2
  <2> QED
    BY <2>2, FixedAlone DEF EntriesExact
<1>15. PathsExact'
  <2>1. ASSUME NEW k \in Subjects, InOrder(k, Finished(k))', NEW i \in 1..Len(runHashes[k])
        PROVE  runHashes[k][i] = PathAfter(k, Len(inputs) + i)
    <3>1. InOrder(k, Finished(k))
      BY <1>4, <2>1
    <3> QED
      BY <2>1, <3>1 DEF Order, PathsExact
  <2>2. ASSUME NEW k \in Subjects, InOrder(k, Finished(k))', NEW i \in 1..Len(runHashes'[k])
        PROVE  runHashes'[k][i] = PathAfter(k, Len(inputs) + i)
    <3>1. CASE k # subject \/ ~IsRepeat(call)
      BY <1>10, <2>1, <2>2, <3>1
    <3>2. CASE k = subject /\ IsRepeat(call)
      <4>1. /\ Len(runHashes[subject]) = (call - 1) - Len(inputs)
            /\ Len(runHashes'[subject]) = call - Len(inputs)
        <5>1. call > Len(inputs)
          BY <3>2 DEF IsRepeat
        <5>2. Len(runHashes[subject]) = (call - 1) - Len(inputs)
          BY <1>1, <1>12, <5>1
        <5>3. Len(runHashes'[subject]) = Len(runHashes[subject]) + 1
          BY <1>10, <1>13, <3>2
        <5> QED
          BY <1>1, <5>2, <5>3
      <4>2. CASE i = call - Len(inputs)
        <5>1. runHashes'[k][i] = h /\ Len(inputs) + i = call
          BY <1>1, <1>10, <1>13, <3>2, <4>1, <4>2
        <5>2. Unmarked
          BY <1>4, <2>2, <3>2
        <5> QED
          BY <1>11, <3>2, <5>1, <5>2
      <4>3. CASE i # call - Len(inputs)
        <5>1. i \in 1..Len(runHashes[k])
          <6>1. /\ i \in 1..(call - Len(inputs))
                /\ Len(runHashes[k]) = (call - 1) - Len(inputs)
            BY <2>2, <3>2, <4>1
          <6> DEFINE n == Len(inputs)  m == Len(runHashes[k])
          <6>2. n \in Nat /\ call \in Nat
            BY <1>1
          <6>3. i \in 1..(call - n) /\ m = (call - 1) - n /\ i # call - n
            BY <4>3, <6>1
          <6> HIDE DEF n, m
          <6>4. i \in 1..m
            BY <6>2, <6>3
          <6> QED
            BY <6>4 DEF m
        <5>2. runHashes'[k][i] = runHashes[k][i]
          BY <1>10, <1>13, <3>2, <5>1
        <5> QED
          BY <2>1, <2>2, <5>1, <5>2
      <4> QED
        BY <4>2, <4>3
    <3> QED
      BY <3>1, <3>2
  <2> QED
    BY <2>2, FixedAlone DEF PathsExact
<1>16. Tally'
  BY TallyRecord
<1> QED
  BY <1>5, <1>6, <1>7, <1>9, <1>14, <1>15, <1>16 DEF Order

(* Every step keeps the order.                                             *)
LEMMA OrderStep ==
  ASSUME Inv, Order, [Next]_vars
  PROVE  Order'
<1>1. CASE UNCHANGED vars
  <2>1. \A k \in Subjects : Finished(k)' = Finished(k) /\ Started(k)' = Started(k)
    BY <1>1 DEF vars, hostVars, Finished, Started
  <2>2. \A k \in Subjects : k = subject' /\ InOrder(k, Finished(k)) => StateNow(k)
    BY <1>1 DEF vars, hostVars, Order, InTurn
  <2> QED
    BY <1>1, <2>1, <2>2, OrderKept DEF vars, hostVars
<1>2. CASE Done
  BY <1>1, <1>2 DEF Done
<1>3. CASE StartCall \/ NextSubject
  BY <1>3, NextCallOrder
<1>4. CASE TakeResult
  <2> DEFINE r == Head(result[Current])
  <2>1. /\ joining /\ result[Current] # <<>> /\ Record(r.events, r.exc)
        /\ UNCHANGED <<prog, inputs, subject, call, shared, thread, givenUp>>
        /\ result' = [result EXCEPT ![Current] = Tail(@)]
    BY <1>4 DEF TakeResult, QueueOf
  <2>2. /\ Current \in AllCalls /\ Current[1] \in Subjects /\ Current[2] \in Calls
        /\ prog[Current[1]] \in Programs
    BY <2>1, AllCallsFacts DEF Inv, Typing, Current
  <2>3. /\ thread[Current].pc = "ended"
        /\ SeenOf(thread[Current].out) = [events |-> r.events, exc |-> r.exc]
        /\ r.events = Recorded(thread[Current].out.events) /\ Tail(result[Current]) = <<>>
    <3> DEFINE o == thread[Current].out
    <3>1. /\ thread[Current].pc = "ended" /\ o.exc # "SystemExit"
          /\ result[Current] = << [events |-> Recorded(o.events), exc |-> o.exc] >>
      BY <2>1, <2>2 DEF Order, Told
    <3> HIDE DEF o
    <3>2. r = [events |-> Recorded(o.events), exc |-> o.exc] /\ Tail(result[Current]) = <<>>
      BY <3>1
    <3>3. SeenOf(o) = [events |-> r.events, exc |-> r.exc] /\ r.events = Recorded(o.events)
      BY <3>1, <3>2 DEF SeenOf
    <3> QED
      BY <3>1, <3>2, <3>3 DEF o
  <2>4. r.events \in Seq(Event)
    <3>1. PICK x \in Contexts : thread[Current].out = Outcome(prog[Current[1]], Current[2], x)
      BY <2>2, <2>3 DEF Inv, Threads, Ran, Finds, Legit
    <3> QED
      BY <2>2, <2>3, <3>1, OutcomeTyped, RecordedTyped DEF Inv, Typing
  <2>5. \A w \in AllCalls : result'[w] = result[w] \/ result'[w] = <<>>
    BY <2>1, <2>2, <2>3 DEF Inv, Typing
  <2> HIDE DEF r
  <2> QED
    BY <2>1, <2>3, <2>4, <2>5, RecordOrder
<1>5. CASE GiveUp
  <2>1. /\ joining /\ result[Current] = <<>>
        /\ UNCHANGED <<prog, inputs, subject, call, shared, thread, result>>
        /\ Record(<<>>, "TimeoutError")
        /\ \/ thread[Current].pc = "ended" /\ givenUp' = givenUp
           \/ givenUp' = givenUp \cup {Current}
    BY <1>5 DEF GiveUp, QueueOf
  <2>2. \/ givenUp' = givenUp \cup {Current} /\ <<>> = <<>>
        \/ /\ givenUp' = givenUp
           /\ thread[Current].pc = "ended"
           /\ SeenOf(thread[Current].out) = [events |-> <<>>, exc |-> "TimeoutError"]
    BY <2>1 DEF Inv, Silent, SeenOf
  <2>3. <<>> \in Seq(Event)
    BY EmptySeq
  <2> QED
    BY <2>1, <2>2, <2>3, RecordOrder
<1>6. CASE \E w \in AllCalls : Enter(w) \/ Mutate(w) \/ Finish(w)
  BY <1>6, ThreadOrder
<1> QED
  BY <1>1, <1>2, <1>3, <1>4, <1>5, <1>6 DEF Next

(* The order holds before the first call.                                  *)
LEMMA OrderInit ==
  ASSUME Init
  PROVE  Order
<1>1. /\ Inv /\ inputs \in InputLists /\ prog \in [Subjects -> Programs] /\ joining = FALSE
      /\ givenUp = {}
  BY InvInit DEF Init
<1>2. \A k \in Subjects : Finished(k) = 0 /\ Started(k) = 0
  BY DEF Init, Finished, Started, Subjects
<1>3. Unborn /\ GivenPast /\ Told
  BY <1>1, <1>2, AllCallsFacts DEF Init, Unborn, GivenPast, Told
<1>4. /\ \A k \in Subjects : NamesAfter(k)[0] = <<>>
      /\ \A k \in Subjects : k = 1 => Found(k) = Before(k)[1]
  <2>1. \A k \in Subjects : k = 1 => Start(k) = inputs
    BY DEF Start
  <2> QED
    BY <1>1, <2>1, NamesFollow, BeforeTyped DEF Found, Init
<1>5. InTurn
  <2>1. ASSUME NEW k \in Subjects PROVE AfterAll(k) /\ (k = subject => StateNow(k))
    <3>1. AfterAll(k)
      BY <1>2, <1>4 DEF Init, AfterAll
    <3>2. k = subject => StateNow(k)
      BY <1>2, <1>4 DEF Init, StateNow
    <3> QED
      BY <3>1, <3>2
  <2> QED
    BY <2>1 DEF InTurn
<1>6. EntriesExact /\ PathsExact
  BY EmptySeq DEF Init, EntriesExact, PathsExact
<1>7. Tally
  <2>1. \A k \in Subjects : NamesHeard(k, GivenUpBy(k))[0] = <<>>
    <3>1. \A k \in Subjects : GivenUpBy(k) \in SUBSET Calls
      BY <1>1 DEF GivenUpBy
    <3> QED
      BY <1>1, <3>1, NamesHeardFollow
  <2> QED
    BY <1>2, <2>1, EmptySeq DEF Init, Tally
<1> QED
  BY <1>3, <1>5, <1>6, <1>7 DEF Order

(* The order holds throughout.                                             *)
LEMMA OrderAlways == Spec => [](Inv /\ Order)
<1>1. Init => Inv /\ Order
  BY InvInit, OrderInit
<1>2. Inv /\ Order /\ [Next]_vars => Inv' /\ Order'
  BY InvStep, OrderStep
<1> QED
  BY <1>1, <1>2, PTL DEF Spec

-----------------------------------------------------------------------------
(* In order, every entry and the drift are those of the calls alone, but   *)
(* after a call that was given up, or reached from the first program.      *)
LEMMA OrderSays ==
  ASSUME Inv, Order
  PROVE  OnlyGivenUpDistorts
<1>1. /\ Len(inputs) \in Nat /\ Repeats \in Nat /\ Repeats >= 2
      /\ Calls = 1..(Len(inputs) + Repeats) /\ inputs \in InputLists
      /\ prog \in [Subjects -> Programs] /\ givenUp \subseteq AllCalls
  BY InputsTyped DEF Inv, Typing
<1>2. ASSUME NEW k \in Subjects, ~Reached(k)
      PROVE  Apart(k)
  <2>1. k = 2 => GivenUpBy(1) = {} \/ LeavesInputs(prog[1])
    BY <1>2 DEF Reached
  <2> QED
    BY <1>1, <2>1, AllCallsFacts DEF Apart, Subjects
<1>3. ASSUME NEW k \in Subjects, ~Reached(k), NEW c \in DOMAIN entries[k],
             GivenUpBy(k) \cap 1..c = {}
      PROVE  entries[k][c] = Features(k, c, {})
  <2>1. c \in 1..Len(entries[k])
    BY LenProperties DEF Inv, Booked, IsSeq
  <2>2. InOrder(k, c)
    BY <1>1, <1>3, <1>2, AllCallsFacts DEF InOrder
  <2> QED
    BY <2>1, <2>2 DEF Order, EntriesExact, Sequentially
<1>4. ASSUME NEW k \in Subjects, ~Reached(k), ProfileDone(k), GivenUpBy(k) = {}
      PROVE  Drift(runHashes[k]) = DriftAlone(k)
  <2> DEFINE p == k
             n == Len(inputs)
             last == NamesAfter(p)[n + Repeats]
  <2>1. Len(runHashes[k]) = Repeats /\ p \in Subjects
    BY <1>1, <1>4 DEF ProfileDone
  <2>2. \A i \in 1..Repeats : runHashes[k][i] = PathAfter(p, n + i)
    <3>1. InOrder(k, Finished(k))
      BY <1>1, <1>4, <1>2, AllCallsFacts DEF InOrder
    <3> QED
      BY <2>1, <3>1 DEF Order, PathsExact
  <2>3. last \in Seq(Names) /\ Distinct(last)
    BY <1>1, <2>1, NamesGrow
  <2>4. ASSUME NEW c \in Calls
        PROVE  /\ PathAfter(p, c) = LineSeq(last, Seen(p, c).events)
               /\ PathNamed(last, Seen(p, c).events)
               /\ Seen(p, c).events \in Seq(Event)
    <3>1. c \in 0..(n + Repeats) /\ n + Repeats \in 0..(n + Repeats)
      BY <1>1
    <3>2. /\ NamesAfter(p)[c] \in Seq(Names) /\ Distinct(NamesAfter(p)[c])
          /\ Begins(NamesAfter(p)[c], last)
          /\ PathNamed(NamesAfter(p)[c], Seen(p, c).events)
      BY <1>1, <2>1, <3>1, NamesGrow
    <3> QED
      BY <1>1, <2>1, <2>3, <3>2, SeenFacts, LineSeqKept DEF PathAfter
  <2>5. ASSUME NEW i \in 1..(Repeats - 1)
        PROVE  runHashes[k][i] # runHashes[k][i + 1]
                 <=> PathOf(p, n + i) # PathOf(p, n + i + 1)
    <3>1. /\ n + i \in Calls /\ n + i + 1 \in Calls
          /\ i \in 1..Repeats /\ i + 1 \in 1..Repeats /\ n + (i + 1) = n + i + 1
      BY <1>1
    <3>2. /\ runHashes[k][i] = LineSeq(last, Seen(p, n + i).events)
          /\ runHashes[k][i + 1] = LineSeq(last, Seen(p, n + i + 1).events)
      BY <2>2, <2>4, <3>1
    <3> HIDE DEF last
    <3> QED
      BY <2>3, <2>4, <3>1, <3>2, LineSeqExact DEF PathOf, last
  <2> HIDE DEF p, n
  <2>6. {i \in 1..(Repeats - 1) : runHashes[k][i] # runHashes[k][i + 1]}
          = {i \in 1..(Repeats - 1) : PathOf(p, n + i) # PathOf(p, n + i + 1)}
    BY <2>5
  <2> QED
    BY <2>1, <2>6 DEF Drift, DriftAlone, p, n
<1> QED
  BY <1>3, <1>4 DEF OnlyGivenUpDistorts

(* Every entry and the drift are those of the calls run alone in order,    *)
(* unless an earlier call of the same program, or this one, was given up,  *)
(* or one of the first program was and that program changes its inputs.    *)
THEOREM GivenUpOnly == Spec => []OnlyGivenUpDistorts
BY OrderSays, OrderAlways, PTL

(* A program that keeps no state, on inputs that neither it nor a program  *)
(* before it changes, is measured exactly at every input that was not      *)
(* itself given up, but for the functions only calls given up entered,     *)
(* whatever the threads left behind do, and shows drift only if one of its *)
(* repeats was given up.                                                   *)
THEOREM StatelessIsExact == Spec => []StatelessSurvives
<1>1. ASSUME Inv, Order PROVE StatelessSurvives
  <2>1. /\ Len(inputs) \in Nat /\ Repeats \in Nat /\ Repeats >= 2
        /\ Calls = 1..(Len(inputs) + Repeats) /\ inputs \in InputLists
        /\ prog \in [Subjects -> Programs] /\ givenUp \subseteq AllCalls
    BY <1>1, InputsTyped DEF Inv, Typing
  <2>2. ASSUME NEW k \in Subjects, Sound(k),
               NEW c \in DOMAIN entries[k] \ GivenUpBy(k)
        PROVE  entries[k][c] = Features(k, c, GivenUpBy(k))
    <3>1. c \in 1..Len(entries[k])
      BY <1>1, LenProperties DEF Inv, Booked, IsSeq
    <3>2. <<k, c>> \notin givenUp
      BY <2>1, <2>2, AllCallsFacts
    <3> QED
      BY <1>1, <2>2, <3>1, <3>2 DEF Order, Tally
  <2>3. ASSUME NEW k \in Subjects, Sound(k), ProfileDone(k), Drift(runHashes[k]) # 0
        PROVE  \E c \in GivenUpBy(k) : IsRepeat(c)
    <3> SUFFICES ASSUME \A c \in GivenUpBy(k) : ~IsRepeat(c)
                 PROVE  FALSE
      OBVIOUS
    <3>1. Undisturbed(k)
      BY <2>1, <2>3, AllCallsFacts DEF Undisturbed
    <3>2. \A i \in 1..Len(runHashes[k]) : runHashes[k][i] = LineSeq(names[k], Shown(k))
      BY <1>1, <3>1 DEF Inv, Steady
    <3>3. {i \in 1..(Len(runHashes[k]) - 1) : runHashes[k][i] # runHashes[k][i + 1]} = {}
      BY <2>1, <2>3, <3>2 DEF ProfileDone
    <3>4. Drift(runHashes[k]) = 0
      BY <3>3, FS_EmptySet DEF Drift
    <3> QED
      BY <2>3, <3>4
  <2> QED
    BY <2>2, <2>3 DEF StatelessSurvives, Sound, Clean
<1> QED
  BY <1>1, OrderAlways, PTL

-----------------------------------------------------------------------------
(* Numbering along a path.                                                 *)

(* The names and one function more.                                        *)
Met(ns, f) == IF Has(ns, f) THEN ns ELSE Append(ns, f)

(* w[i] is what the names have become after i items of the path.           *)
Walks(w, ns, path) ==
  /\ w \in [0..Len(path) -> Seq(Names)]
  /\ w[0] = ns
  /\ \A i \in 1..Len(path) : w[i] = Met(w[i - 1], path[i][1])

(* A path can be walked.                                                   *)
LEMMA PathWalked ==
  ASSUME NEW ns \in Seq(Names), NEW path \in Seq(Names \X Nat)
  PROVE  \E w : Walks(w, ns, path)
<1> DEFINE N == Len(path)
           S == Seq(Names)
           step == [x \in (1..N) \X S |-> Met(x[2], path[x[1]][1])]
<1>1. N \in Nat /\ \A i \in 1..N : path[i][1] \in Names
  <2>1. \A i \in 1..N : path[i] \in Names \X Nat
    BY LenProperties, ElementOfSeq
  <2> QED
    BY <2>1, LenProperties
<1>2. \A i \in 1..N, s \in S : Met(s, path[i][1]) \in S
  BY <1>1, AppendProperties DEF Met
<1>3. step \in [(1..N) \X S -> S]
  <2>1. \A x \in (1..N) \X S : Met(x[2], path[x[1]][1]) \in S
    BY <1>2
  <2> QED
    BY <2>1
<1>4. PICK w \in [0..N -> S] : Follows(w, ns, step, N)
  <2> HIDE DEF step, N, S
  <2>1. ns \in S
    BY DEF S
  <2> QED
    BY <1>1, <1>3, <2>1, Recursion
<1>5. w[0] = ns /\ \A i \in 1..N : w[i] = Met(w[i - 1], path[i][1])
  <2>1. \A i \in 1..N : <<i, w[i - 1]>> \in (1..N) \X S
    <3> TAKE i \in 1..N
    <3>1. i - 1 \in 0..N
      BY <1>1
    <3> HIDE DEF N, S
    <3> QED
      BY <1>4, <3>1
  <2>2. \A i \in 1..N : step[<<i, w[i - 1]>>] = Met(w[i - 1], path[i][1])
    BY <2>1
  <2> QED
    BY <1>4, <2>2 DEF Follows
<1> QED
  BY <1>4, <1>5 DEF Walks

(* The numbers of a call depend on its path alone.                         *)
LEMMA NumberedWalk ==
  ASSUME NEW ns \in Seq(Names), NEW evs \in Seq(Event), LinesCalled(evs),
         NEW w, Walks(w, ns, Path(evs))
  PROVE  Numbered(ns, evs) = w[Len(Path(evs))]
<1> DEFINE N == Len(evs)
           P == Path(evs)
<1>1. /\ N \in Nat /\ \A n \in 1..N : evs[n] \in Event
      /\ Len(P) \in Nat
  BY LenProperties, ElementOfSeq, PathItems
<1>2. PICK f : After(f, ns, evs) /\ Numbered(ns, evs) = f[N]
  BY NumberedAfter
<1>3. /\ f \in [0..N -> Seq(Names)] /\ f[0] = ns
      /\ \A n \in 1..N : f[n] = With(f[n - 1], evs[n])
  BY <1>2 DEF After
<1>4. PICK pos : Places(pos, evs)
  BY PathPlaces
<1>5. /\ pos \in [0..N -> 0..Len(P)] /\ pos[0] = 0 /\ pos[N] = Len(P)
      /\ \A n \in 1..N : IF OnPath(evs[n])
                         THEN pos[n] = pos[n - 1] + 1 /\ P[pos[n]] = Item(evs[n])
                         ELSE pos[n] = pos[n - 1]
  BY <1>4 DEF Places
<1>6. /\ w[0] = ns
      /\ \A i \in 1..Len(P) : w[i] = Met(w[i - 1], P[i][1])
  BY DEF Walks
<1> HIDE DEF N, P
<1> DEFINE T == {n \in 0..N : /\ f[n] = w[pos[n]]
                              /\ \A m \in 1..n : evs[m].kind = "call" => Has(f[n], evs[m].fn)}
<1>7. 0 \in T
  BY <1>1, <1>3, <1>5, <1>6
<1>8. ASSUME NEW n \in 1..N, n - 1 \in T
      PROVE  n \in T
  <2>1. /\ n - 1 \in 0..N /\ n \in 0..N /\ n \in Nat
        /\ pos[n - 1] \in 0..Len(P) /\ pos[n] \in 0..Len(P)
        /\ f[n - 1] \in Seq(Names) /\ evs[n] \in Event
        /\ f[n] = With(f[n - 1], evs[n])
    BY <1>1, <1>3, <1>5
  <2>2. /\ f[n - 1] = w[pos[n - 1]]
        /\ \A m \in 1..(n - 1) : evs[m].kind = "call" => Has(f[n - 1], evs[m].fn)
    BY <1>8
  <2>3. \A m \in 1..n : evs[m].kind = "call" => Has(f[n], evs[m].fn)
    <3>1. /\ \A g : Has(f[n - 1], g) => Has(f[n], g)
          /\ evs[n].kind = "call" => Has(f[n], evs[n].fn)
      BY <2>1, WithKeeps
    <3>2. \A m \in 1..n : m \in 1..(n - 1) \/ m = n
      BY <2>1
    <3> QED
      BY <2>2, <3>1, <3>2
  <2>4. f[n] = w[pos[n]]
    <3>1. CASE ~OnPath(evs[n])
      BY <1>5, <2>1, <2>2, <3>1 DEF With, OnPath
    <3>2. CASE OnPath(evs[n])
      <4>1. /\ pos[n] = pos[n - 1] + 1 /\ P[pos[n]][1] = evs[n].fn
            /\ pos[n] \in 1..Len(P) /\ pos[n] - 1 = pos[n - 1]
        <5>1. pos[n] = pos[n - 1] + 1 /\ P[pos[n]] = Item(evs[n])
          BY <1>5, <3>2
        <5>2. Item(evs[n])[1] = evs[n].fn
          BY DEF Item
        <5>3. pos[n] \in 1..Len(P) /\ pos[n] - 1 = pos[n - 1]
          BY <1>1, <2>1, <5>1
        <5> QED
          BY <5>1, <5>2, <5>3
      <4>2. w[pos[n]] = Met(f[n - 1], evs[n].fn)
        BY <1>6, <2>2, <4>1
      <4>3. CASE evs[n].kind = "call"
        BY <2>1, <4>2, <4>3 DEF With, Met
      <4>4. CASE evs[n].kind = "line"
        <5>1. Has(f[n - 1], evs[n].fn)
          BY <2>2, <4>4 DEF LinesCalled, N
        <5> QED
          BY <2>1, <4>2, <4>4, <5>1 DEF With, Met
      <4> QED
        BY <3>2, <4>3, <4>4 DEF OnPath
    <3> QED
      BY <3>1, <3>2
  <2> QED
    BY <2>1, <2>3, <2>4
<1>9. 0..N \subseteq T
  <2> HIDE DEF T
  <2> QED
    BY <1>1, <1>7, <1>8, SetInduction
<1> QED
  BY <1>1, <1>2, <1>5, <1>9 DEF N, P

(* ms are the names ns, all of them in F, under the renaming ren.          *)
Renames(ren, F, ns, ms) ==
  Len(ms) = Len(ns) /\ \A i \in 1..Len(ns) : ns[i] \in F /\ ms[i] = ren[ns[i]]
OneToOne(ren, F) == \A x, y \in F : ren[x] = ren[y] => x = y

(* One function more on both sides.                                        *)
LEMMA MetRenames ==
  ASSUME NEW F, NEW ren, OneToOne(ren, F), NEW ns \in Seq(Names), NEW ms \in Seq(Names),
         Renames(ren, F, ns, ms), NEW f \in F, f \in Names, ren[f] \in Names
  PROVE  Renames(ren, F, Met(ns, f), Met(ms, ren[f]))
<1>1. /\ Len(ns) \in Nat /\ DOMAIN ns = 1..Len(ns)
      /\ Len(ms) = Len(ns) /\ DOMAIN ms = 1..Len(ms)
  BY LenProperties DEF Renames
<1>2. Has(ns, f) <=> Has(ms, ren[f])
  BY <1>1 DEF Has, Renames, OneToOne
<1>3. /\ Len(Append(ns, f)) = Len(ns) + 1 /\ Len(Append(ms, ren[f])) = Len(ns) + 1
      /\ \A i \in 1..Len(ns) : Append(ns, f)[i] = ns[i] /\ Append(ms, ren[f])[i] = ms[i]
      /\ Append(ns, f)[Len(ns) + 1] = f /\ Append(ms, ren[f])[Len(ns) + 1] = ren[f]
  BY <1>1, AppendProperties
<1>4. \A i \in 1..(Len(ns) + 1) : i \in 1..Len(ns) \/ i = Len(ns) + 1
  BY <1>1
<1>5. Renames(ren, F, Append(ns, f), Append(ms, ren[f]))
  BY <1>1, <1>3, <1>4 DEF Renames
<1> QED
  BY <1>2, <1>5 DEF Met

(* A renaming of the path renames the names.                               *)
LEMMA NumberedRenames ==
  ASSUME NEW F, NEW ren, OneToOne(ren, F), NEW ns \in Seq(Names), NEW ms \in Seq(Names),
         Renames(ren, F, ns, ms),
         NEW a \in Seq(Event), NEW b \in Seq(Event), LinesCalled(a), LinesCalled(b),
         Len(Path(b)) = Len(Path(a)),
         \A i \in 1..Len(Path(a)) : Path(a)[i][1] \in F /\ Path(b)[i][1] = ren[Path(a)[i][1]]
  PROVE  Renames(ren, F, Numbered(ns, a), Numbered(ms, b))
<1> DEFINE A == Path(a)  B == Path(b)  N == Len(A)
<1>1. /\ A \in Seq(Names \X Nat) /\ B \in Seq(Names \X Nat) /\ N \in Nat
      /\ \A i \in 1..N : A[i] \in Names \X Nat /\ B[i] \in Names \X Nat
  BY PathItems
<1>2. PICK u : Walks(u, ns, A)
  BY <1>1, PathWalked
<1>3. PICK v : Walks(v, ms, B)
  BY <1>1, PathWalked
<1>4. Numbered(ns, a) = u[N] /\ Numbered(ms, b) = v[N]
  BY <1>2, <1>3, NumberedWalk
<1>5. /\ u \in [0..N -> Seq(Names)] /\ v \in [0..N -> Seq(Names)]
      /\ u[0] = ns /\ v[0] = ms
      /\ \A i \in 1..N : u[i] = Met(u[i - 1], A[i][1]) /\ v[i] = Met(v[i - 1], B[i][1])
  BY <1>2, <1>3 DEF Walks
<1>6. \A i \in 1..N : A[i][1] \in F /\ B[i][1] = ren[A[i][1]]
  OBVIOUS
<1> HIDE DEF A, B, N
<1> DEFINE T == {i \in 0..N : Renames(ren, F, u[i], v[i])}
<1>7. 0 \in T
  BY <1>1, <1>5
<1>8. ASSUME NEW i \in 1..N, i - 1 \in T
      PROVE  i \in T
  <2>1. i \in 0..N /\ i - 1 \in 0..N
    BY <1>1
  <2>2. u[i - 1] \in Seq(Names) /\ v[i - 1] \in Seq(Names)
    BY <1>5, <2>1
  <2>3. A[i][1] \in Names /\ B[i][1] \in Names
    BY <1>1
  <2>4. Renames(ren, F, Met(u[i - 1], A[i][1]), Met(v[i - 1], B[i][1]))
    <3>1. A[i][1] \in F /\ B[i][1] = ren[A[i][1]] /\ ren[A[i][1]] \in Names
      BY <1>6, <2>3
    <3>2. Renames(ren, F, u[i - 1], v[i - 1])
      BY <1>8
    <3>3. Renames(ren, F, Met(u[i - 1], A[i][1]), Met(v[i - 1], ren[A[i][1]]))
      BY <2>2, <2>3, <3>1, <3>2, MetRenames
    <3> QED
      BY <3>1, <3>3
  <2> QED
    BY <1>5, <2>1, <2>4
<1>9. 0..N \subseteq T
  <2> HIDE DEF T
  <2> QED
    BY <1>1, <1>7, <1>8, SetInduction
<1> QED
  BY <1>1, <1>4, <1>9

-----------------------------------------------------------------------------
(* The paths of a program over the inputs, and the same paths renamed.     *)

(* Every function with a number is on one of the paths so far.             *)
LEMMA NamesOnPaths ==
  ASSUME inputs \in InputLists, prog \in [Subjects -> Programs], NEW p \in Subjects
  PROVE  \A d \in 0..(Len(inputs) + Repeats) :
           \A j \in 1..Len(NamesAfter(p)[d]) :
             \E c \in 1..d : \E i \in 1..Len(PathOf(p, c)) :
               PathOf(p, c)[i][1] = NamesAfter(p)[d][j]
<1> DEFINE N == Len(inputs) + Repeats
           f == NamesAfter(p)
           On(d, g) == \E c \in 1..d : \E i \in 1..Len(PathOf(p, c)) : PathOf(p, c)[i][1] = g
           T == {d \in 0..N : \A j \in 1..Len(f[d]) : On(d, f[d][j])}
<1>1. N \in Nat /\ Calls = 1..N
  BY InputsTyped
<1>2. /\ f \in [0..N -> Seq(Names)] /\ f[0] = <<>>
      /\ \A c \in 1..N : f[c] = Numbered(f[c - 1], Seen(p, c).events)
  BY <1>1, NamesFollow
<1>3. \A d \in 0..N : Distinct(f[d])
  BY NamesGrow
<1> HIDE DEF f, N
<1>4. 0 \in T
  BY <1>1, <1>2, EmptySeq
<1>5. ASSUME NEW d \in 1..N, d - 1 \in T
      PROVE  d \in T
  <2>1. d \in 0..N /\ d - 1 \in 0..N /\ d \in Calls /\ d \in 1..d /\ 1..(d - 1) \subseteq 1..d
    BY <1>1
  <2> DEFINE evs == Seen(p, d).events
  <2>2. evs \in Seq(Event) /\ f[d - 1] \in Seq(Names) /\ Distinct(f[d - 1])
        /\ f[d] = Numbered(f[d - 1], evs)
    BY <1>2, <1>3, <2>1, SeenFacts
  <2>3. /\ Begins(f[d - 1], f[d])
        /\ \A j \in 1..Len(f[d]) :
             \/ j \in 1..Len(f[d - 1])
             \/ \E n \in 1..Len(evs) : evs[n].kind = "call" /\ f[d][j] = evs[n].fn
    <3> DEFINE ns == f[d - 1]
    <3>1. ns \in Seq(Names) /\ evs \in Seq(Event) /\ Distinct(ns) /\ f[d] = Numbered(ns, evs)
      BY <2>2
    <3> HIDE DEF evs, ns
    <3>2. /\ Begins(ns, f[d])
          /\ \A j \in 1..Len(f[d]) :
               \/ j \in 1..Len(ns)
               \/ \E n \in 1..Len(evs) : evs[n].kind = "call" /\ f[d][j] = evs[n].fn
      BY <3>1, NumberedAppends
    <3> QED
      BY <3>2 DEF ns
  <2>4. ASSUME NEW j \in 1..Len(f[d]) PROVE On(d, f[d][j])
    <3>1. CASE j \in 1..Len(f[d - 1])
      <4>1. f[d][j] = f[d - 1][j] /\ On(d - 1, f[d - 1][j])
        BY <1>5, <2>3, <3>1 DEF Begins
      <4> QED
        BY <2>1, <4>1
    <3>2. CASE \E n \in 1..Len(evs) : evs[n].kind = "call" /\ f[d][j] = evs[n].fn
      <4>1. PICK n \in 1..Len(evs) : evs[n].kind = "call" /\ f[d][j] = evs[n].fn
        BY <3>2
      <4>2. PICK i \in 1..Len(Path(evs)) : Path(evs)[i] = Item(evs[n])
        BY <2>2, <4>1, PathItems DEF OnPath
      <4>3. PathOf(p, d)[i][1] = f[d][j] /\ i \in 1..Len(PathOf(p, d))
        BY <4>1, <4>2 DEF PathOf, Item
      <4> QED
        BY <2>1, <4>3
    <3> QED
      BY <2>3, <3>1, <3>2
  <2> QED
    BY <2>1, <2>4
<1>6. 0..N \subseteq T
  <2> HIDE DEF T
  <2> QED
    BY <1>1, <1>4, <1>5, SetInduction
<1> QED
  BY <1>6 DEF f, N

(* The entry's path, with the numbers that all the inputs gave.            *)
LEMMA PathsOfInputs ==
  ASSUME inputs \in InputLists, prog \in [Subjects -> Programs], NEW p \in Subjects
  PROVE  LET M == NamesAfter(p)[Len(inputs)] IN
         /\ M \in Seq(Names) /\ Distinct(M) /\ Len(M) \in Nat
         /\ Called(p) = {M[i] : i \in 1..Len(M)} /\ Called(p) \subseteq Names
         /\ \A c \in 1..Len(inputs) :
              /\ PathAfter(p, c) = [i \in 1..Len(PathOf(p, c)) |->
                                      <<NumberIn(M, PathOf(p, c)[i][1]), PathOf(p, c)[i][2]>>]
              /\ PathOf(p, c) \in Seq(Names \X Nat) /\ Len(PathOf(p, c)) \in Nat
              /\ PathOf(p, c) = [i \in 1..Len(PathOf(p, c)) |->
                                   <<PathOf(p, c)[i][1], PathOf(p, c)[i][2]>>]
              /\ \A i \in 1..Len(PathOf(p, c)) :
                   Has(M, PathOf(p, c)[i][1]) /\ PathOf(p, c)[i][1] \in Called(p)
         /\ \A j \in 1..Len(M) : \E c \in 1..Len(inputs) :
              \E i \in 1..Len(PathOf(p, c)) : PathOf(p, c)[i][1] = M[j]
<1> DEFINE n == Len(inputs)
           M == NamesAfter(p)[n]
<1>1. n \in Nat /\ Repeats \in Nat /\ Calls = 1..(n + Repeats) /\ n \in 0..(n + Repeats)
  BY InputsTyped
<1>2. M \in Seq(Names) /\ Distinct(M) /\ Len(M) \in Nat /\ DOMAIN M = 1..Len(M)
  BY <1>1, NamesGrow, LenProperties
<1>3. Called(p) = {M[i] : i \in 1..Len(M)} /\ Called(p) \subseteq Names
  <2>1. \A i \in 1..Len(M) : M[i] \in Names
    BY <1>2, ElementOfSeq
  <2> QED
    BY <1>2, <2>1 DEF Called, ToSet, NamesAfter
<1>4. \A j \in 1..Len(M) : \E c \in 1..n :
        \E i \in 1..Len(PathOf(p, c)) : PathOf(p, c)[i][1] = M[j]
  BY <1>1, NamesOnPaths
<1>5. ASSUME NEW c \in 1..n
      PROVE  /\ PathAfter(p, c) = [i \in 1..Len(PathOf(p, c)) |->
                                     <<NumberIn(M, PathOf(p, c)[i][1]), PathOf(p, c)[i][2]>>]
             /\ PathOf(p, c) \in Seq(Names \X Nat) /\ Len(PathOf(p, c)) \in Nat
             /\ PathOf(p, c) = [i \in 1..Len(PathOf(p, c)) |->
                                  <<PathOf(p, c)[i][1], PathOf(p, c)[i][2]>>]
             /\ \A i \in 1..Len(PathOf(p, c)) :
                  Has(M, PathOf(p, c)[i][1]) /\ PathOf(p, c)[i][1] \in Called(p)
  <2> DEFINE evs == Seen(p, c).events
  <2>1. c \in Calls /\ c \in 0..n /\ c \in 0..(n + Repeats)
    BY <1>1
  <2>2. evs \in Seq(Event) /\ PathOf(p, c) = Path(evs)
    BY <2>1, SeenFacts DEF PathOf
  <2>3. /\ NamesAfter(p)[c] \in Seq(Names) /\ Distinct(NamesAfter(p)[c])
        /\ Begins(NamesAfter(p)[c], M) /\ PathNamed(NamesAfter(p)[c], evs)
    BY <1>1, <2>1, NamesGrow
  <2>4. PathAfter(p, c) = LineSeq(M, evs) /\ PathNamed(M, evs)
    BY <1>2, <2>2, <2>3, LineSeqKept DEF PathAfter
  <2>5. /\ Path(evs) \in Seq(Names \X Nat) /\ Len(Path(evs)) \in Nat
        /\ \A i \in 1..Len(Path(evs)) : Path(evs)[i] \in Names \X Nat
    BY <2>2, PathItems
  <2>6. Path(evs) \in [1..Len(Path(evs)) -> Names \X Nat]
    BY <2>5, LenProperties
  <2>7. Path(evs) = [i \in 1..Len(Path(evs)) |-> <<Path(evs)[i][1], Path(evs)[i][2]>>]
    <3> DEFINE P == Path(evs)
    <3>1. P \in [1..Len(P) -> Names \X Nat]
      BY <2>6
    <3>2. \A i \in 1..Len(P) : P[i] = <<P[i][1], P[i][2]>>
      BY <2>5
    <3> HIDE DEF P
    <3>3. P = [i \in 1..Len(P) |-> <<P[i][1], P[i][2]>>]
      BY <3>1, <3>2
    <3> QED
      BY <3>3 DEF P
  <2>8. \A i \in 1..Len(Path(evs)) :
          Has(M, Path(evs)[i][1]) /\ Path(evs)[i][1] \in Called(p)
    BY <1>2, <1>3, <2>4 DEF PathNamed, Has
  <2>9. LineSeq(M, evs) = [i \in 1..Len(Path(evs)) |->
                             <<NumberIn(M, Path(evs)[i][1]), Path(evs)[i][2]>>]
    BY <2>2, LineSeqItems
  <2> QED
    BY <2>2, <2>4, <2>5, <2>7, <2>8, <2>9
<1> QED
  BY <1>2, <1>3, <1>4, <1>5

(* The entries' paths agree exactly when one renaming maps the paths.      *)
LEMMA PathsAgree ==
  ASSUME inputs \in InputLists, prog \in [Subjects -> Programs],
         NEW p \in Subjects, NEW q \in Subjects
  PROVE  (\A c \in 1..Len(inputs) : PathAfter(p, c) = PathAfter(q, c)) <=> SamePaths(p, q)
<1> DEFINE n == Len(inputs)
           M == NamesAfter(p)[n]
           K == NamesAfter(q)[n]
           A(c) == PathOf(p, c)
           B(c) == PathOf(q, c)
<1>1. n \in Nat /\ Repeats \in Nat /\ Calls = 1..(n + Repeats) /\ \A c \in 1..n : c \in Calls
  BY InputsTyped
<1>2. /\ M \in Seq(Names) /\ Distinct(M) /\ Len(M) \in Nat
      /\ Called(p) = {M[i] : i \in 1..Len(M)} /\ Called(p) \subseteq Names
      /\ \A c \in 1..n :
           /\ PathAfter(p, c) = [i \in 1..Len(A(c)) |-> <<NumberIn(M, A(c)[i][1]), A(c)[i][2]>>]
           /\ A(c) \in Seq(Names \X Nat) /\ Len(A(c)) \in Nat
           /\ A(c) = [i \in 1..Len(A(c)) |-> <<A(c)[i][1], A(c)[i][2]>>]
           /\ \A i \in 1..Len(A(c)) : Has(M, A(c)[i][1]) /\ A(c)[i][1] \in Called(p)
      /\ \A j \in 1..Len(M) : \E c \in 1..n : \E i \in 1..Len(A(c)) : A(c)[i][1] = M[j]
  BY PathsOfInputs
<1>3. /\ K \in Seq(Names) /\ Distinct(K) /\ Len(K) \in Nat
      /\ Called(q) = {K[i] : i \in 1..Len(K)} /\ Called(q) \subseteq Names
      /\ \A c \in 1..n :
           /\ PathAfter(q, c) = [i \in 1..Len(B(c)) |-> <<NumberIn(K, B(c)[i][1]), B(c)[i][2]>>]
           /\ B(c) \in Seq(Names \X Nat) /\ Len(B(c)) \in Nat
           /\ B(c) = [i \in 1..Len(B(c)) |-> <<B(c)[i][1], B(c)[i][2]>>]
           /\ \A i \in 1..Len(B(c)) : Has(K, B(c)[i][1]) /\ B(c)[i][1] \in Called(q)
      /\ \A j \in 1..Len(K) : \E c \in 1..n : \E i \in 1..Len(B(c)) : B(c)[i][1] = K[j]
  BY PathsOfInputs
<1>4. \A c \in 1..n : DOMAIN A(c) = 1..Len(A(c))
  BY <1>2, LenProperties
<1>5. SamePaths(p, q) <=>
        \E ren \in Bijection(Called(p), Called(q)) :
          \A c \in 1..n : B(c) = [i \in 1..Len(A(c)) |-> <<ren[A(c)[i][1]], A(c)[i][2]>>]
  BY <1>4 DEF SamePaths
<1> HIDE DEF n, M, K, A, B
<1>6. ASSUME \A c \in 1..n : PathAfter(p, c) = PathAfter(q, c)
      PROVE  SamePaths(p, q)
  <2>1. ASSUME NEW c \in 1..n
        PROVE  /\ Len(A(c)) = Len(B(c))
               /\ \A i \in 1..Len(A(c)) :
                    /\ NumberIn(M, A(c)[i][1]) = NumberIn(K, B(c)[i][1])
                    /\ A(c)[i][2] = B(c)[i][2]
    <3> DEFINE a == A(c)  b == B(c)
    <3>1. /\ [i \in 1..Len(a) |-> <<NumberIn(M, a[i][1]), a[i][2]>>]
               = [i \in 1..Len(b) |-> <<NumberIn(K, b[i][1]), b[i][2]>>]
          /\ Len(a) \in Nat /\ Len(b) \in Nat
      BY <1>2, <1>3, <1>6
    <3> HIDE DEF a, b
    <3>2. 1..Len(a) = 1..Len(b)
      BY <3>1
    <3>3. Len(a) = Len(b)
      BY <3>1, <3>2
    <3>4. ASSUME NEW i \in 1..Len(a)
          PROVE  <<NumberIn(M, a[i][1]), a[i][2]>> = <<NumberIn(K, b[i][1]), b[i][2]>>
      BY <3>1, <3>2
    <3> QED
      BY <3>3, <3>4 DEF a, b
  <2>2. Len(M) = Len(K)
    <3>1. ASSUME NEW j \in 1..Len(M) PROVE j \in 1..Len(K)
      <4>0. PICK c \in 1..n : \E i \in 1..Len(A(c)) : A(c)[i][1] = M[j]
        BY <1>2
      <4>1. PICK i \in 1..Len(A(c)) : A(c)[i][1] = M[j]
        BY <4>0
      <4>2. NumberIn(M, A(c)[i][1]) = j
        BY <1>2, <4>1, NumberInFacts
      <4>3. i \in 1..Len(B(c)) /\ Has(K, B(c)[i][1])
        BY <1>3, <2>1
      <4>4. NumberIn(K, B(c)[i][1]) \in 1..Len(K)
        BY <1>3, <4>3, NumberInFacts
      <4> QED
        BY <2>1, <4>2, <4>4
    <3>2. ASSUME NEW j \in 1..Len(K) PROVE j \in 1..Len(M)
      <4>0. PICK c \in 1..n : \E i \in 1..Len(B(c)) : B(c)[i][1] = K[j]
        BY <1>3
      <4>1. PICK i \in 1..Len(B(c)) : B(c)[i][1] = K[j]
        BY <4>0
      <4>2. NumberIn(K, B(c)[i][1]) = j
        BY <1>3, <4>1, NumberInFacts
      <4>3. i \in 1..Len(A(c)) /\ Has(M, A(c)[i][1])
        BY <1>2, <2>1
      <4>4. NumberIn(M, A(c)[i][1]) \in 1..Len(M)
        BY <1>2, <4>3, NumberInFacts
      <4> QED
        BY <2>1, <4>2, <4>3, <4>4
    <3> DEFINE m == Len(M)  k == Len(K)
    <3>3. m \in Nat /\ k \in Nat
      BY <1>2, <1>3
    <3>4. (\A j \in 1..m : j \in 1..k) /\ (\A j \in 1..k : j \in 1..m)
      BY <3>1, <3>2
    <3> HIDE DEF m, k
    <3>5. m = k
      BY <3>3, <3>4
    <3> QED
      BY <3>5 DEF m, k
  <2> DEFINE ren == [f \in Called(p) |-> K[NumberIn(M, f)]]
  <2>3. \A f \in Called(p) : NumberIn(M, f) \in 1..Len(M) /\ M[NumberIn(M, f)] = f
    BY <1>2, NumberInFacts
  <2>4. \A j \in 1..Len(M) : M[j] \in Called(p) /\ NumberIn(M, M[j]) = j /\ K[j] \in Called(q)
    BY <1>2, <1>3, <2>2, NumberInFacts
  <2>5. ren \in Bijection(Called(p), Called(q))
    <3>1. ren \in [Called(p) -> Called(q)]
      BY <2>3, <2>4
    <3>2. ASSUME NEW f \in Called(p), NEW g \in Called(p), ren[f] = ren[g] PROVE f = g
      <4>1. K[NumberIn(M, f)] = K[NumberIn(M, g)]
        BY <3>2
      <4>2. NumberIn(M, f) = NumberIn(M, g)
        BY <1>3, <2>2, <2>3, <4>1 DEF Distinct
      <4> QED
        BY <2>3, <4>2
    <3>3. \A g \in Called(q) : \E f \in Called(p) : ren[f] = g
      <4> TAKE g \in Called(q)
      <4>1. PICK j \in 1..Len(M) : K[j] = g
        BY <1>3, <2>2
      <4>2. M[j] \in Called(p) /\ ren[M[j]] = g
        BY <2>4, <4>1
      <4> QED
        BY <4>2
    <3> HIDE DEF ren
    <3> QED
      BY <3>1, <3>2, <3>3 DEF Bijection, Injection, Surjection, IsInjective
  <2>6. ASSUME NEW c \in 1..n
        PROVE  B(c) = [i \in 1..Len(A(c)) |-> <<ren[A(c)[i][1]], A(c)[i][2]>>]
    <3>1. \A i \in 1..Len(A(c)) : ren[A(c)[i][1]] = B(c)[i][1] /\ A(c)[i][2] = B(c)[i][2]
      <4> TAKE i \in 1..Len(A(c))
      <4>1. A(c)[i][1] \in Called(p) /\ Has(K, B(c)[i][1])
        BY <1>2, <1>3, <2>1
      <4>2. K[NumberIn(K, B(c)[i][1])] = B(c)[i][1]
        BY <1>3, <4>1, NumberInFacts
      <4>3. ren[A(c)[i][1]] = K[NumberIn(M, A(c)[i][1])]
        BY <4>1
      <4> QED
        BY <2>1, <4>2, <4>3
    <3>2. /\ B(c) = [i \in 1..Len(B(c)) |-> <<B(c)[i][1], B(c)[i][2]>>]
          /\ Len(A(c)) = Len(B(c))
      BY <1>3, <2>1
    <3> HIDE DEF ren
    <3> QED
      BY <3>1, <3>2
  <2> HIDE DEF ren
  <2> QED
    BY <1>5, <2>5, <2>6
<1>7. ASSUME SamePaths(p, q)
      PROVE  \A c \in 1..n : PathAfter(p, c) = PathAfter(q, c)
  <2>1. PICK ren \in Bijection(Called(p), Called(q)) :
          \A c \in 1..n : B(c) = [i \in 1..Len(A(c)) |-> <<ren[A(c)[i][1]], A(c)[i][2]>>]
    BY <1>5, <1>7
  <2> DEFINE F == Called(p)
  <2>2. ren \in [F -> Called(q)] /\ OneToOne(ren, F)
    BY DEF Bijection, Injection, IsInjective, OneToOne
  <2>3. ASSUME NEW c \in 1..n
        PROVE  /\ Len(B(c)) = Len(A(c))
               /\ \A i \in 1..Len(A(c)) : /\ A(c)[i][1] \in F /\ B(c)[i][1] = ren[A(c)[i][1]]
                                          /\ B(c)[i][2] = A(c)[i][2]
    <3> DEFINE a == A(c)  b == B(c)
    <3>1. /\ b = [i \in 1..Len(a) |-> <<ren[a[i][1]], a[i][2]>>]
          /\ b = [i \in 1..Len(b) |-> <<b[i][1], b[i][2]>>]
          /\ Len(a) \in Nat /\ Len(b) \in Nat
      BY <1>2, <1>3, <2>1
    <3> HIDE DEF a, b
    <3>2. Len(b) = Len(a)
      <4>1. 1..Len(a) = 1..Len(b)
        BY <3>1
      <4> QED
        BY <3>1, <4>1
    <3>3. \A i \in 1..Len(a) : b[i][1] = ren[a[i][1]] /\ b[i][2] = a[i][2]
      BY <3>1
    <3> QED
      BY <1>2, <3>2, <3>3 DEF a, b
  <2>4. Renames(ren, F, M, K)
    <3> DEFINE f == NamesAfter(p)
               g == NamesAfter(q)
               T == {c \in 0..n : Renames(ren, F, f[c], g[c])}
    <3>1. /\ f[0] = <<>> /\ g[0] = <<>>
          /\ \A c \in 1..n :
               /\ f[c] = Numbered(f[c - 1], Seen(p, c).events) /\ f[c - 1] \in Seq(Names)
               /\ g[c] = Numbered(g[c - 1], Seen(q, c).events) /\ g[c - 1] \in Seq(Names)
      BY <1>1, NamesFollow
    <3> HIDE DEF f, g
    <3>2. 0 \in T
      BY <1>1, <3>1, EmptySeq DEF Renames
    <3>3. ASSUME NEW c \in 1..n, c - 1 \in T
          PROVE  c \in T
      <4>1. /\ Seen(p, c).events \in Seq(Event) /\ LinesCalled(Seen(p, c).events)
            /\ Seen(q, c).events \in Seq(Event) /\ LinesCalled(Seen(q, c).events)
        BY <1>1, SeenFacts
      <4>2. A(c) = Path(Seen(p, c).events) /\ B(c) = Path(Seen(q, c).events)
        BY DEF A, B, PathOf
      <4>3. /\ Len(Path(Seen(q, c).events)) = Len(Path(Seen(p, c).events))
            /\ \A i \in 1..Len(Path(Seen(p, c).events)) :
                 /\ Path(Seen(p, c).events)[i][1] \in F
                 /\ Path(Seen(q, c).events)[i][1] = ren[Path(Seen(p, c).events)[i][1]]
        BY <2>3, <4>2
      <4>4. Renames(ren, F, f[c - 1], g[c - 1])
        BY <3>3
      <4> HIDE DEF F
      <4>5. Renames(ren, F, Numbered(f[c - 1], Seen(p, c).events),
                    Numbered(g[c - 1], Seen(q, c).events))
        BY <2>2, <3>1, <4>1, <4>3, <4>4, NumberedRenames
      <4> QED
        BY <1>1, <3>1, <4>5
    <3>4. 0..n \subseteq T
      <4> HIDE DEF T
      <4> QED
        BY <1>1, <3>2, <3>3, SetInduction
    <3> QED
      BY <1>1, <3>4 DEF f, g, M, K
  <2>5. ASSUME NEW c \in 1..n PROVE PathAfter(p, c) = PathAfter(q, c)
    <3>1. ASSUME NEW i \in 1..Len(A(c))
          PROVE  NumberIn(K, B(c)[i][1]) = NumberIn(M, A(c)[i][1])
      <4> DEFINE j == NumberIn(M, A(c)[i][1])
      <4>1. j \in 1..Len(M) /\ M[j] = A(c)[i][1]
        BY <1>2, NumberInFacts
      <4> HIDE DEF j
      <4>2. j \in 1..Len(K) /\ K[j] = B(c)[i][1]
        BY <2>3, <2>4, <4>1 DEF Renames
      <4> QED
        BY <1>3, <4>2, NumberInFacts DEF j
    <3>2. /\ PathAfter(p, c) = [i \in 1..Len(A(c)) |-> <<NumberIn(M, A(c)[i][1]), A(c)[i][2]>>]
          /\ PathAfter(q, c) = [i \in 1..Len(B(c)) |-> <<NumberIn(K, B(c)[i][1]), B(c)[i][2]>>]
          /\ Len(B(c)) = Len(A(c))
      BY <1>2, <1>3, <2>3
    <3> QED
      BY <2>3, <3>1, <3>2
  <2> QED
    BY <2>5
<1> QED
  BY <1>6, <1>7 DEF n

-----------------------------------------------------------------------------
(* The distance of two profiles.                                           *)

(* Two numbers have no gap exactly when they are equal.                    *)
LEMMA GapZero ==
  ASSUME NEW x \in Nat, NEW y \in Nat
  PROVE  Gap(x, y) \in Nat /\ (Gap(x, y) = 0 <=> x = y)
BY DEF Gap

(* The image of a finite set.                                              *)
LEMMA FiniteImage ==
  ASSUME NEW S, IsFiniteSet(S), NEW f
  PROVE  IsFiniteSet({f[x] : x \in S})
<1> DEFINE T == {f[x] : x \in S}
           g == [x \in S |-> f[x]]
<1>1. g \in [S -> T] /\ \A t \in T : \E x \in S : g[x] = t
  OBVIOUS
<1>2. g \in Surjection(S, T)
  <2> HIDE DEF g, T
  <2> QED
    BY <1>1 DEF Surjection
<1> HIDE DEF g
<1> QED
  BY <1>2, FS_Surjection

(* A sum of gaps is zero exactly when there is none.                       *)
LEMMA SumZero ==
  ASSUME NEW p, NEW q, Len(p.entries) \in Nat,
         \A i \in 1..Len(p.entries) :
           p.entries[i].length \in Nat /\ q.entries[i].length \in Nat
  PROVE  TraceLength(p, q).num = 0 <=>
           \A i \in 1..Len(p.entries) : p.entries[i].length = q.entries[i].length
<1> DEFINE N == Len(p.entries)
           gap(i) == Gap(p.entries[i].length, q.entries[i].length)
           step == [x \in (1..N) \X Nat |-> x[2] + gap(x[1])]
           Eq(f) == f = [n \in 0..Len(p.entries) |->
                           IF n = 0 THEN 0
                           ELSE f[n - 1] + Gap(p.entries[n].length, q.entries[n].length)]
           sum == CHOOSE f : Eq(f)
<1>1. N \in Nat /\ \A i \in 1..N : gap(i) \in Nat
  BY GapZero
<1>2. step \in [(1..N) \X Nat -> Nat]
  <2>1. \A x \in (1..N) \X Nat : x[2] + gap(x[1]) \in Nat
    <3> HIDE DEF N, gap
    <3> QED
      BY <1>1
  <2> QED
    BY <2>1
<1>3. PICK h \in [0..N -> Nat] : Follows(h, 0, step, N)
  <2> HIDE DEF step, N
  <2> QED
    BY <1>1, <1>2, Recursion
<1>4. h[0] = 0 /\ \A n \in 1..N : h[n] = h[n - 1] + gap(n)
  <2>1. \A n \in 1..N : <<n, h[n - 1]>> \in (1..N) \X Nat
    <3> TAKE n \in 1..N
    <3>1. n - 1 \in 0..N
      BY <1>1
    <3> HIDE DEF N
    <3> QED
      BY <1>3, <3>1
  <2>2. \A n \in 1..N : step[<<n, h[n - 1]>>] = h[n - 1] + gap(n)
    BY <2>1
  <2> QED
    BY <1>3, <2>2 DEF Follows
<1>5. Eq(h)
  <2>1. \A n \in 0..N : h[n] = IF n = 0 THEN 0 ELSE h[n - 1] + gap(n)
    BY <1>1, <1>4
  <2> QED
    BY <1>3, <2>1
<1>6. Eq(sum)
  BY <1>5
<1>7. TraceLength(p, q).num = sum[N]
  BY DEF TraceLength
<1> HIDE DEF sum, step
<1>8. /\ sum = [n \in 0..N |-> sum[n]] /\ sum[0] = 0
      /\ \A n \in 1..N : sum[n] = sum[n - 1] + gap(n)
  <2>1. sum = [n \in 0..N |-> sum[n]]
    BY <1>6
  <2>2. sum[0] = 0
    BY <1>1, <1>6
  <2>3. ASSUME NEW n \in 1..N PROVE sum[n] = sum[n - 1] + gap(n)
    <3>1. n \in 0..N /\ n # 0
      BY <1>1
    <3> QED
      BY <1>6, <3>1
  <2> QED
    BY <2>1, <2>2, <2>3
<1> HIDE DEF gap
<1>9. \A n \in 0..N : sum[n] \in Nat /\ (sum[n] = 0 <=> \A i \in 1..n : gap(i) = 0)
  <2> DEFINE T == {n \in 0..N : sum[n] \in Nat /\ (sum[n] = 0 <=> \A i \in 1..n : gap(i) = 0)}
  <2>1. 0 \in T
    BY <1>1, <1>8
  <2>2. ASSUME NEW n \in 1..N, n - 1 \in T
        PROVE  n \in T
    <3>1. /\ n \in 0..N /\ n \in 1..n /\ gap(n) \in Nat
          /\ \A i \in 1..n : i \in 1..(n - 1) \/ i = n
          /\ 1..(n - 1) \subseteq 1..n
      BY <1>1
    <3>2. sum[n] = sum[n - 1] + gap(n)
      BY <1>8
    <3>3. sum[n - 1] \in Nat /\ (sum[n - 1] = 0 <=> \A i \in 1..(n - 1) : gap(i) = 0)
      BY <2>2
    <3>4. sum[n] \in Nat /\ (sum[n] = 0 <=> sum[n - 1] = 0 /\ gap(n) = 0)
      BY <3>1, <3>2, <3>3
    <3>5. (\A i \in 1..n : gap(i) = 0) <=> (\A i \in 1..(n - 1) : gap(i) = 0) /\ gap(n) = 0
      BY <3>1
    <3> QED
      BY <3>1, <3>3, <3>4, <3>5
  <2>3. 0..N \subseteq T
    <3> HIDE DEF T, N
    <3> QED
      BY <1>1, <2>1, <2>2, SetInduction
  <2> QED
    BY <2>3
<1>10. sum[N] = 0 <=> \A i \in 1..N : gap(i) = 0
  BY <1>1, <1>9
<1> QED
  BY <1>7, <1>10, GapZero DEF gap

(* The distance is zero exactly when the profiles have the same lengths    *)
(* and paths, fail as often and in the same ways, and drift as much.       *)
LEMMA ZeroDistance ==
  ASSUME NEW n \in Nat, NEW p, NEW q, NEW pairs,
         Len(p.entries) = n, DOMAIN p.entries = 1..n,
         Len(q.entries) = n, DOMAIN q.entries = 1..n,
         \A i \in 1..n : p.entries[i].length \in Nat /\ q.entries[i].length \in Nat,
         p.drift \in Nat, q.drift \in Nat
  PROVE  DistanceIsZero(p, q, pairs) <=>
           /\ Failures(p) = Failures(q)
           /\ Types(p) = Types(q)
           /\ \A i \in 1..n : p.entries[i].length = q.entries[i].length
           /\ \A i \in 1..n : p.entries[i].path = q.entries[i].path
           /\ p.drift = q.drift
<1>1. IsFiniteSet(1..n)
  BY FS_Interval
<1>2. ASSUME NEW r, DOMAIN r.entries = 1..n
      PROVE  Failures(r) \in Nat /\ IsFiniteSet(Types(r))
  <2>1. IsFiniteSet({i \in 1..n : r.entries[i].exc # NoError})
    BY <1>1, FS_Subset
  <2>2. Failures(r) \in Nat
    BY <1>2, <2>1, FS_CardinalityType DEF Failures
  <2> DEFINE f == [i \in 1..n |-> r.entries[i].exc]
  <2>3. IsFiniteSet({f[i] : i \in 1..n})
    <3> HIDE DEF f
    <3> QED
      BY <1>1, FiniteImage
  <2>4. Types(r) \subseteq {f[i] : i \in 1..n}
    BY <1>2 DEF Types, ToSet
  <2> HIDE DEF f
  <2>5. IsFiniteSet(Types(r))
    BY <2>3, <2>4, FS_Subset
  <2> QED
    BY <2>2, <2>5
<1>3. ExcFrac(p, q).num = 0 <=> Failures(p) = Failures(q)
  <2>1. Failures(p) \in Nat /\ Failures(q) \in Nat
    BY <1>2
  <2>2. ExcFrac(p, q).num = Gap(Failures(p), Failures(q))
    BY DEF ExcFrac
  <2> QED
    BY <2>1, <2>2, GapZero
<1>4. ExcJaccard(p, q).num = 0 <=> Types(p) = Types(q)
  <2> DEFINE A == Types(p)  B == Types(q)
  <2>1. IsFiniteSet(A) /\ IsFiniteSet(B)
    BY <1>2
  <2>2. ExcJaccard(p, q).num = Cardinality(A \cup B) - Cardinality(A \cap B)
    BY DEF ExcJaccard
  <2> HIDE DEF A, B
  <2>3. IsFiniteSet(A \cup B) /\ (A \cap B) \in SUBSET (A \cup B)
    BY <2>1, FS_Union
  <2>4. /\ Cardinality(A \cup B) \in Nat /\ Cardinality(A \cap B) \in Nat
        /\ Cardinality(A \cup B) = Cardinality(A \cap B) => A \cup B = A \cap B
    BY <2>3, FS_Subset, FS_CardinalityType
  <2>5. A \cup B = A \cap B <=> A = B
    OBVIOUS
  <2>6. A = B => Cardinality(A \cup B) = Cardinality(A \cap B)
    BY <2>5
  <2> QED
    BY <2>2, <2>4, <2>5, <2>6 DEF A, B
<1>5. TraceLength(p, q).num = 0 <=> \A i \in 1..n : p.entries[i].length = q.entries[i].length
  BY SumZero
<1>6. LineDivergence(p, q).num = 0 <=> \A i \in 1..n : p.entries[i].path = q.entries[i].path
  <2> DEFINE D == {i \in 1..n : p.entries[i].path # q.entries[i].path}
  <2>1. LineDivergence(p, q).num = Cardinality(D)
    BY DEF LineDivergence
  <2>2. IsFiniteSet(D)
    BY <1>1, FS_Subset
  <2>3. Cardinality(D) = 0 <=> D = {}
    <3> HIDE DEF D
    <3> QED
      BY <2>2, FS_EmptySet
  <2> QED
    BY <2>1, <2>3
<1>7. DriftGap(p, q, pairs).num = 0 <=> p.drift = q.drift
  BY GapZero DEF DriftGap
<1>8. DistanceIsZero(p, q, pairs) <=>
        /\ ExcFrac(p, q).num = 0 /\ ExcJaccard(p, q).num = 0 /\ TraceLength(p, q).num = 0
        /\ LineDivergence(p, q).num = 0 /\ DriftGap(p, q, pairs).num = 0
  BY DEF DistanceIsZero
<1> QED
  BY <1>3, <1>4, <1>5, <1>6, <1>7, <1>8

(* With no call given up, two programs are at distance zero exactly when,  *)
(* the second one run on what the first one left of the inputs, one        *)
(* renaming of functions makes their paths equal on every input and they   *)
(* agree on lengths, failures and drift.                                   *)
THEOREM ZeroIsSameFlow == Spec => []ZeroMeansSameFlow
<1>1. ASSUME Inv, Order PROVE ZeroMeansSameFlow
  <2> DEFINE n == Len(inputs)
             fails(r) == {c \in 1..n : Seen(r, c).exc # NoError}
             types(r) == {Seen(r, c).exc : c \in fails(r)}
  <2> SUFFICES ASSUME subject = 3, givenUp = {}
               PROVE  DistanceIsZero(Profile(1), Profile(2), Repeats - 1) <=>
                        /\ SamePaths(1, 2)
                        /\ \A c \in 1..n : Len(Seen(1, c).events) = Len(Seen(2, c).events)
                        /\ Cardinality(fails(1)) = Cardinality(fails(2))
                        /\ types(1) = types(2)
                        /\ DriftAlone(1) = DriftAlone(2)
    BY DEF ZeroMeansSameFlow
  <2>1. /\ n \in Nat /\ Repeats \in Nat /\ Repeats >= 2 /\ inputs \in InputLists
        /\ prog \in [Subjects -> Programs] /\ \A k \in Subjects : k < subject
        /\ 1 \in Subjects /\ 2 \in Subjects
    BY <1>1, InputsTyped DEF Inv, Typing, Subjects
  <2>2. OnlyGivenUpDistorts
    BY <1>1, OrderSays
  <2>3. ASSUME NEW k \in Subjects
        PROVE  LET e == Profile(k).entries IN
               /\ Len(e) = n /\ DOMAIN e = 1..n
               /\ \A c \in 1..n : e[c] = Sequentially(k, c) /\ e[c].length \in Nat
               /\ Profile(k).drift = DriftAlone(k) /\ DriftAlone(k) \in Nat
               /\ Failures(Profile(k)) = Cardinality(fails(k))
               /\ Types(Profile(k)) = types(k)
    <3>1. Finished(k) = n + Repeats
      BY <2>1 DEF Finished
    <3>2. /\ Len(entries[k]) = n /\ Len(runHashes[k]) = Repeats /\ IsSeq(entries[k])
          /\ \A c \in 1..n : entries[k][c].length \in 0..MaxEvents
      <4>1. /\ IsSeq(entries[k])
            /\ Len(entries[k]) =
                 IF Finished(k) <= Len(inputs) THEN Finished(k) ELSE Len(inputs)
            /\ Len(runHashes[k]) =
                 IF Finished(k) <= Len(inputs) THEN 0 ELSE Finished(k) - Len(inputs)
            /\ \A c \in 1..Len(entries[k]) : entries[k][c].length \in 0..MaxEvents
        BY <1>1 DEF Inv, Booked
      <4>2. ~(n + Repeats <= n) /\ (n + Repeats) - n = Repeats
        BY <2>1
      <4> QED
        BY <3>1, <4>1, <4>2
    <3>3. DOMAIN entries[k] = 1..n
      BY <3>2, LenProperties DEF IsSeq
    <3>4. GivenUpBy(k) = {}
      BY DEF GivenUpBy
    <3>5. \A c \in 1..n : entries[k][c] = Sequentially(k, c)
      <4>1. ~Reached(k) /\ \A c \in 1..n : GivenUpBy(k) \cap 1..c = {}
        BY <3>4 DEF Reached, GivenUpBy
      <4> QED
        BY <2>2, <3>3, <4>1 DEF OnlyGivenUpDistorts, Sequentially
    <3>6. Drift(runHashes[k]) = DriftAlone(k)
      <4>1. ~Reached(k)
        BY DEF Reached, GivenUpBy
      <4> QED
        BY <2>2, <3>2, <3>4, <4>1 DEF OnlyGivenUpDistorts, ProfileDone
    <3>7. DriftAlone(k) \in Nat
      <4>1. IsFiniteSet(1..(Repeats - 1))
        BY <2>1, FS_Interval
      <4> QED
        BY <4>1, FS_Subset, FS_CardinalityType DEF DriftAlone
    <3>8. \A c \in 1..n : entries[k][c].exc = Seen(k, c).exc
      <4>1. \A c \in 1..n : Sequentially(k, c).exc = Seen(k, c).exc
        BY DEF Sequentially, Features
      <4> QED
        BY <3>5, <4>1
    <3>9. Failures(Profile(k)) = Cardinality(fails(k))
      <4>1. {i \in 1..n : entries[k][i].exc # NoError} = fails(k)
        BY <3>8
      <4> QED
        BY <3>3, <4>1 DEF Failures, Profile
    <3>10. Types(Profile(k)) = types(k)
      <4>1. Types(Profile(k)) = {e.exc : e \in {entries[k][c] : c \in 1..n}} \ {NoError}
        BY <3>3 DEF Types, Profile, ToSet
      <4>2. ASSUME NEW x PROVE x \in Types(Profile(k)) <=> x \in types(k)
        <5>1. x \in Types(Profile(k)) <=> x # NoError /\ \E c \in 1..n : x = entries[k][c].exc
          BY <4>1
        <5>2. x \in types(k) <=> x # NoError /\ \E c \in 1..n : x = Seen(k, c).exc
          OBVIOUS
        <5> QED
          BY <3>8, <5>1, <5>2
      <4> QED
        BY <4>2
    <3> QED
      BY <3>2, <3>3, <3>5, <3>6, <3>7, <3>9, <3>10 DEF Profile
  <2>4. \A c \in 1..n :
          /\ Sequentially(1, c).length = Len(Seen(1, c).events)
          /\ Sequentially(2, c).length = Len(Seen(2, c).events)
          /\ Sequentially(1, c).path = PathAfter(1, c)
          /\ Sequentially(2, c).path = PathAfter(2, c)
    BY DEF Sequentially, Features, NamesAfter, PathAfter
  <2>5. (\A c \in 1..n : PathAfter(1, c) = PathAfter(2, c))
          <=> SamePaths(1, 2)
    BY <2>1, PathsAgree
  <2> HIDE DEF n, fails, types
  <2>6. DistanceIsZero(Profile(1), Profile(2), Repeats - 1) <=>
          /\ Failures(Profile(1)) = Failures(Profile(2))
          /\ Types(Profile(1)) = Types(Profile(2))
          /\ \A c \in 1..n : Profile(1).entries[c].length = Profile(2).entries[c].length
          /\ \A c \in 1..n : Profile(1).entries[c].path = Profile(2).entries[c].path
          /\ Profile(1).drift = Profile(2).drift
    <3> DEFINE P == Profile(1)  Q == Profile(2)
    <3>1. /\ Len(P.entries) = n /\ DOMAIN P.entries = 1..n
          /\ \A c \in 1..n : P.entries[c].length \in Nat
          /\ P.drift \in Nat
      BY <2>1, <2>3
    <3>2. /\ Len(Q.entries) = n /\ DOMAIN Q.entries = 1..n
          /\ \A c \in 1..n : Q.entries[c].length \in Nat
          /\ Q.drift \in Nat
      BY <2>1, <2>3
    <3> HIDE DEF P, Q
    <3>3. DistanceIsZero(P, Q, Repeats - 1) <=>
            /\ Failures(P) = Failures(Q)
            /\ Types(P) = Types(Q)
            /\ \A c \in 1..n : P.entries[c].length = Q.entries[c].length
            /\ \A c \in 1..n : P.entries[c].path = Q.entries[c].path
            /\ P.drift = Q.drift
      BY <2>1, <3>1, <3>2, ZeroDistance
    <3> QED
      BY <3>3 DEF P, Q
  <2>7. \A c \in 1..n :
          /\ Profile(1).entries[c].length = Len(Seen(1, c).events)
          /\ Profile(2).entries[c].length = Len(Seen(2, c).events)
          /\ Profile(1).entries[c].path = PathAfter(1, c)
          /\ Profile(2).entries[c].path = PathAfter(2, c)
    BY <2>1, <2>3, <2>4
  <2>8. /\ Profile(1).drift = DriftAlone(1) /\ Profile(2).drift = DriftAlone(2)
        /\ Failures(Profile(1)) = Cardinality(fails(1))
        /\ Failures(Profile(2)) = Cardinality(fails(2))
        /\ Types(Profile(1)) = types(1) /\ Types(Profile(2)) = types(2)
    BY <2>1, <2>3
  <2> QED
    BY <2>5, <2>6, <2>7, <2>8
<1> QED
  BY <1>1, OrderAlways, PTL
=============================================================================
