------------------------ MODULE FiberSchedulerProofs ------------------------
(* The fiber scheduler, for any program of any number of fibers, scopes    *)
(* and deferreds: its inductive invariant, the safety properties that      *)
(* follow from it, and that it implements StructuredConcurrency.           *)
EXTENDS FiberScheduler, SequenceTheorems, FiniteSetTheorems, WellFoundedInduction, TLAPS

FiberType ==
  [born : BOOLEAN, scope : 0..NScopes, wait : [no : Nat, on : WaitKinds, of : Nat],
   pending : SUBSET (Scopes \cup {None}), unwinding : BOOLEAN, unwinds : SUBSET Scopes,
   holds : Nat, result : Outcomes \cup {NotYet}, watchers : Seq(Wakes), ops : Nat,
   stack : Seq(Frames)]
ScopeType ==
  [fiber : 0..NFibers, depth : Nat, children : SUBSET Fibers, closed : BOOLEAN,
   bodyDone : BOOLEAN, ended : BOOLEAN, first : Outcomes \cup {NotYet}, closer : Nat,
   out : Outcomes \cup {NotYet}, ret : Outcomes \cup {NotYet}]
CellType == [scope : 0..NScopes, full : BOOLEAN, waiters : Seq(Wakes)]
CallType == [f : Fibers, no : Nat, aborted : BOOLEAN]

Distinct(s) == \A i, j \in 1..Len(s) : s[i] = s[j] => i = j
Elems(s) == {s[i] : i \in 1..Len(s)}

-----------------------------------------------------------------------------
(* The inductive invariant.                                                *)

TypedFibers(F) == F \in [Fibers -> FiberType] /\ \A f \in Fibers : F[f].ops <= MaxOps[f]
TypedScheduler(c, o, q, w, l, k, p) ==
  /\ c \in Fibers \cup {None} /\ o \in Outcomes \cup {"run"} /\ q \in Seq(Tasks)
  /\ w \in Seq(Fibers) /\ l \subseteq Tasks /\ k \subseteq CallType
  /\ p \in 0..(HostEvery - 1)
Typed ==
  /\ TypedScheduler(cur, flow, queue, waits, later, calls, pauses) /\ TypedFibers(fib)
  /\ scope \in [Scopes -> ScopeType] /\ deferred \in [Deferreds -> CellType]
  /\ over \in BOOLEAN /\ unwound \in BOOLEAN /\ reported \in BOOLEAN

(* Fibers are forked in order, each into a scope that an earlier fiber     *)
(* opened.                                                                 *)
Forked(F, X) ==
  /\ F[Main].born /\ F[Main].scope = None
  /\ \A f \in Fibers : ~F[f].born => F[f].ops = 0 /\ F[f].stack = <<>>
  /\ \A f, g \in Fibers : f <= g /\ F[g].born => F[f].born
  /\ \A f \in Fibers : F[f].born /\ f # Main =>
       F[f].scope \in Scopes /\ X[F[f].scope].fiber \in 1..(f - 1)
  /\ \A s \in Scopes : X[s].fiber # None => F[X[s].fiber].born

(* The frames of scopes are those of the scopes that have not returned,    *)
(* innermost last; a scope that waits for its children is the innermost.   *)
(* A release knows how the body of its with ended.                         *)
OfScope(r) == r.kind \in {"scope", "closing"}
HasFrame(st, s) == \E i \in 1..Len(st) : OfScope(st[i]) /\ st[i].s = s
FrameOf(f, r, X) ==
  /\ r.s \in Scopes /\ X[r.s].fiber = f /\ ~X[r.s].ended
  /\ r.kind = "closing" <=> X[r.s].bodyDone
FramesIn(f, st, X) ==
  /\ \A i \in 1..Len(st) : OfScope(st[i]) => FrameOf(f, st[i], X)
  /\ \A i, j \in 1..Len(st) : i < j /\ OfScope(st[i]) /\ OfScope(st[j]) => st[i].s < st[j].s
  /\ \A i \in 1..Len(st) : st[i].kind = "closing" => i = Len(st)
  /\ \A i \in 1..Len(st) : st[i].kind = "release" => st[i].out \in Outcomes
FramesOf(F, X) ==
  /\ \A f \in Fibers : FramesIn(f, F[f].stack, X)
  /\ \A s \in Scopes : X[s].fiber # None /\ ~X[s].ended => HasFrame(F[X[s].fiber].stack, s)
ScopesOf(X) ==
  /\ \A s, t \in Scopes : s <= t /\ X[t].fiber # None => X[s].fiber # None
  /\ \A s \in Scopes : X[s].fiber = None => X[s] = NewScope(None, 0)
  /\ \A s \in Scopes : (X[s].ended => X[s].bodyDone) /\ (X[s].bodyDone => X[s].closed)
  /\ \A s \in Scopes : X[s].bodyDone => X[s].out \in Outcomes

(* What holds interruptions off are the releases and the closing scopes.   *)
Holding(st) == {i \in 1..Len(st) : st[i].kind \in {"release", "closing"}}
Held(F) == \A f \in Fibers : F[f].holds = Cardinality(Holding(F[f].stack))

(* A scope whose body is interrupted is one that the fiber is in.          *)
InScope(st, s) == \E i \in 1..Len(st) : st[i].kind = "scope" /\ st[i].s = s
Aimed(F) ==
  \A f \in Fibers : \A s \in (F[f].pending \cup F[f].unwinds) \ {None} : InScope(F[f].stack, s)

(* The waits of a fiber are numbered apart, and what may wake a fiber      *)
(* names one of its waits once.                                            *)
Numbers(F, ws) ==
  /\ \A i \in 1..Len(ws) : ws[i].no \in 1..F[ws[i].f].ops
  /\ \A i, j \in 1..Len(ws) : ws[i].f = ws[j].f /\ ws[i].no = ws[j].no => i = j
NumbersWait(f, w, n) ==
  /\ w.on = "nothing" => w = NoWait
  /\ w.on = "closing" => w.of \in Scopes /\ w.no = ClosingNo(f, w.of)
  /\ w.on \notin {"nothing", "closing"} => w.no \in 1..n
Numbered(F, d, q, l, k) ==
  /\ \A f \in Fibers : NumbersWait(f, F[f].wait, F[f].ops)
  /\ \A f \in Fibers : Numbers(F, F[f].watchers)
  /\ \A e \in Deferreds : Numbers(F, d[e].waiters)
  /\ \A i \in 1..Len(q) : q[i].kind = "go" => q[i].no \in 1..F[q[i].f].ops
  /\ \A t \in l : t.kind = "go" /\ t.no \in 1..F[t.f].ops
  /\ \A c \in k : c.no \in 1..F[c.f].ops

(* A live fiber is the running one, waits, or has a task of its own.       *)
Own(t) == t.kind # "go"
Tasked(q) == {q[i].f : i \in {j \in 1..Len(q) : Own(q[j])}}
LiveIn(F) == {f \in Fibers : F[f].born /\ F[f].result = NotYet}
WaitingIn(F) == {f \in Fibers : F[f].wait.no # 0}
Placed(c, q, w, L) ==
  /\ Distinct(w)
  /\ \A i, j \in 1..Len(q) : Own(q[i]) /\ Own(q[j]) /\ q[i].f = q[j].f => i = j
  /\ L = ({c} \ {None}) \cup Elems(w) \cup Tasked(q)
  /\ c \notin Elems(w) /\ c \notin Tasked(q) /\ Elems(w) \cap Tasked(q) = {}

(* A fiber whose innermost construct is a closing scope waits for its      *)
(* children, or there are none left.                                       *)
ClosingTop(r) == r.stack # <<>> /\ Last(r.stack).kind = "closing"
ClosingOf(r, X) ==
  LET s == Last(r.stack).s IN
  IF ClosingTop(r)
  THEN /\ s \in Scopes
       /\ \/ r.wait = NoWait /\ X[s].children = {}
          \/ /\ r.wait.on = "closing" /\ r.wait.of = s
             /\ X[s].children # {} /\ X[s].closer = r.wait.no
  ELSE r.wait.on # "closing"
CloserOf(F, x, s) ==
  x.closer # 0 =>
    x.fiber \in Fibers /\ F[x.fiber].wait = [no |-> x.closer, on |-> "closing", of |-> s]
Closing(F, X) ==
  (\A f \in Fibers : ClosingOf(F[f], X)) /\ (\A s \in Scopes : CloserOf(F, X[s], s))

(* The children of a scope are the live fibers forked into it.             *)
Children(F, X) ==
  \A s \in Scopes, f \in Fibers :
    f \in X[s].children <=> F[f].born /\ F[f].result = NotYet /\ F[f].scope = s

(* A fiber that has not begun is in no construct; an interruption is       *)
(* thrown into a fiber that holds nothing off.                             *)
Queued(F, q, u) ==
  \A i \in 1..Len(q) :
    /\ q[i].kind = "begin" => q[i].f # Main /\ F[q[i].f].stack = <<>>
    /\ q[i].kind = "throw" => F[q[i].f].holds = 0 \/ u

(* A fiber that may be interrupted does not wait.                          *)
Interrupts(r) == r.holds = 0 /\ (r.pending # {} \/ r.unwinding \/ r.unwinds # {})
Awake(F) == \A f \in Fibers : F[f].wait.no # 0 => ~Interrupts(F[f])

(* What a fiber waits for knows that it waits.                             *)
Registered(ws, f, n) == \E i \in 1..Len(ws) : ws[i].f = f /\ ws[i].no = n
Yields(q, l, f, n) ==
  \/ \E t \in l : t.kind = "go" /\ t.f = f /\ t.no = n
  \/ \E i \in 1..Len(q) : q[i].kind = "go" /\ q[i].f = f /\ q[i].no = n
WakesOf(f, w, F, d, q, l) ==
  /\ w.on = "fiber" => w.of \in LiveIn(F) /\ Registered(F[w.of].watchers, f, w.no)
  /\ w.on = "deferred" => w.of \in Deferreds /\ ~d[w.of].full /\ Registered(d[w.of].waiters, f, w.no)
  /\ w.on = "pause" => Yields(q, l, f, w.no)
WakesWaiting(F, d, q, l) == \A f \in Fibers : WakesOf(f, F[f].wait, F, d, q, l)

Nested(F, X) ==
  Forked(F, X) /\ FramesOf(F, X) /\ ScopesOf(X) /\ Held(F) /\ Aimed(F)
Scheduled(c, q, w, l, k, F, X, d, u) ==
  /\ Numbered(F, d, q, l, k)
  /\ Placed(c, q, w, LiveIn(F)) /\ Elems(w) = WaitingIn(F)
  /\ Closing(F, X) /\ Children(F, X) /\ Queued(F, q, u) /\ Awake(F)
  /\ WakesWaiting(F, d, q, l)

Inv ==
  /\ Typed /\ Nested(fib, scope)
  /\ IF over THEN Awake(fib)
     ELSE Scheduled(cur, queue, waits, later, calls, fib, scope, deferred, unwound)

-----------------------------------------------------------------------------
(* Induction.                                                              *)

(* What holds of 0, and of every number whose predecessor it holds of.     *)
LEMMA StepByStep ==
  ASSUME NEW N \in Nat, NEW T, 0 \in T, \A i \in 1..N : i - 1 \in T => i \in T
  PROVE  0..N \subseteq T
  <1> DEFINE B == (0..N) \ T
  <1> SUFFICES ASSUME B # {} PROVE FALSE
    OBVIOUS
  <1>1. B \subseteq Nat
    OBVIOUS
  <1>2. PICK x \in B : \A y \in B : <<y, x>> \notin OpToRel(<, Nat)
    <2> HIDE DEF B
    <2> QED
      BY ONLY B # {}, <1>1, NatLessThanWellFounded, WFMin
  <1>3. x \in 1..N /\ x - 1 \in 0..N
    OBVIOUS
  <1>4. x - 1 \in B
    BY <1>3
  <1>5. <<x - 1, x>> \in OpToRel(<, Nat)
    BY <1>3 DEF OpToRel
  <1> QED
    BY <1>2, <1>4, <1>5

(* A function that is defined by its first value and by its steps F.       *)
Steps(g, N, S, a, F) ==
  g \in [0..N -> S] /\ g[0] = a /\ \A i \in 1..N : g[i] = F[i][g[i - 1]]

LEMMA StepsExist ==
  ASSUME NEW N \in Nat, NEW S, NEW a \in S, NEW F \in [1..N -> [S -> S]]
  PROVE  \E g : Steps(g, N, S, a, F)
  <1> DEFINE T == {m \in 0..N : \E g : Steps(g, m, S, a, F)}
  <1>1. 0 \in T
    <2> DEFINE g == [i \in 0..0 |-> a]
    <2>1. Steps(g, 0, S, a, F)
      BY DEF Steps
    <2> HIDE DEF g
    <2> QED
      BY <2>1
  <1>2. ASSUME NEW m \in 1..N, m - 1 \in T PROVE m \in T
    <2>1. PICK g : Steps(g, m - 1, S, a, F)
      BY <1>2
    <2> DEFINE h == [i \in 0..m |-> IF i = m THEN F[m][g[m - 1]] ELSE g[i]]
    <2>2. g[m - 1] \in S
      BY <2>1 DEF Steps
    <2>3. F[m][g[m - 1]] \in S
      BY <2>2
    <2>4. h \in [0..m -> S] /\ h[0] = a
      BY <2>1, <2>3 DEF Steps
    <2>5. ASSUME NEW i \in 1..m PROVE h[i] = F[i][h[i - 1]]
      <3>1. CASE i = m
        BY <3>1
      <3>2. CASE i # m
        <4>1. h[i] = g[i] /\ h[i - 1] = g[i - 1] /\ i \in 1..(m - 1)
          BY <3>2
        <4> HIDE DEF h
        <4> QED
          BY <2>1, <4>1 DEF Steps
      <3> QED
        BY <3>1, <3>2
    <2>6. Steps(h, m, S, a, F)
      <3> HIDE DEF h
      <3> QED
        BY <2>4, <2>5 DEF Steps
    <2> HIDE DEF h
    <2> QED
      BY <2>6
  <1>3. 0..N \subseteq T
    <2> HIDE DEF T
    <2> QED
      BY <1>1, <1>2, StepByStep
  <1> QED
    BY <1>3

(* Without.                                                                *)
LEMMA WithoutDef ==
  ASSUME NEW S, NEW s \in Seq(S), NEW D
  PROVE  \E r : /\ r[0] = <<>> /\ Without(s, D) = r[Len(s)]
                /\ \A i \in 1..Len(s) :
                     r[i] = IF s[i] \in D THEN r[i - 1] ELSE Append(r[i - 1], s[i])
  <1> DEFINE Rec(r) == r = [i \in 0..Len(s) |-> IF i = 0 THEN <<>>
                              ELSE IF s[i] \in D THEN r[i - 1] ELSE Append(r[i - 1], s[i])]
             F == [i \in 1..Len(s) |-> [x \in Seq(S) |-> IF s[i] \in D THEN x ELSE Append(x, s[i])]]
  <1>1. Len(s) \in Nat /\ \A i \in 1..Len(s) : s[i] \in S
    BY LenProperties, ElementOfSeq
  <1>2. F \in [1..Len(s) -> [Seq(S) -> Seq(S)]] /\ <<>> \in Seq(S)
    BY <1>1, AppendProperties, EmptySeq
  <1>3. PICK g : Steps(g, Len(s), Seq(S), <<>>, F)
    <2> HIDE DEF F
    <2> QED
      BY <1>1, <1>2, StepsExist
  <1>4. ASSUME NEW i \in 1..Len(s)
        PROVE  g[i] = IF s[i] \in D THEN g[i - 1] ELSE Append(g[i - 1], s[i])
    <2>1. g[i - 1] \in Seq(S) /\ g[i] = F[i][g[i - 1]]
      <3> HIDE DEF F
      <3>1. i - 1 \in 0..Len(s)
        BY <1>1
      <3> QED
        BY <1>3, <3>1 DEF Steps
    <2> QED
      BY <2>1
  <1>5. Rec(g)
    <2> HIDE DEF F
    <2>1. g = [i \in 0..Len(s) |-> g[i]] /\ g[0] = <<>>
      BY <1>3 DEF Steps
    <2>2. ASSUME NEW i \in 0..Len(s)
          PROVE  g[i] = IF i = 0 THEN <<>>
                        ELSE IF s[i] \in D THEN g[i - 1] ELSE Append(g[i - 1], s[i])
      <3>1. CASE i = 0
        BY <2>1, <3>1
      <3>2. CASE i # 0
        <4>1. i \in 1..Len(s)
          BY <3>2, <1>1
        <4> QED
          BY <1>4, <3>2, <4>1
      <3> QED
        BY <3>1, <3>2
    <2> QED
      BY <2>1, <2>2
  <1>6. PICK r : r = CHOOSE h : Rec(h)
    OBVIOUS
  <1>7. Rec(r)
    <2> HIDE DEF Rec
    <2> QED
      BY <1>5, <1>6
  <1>8. Without(s, D) = r[Len(s)]
    BY <1>6 DEF Without
  <1>9. r[0] = <<>> /\ \A i \in 1..Len(s) :
                          r[i] = IF s[i] \in D THEN r[i - 1] ELSE Append(r[i - 1], s[i])
    <2>1. \A i \in 0..Len(s) :
            r[i] = IF i = 0 THEN <<>>
                   ELSE IF s[i] \in D THEN r[i - 1] ELSE Append(r[i - 1], s[i])
      BY <1>7, Zenon
    <2>2. 0 \in 0..Len(s) /\ \A i \in 1..Len(s) : i \in 0..Len(s) /\ i # 0
      BY <1>1
    <2> QED
      BY <2>1, <2>2, Zenon
  <1> QED
    BY <1>8, <1>9

(* What is left of a sequence is what is not taken out of it.              *)
Filtered(S, s, D, v) ==
  /\ v \in Seq(S)
  /\ Elems(v) = Elems(s) \ D
  /\ Distinct(s) => Distinct(v)

LEMMA WithoutProperties ==
  ASSUME NEW S, NEW s \in Seq(S), NEW D, NEW v, v = Without(s, D)
  PROVE  Filtered(S, s, D, v)
  <1>1. PICK r : /\ r[0] = <<>> /\ Without(s, D) = r[Len(s)]
                 /\ \A i \in 1..Len(s) :
                      r[i] = IF s[i] \in D THEN r[i - 1] ELSE Append(r[i - 1], s[i])
    BY WithoutDef
  <1>2. Len(s) \in Nat /\ \A i \in 1..Len(s) : s[i] \in S
    BY LenProperties, ElementOfSeq
  <1> DEFINE P(i) == /\ r[i] \in Seq(S)
                     /\ \A x : (\E j \in 1..Len(r[i]) : r[i][j] = x)
                                 <=> x \notin D /\ \E j \in 1..i : s[j] = x
                     /\ Distinct(s) => Distinct(r[i])
             T == {i \in 0..Len(s) : P(i)}
  <1>3. 0 \in T
    <2>1. r[0] \in Seq(S) /\ Len(r[0]) = 0
      BY <1>1, EmptySeq
    <2> QED
      BY <1>2, <2>1 DEF Distinct
  <1>4. ASSUME NEW i \in 1..Len(s), i - 1 \in T PROVE i \in T
    <2>1. PICK q, e : q = r[i - 1] /\ e = s[i]
      OBVIOUS
    <2>2. /\ q \in Seq(S) /\ e \in S
          /\ \A x : (\E j \in 1..Len(q) : q[j] = x) <=> x \notin D /\ \E j \in 1..(i - 1) : s[j] = x
          /\ Distinct(s) => Distinct(q)
      BY <1>2, <1>4, <2>1
    <2>3. \A x : (\E j \in 1..i : s[j] = x) <=> e = x \/ \E j \in 1..(i - 1) : s[j] = x
      BY <1>2, <2>1
    <2>4. CASE s[i] \in D
      <3>1. r[i] = q
        BY <1>1, <2>1, <2>4
      <3>2. P(i)
        BY <2>1, <2>2, <2>3, <2>4, <3>1
      <3> QED
        BY <1>2, <3>2
    <2>5. CASE s[i] \notin D
      <3>1. r[i] = Append(q, e)
        BY <1>1, <2>1, <2>5
      <3>2. /\ r[i] \in Seq(S) /\ Len(q) \in Nat /\ Len(r[i]) = Len(q) + 1
            /\ \A j \in 1..Len(q) : r[i][j] = q[j]
            /\ r[i][Len(q) + 1] = e
        BY <2>2, <3>1, AppendProperties, LenProperties
      <3> HIDE DEF T
      <3>3. \A x : (\E j \in 1..Len(r[i]) : r[i][j] = x) <=> e = x \/ \E j \in 1..Len(q) : q[j] = x
        BY <3>2
      <3>4. \A x : (\E j \in 1..Len(r[i]) : r[i][j] = x)
                     <=> x \notin D /\ \E j \in 1..i : s[j] = x
        BY <2>1, <2>2, <2>3, <2>5, <3>3
      <3>5. ASSUME Distinct(s) PROVE Distinct(r[i])
        <4>1. \A j \in 1..Len(q) : q[j] # e
          <5> SUFFICES ASSUME NEW j \in 1..Len(q), q[j] = e PROVE FALSE
            OBVIOUS
          <5>1. PICK k \in 1..(i - 1) : s[k] = e
            BY <2>2
          <5>2. k \in 1..Len(s) /\ k # i
            BY <1>2
          <5> QED
            BY <2>1, <3>5, <5>1, <5>2 DEF Distinct
        <4>2. Distinct(q)
          BY <2>2, <3>5
        <4> QED
          BY <3>2, <4>1, <4>2 DEF Distinct
      <3>6. P(i)
        BY <3>2, <3>4, <3>5
      <3> QED
        BY <1>2, <3>6 DEF T
    <2> QED
      BY <2>4, <2>5
  <1>5. Len(s) \in T
    <2> HIDE DEF T
    <2>1. 0..Len(s) \subseteq T
      BY <1>2, <1>3, <1>4, StepByStep
    <2> QED
      BY <1>2, <2>1
  <1>6. P(Len(s))
    BY <1>5
  <1>7. \A x : x \in Elems(v) <=> x \in Elems(s) \ D
    BY <1>1, <1>6, ZenonT(30) DEF Elems
  <1> QED
    BY <1>1, <1>6, <1>7 DEF Filtered

(* Appending to a sequence.                                                *)
AppendedTo(S, s, x, t) ==
  /\ t \in Seq(S) /\ Len(s) \in Nat /\ Len(t) = Len(s) + 1 /\ t # <<>> /\ Last(t) = x
  /\ (\A i \in 1..Len(s) : t[i] = s[i]) /\ t[Len(s) + 1] = x
  /\ Elems(t) = Elems(s) \cup {x}
  /\ (Distinct(s) /\ x \notin Elems(s) => Distinct(t))

LEMMA Appended ==
  ASSUME NEW S, NEW s \in Seq(S), NEW x \in S, NEW t, t = Append(s, x)
  PROVE  AppendedTo(S, s, x, t)
  <1>1. /\ t \in Seq(S) /\ Len(s) \in Nat /\ Len(t) = Len(s) + 1
        /\ (\A i \in 1..Len(s) : t[i] = s[i]) /\ t[Len(s) + 1] = x
    BY AppendProperties, LenProperties
  <1>2. ASSUME NEW y PROVE y \in Elems(t) <=> y \in Elems(s) \/ y = x
    BY <1>1 DEF Elems
  <1>3. Distinct(s) /\ x \notin Elems(s) => Distinct(t)
    BY <1>1 DEF Distinct, Elems
  <1>4. t # <<>> /\ Last(t) = x
    <2>1. t # <<>>
      BY <1>1, EmptySeq
    <2> QED
      BY <1>1, <2>1 DEF Last
  <1> QED
    BY <1>1, <1>2, <1>3, <1>4 DEF AppendedTo

(* Putting two sequences together.                                         *)
JoinedTo(S, s, t, u) ==
  /\ u \in Seq(S) /\ Len(s) \in Nat /\ Len(t) \in Nat /\ Len(u) = Len(s) + Len(t)
  /\ (\A i \in 1..Len(s) : u[i] = s[i]) /\ (\A i \in 1..Len(t) : u[Len(s) + i] = t[i])
  /\ Elems(u) = Elems(s) \cup Elems(t)

LEMMA Joined ==
  ASSUME NEW S, NEW s \in Seq(S), NEW t \in Seq(S), NEW u, u = s \o t
  PROVE  JoinedTo(S, s, t, u)
  <1>1. /\ u \in Seq(S) /\ Len(s) \in Nat /\ Len(t) \in Nat /\ Len(u) = Len(s) + Len(t)
        /\ \A i \in 1..(Len(s) + Len(t)) : u[i] = IF i <= Len(s) THEN s[i] ELSE t[i - Len(s)]
    BY ConcatProperties, LenProperties
  <1>2. (\A i \in 1..Len(s) : u[i] = s[i]) /\ (\A i \in 1..Len(t) : u[Len(s) + i] = t[i])
    <2>1. ASSUME NEW i \in 1..Len(t) PROVE u[Len(s) + i] = t[i]
      <3>1. PICK k \in 1..(Len(s) + Len(t)) : k = Len(s) + i /\ ~(k <= Len(s)) /\ k - Len(s) = i
        BY <1>1
      <3> QED
        BY <1>1, <3>1
    <2>2. ASSUME NEW i \in 1..Len(s) PROVE u[i] = s[i]
      BY <1>1
    <2> QED
      BY <2>1, <2>2
  <1>3. ASSUME NEW y, y \in Elems(u) PROVE y \in Elems(s) \/ y \in Elems(t)
    <2>1. PICK i \in 1..(Len(s) + Len(t)) : u[i] = y
      BY <1>1, <1>3 DEF Elems
    <2>2. CASE i <= Len(s)
      BY <1>1, <2>1, <2>2 DEF Elems
    <2>3. CASE ~(i <= Len(s))
      <3>1. i - Len(s) \in 1..Len(t) /\ t[i - Len(s)] = y
        BY <1>1, <2>1, <2>3
      <3> QED
        BY <3>1 DEF Elems
    <2> QED
      BY <2>2, <2>3
  <1>4. ASSUME NEW y, y \in Elems(s) \/ y \in Elems(t) PROVE y \in Elems(u)
    <2>1. CASE y \in Elems(s)
      BY <1>1, <1>2, <2>1 DEF Elems
    <2>2. CASE y \in Elems(t)
      <3>1. PICK i \in 1..Len(t) : t[i] = y
        BY <2>2 DEF Elems
      <3>2. Len(s) + i \in 1..Len(u) /\ u[Len(s) + i] = y
        BY <1>1, <1>2, <3>1
      <3> QED
        BY <3>2 DEF Elems
    <2> QED
      BY <1>4, <2>1, <2>2
  <1> QED
    BY <1>1, <1>2, <1>3, <1>4 DEF JoinedTo

(* A sequence without its last element.                                    *)
FrontOf(S, s, t) ==
  /\ Len(s) \in Nat \ {0} /\ Last(s) = s[Len(s)] /\ Last(s) \in S
  /\ t \in Seq(S) /\ Len(t) = Len(s) - 1 /\ \A i \in 1..Len(t) : t[i] = s[i]

LEMMA Fronted ==
  ASSUME NEW S, NEW s \in Seq(S), s # <<>>, NEW t, t = Front(s)
  PROVE  FrontOf(S, s, t)
  <1>1. Len(s) \in Nat \ {0}
    BY LenProperties, EmptySeq
  <1>2. t \in Seq(S) /\ Len(t) = Len(s) - 1 /\ \A i \in 1..(Len(s) - 1) : t[i] = s[i]
    <2>1. PICK m \in Int : m = Len(s) - 1
      BY <1>1
    <2>2. t = SubSeq(s, 1, m) /\ 1 \in Int
      BY <2>1 DEF Front
    <2>3. \A i \in 1..m : s[i] \in S
      BY <1>1, <2>1, ElementOfSeq
    <2>4. /\ t \in Seq(S) /\ Len(t) = IF 1 <= m THEN m - 1 + 1 ELSE 0
          /\ \A i \in 1..(m - 1 + 1) : t[i] = s[1 + i - 1]
      <3>1. /\ SubSeq(s, 1, m) \in Seq(S) /\ Len(SubSeq(s, 1, m)) = IF 1 <= m THEN m - 1 + 1 ELSE 0
            /\ \A i \in 1..(m - 1 + 1) : SubSeq(s, 1, m)[i] = s[1 + i - 1]
        BY <2>2, <2>3, SubSeqProperties
      <3> QED
        BY <2>2, <3>1, Zenon
    <2>5. \A i \in 1..m : i \in 1..(m - 1 + 1) /\ 1 + i - 1 = i
      BY <2>1
    <2>6. (IF 1 <= m THEN m - 1 + 1 ELSE 0) = m
      BY <1>1, <2>1
    <2>7. \A i \in 1..m : t[i] = s[i]
      BY <2>4, <2>5, Zenon
    <2> QED
      BY <2>1, <2>4, <2>6, <2>7
  <1>3. Last(s) = s[Len(s)] /\ s[Len(s)] \in S
    BY <1>1, ElementOfSeq DEF Last
  <1> QED
    BY <1>1, <1>2, <1>3 DEF FrontOf

(* A sequence without its first element.                                   *)
TailOf(S, q, t, u) ==
  /\ Len(q) \in Nat \ {0} /\ t = q[1] /\ t \in S
  /\ u \in Seq(S) /\ Len(u) = Len(q) - 1 /\ \A i \in 1..Len(u) : u[i] = q[i + 1]
  /\ Elems(q) = {t} \cup Elems(u)

LEMMA Tailed ==
  ASSUME NEW S, NEW q \in Seq(S), q # <<>>, NEW t, t = Head(q), NEW u, u = Tail(q)
  PROVE  TailOf(S, q, t, u)
  <1>1. Len(q) \in Nat \ {0}
    BY LenProperties, EmptySeq
  <1>2. u \in Seq(S) /\ Len(u) = Len(q) - 1 /\ t = q[1] /\ t \in S
        /\ \A i \in 1..Len(u) : u[i] = q[i + 1]
    BY <1>1, HeadTailProperties, ElementOfSeq
  <1>3. ASSUME NEW y PROVE y \in Elems(q) <=> y = t \/ y \in Elems(u)
    <2>1. ASSUME NEW i \in 1..Len(q), i # 1 PROVE q[i] \in Elems(u)
      <3>1. i - 1 \in 1..Len(u) /\ u[i - 1] = q[i]
        BY <1>1, <1>2, <2>1
      <3> QED
        BY <3>1 DEF Elems
    <2>2. ASSUME NEW i \in 1..Len(u) PROVE u[i] \in Elems(q)
      <3>1. i + 1 \in 1..Len(q) /\ u[i] = q[i + 1]
        BY <1>1, <1>2
      <3> QED
        BY <3>1 DEF Elems
    <2>3. t \in Elems(q)
      BY <1>1, <1>2 DEF Elems
    <2> QED
      BY <1>2, <2>1, <2>2, <2>3 DEF Elems
  <1> QED
    BY <1>1, <1>2, <1>3 DEF TailOf

-----------------------------------------------------------------------------
(* Fibers that are taken from the waits get a task each.                   *)

(* The tasks ts continue the fibers of D, once each.                       *)
Continue(ts, D) ==
  /\ ts \in Seq(Tasks)
  /\ \A i \in 1..Len(ts) : ts[i].kind \in {"throw", "resume"} /\ ts[i].f \in D
  /\ \A i, j \in 1..Len(ts) : ts[i].f = ts[j].f => i = j
  /\ \A f \in D : \E i \in 1..Len(ts) : ts[i].f = f

LEMMA ThrowsEach ==
  ASSUME NEW fs \in Seq(Fibers), Distinct(fs), NEW ts, ts = ThrowTasks(fs)
  PROVE  Continue(ts, Elems(fs)) /\ \A i \in 1..Len(ts) : ts[i].kind = "throw"
  <1>1. Len(fs) \in Nat /\ \A i \in 1..Len(fs) : fs[i] \in Fibers
    BY LenProperties, ElementOfSeq
  <1>2. \A i \in 1..Len(fs) : Task("throw", fs[i], 0, "int") \in Tasks
    BY <1>1 DEF Task, Tasks, Outcomes
  <1>3. ts \in Seq(Tasks) /\ Len(ts) = Len(fs)
        /\ \A i \in 1..Len(fs) : ts[i] = Task("throw", fs[i], 0, "int")
    <2>1. ts = [i \in 1..Len(fs) |-> Task("throw", fs[i], 0, "int")]
      BY DEF ThrowTasks
    <2> HIDE DEF Task
    <2> QED
      BY <1>1, <1>2, <2>1, IsASeq, LenProperties
  <1>4. ASSUME NEW i \in 1..Len(fs) PROVE ts[i].f = fs[i] /\ ts[i].kind = "throw"
    <2>1. PICK t, g : t = ts[i] /\ g = fs[i] /\ t = Task("throw", g, 0, "int")
      BY <1>3
    <2> QED
      BY ONLY <2>1 DEF Task
  <1> QED
    BY <1>1, <1>3, <1>4 DEF Continue, Elems, Distinct

LEMMA ForkOrder ==
  ASSUME NEW S \in SUBSET Fibers, NEW v, v = InForkOrder(S)
  PROVE  v \in Seq(Fibers) /\ Elems(v) = S /\ Distinct(v)
  <1>1. PICK u : u = [f \in Fibers |-> f]
    OBVIOUS
  <1>2. NFibers \in Nat /\ Fibers = 1..NFibers
    BY ConstantsAssumption DEF Fibers
  <1>3. u \in Seq(Fibers) /\ Len(u) = NFibers
    <2>1. u = [i \in 1..NFibers |-> i] /\ \A i \in 1..NFibers : i \in Fibers
      BY <1>1, <1>2
    <2> QED
      BY <1>2, <2>1, IsASeq, LenProperties
  <1>4. Elems(u) = Fibers /\ Distinct(u)
    BY <1>1, <1>2, <1>3 DEF Elems, Distinct
  <1>5. PICK D : D = Fibers \ S
    OBVIOUS
  <1>6. v = Without(u, D)
    BY <1>1, <1>5 DEF InForkOrder
  <1>7. Filtered(Fibers, u, D, v)
    BY <1>3, <1>6, WithoutProperties
  <1> QED
    BY <1>4, <1>5, <1>7 DEF Filtered

LEMMA ThrowsInOrder ==
  ASSUME NEW S \in SUBSET Fibers, NEW ts, ts = ThrowTasks(InForkOrder(S))
  PROVE  Continue(ts, S) /\ \A i \in 1..Len(ts) : ts[i].kind = "throw"
  <1>1. PICK v : v = InForkOrder(S)
    OBVIOUS
  <1>2. v \in Seq(Fibers) /\ Elems(v) = S /\ Distinct(v)
    BY <1>1, ForkOrder
  <1> QED
    BY <1>1, <1>2, ThrowsEach

(* Tasks of different fibers.                                              *)
LEMMA ContinueBoth ==
  ASSUME NEW D, NEW E, D \cap E = {}, NEW s, Continue(s, D), NEW t, Continue(t, E),
         NEW u, u = s \o t
  PROVE  Continue(u, D \cup E)
  <1>1. s \in Seq(Tasks) /\ t \in Seq(Tasks)
    BY DEF Continue
  <1>2. JoinedTo(Tasks, s, t, u)
    BY <1>1, Joined
  <1>3. \A i \in 1..Len(u) : \/ i \in 1..Len(s) /\ u[i] = s[i] /\ s[i].f \in D
                             \/ i - Len(s) \in 1..Len(t) /\ u[i] = t[i - Len(s)] /\ t[i - Len(s)].f \in E
    <2> SUFFICES ASSUME NEW i \in 1..Len(u)
                 PROVE  \/ i \in 1..Len(s) /\ u[i] = s[i] /\ s[i].f \in D
                        \/ i - Len(s) \in 1..Len(t) /\ u[i] = t[i - Len(s)] /\ t[i - Len(s)].f \in E
      OBVIOUS
    <2>1. CASE i <= Len(s)
      BY <1>2, <2>1 DEF JoinedTo, Continue
    <2>2. CASE ~(i <= Len(s))
      <3>1. PICK j \in 1..Len(t) : j = i - Len(s) /\ i = Len(s) + j
        BY <1>2, <2>2 DEF JoinedTo
      <3>2. u[i] = t[j]
        BY <1>2, <3>1 DEF JoinedTo
      <3> QED
        BY <3>1, <3>2 DEF Continue
    <2> QED
      BY <2>1, <2>2
  <1>4. \A i \in 1..Len(u) : u[i].kind \in {"throw", "resume"} /\ u[i].f \in D \cup E
    BY <1>3 DEF Continue
  <1>5. ASSUME NEW i \in 1..Len(u), NEW j \in 1..Len(u), u[i].f = u[j].f PROVE i = j
    <2>1. Len(s) \in Nat
      BY <1>2 DEF JoinedTo
    <2>2. CASE u[i].f \in D
      <3>1. i \in 1..Len(s) /\ j \in 1..Len(s) /\ u[i] = s[i] /\ u[j] = s[j]
        BY <1>3, <1>5, <2>2
      <3> QED
        BY <1>5, <3>1 DEF Continue
    <2>3. CASE u[i].f \notin D
      <3>1. /\ i - Len(s) \in 1..Len(t) /\ u[i] = t[i - Len(s)]
            /\ j - Len(s) \in 1..Len(t) /\ u[j] = t[j - Len(s)]
        BY <1>3, <1>5, <2>3
      <3>2. i - Len(s) = j - Len(s)
        BY <1>5, <3>1 DEF Continue
      <3> QED
        BY <2>1, <3>2
    <2> QED
      BY <2>2, <2>3
  <1>6. ASSUME NEW f \in D \cup E PROVE \E i \in 1..Len(u) : u[i].f = f
    <2>1. CASE f \in D
      <3>1. PICK i \in 1..Len(s) : s[i].f = f
        BY <2>1 DEF Continue
      <3> QED
        BY <1>2, <3>1 DEF JoinedTo
    <2>2. CASE f \in E
      <3>1. PICK i \in 1..Len(t) : t[i].f = f
        BY <2>2 DEF Continue
      <3>2. Len(s) + i \in 1..Len(u) /\ u[Len(s) + i] = t[i]
        BY <1>2, <3>1 DEF JoinedTo
      <3> QED
        BY <3>1, <3>2
    <2> QED
      BY <2>1, <2>2
  <1> QED
    BY <1>2, <1>4, <1>5, <1>6 DEF Continue, JoinedTo

(* The effective wakes among ws, each for a fiber of its own.              *)
Apart(ws) == \A i, j \in 1..Len(ws) : ws[i].f = ws[j].f /\ ws[i].no = ws[j].no => i = j
WokenFrom(F, ws, D, v) ==
  /\ v \in Seq(Wakes)
  /\ \A i, j \in 1..Len(v) : v[i].f = v[j].f => i = j
  /\ Taken(v) = {f \in Fibers : f \notin D /\ Registered(ws, f, F[f].wait.no)}

LEMMA WokenEach ==
  ASSUME NEW ws \in Seq(Wakes), Apart(ws), NEW D, NEW v, v = Woken(ws, D)
  PROVE  WokenFrom(fib, ws, D, v)
  <1>1. PICK E : E = {w \in ToSet(ws) : ~Effective(w) \/ w.f \in D}
    OBVIOUS
  <1>2. v = Without(ws, E)
    BY <1>1 DEF Woken
  <1>3. Filtered(Wakes, ws, E, v)
    BY <1>2, WithoutProperties
  <1>4. Len(ws) \in Nat /\ DOMAIN ws = 1..Len(ws) /\ \A i \in 1..Len(ws) : ws[i] \in Wakes
    BY LenProperties, ElementOfSeq
  <1>5. ToSet(ws) = Elems(ws)
    BY <1>4 DEF ToSet, Elems
  <1>6. Elems(v) = {w \in Elems(ws) : Effective(w) /\ w.f \notin D}
    BY <1>1, <1>3, <1>5 DEF Filtered
  <1>7. v \in Seq(Wakes) /\ Len(v) \in Nat /\ DOMAIN v = 1..Len(v)
    BY <1>3, LenProperties DEF Filtered
  <1>8. \A i \in 1..Len(v) : v[i] \in Elems(v)
    BY DEF Elems
  <1>9. Distinct(v)
    <2>1. Distinct(ws)
      BY DEF Distinct, Apart
    <2> QED
      BY <1>3, <2>1 DEF Filtered
  <1>10. ASSUME NEW i \in 1..Len(v), NEW j \in 1..Len(v), v[i].f = v[j].f PROVE i = j
    <2>1. v[i].no = v[j].no
      BY <1>6, <1>8, <1>10 DEF Effective
    <2>2. PICK k \in 1..Len(ws) : ws[k] = v[i]
      BY <1>6, <1>8 DEF Elems
    <2>3. PICK l \in 1..Len(ws) : ws[l] = v[j]
      BY <1>6, <1>8 DEF Elems
    <2>4. k = l
      BY <1>10, <2>1, <2>2, <2>3 DEF Apart
    <2> QED
      BY <1>9, <2>2, <2>3, <2>4 DEF Distinct
  <1>11. Taken(v) = {w.f : w \in Elems(v)}
    BY <1>7 DEF Taken, Elems
  <1>12. ASSUME NEW f
         PROVE  f \in Taken(v) <=> f \in Fibers /\ f \notin D /\ Registered(ws, f, fib[f].wait.no)
    <2>1. ASSUME f \in Taken(v)
          PROVE  f \in Fibers /\ f \notin D /\ Registered(ws, f, fib[f].wait.no)
      <3>1. PICK w \in Elems(v) : w.f = f
        BY <1>11, <2>1
      <3>2. w \in Elems(ws) /\ Effective(w) /\ w.f \notin D
        BY <1>6
      <3>3. PICK i \in 1..Len(ws) : ws[i] = w
        BY <3>2 DEF Elems
      <3>4. w \in Wakes
        BY <1>4, <3>3
      <3>5. f \in Fibers
        BY <3>1, <3>4 DEF Wakes
      <3> QED
        BY <3>1, <3>2, <3>3, <3>5 DEF Registered, Effective
    <2>2. ASSUME f \in Fibers, f \notin D, Registered(ws, f, fib[f].wait.no)
          PROVE  f \in Taken(v)
      <3>1. PICK i \in 1..Len(ws) : ws[i].f = f /\ ws[i].no = fib[f].wait.no
        BY <2>2 DEF Registered
      <3>2. ws[i] \in Elems(ws) /\ Effective(ws[i])
        BY <3>1 DEF Elems, Effective
      <3>3. ws[i] \in Elems(v)
        BY <1>6, <2>2, <3>1, <3>2
      <3> QED
        BY <1>11, <3>1, <3>3
    <2> QED
      BY <2>1, <2>2
  <1> QED
    BY <1>7, <1>10, <1>12 DEF WokenFrom

LEMMA ResumesEach ==
  ASSUME NEW F, NEW ws, NEW D, NEW v, WokenFrom(F, ws, D, v), NEW o \in Outcomes,
         NEW ts, ts = ResumeTasks(v, o)
  PROVE  Continue(ts, Taken(v)) /\ \A i \in 1..Len(ts) : ts[i].kind = "resume"
  <1>1. v \in Seq(Wakes) /\ Len(v) \in Nat /\ DOMAIN v = 1..Len(v) /\ \A i \in 1..Len(v) : v[i] \in Wakes
    BY LenProperties, ElementOfSeq DEF WokenFrom
  <1>2. \A i \in 1..Len(v) : v[i].f \in Fibers
    BY <1>1 DEF Wakes
  <1>3. \A i \in 1..Len(v) : Settled(v[i].verb, o) \in Outcomes \cup {"run"}
    BY DEF Settled, Outcomes
  <1>4. \A i \in 1..Len(v) : Task("resume", v[i].f, 0, Settled(v[i].verb, o)) \in Tasks
    <2> HIDE DEF Settled
    <2> QED
      BY <1>2, <1>3 DEF Task, Tasks
  <1>5. ts \in Seq(Tasks) /\ Len(ts) = Len(v)
        /\ \A i \in 1..Len(v) : ts[i] = Task("resume", v[i].f, 0, Settled(v[i].verb, o))
    <2>1. ts = [i \in 1..Len(v) |-> Task("resume", v[i].f, 0, Settled(v[i].verb, o))]
      BY DEF ResumeTasks
    <2> HIDE DEF Task, Settled
    <2> QED
      BY <1>1, <1>4, <2>1, IsASeq, LenProperties
  <1>6. ASSUME NEW i \in 1..Len(v) PROVE ts[i].f = v[i].f /\ ts[i].kind = "resume"
    <2>1. PICK t, g, x : t = ts[i] /\ g = v[i].f /\ t = Task("resume", g, 0, x)
      BY <1>5
    <2> QED
      BY ONLY <2>1 DEF Task
  <1>7. Taken(v) = {v[i].f : i \in 1..Len(v)}
    BY <1>1 DEF Taken
  <1> QED
    BY <1>1, <1>5, <1>6, <1>7 DEF Continue, WokenFrom

-----------------------------------------------------------------------------
(* Where the fibers are.                                                   *)

OwnApart(q) == \A i, j \in 1..Len(q) : Own(q[i]) /\ Own(q[j]) /\ q[i].f = q[j].f => i = j

LEMMA TaskedJoined ==
  ASSUME NEW q \in Seq(Tasks), NEW D, NEW ts, Continue(ts, D), NEW r, r = q \o ts
  PROVE  /\ r \in Seq(Tasks) /\ Tasked(r) = Tasked(q) \cup D
         /\ OwnApart(q) /\ Tasked(q) \cap D = {} => OwnApart(r)
  <1>1. JoinedTo(Tasks, q, ts, r)
    BY Joined DEF Continue
  <1>2. \A i \in 1..Len(r) : \/ i \in 1..Len(q) /\ r[i] = q[i]
                             \/ i - Len(q) \in 1..Len(ts) /\ r[i] = ts[i - Len(q)]
    <2> SUFFICES ASSUME NEW i \in 1..Len(r), ~(i <= Len(q))
                 PROVE  i - Len(q) \in 1..Len(ts) /\ r[i] = ts[i - Len(q)]
      BY <1>1 DEF JoinedTo
    <2>1. PICK j \in 1..Len(ts) : j = i - Len(q) /\ i = Len(q) + j
      BY <1>1 DEF JoinedTo
    <2> QED
      BY <1>1, <2>1 DEF JoinedTo
  <1>3. Len(q) \in Nat /\ Len(ts) \in Nat /\ Len(r) = Len(q) + Len(ts)
    BY <1>1 DEF JoinedTo
  <1>4. \A i \in 1..Len(ts) : Own(ts[i]) /\ ts[i].f \in D
    BY DEF Continue, Own
  <1>5. ASSUME NEW f PROVE f \in Tasked(r) <=> f \in Tasked(q) \/ f \in D
    <2>1. ASSUME f \in Tasked(r) PROVE f \in Tasked(q) \/ f \in D
      BY <1>2, <1>4, <2>1 DEF Tasked
    <2>2. ASSUME f \in Tasked(q) PROVE f \in Tasked(r)
      BY <1>1, <1>3, <2>2 DEF Tasked, JoinedTo
    <2>3. ASSUME f \in D PROVE f \in Tasked(r)
      <3>1. PICK i \in 1..Len(ts) : ts[i].f = f
        BY <2>3 DEF Continue
      <3>2. Len(q) + i \in 1..Len(r) /\ r[Len(q) + i] = ts[i]
        BY <1>1, <1>3, <3>1 DEF JoinedTo
      <3> QED
        BY <1>4, <3>1, <3>2 DEF Tasked
    <2> QED
      BY <2>1, <2>2, <2>3
  <1>6. ASSUME OwnApart(q), Tasked(q) \cap D = {} PROVE OwnApart(r)
    <2>1. \A i \in 1..Len(q) : Own(q[i]) => q[i].f \notin D
      BY <1>6 DEF Tasked
    <2> SUFFICES ASSUME NEW i \in 1..Len(r), NEW j \in 1..Len(r),
                        Own(r[i]), Own(r[j]), r[i].f = r[j].f
                 PROVE  i = j
      BY DEF OwnApart
    <2>2. CASE r[i].f \in D
      <3>1. /\ i - Len(q) \in 1..Len(ts) /\ r[i] = ts[i - Len(q)]
            /\ j - Len(q) \in 1..Len(ts) /\ r[j] = ts[j - Len(q)]
        BY <1>2, <2>1, <2>2
      <3>2. i - Len(q) = j - Len(q)
        BY <3>1 DEF Continue
      <3> QED
        BY <1>3, <3>2
    <2>3. CASE r[i].f \notin D
      <3>1. i \in 1..Len(q) /\ j \in 1..Len(q) /\ r[i] = q[i] /\ r[j] = q[j]
        BY <1>2, <1>4, <2>3
      <3> QED
        BY <1>6, <3>1 DEF OwnApart
    <2> QED
      BY <2>2, <2>3
  <1> QED
    BY <1>1, <1>5, <1>6 DEF JoinedTo

LEMMA TaskedAppended ==
  ASSUME NEW q \in Seq(Tasks), NEW t \in Tasks, NEW r, r = Append(q, t)
  PROVE  /\ r \in Seq(Tasks) /\ Tasked(r) = Tasked(q) \cup (IF Own(t) THEN {t.f} ELSE {})
         /\ OwnApart(q) /\ (Own(t) => t.f \notin Tasked(q)) => OwnApart(r)
  <1>1. AppendedTo(Tasks, q, t, r)
    BY Appended
  <1>2. \A i \in 1..Len(r) : (i \in 1..Len(q) /\ r[i] = q[i]) \/ (i = Len(q) + 1 /\ r[i] = t)
    BY <1>1 DEF AppendedTo
  <1>3. Len(q) \in Nat /\ Len(r) = Len(q) + 1
    BY <1>1 DEF AppendedTo
  <1>4. ASSUME NEW f PROVE f \in Tasked(r) <=> f \in Tasked(q) \/ (Own(t) /\ f = t.f)
    <2>1. ASSUME f \in Tasked(r) PROVE f \in Tasked(q) \/ (Own(t) /\ f = t.f)
      BY <1>2, <2>1 DEF Tasked
    <2>2. ASSUME f \in Tasked(q) PROVE f \in Tasked(r)
      BY <1>1, <1>3, <2>2 DEF Tasked, AppendedTo
    <2>3. ASSUME Own(t) PROVE t.f \in Tasked(r)
      <3>1. Len(q) + 1 \in 1..Len(r) /\ r[Len(q) + 1] = t
        BY <1>1, <1>3 DEF AppendedTo
      <3> QED
        BY <2>3, <3>1 DEF Tasked
    <2> QED
      BY <2>1, <2>2, <2>3
  <1>5. ASSUME OwnApart(q), Own(t) => t.f \notin Tasked(q) PROVE OwnApart(r)
    <2>1. \A i \in 1..Len(q) : Own(q[i]) => q[i].f \in Tasked(q)
      BY DEF Tasked
    <2> QED
      BY <1>2, <1>3, <1>5, <2>1 DEF OwnApart
  <1> QED
    BY <1>1, <1>4, <1>5 DEF AppendedTo

LEMMA TaskedTail ==
  ASSUME NEW q \in Seq(Tasks), q # <<>>, NEW t, t = Head(q), NEW r, r = Tail(q), OwnApart(q)
  PROVE  /\ t \in Tasks /\ r \in Seq(Tasks) /\ OwnApart(r)
         /\ Tasked(r) = Tasked(q) \ (IF Own(t) THEN {t.f} ELSE {})
         /\ Own(t) => t.f \in Tasked(q)
  <1>1. TailOf(Tasks, q, t, r)
    BY Tailed
  <1>2. Len(q) \in Nat \ {0} /\ Len(r) = Len(q) - 1 /\ t = q[1]
    BY <1>1 DEF TailOf
  <1>3. \A i \in 1..Len(r) : i + 1 \in 1..Len(q) /\ i + 1 # 1 /\ r[i] = q[i + 1]
    BY <1>1, <1>2 DEF TailOf
  <1>4. \A i \in 1..Len(q) : (i = 1 /\ q[i] = t) \/ (i - 1 \in 1..Len(r) /\ q[i] = r[i - 1])
    <2> SUFFICES ASSUME NEW i \in 1..Len(q), i # 1 PROVE i - 1 \in 1..Len(r) /\ q[i] = r[i - 1]
      BY <1>2
    <2>1. PICK j \in 1..Len(r) : j = i - 1 /\ i = j + 1
      BY <1>2
    <2> QED
      BY <1>3, <2>1
  <1>5. OwnApart(r)
    <2> SUFFICES ASSUME NEW i \in 1..Len(r), NEW j \in 1..Len(r),
                        Own(r[i]), Own(r[j]), r[i].f = r[j].f
                 PROVE  i = j
      BY DEF OwnApart
    <2>1. i + 1 = j + 1
      BY <1>3 DEF OwnApart
    <2> QED
      BY <1>2, <2>1
  <1>6. Own(t) => t.f \in Tasked(q)
    <2>1. 1 \in 1..Len(q)
      BY <1>2
    <2> QED
      BY <1>2, <2>1 DEF Tasked
  <1>7. ASSUME NEW f PROVE f \in Tasked(r) <=> f \in Tasked(q) /\ ~(Own(t) /\ f = t.f)
    <2>1. ASSUME f \in Tasked(r) PROVE f \in Tasked(q) /\ ~(Own(t) /\ f = t.f)
      <3>1. PICK i \in 1..Len(r) : Own(r[i]) /\ r[i].f = f
        BY <2>1 DEF Tasked
      <3>2. i + 1 \in 1..Len(q) /\ i + 1 # 1 /\ q[i + 1] = r[i] /\ 1 \in 1..Len(q)
        BY <1>2, <1>3
      <3> QED
        BY <1>2, <3>1, <3>2 DEF Tasked, OwnApart
    <2>2. ASSUME f \in Tasked(q), ~(Own(t) /\ f = t.f) PROVE f \in Tasked(r)
      <3>1. PICK i \in 1..Len(q) : Own(q[i]) /\ q[i].f = f
        BY <2>2 DEF Tasked
      <3>2. i - 1 \in 1..Len(r) /\ q[i] = r[i - 1]
        BY <1>4, <2>2, <3>1
      <3> QED
        BY <3>1, <3>2 DEF Tasked
    <2> QED
      BY <2>1, <2>2
  <1> QED
    BY <1>1, <1>5, <1>6, <1>7 DEF TailOf

(* The fibers of D are taken from the waits and get a task each.           *)
Move(q, w, D, ts, r, v) ==
  D \subseteq Elems(w) /\ Continue(ts, D) /\ r = q \o ts /\ v = Without(w, D)
Moved(c, w, L, D, r, v) ==
  Placed(c, r, v, L) /\ Elems(v) = Elems(w) \ D /\ r \in Seq(Tasks) /\ v \in Seq(Fibers)

LEMMA PlacedMove ==
  ASSUME NEW c, NEW q \in Seq(Tasks), NEW w \in Seq(Fibers), NEW L, Placed(c, q, w, L),
         NEW D, NEW ts, NEW r, NEW v, Move(q, w, D, ts, r, v)
  PROVE  Moved(c, w, L, D, r, v)
  <1> USE DEF Move, Moved
  <1>1. Filtered(Fibers, w, D, v)
    BY WithoutProperties
  <1>2. r \in Seq(Tasks) /\ Tasked(r) = Tasked(q) \cup D
        /\ (OwnApart(q) /\ Tasked(q) \cap D = {} => OwnApart(r))
    BY TaskedJoined
  <1>3. OwnApart(q) /\ Tasked(q) \cap D = {}
    BY DEF Placed, OwnApart
  <1> QED
    BY <1>1, <1>2, <1>3 DEF Placed, Filtered, OwnApart

(* None is not a fiber.                                                    *)
LEMMA NoneNowhere ==
  ASSUME NEW q \in Seq(Tasks), NEW w \in Seq(Fibers)
  PROVE  /\ None \notin Fibers /\ None \notin Elems(w) /\ None \notin Tasked(q)
         /\ Elems(w) \subseteq Fibers /\ Tasked(q) \subseteq Fibers
  <1>1. None \notin Fibers
    BY ConstantsAssumption DEF Fibers, None
  <1>2. \A i \in 1..Len(w) : w[i] \in Fibers
    BY ElementOfSeq, LenProperties
  <1>3. \A i \in 1..Len(q) : q[i].f \in Fibers
    <2>1. \A i \in 1..Len(q) : q[i] \in Tasks
      BY ElementOfSeq, LenProperties
    <2> QED
      BY <2>1 DEF Tasks
  <1> QED
    BY <1>1, <1>2, <1>3 DEF Elems, Tasked

(* The running fiber waits.                                                *)
LEMMA PlacedWait ==
  ASSUME NEW c \in Fibers, NEW q \in Seq(Tasks), NEW w \in Seq(Fibers), NEW L,
         Placed(c, q, w, L), NEW v, v = Append(w, c)
  PROVE  Placed(None, q, v, L) /\ Elems(v) = Elems(w) \cup {c} /\ v \in Seq(Fibers)
  <1>1. AppendedTo(Fibers, w, c, v)
    BY Appended
  <1>2. None \notin Fibers /\ None \notin Elems(w) /\ None \notin Tasked(q)
    BY NoneNowhere
  <1> QED
    BY <1>1, <1>2 DEF Placed, AppendedTo

(* The running fiber ends.                                                 *)
LEMMA PlacedEnd ==
  ASSUME NEW c \in Fibers, NEW q \in Seq(Tasks), NEW w \in Seq(Fibers), NEW L,
         Placed(c, q, w, L)
  PROVE  Placed(None, q, w, L \ {c})
  <1>1. None \notin Fibers /\ None \notin Elems(w) /\ None \notin Tasked(q)
    BY NoneNowhere
  <1> QED
    BY <1>1 DEF Placed

(* A waiting fiber runs.                                                   *)
Leaves(f, w, D, v) == f \in Elems(w) /\ D = {f} /\ v = Without(w, D)

LEMMA PlacedRun ==
  ASSUME NEW q \in Seq(Tasks), NEW w \in Seq(Fibers), NEW L, Placed(None, q, w, L),
         NEW f, NEW D, NEW v, Leaves(f, w, D, v)
  PROVE  Placed(f, q, v, L) /\ Elems(v) = Elems(w) \ D /\ v \in Seq(Fibers)
  <1> USE DEF Leaves
  <1>1. Filtered(Fibers, w, D, v)
    BY WithoutProperties
  <1>2. None \notin Fibers /\ f \in Fibers
    BY NoneNowhere
  <1> QED
    BY <1>1, <1>2 DEF Placed, Filtered

(* The first task is taken from the queue: a yield is not a place of its   *)
(* fiber, the fiber of another task runs.                                  *)
LEMMA PlacedNext ==
  ASSUME NEW q \in Seq(Tasks), q # <<>>, NEW w \in Seq(Fibers), NEW L, Placed(None, q, w, L),
         NEW t, t = Head(q), NEW r, r = Tail(q)
  PROVE  /\ t \in Tasks /\ r \in Seq(Tasks) /\ (Own(t) => t.f \in L)
         /\ IF Own(t) THEN Placed(t.f, r, w, L) ELSE Placed(None, r, w, L)
  <1>1. OwnApart(q)
    BY DEF Placed, OwnApart
  <1>2. /\ t \in Tasks /\ r \in Seq(Tasks) /\ OwnApart(r)
        /\ Tasked(r) = Tasked(q) \ (IF Own(t) THEN {t.f} ELSE {})
        /\ Own(t) => t.f \in Tasked(q)
    BY <1>1, TaskedTail
  <1>3. None \notin Fibers /\ None \notin Elems(w) /\ None \notin Tasked(q) /\ Tasked(q) \subseteq Fibers
    BY NoneNowhere
  <1>4. CASE Own(t)
    <2>1. t.f \in Tasked(q) /\ t.f # None /\ Tasked(r) = Tasked(q) \ {t.f}
      BY <1>2, <1>3, <1>4
    <2> HIDE DEF Own
    <2> QED
      BY <1>2, <1>3, <1>4, <2>1 DEF Placed, OwnApart
  <1>5. CASE ~Own(t)
    BY <1>2, <1>3, <1>5 DEF Placed, OwnApart
  <1> QED
    BY <1>4, <1>5

(* A task is added: a yield, or the beginning of a fiber.                  *)
LEMMA PlacedAdd ==
  ASSUME NEW c, NEW q \in Seq(Tasks), NEW w \in Seq(Fibers), NEW L, Placed(c, q, w, L),
         NEW t \in Tasks, Own(t) => t.f \notin L, NEW r, r = Append(q, t)
  PROVE  /\ r \in Seq(Tasks)
         /\ Placed(c, r, w, IF Own(t) THEN L \cup {t.f} ELSE L)
  <1>1. /\ r \in Seq(Tasks) /\ Tasked(r) = Tasked(q) \cup (IF Own(t) THEN {t.f} ELSE {})
        /\ OwnApart(q) /\ (Own(t) => t.f \notin Tasked(q)) => OwnApart(r)
    BY TaskedAppended
  <1>2. OwnApart(q) /\ (Own(t) => t.f \notin Tasked(q))
    BY DEF Placed, OwnApart
  <1>3. t.f # None
    BY NoneNowhere DEF Tasks
  <1>4. CASE Own(t)
    <2>1. t.f \notin Elems(w) /\ t.f # c /\ Tasked(r) = Tasked(q) \cup {t.f}
      BY <1>1, <1>3, <1>4 DEF Placed
    <2> QED
      BY <1>1, <1>2, <1>3, <1>4, <2>1 DEF Placed, OwnApart
  <1>5. CASE ~Own(t)
    BY <1>1, <1>2, <1>5 DEF Placed, OwnApart
  <1> QED
    BY <1>1, <1>4, <1>5

-----------------------------------------------------------------------------
(* Steps of the running fiber that neither suspend it nor wake others.     *)

Runs(F, G, f) ==
  /\ \A g \in Fibers \ {f} : G[g] = F[g]
  /\ G[f].wait = F[f].wait /\ G[f].watchers = F[f].watchers /\ G[f].born = F[f].born
  /\ G[f].scope = F[f].scope /\ G[f].result = F[f].result /\ F[f].ops <= G[f].ops
  /\ G[f].stack = F[f].stack \/ G[f].stack = <<>> \/ Last(G[f].stack).kind # "closing"
SameScopes(X, Y) ==
  \A s \in Scopes : /\ Y[s].children = X[s].children /\ Y[s].closer = X[s].closer
                    /\ X[s].closer # 0 => Y[s].fiber = X[s].fiber
SameCells(d, e) ==
  \A c \in Deferreds : e[c].waiters = d[c].waiters /\ e[c].full = d[c].full

LEMMA NumbersKept ==
  ASSUME NEW F, NEW G, NEW ws \in Seq(Wakes), Numbers(F, ws),
         \A g \in Fibers : F[g].ops \in Nat /\ G[g].ops \in Nat /\ F[g].ops <= G[g].ops
  PROVE  Numbers(G, ws)
  <1>1. \A i \in 1..Len(ws) : ws[i].f \in Fibers
    <2>1. \A i \in 1..Len(ws) : ws[i] \in Wakes
      BY ElementOfSeq, LenProperties
    <2> QED
      BY <2>1 DEF Wakes
  <1>2. ASSUME NEW i \in 1..Len(ws) PROVE ws[i].no \in 1..G[ws[i].f].ops
    <2>1. PICK g \in Fibers : g = ws[i].f
      BY <1>1
    <2>2. ws[i].no \in 1..F[g].ops
      BY <2>1 DEF Numbers
    <2>3. ws[i].no \in 1..G[g].ops
      BY <2>2
    <2> QED
      BY <2>1, <2>3
  <1> QED
    BY <1>2 DEF Numbers

LEMMA RunsScheduled ==
  ASSUME NEW f \in Fibers, NEW q \in Seq(Tasks), NEW w \in Seq(Fibers), NEW l \in SUBSET Tasks,
         NEW k \in SUBSET CallType, NEW K \in SUBSET CallType,
         NEW F \in [Fibers -> FiberType], NEW G \in [Fibers -> FiberType],
         NEW X \in [Scopes -> ScopeType], NEW Y \in [Scopes -> ScopeType],
         NEW d \in [Deferreds -> CellType], NEW e \in [Deferreds -> CellType], NEW u,
         Scheduled(f, q, w, l, k, F, X, d, u),
         Runs(F, G, f), SameScopes(X, Y), SameCells(d, e),
         \A c \in K : c \in k \/ (c.f = f /\ c.no \in 1..G[f].ops)
  PROVE  Scheduled(f, q, w, l, K, G, Y, e, u)
  <1>1. \A g \in Fibers : /\ G[g].wait = F[g].wait /\ G[g].watchers = F[g].watchers
                          /\ G[g].born = F[g].born /\ G[g].scope = F[g].scope
                          /\ G[g].result = F[g].result
    BY DEF Runs
  <1>2. \A g \in Fibers : F[g].ops \in Nat /\ G[g].ops \in Nat /\ F[g].ops <= G[g].ops
    <2>1. \A g \in Fibers : F[g].ops \in Nat /\ G[g].ops \in Nat
      BY DEF FiberType
    <2>2. \A g \in Fibers : G[g].ops = F[g].ops \/ g = f
      BY DEF Runs
    <2> QED
      BY <2>1, <2>2 DEF Runs
  <1>3. \A g \in Fibers : g # f => G[g] = F[g]
    BY DEF Runs
  <1>4. LiveIn(G) = LiveIn(F) /\ WaitingIn(G) = WaitingIn(F)
    BY <1>1 DEF LiveIn, WaitingIn
  <1>5. F[f].wait.no = 0 /\ f \notin Tasked(q)
    BY DEF Scheduled, Placed, WaitingIn
  <1>6. F[f].wait = NoWait
    <2>1. NumbersWait(f, F[f].wait, F[f].ops)
      BY DEF Scheduled, Numbered
    <2>2. f \in 1..NFibers /\ MaxOps[f] \in Nat
      BY ConstantsAssumption DEF Fibers
    <2> QED
      BY <1>2, <1>5, <2>1, <2>2 DEF NumbersWait, ClosingNo, Scopes
  <1>7. Numbered(G, e, q, l, K)
    <2>1. ASSUME NEW g \in Fibers PROVE NumbersWait(g, G[g].wait, G[g].ops)
      <3>1. NumbersWait(g, F[g].wait, F[g].ops)
        BY DEF Scheduled, Numbered
      <3> QED
        BY <1>1, <1>2, <3>1 DEF NumbersWait
    <2>2. ASSUME NEW g \in Fibers PROVE Numbers(G, G[g].watchers)
      <3>1. Numbers(F, F[g].watchers) /\ F[g].watchers \in Seq(Wakes)
        BY DEF Scheduled, Numbered, FiberType
      <3> QED
        BY <1>1, <1>2, <3>1, NumbersKept
    <2>3. ASSUME NEW c \in Deferreds PROVE Numbers(G, e[c].waiters)
      <3>1. Numbers(F, d[c].waiters) /\ d[c].waiters \in Seq(Wakes) /\ e[c].waiters = d[c].waiters
        BY DEF Scheduled, Numbered, CellType, SameCells
      <3> QED
        BY <1>2, <3>1, NumbersKept
    <2>4. ASSUME NEW i \in 1..Len(q), q[i].kind = "go" PROVE q[i].no \in 1..G[q[i].f].ops
      <3>1. q[i].f \in Fibers
        BY ElementOfSeq, LenProperties DEF Tasks
      <3>2. q[i].no \in 1..F[q[i].f].ops
        BY <2>4 DEF Scheduled, Numbered
      <3> QED
        BY <1>2, <3>1, <3>2
    <2>5. ASSUME NEW t \in l PROVE t.kind = "go" /\ t.no \in 1..G[t.f].ops
      <3>1. t.f \in Fibers
        BY DEF Tasks
      <3>2. t.kind = "go" /\ t.no \in 1..F[t.f].ops
        BY DEF Scheduled, Numbered
      <3> QED
        BY <1>2, <3>1, <3>2
    <2>6. ASSUME NEW c \in K PROVE c.no \in 1..G[c.f].ops
      <3>1. CASE c \in k
        <4>1. c.f \in Fibers
          BY DEF CallType
        <4>2. c.no \in 1..F[c.f].ops
          BY <3>1 DEF Scheduled, Numbered
        <4> QED
          BY <1>2, <4>1, <4>2
      <3> QED
        BY <3>1
    <2> QED
      BY <2>1, <2>2, <2>3, <2>4, <2>5, <2>6 DEF Numbered
  <1>8. Closing(G, Y)
    <2>1. ASSUME NEW g \in Fibers PROVE ClosingOf(G[g], Y)
      <3>1. ClosingOf(F[g], X) /\ G[g].wait = F[g].wait
        BY <1>1 DEF Scheduled, Closing
      <3>2. \A s \in Scopes : Y[s].children = X[s].children /\ Y[s].closer = X[s].closer
        BY DEF SameScopes
      <3>3. CASE G[g].stack = F[g].stack
        BY <3>1, <3>2, <3>3 DEF ClosingOf, ClosingTop
      <3>4. CASE G[g].stack # F[g].stack
        <4>1. g = f /\ ~ClosingTop(G[g])
          BY <1>3, <3>4 DEF Runs, ClosingTop
        <4> QED
          BY <1>6, <3>1, <4>1 DEF ClosingOf, NoWait
      <3> QED
        BY <3>3, <3>4
    <2>2. ASSUME NEW s \in Scopes PROVE CloserOf(G, Y[s], s)
      <3>1. CloserOf(F, X[s], s) /\ Y[s].closer = X[s].closer /\ (X[s].closer # 0 => Y[s].fiber = X[s].fiber)
        BY DEF Scheduled, Closing, SameScopes
      <3> QED
        BY <1>1, <3>1 DEF CloserOf
    <2> QED
      BY <2>1, <2>2 DEF Closing
  <1>9. Children(G, Y)
    BY <1>1 DEF Scheduled, Children, SameScopes
  <1>10. Queued(G, q, u)
    <2>1. \A i \in 1..Len(q) : Own(q[i]) => q[i].f \in Fibers /\ q[i].f # f
      <3>1. \A i \in 1..Len(q) : q[i].f \in Fibers
        BY ElementOfSeq, LenProperties DEF Tasks
      <3> QED
        BY <1>5, <3>1 DEF Tasked
    <2> QED
      BY <1>3, <2>1 DEF Scheduled, Queued, Own
  <1>11. Awake(G)
    <2>1. \A g \in Fibers : G[g].wait.no # 0 => G[g] = F[g]
      BY <1>1, <1>3, <1>5
    <2>2. Awake(F)
      BY DEF Scheduled
    <2> QED
      BY <1>1, <2>1, <2>2 DEF Awake
  <1>12. WakesWaiting(G, e, q, l)
    <2>1. \A g \in LiveIn(F) : g \in LiveIn(G) /\ G[g].watchers = F[g].watchers
      BY <1>1, <1>4 DEF LiveIn
    <2>2. ASSUME NEW g \in Fibers PROVE WakesOf(g, G[g].wait, G, e, q, l)
      <3>1. WakesOf(g, F[g].wait, F, d, q, l) /\ G[g].wait = F[g].wait
        BY <1>1 DEF Scheduled, WakesWaiting
      <3>2. WakesOf(g, F[g].wait, G, e, q, l)
        BY <2>1, <3>1 DEF WakesOf, SameCells
      <3> QED
        BY <3>1, <3>2
    <2> QED
      BY <2>2 DEF WakesWaiting
  <1> QED
    BY <1>4, <1>7, <1>8, <1>9, <1>10, <1>11, <1>12 DEF Scheduled

-----------------------------------------------------------------------------
(* The constructs that fibers are in.                                      *)

LEMMA HoldingFinite ==
  ASSUME NEW st \in Seq(Frames)
  PROVE  IsFiniteSet(Holding(st)) /\ Cardinality(Holding(st)) \in Nat
  <1>1. Len(st) \in Nat
    BY LenProperties
  <1>2. IsFiniteSet(1..Len(st)) /\ Holding(st) \in SUBSET (1..Len(st))
    BY <1>1, FS_Interval DEF Holding
  <1>3. IsFiniteSet(Holding(st))
    BY <1>2, FS_Subset
  <1> QED
    BY <1>3, FS_CardinalityType

(* The innermost construct ends.                                           *)
FrameEnds(f, st, u, X) ==
  /\ u \in Seq(Frames) /\ FramesIn(f, u, X)
  /\ \A i \in 1..Len(u) : u[i].kind # "closing"
  /\ \A t : HasFrame(u, t) => HasFrame(st, t)
  /\ \A t : HasFrame(st, t) => HasFrame(u, t) \/ (OfScope(Last(st)) /\ Last(st).s = t)
  /\ \A t : InScope(st, t) => InScope(u, t) \/ (Last(st).kind = "scope" /\ Last(st).s = t)
  /\ OfScope(Last(st)) => /\ FrameOf(f, Last(st), X)
                          /\ \A i \in 1..Len(u) : OfScope(u[i]) => u[i].s < Last(st).s
  /\ u # <<>> => Last(u).kind # "closing"
  /\ Cardinality(Holding(u)) =
       IF Last(st).kind \in {"release", "closing"} THEN Cardinality(Holding(st)) - 1
       ELSE Cardinality(Holding(st))

LEMMA FramesFront ==
  ASSUME NEW f, NEW X, NEW st \in Seq(Frames), FramesIn(f, st, X), st # <<>>,
         NEW u, u = Front(st)
  PROVE  FrameEnds(f, st, u, X)
  <1>1. FrontOf(Frames, st, u)
    BY Fronted
  <1>2. PICK n, r : n = Len(st) /\ r = Last(st)
    OBVIOUS
  <1>3. n \in Nat \ {0} /\ Len(u) = n - 1 /\ u \in Seq(Frames) /\ st[n] = r
        /\ \A i \in 1..(n - 1) : u[i] = st[i] /\ i \in 1..n /\ i # n
    BY <1>1, <1>2 DEF FrontOf
  <1>4. \A i \in 1..n : i = n \/ i \in 1..(n - 1)
    BY <1>3
  <1>5. \A i \in 1..(n - 1) : u[i].kind # "closing"
    BY <1>2, <1>3 DEF FramesIn
  <1>6. FramesIn(f, u, X)
    BY <1>2, <1>3, <1>5, ZenonT(30) DEF FramesIn
  <1>7. \A t : HasFrame(u, t) => HasFrame(st, t)
    BY <1>2, <1>3 DEF HasFrame
  <1>8. \A t : HasFrame(st, t) => HasFrame(u, t) \/ (OfScope(r) /\ r.s = t)
    BY <1>2, <1>3, <1>4 DEF HasFrame
  <1>9. \A t : InScope(st, t) => InScope(u, t) \/ (r.kind = "scope" /\ r.s = t)
    BY <1>2, <1>3, <1>4 DEF InScope
  <1>10. ASSUME OfScope(r) PROVE FrameOf(f, r, X) /\ \A i \in 1..Len(u) : OfScope(u[i]) => u[i].s < r.s
    <2>1. n \in 1..n /\ \A i \in 1..Len(u) : i < n
      BY <1>3
    <2> QED
      BY <1>2, <1>3, <1>10, <2>1 DEF FramesIn
  <1>11. Cardinality(Holding(u)) =
           IF r.kind \in {"release", "closing"} THEN Cardinality(Holding(st)) - 1
           ELSE Cardinality(Holding(st))
    <2>1. PICK H : H = Holding(st)
      OBVIOUS
    <2>2. Holding(u) = H \ {n}
      BY <1>2, <1>3, <1>4, <2>1 DEF Holding
    <2>3. n \in H <=> r.kind \in {"release", "closing"}
      BY <1>2, <1>3, <2>1 DEF Holding
    <2>4. IsFiniteSet(H)
      BY <2>1, HoldingFinite
    <2>5. Cardinality(H \ {n}) = IF n \in H THEN Cardinality(H) - 1 ELSE Cardinality(H)
      BY <2>4, FS_RemoveElement
    <2> QED
      BY <2>1, <2>2, <2>3, <2>5
  <1>12. u # <<>> => Last(u).kind # "closing"
    <2> SUFFICES ASSUME u # <<>> PROVE Last(u).kind # "closing"
      OBVIOUS
    <2>1. Len(u) \in 1..(n - 1) /\ Last(u) = u[Len(u)]
      BY <1>3, EmptySeq DEF Last
    <2> QED
      BY <1>5, <2>1
  <1> QED
    BY <1>2, <1>3, <1>5, <1>6, <1>7, <1>8, <1>9, <1>10, <1>11, <1>12 DEF FrameEnds

(* A construct begins inside of the others.                                *)
FrameBegins(f, st, r, u, X) ==
  /\ u \in Seq(Frames) /\ FramesIn(f, u, X) /\ u # <<>> /\ Last(u) = r
  /\ \A t : HasFrame(u, t) <=> HasFrame(st, t) \/ (OfScope(r) /\ r.s = t)
  /\ \A t : InScope(st, t) => InScope(u, t)
  /\ Cardinality(Holding(u)) =
       IF r.kind \in {"release", "closing"} THEN Cardinality(Holding(st)) + 1
       ELSE Cardinality(Holding(st))

LEMMA FramesAppend ==
  ASSUME NEW f, NEW X, NEW st \in Seq(Frames), FramesIn(f, st, X), NEW r \in Frames,
         OfScope(r) => FrameOf(f, r, X) /\ \A i \in 1..Len(st) : OfScope(st[i]) => st[i].s < r.s,
         \A i \in 1..Len(st) : st[i].kind # "closing", r.kind = "release" => r.out \in Outcomes,
         NEW u, u = Append(st, r)
  PROVE  FrameBegins(f, st, r, u, X)
  <1>1. AppendedTo(Frames, st, r, u)
    BY Appended
  <1>2. PICK n : n = Len(st)
    OBVIOUS
  <1>3. n \in Nat /\ Len(u) = n + 1 /\ u \in Seq(Frames) /\ u[n + 1] = r /\ u # <<>> /\ Last(u) = r
        /\ \A i \in 1..n : u[i] = st[i] /\ i \in 1..(n + 1) /\ i # n + 1 /\ ~(n + 1 < i)
    BY <1>1, <1>2 DEF AppendedTo
  <1>4. \A i \in 1..(n + 1) : i = n + 1 \/ i \in 1..n
    BY <1>3
  <1>5. FramesIn(f, u, X)
    <2>1. \A i \in 1..Len(u) : OfScope(u[i]) => FrameOf(f, u[i], X)
      BY <1>2, <1>3, <1>4 DEF FramesIn
    <2>2. ASSUME NEW i \in 1..Len(u), NEW j \in 1..Len(u), i < j, OfScope(u[i]), OfScope(u[j])
          PROVE  u[i].s < u[j].s
      <3>1. i \in 1..n
        BY <1>3, <2>2
      <3>2. CASE j \in 1..n
        BY <1>2, <1>3, <2>2, <3>1, <3>2 DEF FramesIn
      <3>3. CASE j = n + 1
        BY <1>2, <1>3, <2>2, <3>1, <3>3
      <3> QED
        BY <1>3, <1>4, <3>2, <3>3
    <2>3. \A i \in 1..Len(u) : u[i].kind = "closing" => i = Len(u)
      BY <1>2, <1>3, <1>4
    <2> QED
      BY <2>1, <2>2, <2>3 DEF FramesIn
  <1>6. \A t : HasFrame(u, t) <=> HasFrame(st, t) \/ (OfScope(r) /\ r.s = t)
    <2>1. n + 1 \in 1..(n + 1)
      BY <1>3
    <2> QED
      BY <1>2, <1>3, <1>4, <2>1 DEF HasFrame
  <1>7. \A t : InScope(st, t) => InScope(u, t)
    BY <1>2, <1>3 DEF InScope
  <1>8. Cardinality(Holding(u)) =
          IF r.kind \in {"release", "closing"} THEN Cardinality(Holding(st)) + 1
          ELSE Cardinality(Holding(st))
    <2>1. PICK H : H = Holding(st)
      OBVIOUS
    <2>2. n + 1 \in 1..(n + 1) /\ n + 1 \notin H
      BY <1>2, <1>3, <2>1 DEF Holding
    <2>3. Holding(u) = IF r.kind \in {"release", "closing"} THEN H \cup {n + 1} ELSE H
      BY <1>2, <1>3, <1>4, <2>1, <2>2 DEF Holding
    <2>4. IsFiniteSet(H)
      BY <2>1, HoldingFinite
    <2>5. Cardinality(H \cup {n + 1}) = IF n + 1 \in H THEN Cardinality(H) ELSE Cardinality(H) + 1
      BY <2>4, FS_AddElement
    <2> QED
      BY <2>1, <2>2, <2>3, <2>5
  <1> QED
    BY <1>3, <1>5, <1>6, <1>7, <1>8 DEF FrameBegins

(* The scopes that are not in the frames may change.                       *)
LEMMA FramesScope ==
  ASSUME NEW f, NEW st \in Seq(Frames), NEW X, NEW Y, FramesIn(f, st, X),
         \A t \in Scopes : HasFrame(st, t) =>
           Y[t].fiber = X[t].fiber /\ Y[t].ended = X[t].ended /\ Y[t].bodyDone = X[t].bodyDone
  PROVE  FramesIn(f, st, Y)
  <1>1. ASSUME NEW i \in 1..Len(st), OfScope(st[i]) PROVE FrameOf(f, st[i], Y)
    <2>1. FrameOf(f, st[i], X) /\ HasFrame(st, st[i].s)
      BY <1>1 DEF FramesIn, HasFrame
    <2> QED
      BY <2>1 DEF FrameOf
  <1> QED
    BY <1>1 DEF FramesIn

(* Steps that leave the constructs of all fibers alone.                    *)
SameNest(X, Y) ==
  \A t \in Scopes : Y[t].fiber = X[t].fiber /\ Y[t].ended = X[t].ended /\ Y[t].bodyDone = X[t].bodyDone
SameStacks(F, G) ==
  \A g \in Fibers : /\ G[g].stack = F[g].stack /\ G[g].holds = F[g].holds
                    /\ G[g].born = F[g].born /\ G[g].scope = F[g].scope
                    /\ F[g].born \/ G[g].ops = F[g].ops
Asked(r) == (r.pending \cup r.unwinds) \ {None}

LEMMA NestedKept ==
  ASSUME NEW F \in [Fibers -> FiberType], NEW G \in [Fibers -> FiberType],
         NEW X \in [Scopes -> ScopeType], NEW Y \in [Scopes -> ScopeType],
         Nested(F, X), SameStacks(F, G), SameNest(X, Y), ScopesOf(Y),
         \A g \in Fibers : \A s \in Asked(G[g]) : s \in Asked(F[g]) \/ InScope(F[g].stack, s)
  PROVE  Nested(G, Y)
  <1>0. Main \in Fibers
    BY ConstantsAssumption DEF Main, Fibers
  <1>1. Forked(G, Y)
    <2>1. \A g \in Fibers : ~G[g].born => G[g].ops = 0 /\ G[g].stack = <<>>
      BY DEF Nested, Forked, SameStacks
    <2>2. \A f, g \in Fibers : f <= g /\ G[g].born => G[f].born
      BY DEF Nested, Forked, SameStacks
    <2>3. \A g \in Fibers : G[g].born /\ g # Main =>
            G[g].scope \in Scopes /\ Y[G[g].scope].fiber \in 1..(g - 1)
      BY DEF Nested, Forked, SameStacks, SameNest
    <2>4. ASSUME NEW s \in Scopes, Y[s].fiber # None PROVE G[Y[s].fiber].born
      <3>1. X[s].fiber = Y[s].fiber /\ F[X[s].fiber].born
        BY <2>4 DEF Nested, Forked, SameNest
      <3>2. X[s].fiber \in Fibers
        BY <2>4, <3>1 DEF ScopeType, Fibers, None
      <3> QED
        BY <3>1, <3>2 DEF SameStacks
    <2> QED
      BY <1>0, <2>1, <2>2, <2>3, <2>4 DEF Nested, Forked, SameStacks
  <1>2. FramesOf(G, Y)
    <2>1. ASSUME NEW g \in Fibers PROVE FramesIn(g, G[g].stack, Y)
      <3>1. PICK st \in Seq(Frames) : st = F[g].stack
        BY DEF FiberType
      <3>2. FramesIn(g, st, X)
        BY <3>1 DEF Nested, FramesOf
      <3>3. FramesIn(g, st, Y)
        BY <3>2, FramesScope DEF SameNest
      <3> QED
        BY <3>1, <3>3 DEF SameStacks
    <2>2. ASSUME NEW s \in Scopes, Y[s].fiber # None, ~Y[s].ended
          PROVE  HasFrame(G[Y[s].fiber].stack, s)
      <3>1. X[s].fiber = Y[s].fiber /\ HasFrame(F[X[s].fiber].stack, s)
        BY <2>2 DEF Nested, FramesOf, SameNest
      <3>2. X[s].fiber \in Fibers
        BY <2>2, <3>1 DEF ScopeType, Fibers, None
      <3> QED
        BY <3>1, <3>2 DEF SameStacks
    <2> QED
      BY <2>1, <2>2 DEF FramesOf
  <1>3. Held(G)
    BY DEF Nested, Held, SameStacks
  <1>4. Aimed(G)
    BY DEF Nested, Aimed, SameStacks, Asked
  <1> QED
    BY <1>1, <1>2, <1>3, <1>4 DEF Nested

(* Steps of fiber f that change the constructs it is in.                   *)
SameOutside(X, Y, f) ==
  \A t \in Scopes :
    \/ Y[t].fiber = X[t].fiber /\ Y[t].ended = X[t].ended /\ Y[t].bodyDone = X[t].bodyDone
    \/ Y[t].fiber = f /\ X[t].fiber \in {None, f}

SameElsewhere(F, G, f) ==
  /\ \A g \in Fibers \ {f} : /\ G[g].stack = F[g].stack /\ G[g].holds = F[g].holds
                             /\ G[g].ops = F[g].ops /\ Asked(G[g]) \subseteq Asked(F[g])
  /\ \A g \in Fibers : G[g].born = F[g].born /\ G[g].scope = F[g].scope

LEMMA NestedRuns ==
  ASSUME NEW F \in [Fibers -> FiberType], NEW G \in [Fibers -> FiberType],
         NEW X \in [Scopes -> ScopeType], NEW Y \in [Scopes -> ScopeType], NEW f \in Fibers,
         Nested(F, X), SameElsewhere(F, G, f), SameOutside(X, Y, f), ScopesOf(Y), F[f].born,
         FramesIn(f, G[f].stack, Y), G[f].holds = Cardinality(Holding(G[f].stack)),
         \A s \in Asked(G[f]) : InScope(G[f].stack, s),
         \A t \in Scopes : Y[t].fiber = f /\ ~Y[t].ended => HasFrame(G[f].stack, t)
  PROVE  Nested(G, Y)
  <1>0. Main \in Fibers /\ None \notin Fibers
    BY ConstantsAssumption DEF Main, Fibers, None
  <1>1. Forked(G, Y)
    <2>1. \A g \in Fibers : ~G[g].born => G[g].ops = 0 /\ G[g].stack = <<>>
      BY DEF Nested, Forked, SameElsewhere
    <2>2. \A h, g \in Fibers : h <= g /\ G[g].born => G[h].born
      BY DEF Nested, Forked, SameElsewhere
    <2>3. ASSUME NEW g \in Fibers, G[g].born, g # Main
          PROVE  G[g].scope \in Scopes /\ Y[G[g].scope].fiber \in 1..(g - 1)
      <3>1. PICK t : t = F[g].scope
        OBVIOUS
      <3>2. t \in Scopes /\ X[t].fiber \in 1..(g - 1) /\ G[g].scope = t
        BY <2>3, <3>1 DEF Nested, Forked, SameElsewhere
      <3>3. X[t].fiber # None
        BY <3>2 DEF None
      <3>4. Y[t].fiber = X[t].fiber
        BY <3>2, <3>3 DEF SameOutside
      <3> QED
        BY <3>2, <3>4
    <2>4. ASSUME NEW s \in Scopes, Y[s].fiber # None PROVE G[Y[s].fiber].born
      <3>1. CASE Y[s].fiber = f
        BY <3>1 DEF SameElsewhere
      <3>2. CASE Y[s].fiber # f
        <4>1. X[s].fiber = Y[s].fiber
          BY <3>2 DEF SameOutside
        <4>2. F[X[s].fiber].born /\ X[s].fiber \in Fibers
          BY <2>4, <4>1 DEF Nested, Forked, ScopeType, Fibers, None
        <4> QED
          BY <4>1, <4>2 DEF SameElsewhere
      <3> QED
        BY <3>1, <3>2
    <2> QED
      BY <1>0, <2>1, <2>2, <2>3, <2>4 DEF Nested, Forked, SameElsewhere
  <1>2. FramesOf(G, Y)
    <2>1. ASSUME NEW g \in Fibers, g # f PROVE FramesIn(g, G[g].stack, Y)
      <3>1. PICK st \in Seq(Frames) : st = F[g].stack
        BY DEF FiberType
      <3>2. FramesIn(g, st, X)
        BY <3>1 DEF Nested, FramesOf
      <3>3. \A t \in Scopes : HasFrame(st, t) => X[t].fiber = g
        BY <3>2 DEF FramesIn, FrameOf, HasFrame
      <3>4. \A t \in Scopes : HasFrame(st, t) =>
              Y[t].fiber = X[t].fiber /\ Y[t].ended = X[t].ended /\ Y[t].bodyDone = X[t].bodyDone
        BY <1>0, <2>1, <3>3 DEF SameOutside
      <3>5. FramesIn(g, st, Y)
        BY <3>2, <3>4, FramesScope
      <3> QED
        BY <2>1, <3>1, <3>5 DEF SameElsewhere
    <2>2. ASSUME NEW s \in Scopes, Y[s].fiber # None, ~Y[s].ended, Y[s].fiber # f
          PROVE  HasFrame(G[Y[s].fiber].stack, s)
      <3>1. X[s].fiber = Y[s].fiber /\ X[s].ended = Y[s].ended
        BY <2>2 DEF SameOutside
      <3>2. HasFrame(F[X[s].fiber].stack, s) /\ X[s].fiber \in Fibers
        BY <2>2, <3>1 DEF Nested, FramesOf, ScopeType, Fibers, None
      <3> QED
        BY <2>2, <3>1, <3>2 DEF SameElsewhere
    <2> QED
      BY <2>1, <2>2 DEF FramesOf
  <1>3. Held(G)
    BY DEF Nested, Held, SameElsewhere
  <1>4. Aimed(G)
    <2>1. ASSUME NEW g \in Fibers, g # f, NEW s \in Asked(G[g]) PROVE InScope(G[g].stack, s)
      BY <2>1 DEF Nested, Aimed, SameElsewhere, Asked
    <2> QED
      BY <2>1 DEF Aimed, Asked
  <1> QED
    BY <1>1, <1>2, <1>3, <1>4 DEF Nested

-----------------------------------------------------------------------------
(* The steps.                                                              *)

(* The running fiber waits for nothing.                                    *)
LEMMA RunningFacts ==
  ASSUME Inv, ~over, NEW f \in Fibers, cur = f
  PROVE  /\ Scheduled(f, queue, waits, later, calls, fib, scope, deferred, unwound)
         /\ fib[f].born /\ fib[f].result = NotYet /\ fib[f].wait = NoWait
         /\ f \notin Tasked(queue) /\ f \notin Elems(waits)
         /\ \A s \in Scopes : scope[s].closer # 0 => scope[s].fiber # f
  <1>1. Scheduled(f, queue, waits, later, calls, fib, scope, deferred, unwound)
    BY DEF Inv
  <1>2. f # None
    BY ConstantsAssumption DEF Fibers, None
  <1>3. f \in LiveIn(fib) /\ f \notin Tasked(queue) /\ f \notin Elems(waits) /\ f \notin WaitingIn(fib)
    BY <1>1, <1>2 DEF Scheduled, Placed
  <1>4. fib[f].wait.no = 0
    BY <1>3 DEF WaitingIn
  <1>5. fib[f].wait = NoWait
    <2>1. NumbersWait(f, fib[f].wait, fib[f].ops)
      BY <1>1 DEF Scheduled, Numbered
    <2>2. f \in 1..NFibers /\ MaxOps[f] \in Nat /\ fib[f].ops \in Nat
      BY ConstantsAssumption DEF Fibers, Inv, Typed, TypedFibers, FiberType
    <2> QED
      BY <1>4, <2>1, <2>2 DEF NumbersWait, ClosingNo, Scopes
  <1>6. ASSUME NEW s \in Scopes, scope[s].closer # 0, scope[s].fiber = f PROVE FALSE
    <2>1. fib[f].wait = [no |-> scope[s].closer, on |-> "closing", of |-> s]
      BY <1>1, <1>6 DEF Scheduled, Closing, CloserOf
    <2> QED
      BY <1>5, <2>1 DEF NoWait
  <1> QED
    BY <1>1, <1>3, <1>5, <1>6 DEF LiveIn

Stayed ==
  /\ cur' = cur /\ queue' = queue /\ waits' = waits /\ later' = later /\ pauses' = pauses
  /\ over' = over /\ unwound' = unwound /\ reported' = reported

LEMMA RunsInv ==
  ASSUME Inv, ~over, NEW f \in Fibers, cur = f, Stayed,
         flow' \in Outcomes \cup {"run"}, calls' \subseteq CallType,
         TypedFibers(fib'), scope' \in [Scopes -> ScopeType], deferred' \in [Deferreds -> CellType],
         Runs(fib, fib', f), SameScopes(scope, scope'), SameCells(deferred, deferred'),
         \A c \in calls' : c \in calls \/ (c.f = f /\ c.no \in 1..fib'[f].ops),
         Nested(fib', scope')
  PROVE  Inv'
  <1>1. Scheduled(f, queue, waits, later, calls, fib, scope, deferred, unwound)
    BY RunningFacts
  <1>2. /\ queue \in Seq(Tasks) /\ waits \in Seq(Fibers) /\ later \in SUBSET Tasks
        /\ calls \in SUBSET CallType /\ fib \in [Fibers -> FiberType]
        /\ scope \in [Scopes -> ScopeType] /\ deferred \in [Deferreds -> CellType]
    BY DEF Inv, Typed, TypedScheduler, TypedFibers
  <1>3. fib' \in [Fibers -> FiberType] /\ calls' \in SUBSET CallType
    BY DEF TypedFibers
  <1>4. Scheduled(f, queue, waits, later, calls', fib', scope', deferred', unwound)
    BY <1>1, <1>2, <1>3, RunsScheduled
  <1>5. Scheduled(cur', queue', waits', later', calls', fib', scope', deferred', unwound')
    BY <1>4 DEF Stayed
  <1>6. Typed'
    BY DEF Inv, Typed, TypedScheduler, Stayed
  <1> QED
    BY <1>5, <1>6 DEF Inv, Stayed

(* Only the record of fiber f changes.                                     *)
Upd(F, f, r) == [F EXCEPT ![f] = r]

LEMMA FiberUpdated ==
  ASSUME NEW F, TypedFibers(F), NEW f \in Fibers, NEW r \in FiberType, r.ops <= MaxOps[f],
         NEW G, G = Upd(F, f, r)
  PROVE  TypedFibers(G) /\ G[f] = r /\ \A g \in Fibers \ {f} : G[g] = F[g]
  <1>1. G \in [Fibers -> FiberType] /\ G[f] = r /\ \A g \in Fibers \ {f} : G[g] = F[g]
    <2> HIDE DEF FiberType
    <2> QED
      BY DEF TypedFibers, Upd
  <1>2. \A g \in Fibers : G[g].ops <= MaxOps[g]
    BY <1>1 DEF TypedFibers
  <1> QED
    BY <1>1, <1>2 DEF TypedFibers

(* Fiber f has called n operations, has been asked p, b and u, holds off   *)
(* h times and is in the constructs st.                                    *)
Fields(r, x, n, p, b, u, h, st) ==
  /\ x.ops = n /\ x.pending = p /\ x.unwinding = b /\ x.unwinds = u
  /\ x.holds = h /\ x.stack = st /\ x.wait = r.wait /\ x.watchers = r.watchers
  /\ x.born = r.born /\ x.scope = r.scope /\ x.result = r.result
Becomes(F, G, f, n, p, b, u, h, st) ==
  /\ TypedFibers(G) /\ \A g \in Fibers \ {f} : G[g] = F[g]
  /\ Fields(F[f], G[f], n, p, b, u, h, st)

LEMMA FieldsBecome ==
  ASSUME NEW F, TypedFibers(F), NEW f \in Fibers, NEW r, r = F[f], NEW x \in FiberType,
         NEW n, NEW p, NEW b, NEW u, NEW h, NEW st, Fields(r, x, n, p, b, u, h, st),
         n <= MaxOps[f], NEW G, G = Upd(F, f, x)
  PROVE  Becomes(F, G, f, n, p, b, u, h, st)
  <1>1. x.ops <= MaxOps[f]
    BY DEF Fields
  <1>2. TypedFibers(G) /\ G[f] = x /\ \A g \in Fibers \ {f} : G[g] = F[g]
    BY <1>1, FiberUpdated
  <1> QED
    BY <1>2 DEF Becomes

(* A call.                                                                 *)
LEMMA CalledBecomes ==
  ASSUME NEW F, TypedFibers(F), NEW f \in Fibers, NEW r, r = F[f], r.ops < MaxOps[f],
         NEW G, G = Called(F, f)
  PROVE  Becomes(F, G, f, r.ops + 1, r.pending, r.unwinding, r.unwinds, r.holds, r.stack)
  <1>1. r \in FiberType /\ MaxOps[f] \in Nat
    BY ConstantsAssumption DEF TypedFibers
  <1>2. PICK n : n = r.ops + 1
    OBVIOUS
  <1>3. PICK x : x = [r EXCEPT !.ops = n]
    OBVIOUS
  <1>4. n \in Nat /\ n <= MaxOps[f]
    BY <1>1, <1>2 DEF FiberType
  <1>5. x \in FiberType /\ Fields(r, x, n, r.pending, r.unwinding, r.unwinds, r.holds, r.stack)
    BY <1>1, <1>3, <1>4 DEF FiberType, Fields
  <1>6. G = Upd(F, f, x)
    BY <1>2, <1>3 DEF Called, Upd
  <1>7. Becomes(F, G, f, n, r.pending, r.unwinding, r.unwinds, r.holds, r.stack)
    BY <1>4, <1>5, <1>6, FieldsBecome
  <1> QED
    BY <1>2, <1>7

LEMMA BecomesRuns ==
  ASSUME NEW F, NEW G, NEW f \in Fibers, NEW n, NEW p, NEW b, NEW u, NEW h, NEW st,
         Becomes(F, G, f, n, p, b, u, h, st), F[f].ops <= n,
         st = F[f].stack \/ st = <<>> \/ Last(st).kind # "closing"
  PROVE  Runs(F, G, f)
  BY DEF Becomes, Fields, Runs

(* Fiber f goes on in the constructs it is in.                             *)
LEMMA GoesOnInv ==
  ASSUME Inv, ~over, NEW f \in Fibers, cur = f, Stayed,
         flow' \in Outcomes \cup {"run"}, calls' \subseteq CallType, scope' = scope,
         deferred' \in [Deferreds -> CellType], SameCells(deferred, deferred'),
         NEW n, NEW p, NEW b, NEW u, fib[f].ops <= n,
         Becomes(fib, fib', f, n, p, b, u, fib[f].holds, fib[f].stack),
         (p \cup u) \ {None} \subseteq Asked(fib[f]),
         \A c \in calls' : c \in calls \/ (c.f = f /\ c.no \in 1..n)
  PROVE  Inv'
  <1>1. Runs(fib, fib', f)
    BY BecomesRuns
  <1>2. SameScopes(scope, scope') /\ SameNest(scope, scope')
    BY DEF SameScopes, SameNest
  <1>3. TypedFibers(fib') /\ TypedFibers(fib) /\ fib'[f].ops = n
    BY DEF Becomes, Fields, Inv, Typed
  <1>4. fib[f].born
    BY RunningFacts
  <1>5. Nested(fib', scope')
    <2>1. SameStacks(fib, fib')
      BY <1>4 DEF SameStacks, Becomes, Fields
    <2>2. \A g \in Fibers : \A s \in Asked(fib'[g]) : s \in Asked(fib[g]) \/ InScope(fib[g].stack, s)
      BY DEF Becomes, Fields, Asked
    <2>3. fib' \in [Fibers -> FiberType] /\ fib \in [Fibers -> FiberType]
      BY <1>3 DEF TypedFibers
    <2>4. scope \in [Scopes -> ScopeType] /\ Nested(fib, scope) /\ ScopesOf(scope)
      BY DEF Inv, Typed, Nested
    <2> QED
      BY <1>2, <2>1, <2>2, <2>3, <2>4, NestedKept
  <1>6. scope' \in [Scopes -> ScopeType]
    BY DEF Inv, Typed
  <1> QED
    BY <1>1, <1>2, <1>3, <1>5, <1>6, RunsInv

LEMMA ContinuesInv ==
  ASSUME Inv, NEW f \in Fibers, NEW o \in Outcomes \cup {"run"}, NEW op, CanCall(f, op), Continues(f, o)
  PROVE  Inv'
  <1>1. ~over /\ cur = f /\ fib[f].ops < MaxOps[f]
    BY DEF CanCall, Running
  <1>2. Stayed /\ flow' = o /\ calls' = calls /\ scope' = scope /\ deferred' = deferred
    BY DEF Continues, Stays, Stayed
  <1>3. PICK r : r = fib[f]
    OBVIOUS
  <1>4. TypedFibers(fib) /\ fib[f].ops \in Nat /\ fib' = Called(fib, f)
    BY DEF Inv, Typed, TypedFibers, FiberType, Continues
  <1>5. Becomes(fib, fib', f, r.ops + 1, r.pending, r.unwinding, r.unwinds, r.holds, r.stack)
    BY <1>1, <1>3, <1>4, CalledBecomes
  <1>6. fib[f].ops <= r.ops + 1 /\ (r.pending \cup r.unwinds) \ {None} \subseteq Asked(fib[f])
    BY <1>3, <1>4 DEF Asked
  <1>7. deferred' \in [Deferreds -> CellType] /\ SameCells(deferred, deferred')
        /\ calls' \subseteq CallType
    BY <1>2 DEF Inv, Typed, TypedScheduler, SameCells
  <1> QED
    BY <1>1, <1>2, <1>3, <1>5, <1>6, <1>7, GoesOnInv

(* The outermost of the scopes whose bodies are interrupted.               *)
LEMMA OutermostExists ==
  ASSUME NEW T \in SUBSET Scopes, T # {}, scope \in [Scopes -> ScopeType]
  PROVE  \E s \in T : \A t \in T : scope[s].depth <= scope[t].depth
  <1>1. PICK D : D = {scope[s].depth : s \in T}
    OBVIOUS
  <1>2. D \subseteq Nat /\ D # {}
    BY <1>1 DEF ScopeType
  <1>3. PICK x \in D : \A y \in D : <<y, x>> \notin OpToRel(<, Nat)
    BY ONLY <1>2, NatLessThanWellFounded, WFMin
  <1>4. ASSUME NEW y \in D PROVE x <= y
    <2>1. x \in Nat /\ y \in Nat
      BY <1>2
    <2>2. y < x => <<y, x>> \in OpToRel(<, Nat)
      BY <2>1 DEF OpToRel
    <2>3. ~(y < x)
      BY <1>3, <2>2, Zenon
    <2> QED
      BY <2>1, <2>3
  <1>5. PICK s \in T : x = scope[s].depth
    BY <1>1
  <1> QED
    BY <1>1, <1>4, <1>5

LEMMA DeliveredFields ==
  ASSUME NEW r \in FiberType, scope \in [Scopes -> ScopeType], NEW x, x = Delivered(r)
  PROVE  /\ x \in FiberType /\ Asked(x) \subseteq Asked(r)
         /\ Fields(r, x, r.ops, x.pending, x.unwinding, x.unwinds, r.holds, r.stack)
  <1>1. PICK target : target = Outermost(r)
    OBVIOUS
  <1>2. r.pending \in SUBSET (Scopes \cup {None}) /\ r.unwinds \in SUBSET Scopes
    BY DEF FiberType
  <1>3. target = None \/ target \in (r.pending \cup r.unwinds) \cap Scopes
    <2>1. CASE r.unwinding \/ None \in r.pending \/ r.pending \cup r.unwinds = {}
      BY <1>1, <2>1 DEF Outermost
    <2>2. CASE ~(r.unwinding \/ None \in r.pending \/ r.pending \cup r.unwinds = {})
      <3>1. PICK T : T = r.pending \cup r.unwinds
        OBVIOUS
      <3>2. T \in SUBSET Scopes /\ T # {}
        BY <1>2, <2>2, <3>1
      <3>3. target = CHOOSE s \in T : \A t \in T : scope[s].depth <= scope[t].depth
        BY <1>1, <2>2, <3>1 DEF Outermost
      <3>4. \E s \in T : \A t \in T : scope[s].depth <= scope[t].depth
        BY <3>2, OutermostExists
      <3>5. target \in T
        BY <3>3, <3>4
      <3> QED
        BY <3>1, <3>2, <3>5
    <2> QED
      BY <2>1, <2>2
  <1>4. CASE target = None
    <2>1. x = [r EXCEPT !.unwinding = TRUE, !.pending = {}, !.unwinds = {}]
      BY <1>1, <1>4 DEF Delivered
    <2> QED
      BY <2>1 DEF FiberType, Fields, Asked
  <1>5. CASE target # None
    <2>1. PICK p, u : p = r.pending \ {target} /\ u = r.unwinds \cup {target}
      OBVIOUS
    <2>2. x = [r EXCEPT !.pending = p, !.unwinds = u]
      BY <1>1, <1>5, <2>1 DEF Delivered
    <2>3. p \in SUBSET (Scopes \cup {None}) /\ u \in SUBSET Scopes
      BY <1>2, <1>3, <1>5, <2>1
    <2>4. /\ x \in FiberType /\ x.pending = p /\ x.unwinds = u
          /\ Fields(r, x, r.ops, p, r.unwinding, u, r.holds, r.stack)
      BY <2>2, <2>3 DEF FiberType, Fields
    <2>5. Asked(x) \subseteq Asked(r)
      BY <1>3, <1>5, <2>1, <2>4 DEF Asked
    <2> QED
      BY <2>4, <2>5 DEF Fields
  <1> QED
    BY <1>4, <1>5

(* An interruption is delivered at a suspension point.                     *)
LEMMA DeliverInv ==
  ASSUME Inv, NEW f \in Fibers, NEW op, Deliver(f, op)
  PROVE  Inv'
  <1>1. ~over /\ cur = f /\ fib[f].ops < MaxOps[f]
    BY DEF Deliver, CanCall, Running
  <1>2. Stayed /\ flow' = "int" /\ scope' = scope /\ deferred' = deferred
        /\ calls' = IF op = "host" THEN calls \cup {HostCall(f)} ELSE calls
    BY DEF Deliver, Stays, Stayed
  <1>3. TypedFibers(fib) /\ fib[f] \in FiberType /\ scope \in [Scopes -> ScopeType] /\ MaxOps[f] \in Nat
    BY ConstantsAssumption DEF Inv, Typed, TypedFibers
  <1>4. PICK r, F, n : r = fib[f] /\ F = Called(fib, f) /\ n = r.ops + 1
    OBVIOUS
  <1>5. n \in Nat /\ n <= MaxOps[f] /\ r.ops <= n /\ n \in 1..n
    BY <1>1, <1>3, <1>4 DEF FiberType
  <1>6. Becomes(fib, F, f, n, r.pending, r.unwinding, r.unwinds, r.holds, r.stack)
    BY <1>1, <1>3, <1>4, CalledBecomes
  <1>7. PICK y : y = F[f]
    OBVIOUS
  <1>8. y \in FiberType /\ Fields(r, y, n, r.pending, r.unwinding, r.unwinds, r.holds, r.stack)
    BY <1>4, <1>6, <1>7 DEF Becomes, TypedFibers
  <1>9. PICK x : x = Delivered(y)
    OBVIOUS
  <1>10. /\ x \in FiberType /\ Asked(x) \subseteq Asked(y)
         /\ Fields(y, x, y.ops, x.pending, x.unwinding, x.unwinds, y.holds, y.stack)
    BY <1>3, <1>8, <1>9, DeliveredFields
  <1>11. Fields(r, x, n, x.pending, x.unwinding, x.unwinds, r.holds, r.stack)
    BY <1>8, <1>10 DEF Fields
  <1>12. fib' = Upd(fib, f, x)
    BY <1>4, <1>7, <1>9 DEF Deliver, Upd
  <1>13. Becomes(fib, fib', f, n, x.pending, x.unwinding, x.unwinds, r.holds, r.stack)
    BY <1>3, <1>4, <1>5, <1>10, <1>11, <1>12, FieldsBecome
  <1>14. (x.pending \cup x.unwinds) \ {None} \subseteq Asked(fib[f])
    BY <1>4, <1>8, <1>10 DEF Fields, Asked
  <1>15. HostCall(f) \in CallType /\ HostCall(f).f = f /\ HostCall(f).no = n
    BY <1>4, <1>5 DEF HostCall, NextNo, CallType
  <1>16. calls' \subseteq CallType /\ \A c \in calls' : c \in calls \/ (c.f = f /\ c.no \in 1..n)
    <2>1. calls \subseteq CallType
      BY DEF Inv, Typed, TypedScheduler
    <2>2. \A c \in calls' : c \in calls \/ c = HostCall(f)
      BY <1>2
    <2> QED
      BY <1>5, <1>15, <2>1, <2>2
  <1>17. deferred' \in [Deferreds -> CellType] /\ SameCells(deferred, deferred')
    BY <1>2 DEF Inv, Typed, SameCells
  <1>18. flow' \in Outcomes \cup {"run"}
    BY <1>2 DEF Outcomes
  <1> QED
    BY <1>1, <1>2, <1>4, <1>5, <1>13, <1>14, <1>16, <1>17, <1>18, GoesOnInv

(* What Interrupted asks of a fiber.                                       *)
Pending(f, S, b, s) ==
  fib[f].pending \cup (IF f \in S /\ Accepts(f, None) THEN {None} ELSE {})
                 \cup (IF f = b /\ Accepts(f, s) THEN {s} ELSE {})
InterruptedTo(S, b, s, D, G) ==
  /\ TypedFibers(G)
  /\ \A g \in Fibers :
       /\ G[g].pending = Pending(g, S, b, s)
       /\ G[g].wait = IF g \in D THEN NoWait ELSE fib[g].wait
       /\ G[g].unwinding = fib[g].unwinding /\ G[g].unwinds = fib[g].unwinds
       /\ G[g].holds = fib[g].holds /\ G[g].stack = fib[g].stack /\ G[g].ops = fib[g].ops
       /\ G[g].watchers = fib[g].watchers /\ G[g].born = fib[g].born
       /\ G[g].scope = fib[g].scope /\ G[g].result = fib[g].result

LEMMA InterruptedFields ==
  ASSUME TypedFibers(fib), NEW S \in SUBSET Fibers, NEW b, NEW s \in Scopes \cup {None},
         NEW D, D = Dropped(S, b, s), NEW G, G = Interrupted(S, b, s)
  PROVE  InterruptedTo(S, b, s, D, G)
  <1>1. ASSUME NEW g \in Fibers
        PROVE  /\ G[g] \in FiberType /\ G[g].pending = Pending(g, S, b, s)
               /\ G[g].wait = IF g \in D THEN NoWait ELSE fib[g].wait
               /\ G[g].unwinding = fib[g].unwinding /\ G[g].unwinds = fib[g].unwinds
               /\ G[g].holds = fib[g].holds /\ G[g].stack = fib[g].stack /\ G[g].ops = fib[g].ops
               /\ G[g].watchers = fib[g].watchers /\ G[g].born = fib[g].born
               /\ G[g].scope = fib[g].scope /\ G[g].result = fib[g].result
    <2>1. PICK r : r = fib[g]
      OBVIOUS
    <2>2. PICK p : p = Pending(g, S, b, s)
      OBVIOUS
    <2>3. PICK w : w = IF g \in D THEN NoWait ELSE r.wait
      OBVIOUS
    <2>4. r \in FiberType
      BY <2>1 DEF TypedFibers
    <2>5. p \in SUBSET (Scopes \cup {None}) /\ w \in [no : Nat, on : WaitKinds, of : Nat]
      BY <2>1, <2>2, <2>3, <2>4 DEF Pending, FiberType, NoWait, WaitKinds, None
    <2>6. PICK x : x = [r EXCEPT !.pending = p, !.wait = w]
      OBVIOUS
    <2>7. G[g] = x
      BY <2>1, <2>2, <2>3, <2>6 DEF Interrupted, Pending
    <2>8. /\ x \in FiberType /\ x.pending = p /\ x.wait = w
          /\ x.unwinding = r.unwinding /\ x.unwinds = r.unwinds
          /\ x.holds = r.holds /\ x.stack = r.stack /\ x.ops = r.ops
          /\ x.watchers = r.watchers /\ x.born = r.born
          /\ x.scope = r.scope /\ x.result = r.result
      BY <2>4, <2>5, <2>6 DEF FiberType
    <2> QED
      BY <2>1, <2>2, <2>3, <2>7, <2>8
  <1>2. G \in [Fibers -> FiberType]
    <2>1. G = [g \in Fibers |-> G[g]]
      BY DEF Interrupted
    <2> QED
      BY <1>1, <2>1
  <1> QED
    BY <1>1, <1>2 DEF InterruptedTo, TypedFibers

(* Updates of one field after another.                                     *)
SetStack(G, f, st) == [G EXCEPT ![f].stack = st]
SetHolds(G, f, h) == [G EXCEPT ![f].holds = h]

LEMMA BecomesSame ==
  ASSUME NEW F, TypedFibers(F), NEW f \in Fibers, NEW r, r = F[f]
  PROVE  Becomes(F, F, f, r.ops, r.pending, r.unwinding, r.unwinds, r.holds, r.stack)
  BY DEF Becomes, Fields

LEMMA BecomesStack ==
  ASSUME NEW F, NEW G, NEW f \in Fibers, NEW n, NEW p, NEW b, NEW u, NEW h, NEW st,
         Becomes(F, G, f, n, p, b, u, h, st), NEW t \in Seq(Frames), NEW H, H = SetStack(G, f, t)
  PROVE  Becomes(F, H, f, n, p, b, u, h, t)
  <1>1. PICK r : r = G[f]
    OBVIOUS
  <1>2. PICK x : x = [r EXCEPT !.stack = t]
    OBVIOUS
  <1>3. TypedFibers(G) /\ r \in FiberType /\ r.ops <= MaxOps[f]
    BY <1>1 DEF Becomes, TypedFibers
  <1>4. x \in FiberType /\ Fields(r, x, r.ops, r.pending, r.unwinding, r.unwinds, r.holds, t)
    BY <1>2, <1>3 DEF FiberType, Fields
  <1>5. H = Upd(G, f, x)
    BY <1>1, <1>2 DEF SetStack, Upd
  <1>6. Becomes(G, H, f, r.ops, r.pending, r.unwinding, r.unwinds, r.holds, t)
    BY <1>1, <1>3, <1>4, <1>5, FieldsBecome
  <1> QED
    BY <1>1, <1>6 DEF Becomes, Fields

LEMMA BecomesHolds ==
  ASSUME NEW F, NEW G, NEW f \in Fibers, NEW n, NEW p, NEW b, NEW u, NEW h, NEW st,
         Becomes(F, G, f, n, p, b, u, h, st), NEW m \in Nat, NEW H, H = SetHolds(G, f, m)
  PROVE  Becomes(F, H, f, n, p, b, u, m, st)
  <1>1. PICK r : r = G[f]
    OBVIOUS
  <1>2. PICK x : x = [r EXCEPT !.holds = m]
    OBVIOUS
  <1>3. TypedFibers(G) /\ r \in FiberType /\ r.ops <= MaxOps[f]
    BY <1>1 DEF Becomes, TypedFibers
  <1>4. x \in FiberType /\ Fields(r, x, r.ops, r.pending, r.unwinding, r.unwinds, m, r.stack)
    BY <1>2, <1>3 DEF FiberType, Fields
  <1>5. H = Upd(G, f, x)
    BY <1>1, <1>2 DEF SetHolds, Upd
  <1>6. Becomes(G, H, f, r.ops, r.pending, r.unwinding, r.unwinds, m, r.stack)
    BY <1>1, <1>3, <1>4, <1>5, FieldsBecome
  <1> QED
    BY <1>1, <1>6 DEF Becomes, Fields

LEMMA EndWithInv ==
  ASSUME Inv, NEW f \in Fibers, NEW o \in Outcomes, EndWith(f, o)
  PROVE  Inv'
  <1>1. ~over /\ cur = f /\ Stayed /\ flow' = o /\ UNCHANGED <<calls, fib, scope, deferred>>
    BY DEF EndWith, Running, Stays, Stayed
  <1>2. PICK r : r = fib[f]
    OBVIOUS
  <1>3. TypedFibers(fib) /\ fib[f].ops <= r.ops
    BY <1>2 DEF Inv, Typed, TypedFibers, FiberType
  <1>4. Becomes(fib, fib', f, r.ops, r.pending, r.unwinding, r.unwinds, r.holds, r.stack)
    BY <1>1, <1>2, <1>3, BecomesSame
  <1>5. (r.pending \cup r.unwinds) \ {None} \subseteq Asked(fib[f])
    BY <1>2 DEF Asked
  <1>6. deferred' \in [Deferreds -> CellType] /\ SameCells(deferred, deferred')
        /\ calls' \subseteq CallType /\ scope' = scope
        /\ \A c \in calls' : c \in calls \/ (c.f = f /\ c.no \in 1..r.ops)
    BY <1>1 DEF Inv, Typed, TypedScheduler, SameCells
  <1> QED
    BY <1>1, <1>2, <1>3, <1>4, <1>5, <1>6, GoesOnInv

LEMMA NewDeferredInv ==
  ASSUME Inv, NEW f \in Fibers, NEW s \in Scopes, NEW d \in Deferreds, NewDeferred(f, s, d)
  PROVE  Inv'
  <1>1. CASE scope[s].closed
    BY <1>1, ContinuesInv DEF NewDeferred, Outcomes
  <1>2. CASE ~scope[s].closed
    <2>1. ~over /\ cur = f /\ fib[f].ops < MaxOps[f] /\ Stayed
          /\ UNCHANGED <<flow, calls, scope>> /\ fib' = Called(fib, f)
          /\ deferred' = [deferred EXCEPT ![d].scope = s]
      BY <1>2 DEF NewDeferred, CanCall, Running, Stays, Stayed
    <2>2. PICK r : r = fib[f]
      OBVIOUS
    <2>3. TypedFibers(fib) /\ fib[f].ops \in Nat
      BY DEF Inv, Typed, TypedFibers, FiberType
    <2>4. Becomes(fib, fib', f, r.ops + 1, r.pending, r.unwinding, r.unwinds, r.holds, r.stack)
      BY <2>1, <2>2, <2>3, CalledBecomes
    <2>5. fib[f].ops <= r.ops + 1 /\ (r.pending \cup r.unwinds) \ {None} \subseteq Asked(fib[f])
      BY <2>2, <2>3 DEF Asked
    <2>6. deferred \in [Deferreds -> CellType] /\ s \in 0..NScopes
      BY ConstantsAssumption DEF Inv, Typed, Scopes
    <2>7. deferred' \in [Deferreds -> CellType] /\ SameCells(deferred, deferred')
      BY <2>1, <2>6 DEF CellType, SameCells
    <2>8. calls' \subseteq CallType /\ flow' \in Outcomes \cup {"run"} /\ scope' = scope
          /\ \A c \in calls' : c \in calls \/ (c.f = f /\ c.no \in 1..(r.ops + 1))
      BY <2>1 DEF Inv, Typed, TypedScheduler
    <2> QED
      BY <2>1, <2>2, <2>4, <2>5, <2>7, <2>8, GoesOnInv
  <1> QED
    BY <1>1, <1>2

LEMMA InterruptSelfInv ==
  ASSUME Inv, NEW f \in Fibers, InterruptSelf(f)
  PROVE  Inv'
  <1>1. ~over /\ cur = f /\ fib[f].ops < MaxOps[f] /\ Stayed /\ UNCHANGED <<calls, scope, deferred>>
    BY DEF InterruptSelf, Request, CanCall, Running, Stays, Stayed
  <1>2. PICK S, D, G : S = {f} /\ D = Dropped(S, None, None) /\ G = Interrupted(S, None, None)
    OBVIOUS
  <1>3. TypedFibers(fib) /\ fib[f] \in FiberType /\ scope \in [Scopes -> ScopeType] /\ MaxOps[f] \in Nat
    BY ConstantsAssumption DEF Inv, Typed, TypedFibers
  <1>4. InterruptedTo(S, None, None, D, G)
    <2>1. S \in SUBSET Fibers /\ None \in Scopes \cup {None}
      BY <1>2
    <2> QED
      BY <1>2, <1>3, <2>1, InterruptedFields
  <1>5. f \notin D
    <2>1. fib[f].wait = NoWait
      BY <1>1, RunningFacts
    <2>2. None \notin Fibers
      BY ConstantsAssumption DEF Fibers, None
    <2> QED
      BY <1>2, <2>1, <2>2 DEF Dropped, Drops, Waiting, NoWait
  <1>6. PICK r, a, n, y : r = fib[f] /\ a = G[f] /\ n = r.ops + 1 /\ y = [a EXCEPT !.ops = @ + 1]
    OBVIOUS
  <1>7. /\ a \in FiberType /\ a.pending = Pending(f, S, None, None)
        /\ Fields(r, a, r.ops, a.pending, r.unwinding, r.unwinds, r.holds, r.stack)
    BY <1>4, <1>5, <1>6 DEF InterruptedTo, TypedFibers, Fields
  <1>8. n \in Nat /\ n <= MaxOps[f] /\ r.ops <= n
    BY <1>1, <1>3, <1>6 DEF FiberType
  <1>9. y \in FiberType /\ Fields(a, y, n, a.pending, a.unwinding, a.unwinds, a.holds, a.stack)
    <2>1. y = [a EXCEPT !.ops = n]
      BY <1>6, <1>7 DEF Fields
    <2> QED
      BY <1>7, <1>8, <2>1 DEF FiberType, Fields
  <1>10. Asked(y) \subseteq Asked(r)
    BY <1>6, <1>7, <1>9 DEF Asked, Fields, Pending
  <1>11. PICK x : x = IF fib[f].holds = 0 THEN Delivered(y) ELSE y
    OBVIOUS
  <1>12. /\ x \in FiberType /\ Asked(x) \subseteq Asked(y)
         /\ Fields(y, x, y.ops, x.pending, x.unwinding, x.unwinds, y.holds, y.stack)
    <2>1. CASE fib[f].holds = 0
      BY <1>3, <1>9, <1>11, <2>1, DeliveredFields
    <2>2. CASE fib[f].holds # 0
      BY <1>9, <1>11, <2>2 DEF Fields
    <2> QED
      BY <2>1, <2>2
  <1>13. Fields(r, x, n, x.pending, x.unwinding, x.unwinds, r.holds, r.stack)
    BY <1>7, <1>9, <1>12 DEF Fields
  <1>14. fib' = Upd(fib, f, x) /\ flow' \in {"int", "run"}
    BY <1>2, <1>6, <1>11 DEF InterruptSelf, Upd
  <1>15. Becomes(fib, fib', f, n, x.pending, x.unwinding, x.unwinds, r.holds, r.stack)
    BY <1>3, <1>6, <1>8, <1>12, <1>13, <1>14, FieldsBecome
  <1>16. (x.pending \cup x.unwinds) \ {None} \subseteq Asked(fib[f])
    BY <1>6, <1>10, <1>12 DEF Asked
  <1>17. deferred' \in [Deferreds -> CellType] /\ SameCells(deferred, deferred')
         /\ calls' \subseteq CallType /\ scope' = scope
         /\ \A c \in calls' : c \in calls \/ (c.f = f /\ c.no \in 1..n)
    BY <1>1 DEF Inv, Typed, TypedScheduler, SameCells
  <1>18. flow' \in Outcomes \cup {"run"}
    BY <1>14 DEF Outcomes
  <1> QED
    BY <1>1, <1>6, <1>8, <1>15, <1>16, <1>17, <1>18, GoesOnInv

(* The constructs of fiber f change to st.                                 *)
LEMMA NestsInv ==
  ASSUME Inv, ~over, NEW f \in Fibers, cur = f, Stayed,
         flow' \in Outcomes \cup {"run"}, calls' = calls, deferred' = deferred,
         scope' \in [Scopes -> ScopeType], ScopesOf(scope'), SameScopes(scope, scope'),
         SameOutside(scope, scope', f),
         NEW n, NEW p, NEW b, NEW u, NEW h, NEW st, Becomes(fib, fib', f, n, p, b, u, h, st),
         fib[f].ops <= n, FramesIn(f, st, scope'), h = Cardinality(Holding(st)),
         \A s \in (p \cup u) \ {None} : InScope(st, s),
         \A t \in Scopes : scope'[t].fiber = f /\ ~scope'[t].ended => HasFrame(st, t),
         st = <<>> \/ Last(st).kind # "closing"
  PROVE  Inv'
  <1>1. Runs(fib, fib', f)
    BY BecomesRuns
  <1>2. TypedFibers(fib') /\ TypedFibers(fib) /\ Fields(fib[f], fib'[f], n, p, b, u, h, st)
    BY DEF Becomes, Inv, Typed
  <1>3. fib[f].born
    BY RunningFacts
  <1>4. SameElsewhere(fib, fib', f)
    BY <1>2 DEF SameElsewhere, Becomes, Fields
  <1>5. FramesIn(f, fib'[f].stack, scope') /\ fib'[f].holds = Cardinality(Holding(fib'[f].stack))
        /\ (\A s \in Asked(fib'[f]) : InScope(fib'[f].stack, s))
        /\ (\A t \in Scopes : scope'[t].fiber = f /\ ~scope'[t].ended => HasFrame(fib'[f].stack, t))
    BY <1>2 DEF Fields, Asked
  <1>6. Nested(fib', scope')
    <2>1. fib' \in [Fibers -> FiberType] /\ fib \in [Fibers -> FiberType]
      BY <1>2 DEF TypedFibers
    <2>2. scope \in [Scopes -> ScopeType] /\ Nested(fib, scope)
      BY DEF Inv, Typed
    <2> QED
      BY <1>3, <1>4, <1>5, <2>1, <2>2, NestedRuns
  <1>7. SameCells(deferred, deferred') /\ deferred' \in [Deferreds -> CellType]
        /\ calls' \subseteq CallType
        /\ \A c \in calls' : c \in calls \/ (c.f = f /\ c.no \in 1..fib'[f].ops)
    BY DEF SameCells, Inv, Typed, TypedScheduler
  <1> QED
    BY <1>1, <1>2, <1>6, <1>7, RunsInv

(* What holds of the constructs of the running fiber.                      *)
LEMMA StackFacts ==
  ASSUME Inv, NEW f \in Fibers
  PROVE  /\ fib[f] \in FiberType /\ fib[f].stack \in Seq(Frames) /\ fib[f].holds \in Nat
         /\ fib[f].ops \in Nat
         /\ FramesIn(f, fib[f].stack, scope)
         /\ fib[f].holds = Cardinality(Holding(fib[f].stack))
         /\ \A s \in Asked(fib[f]) : InScope(fib[f].stack, s)
         /\ \A t \in Scopes : scope[t].fiber = f /\ ~scope[t].ended => HasFrame(fib[f].stack, t)
         /\ fib[f].stack = <<>> \/ Last(fib[f].stack).kind # "closing" =>
              \A i \in 1..Len(fib[f].stack) : fib[f].stack[i].kind # "closing"
  <1>1. fib[f] \in FiberType
    BY DEF Inv, Typed, TypedFibers
  <1>2. fib[f].stack \in Seq(Frames) /\ fib[f].holds \in Nat /\ fib[f].ops \in Nat
    BY <1>1 DEF FiberType
  <1>3. f # None
    BY ConstantsAssumption DEF Fibers, None
  <1>4. FramesIn(f, fib[f].stack, scope) /\ fib[f].holds = Cardinality(Holding(fib[f].stack))
        /\ (\A s \in Asked(fib[f]) : InScope(fib[f].stack, s))
        /\ (\A t \in Scopes : scope[t].fiber = f /\ ~scope[t].ended => HasFrame(fib[f].stack, t))
    BY <1>3 DEF Inv, Nested, FramesOf, Held, Aimed, Asked
  <1>5. ASSUME fib[f].stack = <<>> \/ Last(fib[f].stack).kind # "closing",
               NEW i \in 1..Len(fib[f].stack), fib[f].stack[i].kind = "closing"
        PROVE  FALSE
    <2>1. Len(fib[f].stack) \in Nat /\ i = Len(fib[f].stack) /\ fib[f].stack # <<>>
      BY <1>2, <1>4, <1>5, LenProperties, EmptySeq DEF FramesIn
    <2> QED
      BY <1>5, <2>1 DEF Last
  <1> QED
    BY <1>1, <1>2, <1>4, <1>5

(* A construct begins.                                                     *)
LEMMA OpensInv ==
  ASSUME Inv, NEW f \in Fibers, NEW op, CanCall(f, op), Stayed,
         flow' = flow, calls' = calls, deferred' = deferred,
         NEW r \in Frames, r.kind \in {"with", "attempt", "scope"},
         fib' = Pushed(Called(fib, f), f, r),
         scope' \in [Scopes -> ScopeType], ScopesOf(scope'), SameScopes(scope, scope'),
         SameOutside(scope, scope', f), FramesIn(f, fib[f].stack, scope'),
         OfScope(r) => /\ FrameOf(f, r, scope')
                       /\ \A i \in 1..Len(fib[f].stack) : OfScope(fib[f].stack[i]) => fib[f].stack[i].s < r.s,
         \A t \in Scopes : scope'[t].fiber = f /\ ~scope'[t].ended =>
           HasFrame(fib[f].stack, t) \/ (OfScope(r) /\ r.s = t)
  PROVE  Inv'
  <1>1. ~over /\ cur = f /\ fib[f].ops < MaxOps[f] /\ ~InFrame(f, "closing")
    BY DEF CanCall, Running
  <1>2. PICK a, st, F : a = fib[f] /\ st = a.stack /\ F = Called(fib, f)
    OBVIOUS
  <1>3. TypedFibers(fib)
    BY DEF Inv, Typed
  <1>4. Becomes(fib, F, f, a.ops + 1, a.pending, a.unwinding, a.unwinds, a.holds, a.stack)
    BY <1>1, <1>2, <1>3, CalledBecomes
  <1>5. /\ st \in Seq(Frames) /\ a.ops \in Nat
        /\ a.holds = Cardinality(Holding(st)) /\ (\A s \in Asked(a) : InScope(st, s))
        /\ \A i \in 1..Len(st) : st[i].kind # "closing"
    BY <1>1, <1>2, StackFacts DEF InFrame, Top
  <1>6. PICK v : v = Append(st, r)
    OBVIOUS
  <1>7. FrameBegins(f, st, r, v, scope')
    <2>1. FramesIn(f, st, scope') /\ \A i \in 1..Len(st) : st[i].kind # "closing"
      BY <1>2, <1>5
    <2>2. OfScope(r) => /\ FrameOf(f, r, scope')
                        /\ \A i \in 1..Len(st) : OfScope(st[i]) => st[i].s < r.s
      BY <1>2
    <2> QED
      BY <1>5, <1>6, <2>1, <2>2, FramesAppend
  <1>8. fib' = SetStack(F, f, v)
    <2>1. F[f].stack = st
      BY <1>2, <1>4 DEF Becomes, Fields
    <2> QED
      BY <1>2, <1>6, <2>1 DEF Pushed, SetStack
  <1>9. v \in Seq(Frames)
    BY <1>7 DEF FrameBegins
  <1>10. Becomes(fib, fib', f, a.ops + 1, a.pending, a.unwinding, a.unwinds, a.holds, v)
    BY <1>4, <1>8, <1>9, BecomesStack
  <1>11. /\ FramesIn(f, v, scope') /\ a.holds = Cardinality(Holding(v))
         /\ (\A s \in (a.pending \cup a.unwinds) \ {None} : InScope(v, s))
         /\ (\A t \in Scopes : scope'[t].fiber = f /\ ~scope'[t].ended => HasFrame(v, t))
         /\ Last(v).kind # "closing"
    BY <1>2, <1>5, <1>7 DEF FrameBegins, Asked
  <1>12. fib[f].ops <= a.ops + 1 /\ flow' \in Outcomes \cup {"run"}
    BY <1>2, <1>5 DEF Inv, Typed, TypedScheduler
  <1> QED
    BY <1>1, <1>10, <1>11, <1>12, NestsInv

LEMMA OpenWithInv ==
  ASSUME Inv, NEW f \in Fibers, OpenWith(f) \/ OpenAttempt(f)
  PROVE  Inv'
  <1>1. PICK kind \in {"with", "attempt"} :
          CanCall(f, kind) /\ Stayed /\ UNCHANGED <<flow, calls, scope, deferred>>
          /\ fib' = Pushed(Called(fib, f), f, Frame(kind, None, NotYet))
    BY DEF OpenWith, OpenAttempt, Stays, Stayed
  <1>2. PICK r : r = Frame(kind, None, NotYet)
    OBVIOUS
  <1>3. r \in Frames /\ r.kind = kind /\ ~OfScope(r)
    BY <1>2, ConstantsAssumption DEF Frame, Frames, None, OfScope
  <1>4. scope' = scope /\ scope \in [Scopes -> ScopeType] /\ ScopesOf(scope)
    BY <1>1 DEF Inv, Typed, Nested
  <1>5. SameScopes(scope, scope') /\ SameOutside(scope, scope', f)
    BY <1>4 DEF SameScopes, SameOutside
  <1>6. FramesIn(f, fib[f].stack, scope')
        /\ \A t \in Scopes : scope'[t].fiber = f /\ ~scope'[t].ended => HasFrame(fib[f].stack, t)
    BY <1>4, StackFacts
  <1> QED
    BY <1>1, <1>2, <1>3, <1>4, <1>5, <1>6, OpensInv

LEMMA OpenScopeInv ==
  ASSUME Inv, NEW f \in Fibers, NEW s \in Scopes, OpenScope(f, s)
  PROVE  Inv'
  <1>1. /\ CanCall(f, "scope") /\ Stayed /\ UNCHANGED <<flow, calls, deferred>>
        /\ scope[s].fiber = None /\ \A t \in 1..(s - 1) : scope[t].fiber # None
        /\ fib' = Pushed(Called(fib, f), f, Frame("scope", s, NotYet))
    BY DEF OpenScope, Stays, Stayed
  <1>2. PICK n : n = ScopeDepth(f)
    OBVIOUS
  <1>3. PICK x : x = NewScope(f, n)
    OBVIOUS
  <1>4. scope' = [scope EXCEPT ![s] = x]
    BY <1>2, <1>3 DEF OpenScope
  <1>5. n \in Nat
    <2>1. PICK st : st = fib[f].stack
      OBVIOUS
    <2>2. st \in Seq(Frames)
      BY <2>1, StackFacts
    <2>3. Len(st) \in Nat /\ DOMAIN st = 1..Len(st)
      BY <2>2, LenProperties
    <2>4. PICK S \in SUBSET (1..Len(st)) : n = Cardinality(S)
      BY <1>2, <2>1, <2>3 DEF ScopeDepth
    <2>5. IsFiniteSet(1..Len(st))
      BY <2>3, FS_Interval
    <2>6. IsFiniteSet(S)
      BY <2>5, FS_Subset
    <2> QED
      BY <2>4, <2>6, FS_CardinalityType
  <1>6. f \in 0..NFibers /\ f # None /\ s \in 0..NScopes /\ s \in Nat /\ Scopes = 1..NScopes /\ NScopes \in Nat
    BY ConstantsAssumption DEF Fibers, Scopes, None
  <1>7. /\ x \in ScopeType /\ x.fiber = f /\ x.children = {} /\ ~x.closed /\ ~x.bodyDone /\ ~x.ended
        /\ x.closer = 0
    BY <1>3, <1>5, <1>6 DEF NewScope, ScopeType
  <1>8. scope \in [Scopes -> ScopeType] /\ ScopesOf(scope)
    BY DEF Inv, Typed, Nested
  <1>9. scope[s].children = {} /\ scope[s].closer = 0
    BY <1>1, <1>8 DEF ScopesOf, NewScope
  <1>10. /\ scope' \in [Scopes -> ScopeType] /\ scope'[s] = x
         /\ \A t \in Scopes \ {s} : scope'[t] = scope[t]
    <2> HIDE DEF ScopeType
    <2> QED
      BY <1>4, <1>7, <1>8
  <1>11. ScopesOf(scope')
    <2>1. ASSUME NEW a \in Scopes, NEW t \in Scopes, a <= t, scope'[t].fiber # None
          PROVE  scope'[a].fiber # None
      <3>1. CASE a = s
        BY <1>6, <1>7, <1>10, <3>1
      <3>2. CASE a # s /\ t = s
        <4>1. a \in 1..(s - 1)
          BY <1>6, <2>1, <3>2
        <4> QED
          BY <1>1, <1>10, <3>2, <4>1
      <3>3. CASE a # s /\ t # s
        BY <1>8, <1>10, <2>1, <3>3 DEF ScopesOf
      <3> QED
        BY <3>1, <3>2, <3>3
    <2>2. \A t \in Scopes : scope'[t].fiber = None => scope'[t] = NewScope(None, 0)
      BY <1>6, <1>7, <1>8, <1>10 DEF ScopesOf
    <2>3. \A t \in Scopes : (scope'[t].ended => scope'[t].bodyDone)
                             /\ (scope'[t].bodyDone => scope'[t].closed /\ scope'[t].out \in Outcomes)
      BY <1>7, <1>8, <1>10 DEF ScopesOf
    <2> QED
      BY <2>1, <2>2, <2>3 DEF ScopesOf
  <1>12. SameScopes(scope, scope') /\ SameOutside(scope, scope', f)
    BY <1>1, <1>7, <1>9, <1>10 DEF SameScopes, SameOutside
  <1>13. PICK st : st = fib[f].stack
    OBVIOUS
  <1>14. st \in Seq(Frames) /\ FramesIn(f, st, scope)
         /\ \A t \in Scopes : scope[t].fiber = f /\ ~scope[t].ended => HasFrame(st, t)
    BY <1>13, StackFacts
  <1>15. ASSUME NEW i \in 1..Len(st), OfScope(st[i])
         PROVE  st[i].s \in Scopes /\ scope[st[i].s].fiber = f /\ st[i].s < s
    <2>1. st[i].s \in Scopes /\ scope[st[i].s].fiber = f
      BY <1>14, <1>15 DEF FramesIn, FrameOf
    <2>2. ~(s <= st[i].s)
      BY <1>1, <1>6, <1>8, <2>1 DEF ScopesOf
    <2> QED
      BY <1>6, <2>1, <2>2
  <1>16. FramesIn(f, st, scope')
    <2>1. \A t \in Scopes : HasFrame(st, t) => t # s
      BY <1>1, <1>6, <1>15 DEF HasFrame
    <2>2. \A t \in Scopes : HasFrame(st, t) =>
            /\ scope'[t].fiber = scope[t].fiber /\ scope'[t].ended = scope[t].ended
            /\ scope'[t].bodyDone = scope[t].bodyDone
      BY <1>10, <2>1
    <2> QED
      BY <1>14, <2>2, FramesScope
  <1>17. PICK r : r = Frame("scope", s, NotYet)
    OBVIOUS
  <1>18. r \in Frames /\ r.kind = "scope" /\ r.s = s /\ OfScope(r)
    BY <1>6, <1>17 DEF Frame, Frames, OfScope
  <1>19. FrameOf(f, r, scope') /\ \A i \in 1..Len(st) : OfScope(st[i]) => st[i].s < r.s
    BY <1>7, <1>10, <1>15, <1>18 DEF FrameOf
  <1>20. \A t \in Scopes : scope'[t].fiber = f /\ ~scope'[t].ended =>
           HasFrame(st, t) \/ (OfScope(r) /\ r.s = t)
    BY <1>10, <1>14, <1>18
  <1> QED
    BY <1>1, <1>10, <1>11, <1>12, <1>13, <1>16, <1>17, <1>18, <1>19, <1>20, OpensInv

(* The innermost construct ends: st are the constructs that are left.      *)
LEMMA LeavesInv ==
  ASSUME Inv, NEW f \in Fibers, cur = f, ~over, fib[f].stack # <<>>, Stayed,
         flow' \in Outcomes \cup {"run"}, calls' = calls, deferred' = deferred,
         NEW st, st = Front(fib[f].stack), NEW h, h = Cardinality(Holding(st)),
         NEW p, NEW b, NEW u, Becomes(fib, fib', f, fib[f].ops, p, b, u, h, st),
         (p \cup u) \ {None} \subseteq Asked(fib[f]),
         Last(fib[f].stack).kind = "scope" => Last(fib[f].stack).s \notin p \cup u,
         scope' \in [Scopes -> ScopeType], ScopesOf(scope'), SameScopes(scope, scope'),
         OfScope(Last(fib[f].stack)) =>
           /\ \A t \in Scopes \ {Last(fib[f].stack).s} : scope'[t] = scope[t]
           /\ scope'[Last(fib[f].stack).s].ended /\ scope'[Last(fib[f].stack).s].fiber = f,
         ~OfScope(Last(fib[f].stack)) => scope' = scope
  PROVE  Inv'
  <1>1. PICK a, s : a = fib[f].stack /\ s = Last(a).s
    OBVIOUS
  <1>2. a \in Seq(Frames) /\ FramesIn(f, a, scope) /\ fib[f].ops \in Nat
        /\ (\A t \in Asked(fib[f]) : InScope(a, t))
        /\ \A t \in Scopes : scope[t].fiber = f /\ ~scope[t].ended => HasFrame(a, t)
    BY <1>1, StackFacts
  <1>3. FrameEnds(f, a, st, scope)
    BY <1>1, <1>2, FramesFront
  <1>4. FramesIn(f, st, scope) /\ st \in Seq(Frames)
    BY <1>3 DEF FrameEnds
  <1>5. \A t \in Scopes : HasFrame(st, t) =>
          /\ scope'[t].fiber = scope[t].fiber /\ scope'[t].ended = scope[t].ended
          /\ scope'[t].bodyDone = scope[t].bodyDone
    <2>1. CASE OfScope(Last(a))
      <3>1. s \in Scopes /\ \A i \in 1..Len(st) : OfScope(st[i]) => st[i].s < s
        BY <1>1, <1>3, <2>1 DEF FrameEnds, FrameOf
      <3>2. \A t \in Scopes : HasFrame(st, t) => t # s
        BY <3>1, ConstantsAssumption DEF HasFrame, Scopes
      <3> QED
        BY <1>1, <2>1, <3>2
    <2>2. CASE ~OfScope(Last(a))
      BY <1>1, <2>2
    <2> QED
      BY <2>1, <2>2
  <1>6. FramesIn(f, st, scope')
    BY <1>4, <1>5, FramesScope
  <1>7. \A t \in Scopes : scope'[t].fiber = f /\ ~scope'[t].ended => HasFrame(st, t)
    <2> SUFFICES ASSUME NEW t \in Scopes, scope'[t].fiber = f, ~scope'[t].ended
                 PROVE  HasFrame(st, t)
      OBVIOUS
    <2>1. ~(OfScope(Last(a)) /\ s = t)
      BY <1>1
    <2>2. scope[t].fiber = f /\ ~scope[t].ended
      BY <1>1, <2>1
    <2> QED
      BY <1>1, <1>2, <1>3, <2>1, <2>2 DEF FrameEnds
  <1>8. \A t \in (p \cup u) \ {None} : InScope(st, t)
    BY <1>1, <1>2, <1>3 DEF FrameEnds
  <1>9. SameOutside(scope, scope', f)
    <2>1. CASE OfScope(Last(a))
      <3>1. s \in Scopes /\ scope[s].fiber = f
        BY <1>1, <1>3, <2>1 DEF FrameEnds, FrameOf
      <3> QED
        BY <1>1, <2>1, <3>1 DEF SameOutside
    <2>2. CASE ~OfScope(Last(a))
      BY <1>1, <2>2 DEF SameOutside
    <2> QED
      BY <2>1, <2>2
  <1>10. st = <<>> \/ Last(st).kind # "closing"
    BY <1>3 DEF FrameEnds
  <1>11. fib[f].ops <= fib[f].ops
    BY <1>2
  <1> QED
    BY <1>6, <1>7, <1>8, <1>9, <1>10, <1>11, NestsInv

(* What is left when the innermost construct is popped.                    *)
PoppedTo(F, f, st, G) ==
  LET r == F[f] IN
  /\ st \in Seq(Frames) /\ Cardinality(Holding(st)) \in Nat
  /\ Becomes(F, G, f, r.ops, r.pending, r.unwinding, r.unwinds, r.holds, st)
  /\ Cardinality(Holding(st)) =
       IF Last(r.stack).kind \in {"release", "closing"} THEN r.holds - 1 ELSE r.holds

LEMMA Pops ==
  ASSUME Inv, NEW f \in Fibers, fib[f].stack # <<>>, NEW st, st = Front(fib[f].stack)
  PROVE  PoppedTo(fib, f, st, Popped(fib, f))
  <1>1. PICK r, a, G : r = fib[f] /\ a = r.stack /\ G = Popped(fib, f)
    OBVIOUS
  <1>2. /\ TypedFibers(fib) /\ a \in Seq(Frames) /\ FramesIn(f, a, scope)
        /\ r.holds = Cardinality(Holding(a))
    BY <1>1, StackFacts DEF Inv, Typed
  <1>3. FrameEnds(f, a, st, scope)
    BY <1>1, <1>2, FramesFront
  <1>4. st \in Seq(Frames)
    BY <1>3 DEF FrameEnds
  <1>5. Becomes(fib, fib, f, r.ops, r.pending, r.unwinding, r.unwinds, r.holds, r.stack)
    BY <1>1, <1>2, BecomesSame
  <1>6. G = SetStack(fib, f, st)
    BY <1>1 DEF Popped, SetStack
  <1>7. Becomes(fib, G, f, r.ops, r.pending, r.unwinding, r.unwinds, r.holds, st)
    BY <1>4, <1>5, <1>6, BecomesStack
  <1>8. Cardinality(Holding(st)) \in Nat
    BY <1>4, HoldingFinite
  <1> QED
    BY <1>1, <1>2, <1>3, <1>4, <1>7, <1>8 DEF PoppedTo, FrameEnds

LEMMA EndAttemptInv ==
  ASSUME Inv, NEW f \in Fibers, NEW o \in Outcomes, EndAttempt(f, o)
  PROVE  Inv'
  <1>1. /\ ~over /\ cur = f /\ Stayed /\ calls' = calls /\ scope' = scope /\ deferred' = deferred
        /\ fib[f].stack # <<>> /\ Last(fib[f].stack).kind = "attempt"
        /\ fib' = Popped(fib, f) /\ flow' \in {o, "run"}
    BY DEF EndAttempt, Passing, InFrame, Top, Stays, Stayed
  <1>2. PICK r, st, h : r = fib[f] /\ st = Front(fib[f].stack) /\ h = Cardinality(Holding(st))
    OBVIOUS
  <1>3. PoppedTo(fib, f, st, fib')
    BY <1>1, <1>2, Pops
  <1>4. Becomes(fib, fib', f, fib[f].ops, r.pending, r.unwinding, r.unwinds, h, st)
    BY <1>1, <1>2, <1>3 DEF PoppedTo
  <1>5. (r.pending \cup r.unwinds) \ {None} \subseteq Asked(fib[f])
    BY <1>2 DEF Asked
  <1>6. ~OfScope(Last(fib[f].stack)) /\ flow' \in Outcomes \cup {"run"}
    BY <1>1 DEF OfScope
  <1>7. scope' \in [Scopes -> ScopeType] /\ ScopesOf(scope') /\ SameScopes(scope, scope')
    BY <1>1 DEF Inv, Typed, Nested, SameScopes
  <1> QED
    BY <1>1, <1>2, <1>4, <1>5, <1>6, <1>7, LeavesInv

LEMMA GoesOutcomes ==
  ASSUME NEW f, NEW o \in Outcomes
  PROVE  Goes(f, o) \subseteq Outcomes \cup {"run"}
  BY DEF Goes, Outcomes

LEMMA EndReleaseInv ==
  ASSUME Inv, NEW f \in Fibers, NEW o \in Outcomes, EndRelease(f, o)
  PROVE  Inv'
  <1>1. /\ ~over /\ cur = f /\ Stayed /\ calls' = calls /\ scope' = scope /\ deferred' = deferred
        /\ fib[f].stack # <<>> /\ Last(fib[f].stack).kind = "release"
        /\ fib' = [Popped(fib, f) EXCEPT ![f].holds = @ - 1]
        /\ flow' \in Goes(f, ReleaseDefect(Top(f).out, o))
    BY DEF EndRelease, Passing, InFrame, Top, Stays, Stayed
  <1>2. PICK r, st, h, G : /\ r = fib[f] /\ st = Front(fib[f].stack) /\ h = Cardinality(Holding(st))
                           /\ G = Popped(fib, f)
    OBVIOUS
  <1>3. PoppedTo(fib, f, st, G)
    BY <1>1, <1>2, Pops
  <1>4. Becomes(fib, G, f, r.ops, r.pending, r.unwinding, r.unwinds, r.holds, st)
        /\ h = r.holds - 1 /\ h \in Nat
    BY <1>1, <1>2, <1>3 DEF PoppedTo
  <1>5. fib' = SetHolds(G, f, h)
    <2>1. G[f].holds = r.holds
      BY <1>4 DEF Becomes, Fields
    <2> QED
      BY <1>1, <1>2, <1>4, <2>1 DEF SetHolds
  <1>6. Becomes(fib, fib', f, r.ops, r.pending, r.unwinding, r.unwinds, h, st)
    BY <1>4, <1>5, BecomesHolds
  <1>7. (r.pending \cup r.unwinds) \ {None} \subseteq Asked(fib[f])
    BY <1>2 DEF Asked
  <1>8. ~OfScope(Last(fib[f].stack))
    BY <1>1 DEF OfScope
  <1>9. flow' \in Outcomes \cup {"run"}
    <2>1. PICK a, x : a = fib[f].stack /\ x = Top(f).out
      OBVIOUS
    <2>2. a \in Seq(Frames) /\ FramesIn(f, a, scope) /\ a # <<>> /\ Last(a).kind = "release" /\ x = Last(a).out
      BY <1>1, <2>1, StackFacts DEF Top
    <2>3. Len(a) \in 1..Len(a) /\ Last(a) = a[Len(a)]
      BY <2>2, LenProperties, EmptySeq DEF Last
    <2>4. x \in Outcomes
      BY <2>2, <2>3 DEF FramesIn
    <2>5. ReleaseDefect(x, o) \in Outcomes
      BY <2>4 DEF ReleaseDefect
    <2> QED
      BY <1>1, <2>1, <2>5, GoesOutcomes
  <1>10. scope' \in [Scopes -> ScopeType] /\ ScopesOf(scope') /\ SameScopes(scope, scope')
    BY <1>1 DEF Inv, Typed, Nested, SameScopes
  <1> QED
    BY <1>1, <1>2, <1>6, <1>7, <1>8, <1>9, <1>10, LeavesInv

LEMMA BeginReleaseInv ==
  ASSUME Inv, NEW f \in Fibers, NEW o \in Outcomes, BeginRelease(f, o)
  PROVE  Inv'
  <1>1. /\ ~over /\ cur = f /\ Stayed /\ calls' = calls /\ scope' = scope /\ deferred' = deferred
        /\ fib[f].stack # <<>> /\ Last(fib[f].stack).kind = "with"
        /\ fib' = [Replaced(fib, f, Frame("release", None, o)) EXCEPT ![f].holds = @ + 1]
        /\ flow' = "run"
    BY DEF BeginRelease, Passing, InFrame, Top, Stays, Stayed
  <1>2. PICK r, a, st, x, v, m : /\ r = fib[f] /\ a = r.stack /\ st = Front(a)
                                 /\ x = Frame("release", None, o) /\ v = Append(st, x) /\ m = r.holds + 1
    OBVIOUS
  <1>3. /\ TypedFibers(fib) /\ a \in Seq(Frames) /\ FramesIn(f, a, scope) /\ r.holds \in Nat
        /\ r.ops \in Nat /\ r.holds = Cardinality(Holding(a))
        /\ (\A t \in Asked(r) : InScope(a, t))
        /\ \A t \in Scopes : scope[t].fiber = f /\ ~scope[t].ended => HasFrame(a, t)
    BY <1>2, StackFacts DEF Inv, Typed
  <1>4. FrameEnds(f, a, st, scope)
    BY <1>1, <1>2, <1>3, FramesFront
  <1>5. /\ st \in Seq(Frames) /\ FramesIn(f, st, scope) /\ (\A i \in 1..Len(st) : st[i].kind # "closing")
        /\ (\A t : HasFrame(a, t) => HasFrame(st, t)) /\ (\A t : InScope(a, t) => InScope(st, t))
        /\ Cardinality(Holding(st)) = r.holds
    BY <1>1, <1>2, <1>3, <1>4 DEF FrameEnds, OfScope
  <1>6. x \in Frames /\ x.kind = "release" /\ x.out = o /\ ~OfScope(x)
    BY <1>2, ConstantsAssumption DEF Frame, Frames, None, OfScope
  <1>7. FrameBegins(f, st, x, v, scope)
    BY <1>2, <1>5, <1>6, FramesAppend
  <1>8. /\ v \in Seq(Frames) /\ FramesIn(f, v, scope) /\ v # <<>> /\ Last(v) = x
        /\ (\A t : HasFrame(st, t) => HasFrame(v, t)) /\ (\A t : InScope(st, t) => InScope(v, t))
        /\ Cardinality(Holding(v)) = m
    BY <1>2, <1>5, <1>6, <1>7 DEF FrameBegins
  <1>9. PICK G : G = SetStack(fib, f, v)
    OBVIOUS
  <1>10. Becomes(fib, fib, f, r.ops, r.pending, r.unwinding, r.unwinds, r.holds, r.stack)
    BY <1>2, <1>3, BecomesSame
  <1>11. Becomes(fib, G, f, r.ops, r.pending, r.unwinding, r.unwinds, r.holds, v)
    BY <1>8, <1>9, <1>10, BecomesStack
  <1>12. fib' = SetHolds(G, f, m) /\ m \in Nat
    <2>1. G = Replaced(fib, f, Frame("release", None, o))
      BY <1>2, <1>9 DEF Replaced, SetStack
    <2>2. G[f].holds = r.holds
      BY <1>11 DEF Becomes, Fields
    <2> QED
      BY <1>1, <1>2, <1>3, <2>1, <2>2 DEF SetHolds
  <1>13. Becomes(fib, fib', f, r.ops, r.pending, r.unwinding, r.unwinds, m, v)
    BY <1>11, <1>12, BecomesHolds
  <1>14. scope' \in [Scopes -> ScopeType] /\ ScopesOf(scope') /\ SameScopes(scope, scope')
         /\ SameOutside(scope, scope', f)
    BY <1>1 DEF Inv, Typed, Nested, SameScopes, SameOutside
  <1>15. /\ FramesIn(f, v, scope') /\ m = Cardinality(Holding(v)) /\ fib[f].ops <= r.ops
         /\ (\A t \in (r.pending \cup r.unwinds) \ {None} : InScope(v, t))
         /\ (\A t \in Scopes : scope'[t].fiber = f /\ ~scope'[t].ended => HasFrame(v, t))
         /\ Last(v).kind # "closing" /\ flow' \in Outcomes \cup {"run"}
    BY <1>1, <1>2, <1>3, <1>5, <1>6, <1>8 DEF Asked
  <1> QED
    BY <1>1, <1>13, <1>14, <1>15, NestsInv

(* Only the record of scope s changes.                                     *)
SetScope(X, s, x) == [X EXCEPT ![s] = x]

LEMMA ScopeUpdated ==
  ASSUME NEW X \in [Scopes -> ScopeType], NEW s \in Scopes, NEW x \in ScopeType,
         NEW Y, Y = SetScope(X, s, x)
  PROVE  Y \in [Scopes -> ScopeType] /\ Y[s] = x /\ \A t \in Scopes \ {s} : Y[t] = X[t]
  <1> HIDE DEF ScopeType
  <1> QED
    BY DEF SetScope

LEMMA Returns ==
  ASSUME scope \in [Scopes -> ScopeType], NEW s \in Scopes, NEW o \in Outcomes
  PROVE  Return(s, o) \in Outcomes /\ FirstFailure(s, o) \in Outcomes \cup {NotYet}
  <1>1. scope[s].first \in Outcomes \cup {NotYet}
    BY DEF ScopeType
  <1> QED
    BY <1>1 DEF Return, FirstFailure

LEMMA EndScopeInv ==
  ASSUME Inv, NEW f \in Fibers, EndScope(f)
  PROVE  Inv'
  <1>1. PICK s : s = Top(f).s
    OBVIOUS
  <1>2. PICK o : o = scope[s].out
    OBVIOUS
  <1>3. /\ ~over /\ cur = f /\ Stayed /\ calls' = calls /\ deferred' = deferred
        /\ fib[f].stack # <<>> /\ Last(fib[f].stack).kind = "closing" /\ Last(fib[f].stack).s = s
        /\ scope' = [scope EXCEPT ![s].ended = TRUE, ![s].ret = Return(s, o)]
        /\ fib' = [Popped(fib, f) EXCEPT ![f].holds = @ - 1]
        /\ flow' \in Goes(f, Return(s, o))
    BY <1>1, <1>2 DEF EndScope, InFrame, Top, Stays, Stayed
  <1>4. PICK r, st, h, G : /\ r = fib[f] /\ st = Front(fib[f].stack) /\ h = Cardinality(Holding(st))
                           /\ G = Popped(fib, f)
    OBVIOUS
  <1>5. PoppedTo(fib, f, st, G)
    BY <1>3, <1>4, Pops
  <1>6. Becomes(fib, G, f, r.ops, r.pending, r.unwinding, r.unwinds, r.holds, st)
        /\ h = r.holds - 1 /\ h \in Nat
    BY <1>3, <1>4, <1>5 DEF PoppedTo
  <1>7. fib' = SetHolds(G, f, h)
    <2>1. G[f].holds = r.holds
      BY <1>6 DEF Becomes, Fields
    <2> QED
      BY <1>3, <1>4, <1>6, <2>1 DEF SetHolds
  <1>8. Becomes(fib, fib', f, r.ops, r.pending, r.unwinding, r.unwinds, h, st)
    BY <1>6, <1>7, BecomesHolds
  <1>9. (r.pending \cup r.unwinds) \ {None} \subseteq Asked(fib[f])
    BY <1>4 DEF Asked
  <1>10. s \in Scopes /\ scope[s].fiber = f /\ scope[s].bodyDone
    <2>1. PICK a : a = fib[f].stack
      OBVIOUS
    <2>2. a \in Seq(Frames) /\ FramesIn(f, a, scope)
      BY <2>1, StackFacts
    <2>3. FrameEnds(f, a, st, scope)
      BY <1>3, <1>4, <2>1, <2>2, FramesFront
    <2> QED
      BY <1>3, <2>1, <2>3 DEF FrameEnds, FrameOf, OfScope
  <1>11. scope \in [Scopes -> ScopeType] /\ ScopesOf(scope)
    BY DEF Inv, Typed, Nested
  <1>12. o \in Outcomes
    BY <1>2, <1>10, <1>11 DEF ScopesOf
  <1>13. PICK y, z, x : y = scope[s] /\ z = Return(s, o) /\ x = [y EXCEPT !.ended = TRUE, !.ret = z]
    OBVIOUS
  <1>14. z \in Outcomes /\ y \in ScopeType
    BY <1>10, <1>11, <1>12, <1>13, Returns
  <1>15. /\ x \in ScopeType /\ x.ended /\ x.fiber = y.fiber /\ x.children = y.children /\ x.closer = y.closer
         /\ x.bodyDone = y.bodyDone /\ x.closed = y.closed /\ x.out = y.out
    BY <1>13, <1>14 DEF ScopeType
  <1>16. scope' = SetScope(scope, s, x)
    BY <1>3, <1>13 DEF SetScope
  <1>17. scope' \in [Scopes -> ScopeType] /\ scope'[s] = x /\ \A t \in Scopes \ {s} : scope'[t] = scope[t]
    BY <1>10, <1>11, <1>15, <1>16, ScopeUpdated
  <1>18. SameScopes(scope, scope')
    BY <1>13, <1>15, <1>17 DEF SameScopes
  <1>19. ScopesOf(scope')
    <2>1. f # None
      BY ConstantsAssumption DEF Fibers, None
    <2>2. \A t \in Scopes : scope'[t].fiber = scope[t].fiber /\ scope'[t].bodyDone = scope[t].bodyDone
                            /\ scope'[t].closed = scope[t].closed /\ scope'[t].out = scope[t].out
      BY <1>13, <1>15, <1>17
    <2>3. \A t \in Scopes : t # s => scope'[t] = scope[t]
      BY <1>17
    <2> QED
      BY <1>10, <1>11, <2>1, <2>2, <2>3 DEF ScopesOf
  <1>20. flow' \in Outcomes \cup {"run"}
    BY <1>3, <1>13, <1>14, GoesOutcomes
  <1>21. OfScope(Last(fib[f].stack)) /\ scope'[s].ended /\ scope'[s].fiber = f
    BY <1>3, <1>10, <1>13, <1>15, <1>17 DEF OfScope
  <1>22. /\ ~over /\ cur = f /\ Stayed /\ calls' = calls /\ deferred' = deferred /\ fib[f].stack # <<>>
         /\ Last(fib[f].stack).kind = "scope" => Last(fib[f].stack).s \notin r.pending \cup r.unwinds
         /\ OfScope(Last(fib[f].stack)) =>
              /\ \A t \in Scopes \ {Last(fib[f].stack).s} : scope'[t] = scope[t]
              /\ scope'[Last(fib[f].stack).s].ended /\ scope'[Last(fib[f].stack).s].fiber = f
         /\ ~OfScope(Last(fib[f].stack)) => scope' = scope
    BY <1>3, <1>17, <1>21
  <1>23. Becomes(fib, fib', f, fib[f].ops, r.pending, r.unwinding, r.unwinds, h, st)
    BY <1>4, <1>8
  <1>24. scope' \in [Scopes -> ScopeType]
    BY <1>17
  <1> QED
    BY <1>4, <1>9, <1>18, <1>19, <1>20, <1>22, <1>23, <1>24, LeavesInv

-----------------------------------------------------------------------------
(* Interruptions and wakes: the fibers of D are taken from the waits.      *)

(* Nobody is interrupted.                                                  *)
LEMMA NoneInterrupted ==
  ASSUME Inv
  PROVE  /\ Dropped({}, None, None) = {} /\ Interrupted({}, None, None) = fib
         /\ queue \o Throws({}, None, None) = queue /\ Aborted({}) = calls
  <1>1. None \notin Fibers /\ TypedFibers(fib) /\ queue \in Seq(Tasks)
    BY ConstantsAssumption DEF Fibers, None, Inv, Typed, TypedScheduler
  <1>2. Dropped({}, None, None) = {}
    BY <1>1 DEF Dropped
  <1>3. PICK G, D : G = Interrupted({}, None, None) /\ D = Dropped({}, None, None)
    OBVIOUS
  <1>4. {} \in SUBSET Fibers /\ None \in Scopes \cup {None}
    OBVIOUS
  <1>5. InterruptedTo({}, None, None, D, G)
    BY <1>1, <1>3, <1>4, InterruptedFields
  <1>6. ASSUME NEW g \in Fibers PROVE G[g] = fib[g]
    <2>1. PICK r, x : r = fib[g] /\ x = G[g]
      OBVIOUS
    <2>2. r \in FiberType /\ x \in FiberType
      BY <1>1, <1>5, <2>1 DEF InterruptedTo, TypedFibers
    <2>3. g # None
      BY <1>1
    <2>4. x.pending = r.pending
      BY <1>5, <2>1, <2>3 DEF InterruptedTo, Pending
    <2>5. /\ x.wait = r.wait /\ x.unwinding = r.unwinding /\ x.unwinds = r.unwinds
          /\ x.holds = r.holds /\ x.stack = r.stack /\ x.ops = r.ops
          /\ x.watchers = r.watchers /\ x.born = r.born /\ x.scope = r.scope /\ x.result = r.result
      BY <1>2, <1>3, <1>5, <2>1 DEF InterruptedTo
    <2>6. x = r
      BY <2>2, <2>4, <2>5 DEF FiberType
    <2> QED
      BY <2>1, <2>6
  <1>7. G = fib
    <2> HIDE DEF FiberType
    <2> QED
      BY <1>1, <1>5, <1>6 DEF TypedFibers, InterruptedTo
  <1>8. Throws({}, None, None) = <<>>
    <2>1. PICK ts : ts = ThrowTasks(InForkOrder({}))
      OBVIOUS
    <2>2. Continue(ts, {})
      BY <1>4, <2>1, ThrowsInOrder
    <2>3. ts \in Seq(Tasks) /\ Len(ts) \in Nat /\ \A i \in 1..Len(ts) : FALSE
      BY <2>2, LenProperties DEF Continue
    <2>4. Len(ts) = 0
      BY <2>3
    <2>5. ts = <<>>
      BY <2>3, <2>4, EmptySeq
    <2>6. {f \in {} : Drops(f, None)} = {} /\ {f \in {None} \cap Fibers : Drops(f, None)} = {}
      BY <1>1
    <2>7. Throws({}, None, None) = ts \o ts
      BY <2>1, <2>6 DEF Throws
    <2> QED
      BY <2>5, <2>7
  <1>9. queue \o <<>> = queue
    BY <1>1, ConcatEmptySeq
  <1>10. Aborted({}) = calls
    BY DEF Aborted
  <1> QED
    BY <1>2, <1>3, <1>7, <1>8, <1>9, <1>10

(* The body of the scope s ends: the interruptions of it are forgotten.    *)
LEMMA ForgetsBecomes ==
  ASSUME NEW F, TypedFibers(F), NEW f \in Fibers, NEW r, r = F[f], NEW s, NEW G, G = Forgets(F, f, s)
  PROVE  Becomes(F, G, f, r.ops, r.pending \ {s}, r.unwinding, r.unwinds \ {s}, r.holds, r.stack)
  <1>1. r \in FiberType /\ r.ops <= MaxOps[f]
    BY DEF TypedFibers
  <1>2. PICK p, u : p = r.pending \ {s} /\ u = r.unwinds \ {s}
    OBVIOUS
  <1>3. PICK x : x = [r EXCEPT !.pending = p, !.unwinds = u]
    OBVIOUS
  <1>4. p \in SUBSET (Scopes \cup {None}) /\ u \in SUBSET Scopes
    BY <1>1, <1>2 DEF FiberType
  <1>5. x \in FiberType /\ Fields(r, x, r.ops, p, r.unwinding, u, r.holds, r.stack)
    BY <1>1, <1>3, <1>4 DEF FiberType, Fields
  <1>6. G = Upd(F, f, x)
    <2> HIDE DEF FiberType
    <2>1. F \in [Fibers -> FiberType]
      BY DEF TypedFibers
    <2> QED
      BY <1>2, <1>3, <2>1 DEF Forgets, Upd
  <1>7. Becomes(F, G, f, r.ops, p, r.unwinding, u, r.holds, r.stack)
    BY <1>1, <1>5, <1>6, FieldsBecome
  <1> QED
    BY <1>2, <1>7

(* The record of a scope whose body ended.                                 *)
BodyEndedTo(X, f, s, o, Y) ==
  /\ Y \in [Scopes -> ScopeType] /\ \A t \in Scopes \ {s} : Y[t] = X[t]
  /\ Y[s].bodyDone /\ Y[s].closed /\ Y[s].out = o
  /\ Y[s].ended = (X[s].children = {}) /\ Y[s].children = X[s].children /\ Y[s].fiber = X[s].fiber
  /\ Y[s].closer = IF X[s].children # {} THEN ClosingNo(f, s) ELSE 0
  /\ ScopesOf(Y)

LEMMA BodyEnds ==
  ASSUME Inv, NEW f \in Fibers, NEW s \in Scopes, NEW o \in Outcomes, scope[s].closer = 0,
         scope[s].fiber = f, scope' = BodyEnded(f, s, o)
  PROVE  BodyEndedTo(scope, f, s, o, scope')
  <1>1. scope \in [Scopes -> ScopeType] /\ ScopesOf(scope)
    BY DEF Inv, Typed, Nested
  <1>2. PICK y, a, e, c, z :
          /\ y = scope[s] /\ a = FirstFailure(s, o) /\ e = (scope[s].children = {})
          /\ c = (IF scope[s].children # {} THEN ClosingNo(f, s) ELSE 0)
          /\ z = (IF scope[s].children = {} THEN Return(s, o) ELSE scope[s].ret)
    OBVIOUS
  <1>3. PICK x : x = [y EXCEPT !.bodyDone = TRUE, !.closed = TRUE, !.first = a, !.out = o,
                               !.closer = c, !.ended = e, !.ret = z]
    OBVIOUS
  <1>4. scope' = SetScope(scope, s, x)
    BY <1>2, <1>3 DEF BodyEnded, SetScope
  <1>5. y \in ScopeType /\ a \in Outcomes \cup {NotYet} /\ e \in BOOLEAN
    BY <1>1, <1>2, Returns
  <1>6. c \in Nat
    BY <1>2, ConstantsAssumption DEF ClosingNo, Scopes
  <1>7. z \in Outcomes \cup {NotYet}
    BY <1>1, <1>2, <1>5, Returns DEF ScopeType
  <1>8. /\ x \in ScopeType /\ x.bodyDone /\ x.closed /\ x.out = o /\ x.ended = e
        /\ x.children = y.children /\ x.fiber = y.fiber /\ x.closer = c
    BY <1>3, <1>5, <1>6, <1>7 DEF ScopeType
  <1>9. scope' \in [Scopes -> ScopeType] /\ scope'[s] = x /\ \A t \in Scopes \ {s} : scope'[t] = scope[t]
    BY <1>1, <1>4, <1>8, ScopeUpdated
  <1>10. ScopesOf(scope')
    <2>1. f # None
      BY ConstantsAssumption DEF Fibers, None
    <2>2. \A t \in Scopes : scope'[t].fiber = scope[t].fiber
      BY <1>2, <1>8, <1>9
    <2>3. \A t \in Scopes : t # s => scope'[t] = scope[t]
      BY <1>9
    <2> QED
      BY <1>1, <1>8, <1>9, <2>1, <2>2, <2>3 DEF ScopesOf
  <1> QED
    BY <1>2, <1>8, <1>9, <1>10 DEF BodyEndedTo

(* The innermost construct is the body of a scope.                         *)
LEMMA BodyFacts ==
  ASSUME Inv, ~over, NEW f \in Fibers, cur = f, fib[f].stack # <<>>,
         Last(fib[f].stack).kind = "scope", NEW s, s = Last(fib[f].stack).s
  PROVE  /\ s \in Scopes /\ scope[s].fiber = f /\ ~scope[s].ended /\ ~scope[s].bodyDone
         /\ scope[s].closer = 0
  <1>1. PICK a, st : a = fib[f].stack /\ st = Front(a)
    OBVIOUS
  <1>2. a \in Seq(Frames) /\ FramesIn(f, a, scope)
    BY <1>1, StackFacts
  <1>3. FrameEnds(f, a, st, scope)
    BY <1>1, <1>2, FramesFront
  <1>4. s \in Scopes /\ scope[s].fiber = f /\ ~scope[s].ended /\ ~scope[s].bodyDone
    BY <1>1, <1>3 DEF FrameEnds, FrameOf, OfScope
  <1> QED
    BY <1>4, RunningFacts

LEMMA EndBodyEmptyInv ==
  ASSUME Inv, NEW f \in Fibers, NEW o \in Outcomes, EndBody(f, o), scope[Top(f).s].children = {}
  PROVE  Inv'
  <1>1. PICK s : s = Top(f).s
    OBVIOUS
  <1>2. /\ ~over /\ cur = f /\ fib[f].stack # <<>> /\ Last(fib[f].stack).kind = "scope"
        /\ Last(fib[f].stack).s = s
    BY <1>1 DEF EndBody, Passing, InFrame, Top
  <1>3. scope[s].children = {}
    BY <1>1
  <1>4. /\ scope' = BodyEnded(f, s, o) /\ queue' = queue \o Throws({}, None, None)
        /\ calls' = Aborted(Dropped({}, None, None))
        /\ fib' = Popped(Forgets(Interrupted({}, None, None), f, s), f)
        /\ flow' \in Goes(f, Return(s, o))
        /\ UNCHANGED <<cur, waits, over, pauses, later, deferred, unwound, reported>>
    BY <1>1, <1>3 DEF EndBody
  <1>5. queue' = queue /\ calls' = calls /\ fib' = Popped(Forgets(fib, f, s), f)
    BY <1>4, NoneInterrupted
  <1>6. Stayed
    BY <1>4, <1>5 DEF Stayed
  <1>7. s \in Scopes /\ scope[s].fiber = f /\ ~scope[s].ended /\ ~scope[s].bodyDone /\ scope[s].closer = 0
    BY <1>2, BodyFacts
  <1>8. BodyEndedTo(scope, f, s, o, scope')
    BY <1>4, <1>7, BodyEnds
  <1>9. PICK r, st, h, F, p, u :
          /\ r = fib[f] /\ st = Front(r.stack) /\ h = Cardinality(Holding(st))
          /\ F = Forgets(fib, f, s) /\ p = r.pending \ {s} /\ u = r.unwinds \ {s}
    OBVIOUS
  <1>10. TypedFibers(fib)
    BY DEF Inv, Typed
  <1>11. Becomes(fib, F, f, r.ops, p, r.unwinding, u, r.holds, r.stack)
    BY <1>9, <1>10, ForgetsBecomes
  <1>12. st \in Seq(Frames) /\ h = r.holds
    <2>1. PoppedTo(fib, f, st, Popped(fib, f))
      BY <1>2, <1>9, Pops
    <2> QED
      BY <1>2, <1>9, <2>1 DEF PoppedTo
  <1>13. fib' = SetStack(F, f, st)
    <2>1. F[f].stack = r.stack
      BY <1>11 DEF Becomes, Fields
    <2> QED
      BY <1>5, <1>9, <2>1 DEF Popped, SetStack
  <1>14. Becomes(fib, fib', f, r.ops, p, r.unwinding, u, r.holds, st)
    BY <1>11, <1>12, <1>13, BecomesStack
  <1>15. Becomes(fib, fib', f, fib[f].ops, p, r.unwinding, u, h, st)
    BY <1>9, <1>12, <1>14
  <1>16. (p \cup u) \ {None} \subseteq Asked(fib[f]) /\ s \notin p \cup u
    BY <1>9 DEF Asked
  <1>17. scope' \in [Scopes -> ScopeType] /\ ScopesOf(scope') /\ SameScopes(scope, scope')
    BY <1>3, <1>7, <1>8 DEF BodyEndedTo, SameScopes
  <1>18. scope'[s].ended /\ scope'[s].fiber = f /\ \A t \in Scopes \ {s} : scope'[t] = scope[t]
    BY <1>3, <1>7, <1>8 DEF BodyEndedTo
  <1>19. flow' \in Outcomes \cup {"run"}
    <2>1. Return(s, o) \in Outcomes
      BY <1>7, Returns DEF Inv, Typed
    <2> QED
      BY <1>4, <2>1, GoesOutcomes
  <1>20. /\ Last(fib[f].stack).kind = "scope" => Last(fib[f].stack).s \notin p \cup u
         /\ OfScope(Last(fib[f].stack)) =>
              /\ \A t \in Scopes \ {Last(fib[f].stack).s} : scope'[t] = scope[t]
              /\ scope'[Last(fib[f].stack).s].ended /\ scope'[Last(fib[f].stack).s].fiber = f
         /\ ~OfScope(Last(fib[f].stack)) => scope' = scope
    BY <1>2, <1>16, <1>18 DEF OfScope
  <1>21. st = Front(fib[f].stack) /\ h = Cardinality(Holding(st)) /\ deferred' = deferred
    BY <1>4, <1>9
  <1> QED
    BY <1>2, <1>5, <1>6, <1>15, <1>16, <1>17, <1>19, <1>20, <1>21, LeavesInv

Releases(F, G, D) ==
  \A g \in Fibers :
    /\ G[g].wait = IF g \in D THEN NoWait ELSE F[g].wait
    /\ G[g].stack = F[g].stack /\ G[g].holds = F[g].holds /\ G[g].ops = F[g].ops
    /\ G[g].watchers = F[g].watchers /\ G[g].born = F[g].born
    /\ G[g].scope = F[g].scope /\ G[g].result = F[g].result
SameCalls(k, K) == \A c \in K : \E b \in k : c.f = b.f /\ c.no = b.no
(* A cell is emptied only when all who wait for it are among D.            *)
CellsFor(d, e, F, D) ==
  \A x \in Deferreds :
    \/ e[x].waiters = d[x].waiters /\ e[x].full = d[x].full
    \/ /\ e[x].waiters = <<>>
       /\ \A g \in Fibers : F[g].wait.on = "deferred" /\ F[g].wait.of = x => g \in D

(* The fibers of D leave the waits w, and the tasks ts go to the queue q.  *)
Taking(F, q, w, D, ts, r, v, u, U) ==
  /\ D \subseteq WaitingIn(F) /\ (\A g \in D : F[g].wait.on # "closing")
  /\ Continue(ts, D) /\ r = q \o ts /\ v = Without(w, D)
  /\ (u => U) /\ \A i \in 1..Len(ts) : ts[i].kind = "throw" => F[ts[i].f].holds = 0 \/ U

LEMMA DropsScheduled ==
  ASSUME NEW c, NEW q \in Seq(Tasks), NEW w \in Seq(Fibers), NEW l \in SUBSET Tasks,
         NEW k \in SUBSET CallType, NEW K \in SUBSET CallType,
         NEW F \in [Fibers -> FiberType], NEW G \in [Fibers -> FiberType],
         NEW X \in [Scopes -> ScopeType], NEW Y \in [Scopes -> ScopeType],
         NEW d \in [Deferreds -> CellType], NEW e \in [Deferreds -> CellType], NEW u, NEW U,
         Scheduled(c, q, w, l, k, F, X, d, u), NEW D,
         Releases(F, G, D), SameScopes(X, Y), CellsFor(d, e, F, D), SameCalls(k, K), Awake(G),
         NEW ts, NEW r, NEW v, Taking(F, q, w, D, ts, r, v, u, U)
  PROVE  Scheduled(c, r, v, l, K, G, Y, e, U) /\ r \in Seq(Tasks) /\ v \in Seq(Fibers)
  <1> USE DEF Taking
  <1>1. \A g \in Fibers : F[g].ops \in Nat /\ G[g].ops \in Nat /\ F[g].ops <= G[g].ops
    <2>1. \A g \in Fibers : F[g].ops \in Nat /\ G[g].ops = F[g].ops
      BY DEF FiberType, Releases
    <2> QED
      BY <2>1
  <1>2. LiveIn(G) = LiveIn(F) /\ WaitingIn(G) = WaitingIn(F) \ D
    BY DEF LiveIn, WaitingIn, Releases, NoWait
  <1>3. /\ Placed(c, r, v, LiveIn(F)) /\ Elems(v) = Elems(w) \ D
        /\ r \in Seq(Tasks) /\ v \in Seq(Fibers)
    <2>1. PICK L : L = LiveIn(F)
      OBVIOUS
    <2>2. Placed(c, q, w, L) /\ Move(q, w, D, ts, r, v)
      BY <2>1 DEF Scheduled, Move
    <2>3. Moved(c, w, L, D, r, v)
      BY <2>2, PlacedMove
    <2> QED
      BY <2>1, <2>3 DEF Moved
  <1>4. Placed(c, r, v, LiveIn(G)) /\ Elems(v) = WaitingIn(G)
    BY <1>2, <1>3 DEF Scheduled
  <1>5. JoinedTo(Tasks, q, ts, r)
    BY Joined DEF Continue
  <1>6. \A i \in 1..Len(r) : \/ i \in 1..Len(q) /\ r[i] = q[i]
                             \/ i - Len(q) \in 1..Len(ts) /\ r[i] = ts[i - Len(q)]
    <2> SUFFICES ASSUME NEW i \in 1..Len(r), ~(i \in 1..Len(q))
                 PROVE  i - Len(q) \in 1..Len(ts) /\ r[i] = ts[i - Len(q)]
      BY <1>5 DEF JoinedTo
    <2>1. i - Len(q) \in 1..Len(ts) /\ Len(q) + (i - Len(q)) = i
      BY <1>5 DEF JoinedTo
    <2> QED
      BY <1>5, <2>1 DEF JoinedTo
  <1>7. Numbered(G, e, r, l, K)
    <2>1. ASSUME NEW g \in Fibers PROVE NumbersWait(g, G[g].wait, G[g].ops)
      <3>1. NumbersWait(g, F[g].wait, F[g].ops)
        BY DEF Scheduled, Numbered
      <3>2. CASE g \in D
        <4>1. G[g].wait = NoWait
          BY <3>2 DEF Releases
        <4> QED
          BY <4>1 DEF NumbersWait, NoWait
      <3>3. CASE g \notin D
        BY <3>1, <3>3 DEF Releases
      <3> QED
        BY <3>2, <3>3
    <2>2. ASSUME NEW g \in Fibers PROVE Numbers(G, G[g].watchers)
      <3>1. Numbers(F, F[g].watchers) /\ F[g].watchers \in Seq(Wakes) /\ G[g].watchers = F[g].watchers
        BY DEF Scheduled, Numbered, FiberType, Releases
      <3> QED
        BY <1>1, <3>1, NumbersKept
    <2>3. ASSUME NEW x \in Deferreds PROVE Numbers(G, e[x].waiters)
      <3>1. CASE e[x].waiters = d[x].waiters
        <4>1. Numbers(F, d[x].waiters) /\ d[x].waiters \in Seq(Wakes)
          BY DEF Scheduled, Numbered, CellType
        <4> QED
          BY <1>1, <3>1, <4>1, NumbersKept
      <3>2. CASE e[x].waiters = <<>>
        BY <3>2 DEF Numbers
      <3> QED
        BY <3>1, <3>2 DEF CellsFor
    <2>4. ASSUME NEW i \in 1..Len(r), r[i].kind = "go" PROVE r[i].no \in 1..G[r[i].f].ops
      <3>1. i \in 1..Len(q) /\ r[i] = q[i]
        BY <1>6, <2>4 DEF Continue
      <3>2. q[i].f \in Fibers
        BY <3>1, ElementOfSeq, LenProperties DEF Tasks
      <3>3. q[i].no \in 1..F[q[i].f].ops
        BY <2>4, <3>1 DEF Scheduled, Numbered
      <3> QED
        BY <3>1, <3>2, <3>3 DEF Releases
    <2>5. ASSUME NEW t \in l PROVE t.kind = "go" /\ t.no \in 1..G[t.f].ops
      <3>1. t.f \in Fibers
        BY DEF Tasks
      <3> QED
        BY <3>1 DEF Scheduled, Numbered, Releases
    <2>6. ASSUME NEW x \in K PROVE x.no \in 1..G[x.f].ops
      <3>1. PICK y \in k : x.f = y.f /\ x.no = y.no
        BY DEF SameCalls
      <3>2. y.f \in Fibers
        BY DEF CallType
      <3>3. y.no \in 1..F[y.f].ops
        BY DEF Scheduled, Numbered
      <3>4. G[y.f].ops = F[y.f].ops
        BY <3>2 DEF Releases
      <3> QED
        BY <3>1, <3>3, <3>4
    <2> QED
      BY <2>1, <2>2, <2>3, <2>4, <2>5, <2>6 DEF Numbered
  <1>8. Closing(G, Y)
    <2>1. ASSUME NEW g \in Fibers PROVE ClosingOf(G[g], Y)
      <3>1. ClosingOf(F[g], X) /\ G[g].stack = F[g].stack
        BY DEF Scheduled, Closing, Releases
      <3>2. \A s \in Scopes : Y[s].children = X[s].children /\ Y[s].closer = X[s].closer
        BY DEF SameScopes
      <3>3. CASE g \notin D
        <4>1. G[g].wait = F[g].wait
          BY <3>3 DEF Releases
        <4> QED
          BY <3>1, <3>2, <4>1 DEF ClosingOf, ClosingTop
      <3>4. CASE g \in D
        <4>1. G[g].wait = NoWait /\ F[g].wait # NoWait /\ F[g].wait.on # "closing"
          BY <3>4 DEF Releases, WaitingIn, NoWait
        <4>2. ~ClosingTop(F[g])
          BY <3>1, <4>1 DEF ClosingOf
        <4> QED
          BY <3>1, <4>1, <4>2 DEF ClosingOf, ClosingTop, NoWait
      <3> QED
        BY <3>3, <3>4
    <2>2. ASSUME NEW s \in Scopes PROVE CloserOf(G, Y[s], s)
      <3>1. CloserOf(F, X[s], s) /\ Y[s].closer = X[s].closer /\ (X[s].closer # 0 => Y[s].fiber = X[s].fiber)
        BY DEF Scheduled, Closing, SameScopes
      <3>2. ASSUME X[s].closer # 0
            PROVE  G[X[s].fiber].wait = F[X[s].fiber].wait
        <4>1. X[s].fiber \in Fibers /\ F[X[s].fiber].wait.on = "closing"
          BY <3>1, <3>2 DEF CloserOf
        <4> QED
          BY <4>1 DEF Releases
      <3> QED
        BY <3>1, <3>2 DEF CloserOf
    <2> QED
      BY <2>1, <2>2 DEF Closing
  <1>9. Children(G, Y)
    <2>1. Children(F, X)
      BY DEF Scheduled
    <2>2. \A s \in Scopes : Y[s].children = X[s].children
      BY DEF SameScopes
    <2>3. \A g \in Fibers : G[g].born = F[g].born /\ G[g].scope = F[g].scope /\ G[g].result = F[g].result
      BY DEF Releases
    <2> QED
      BY <2>1, <2>2, <2>3, ZenonT(30) DEF Children
  <1>10. Queued(G, r, U)
    <2>1. ASSUME NEW i \in 1..Len(r)
          PROVE  /\ r[i].kind = "begin" => r[i].f # Main /\ G[r[i].f].stack = <<>>
                 /\ r[i].kind = "throw" => G[r[i].f].holds = 0 \/ U
      <3>1. r[i].f \in Fibers
        <4>1. r[i] \in Tasks
          BY <1>3, ElementOfSeq, LenProperties
        <4> QED
          BY <4>1 DEF Tasks
      <3>2. G[r[i].f].stack = F[r[i].f].stack /\ G[r[i].f].holds = F[r[i].f].holds
        BY <3>1 DEF Releases
      <3>3. CASE i \in 1..Len(q) /\ r[i] = q[i]
        BY <3>2, <3>3 DEF Scheduled, Queued
      <3>4. CASE i - Len(q) \in 1..Len(ts) /\ r[i] = ts[i - Len(q)]
        BY <3>2, <3>4 DEF Continue
      <3> QED
        BY <1>6, <3>3, <3>4
    <2> QED
      BY ONLY <2>1 DEF Queued
  <1>11. WakesWaiting(G, e, r, l)
    <2>1. ASSUME NEW g \in Fibers PROVE WakesOf(g, G[g].wait, G, e, r, l)
      <3>1. CASE g \in D
        BY <3>1 DEF WakesOf, Releases, NoWait
      <3>2. CASE g \notin D
        <4>1. PICK x : x = F[g].wait
          OBVIOUS
        <4>2. G[g].wait = x /\ WakesOf(g, x, F, d, q, l)
          BY <3>2, <4>1 DEF Releases, Scheduled, WakesWaiting
        <4>3. x.on = "fiber" => x.of \in LiveIn(G) /\ Registered(G[x.of].watchers, g, x.no)
          BY <1>2, <4>2 DEF WakesOf, Releases, LiveIn
        <4>4. x.on = "deferred" => x.of \in Deferreds /\ ~e[x.of].full /\ Registered(e[x.of].waiters, g, x.no)
          BY <3>2, <4>1, <4>2 DEF WakesOf, CellsFor
        <4>5. x.on = "pause" => Yields(r, l, g, x.no)
          <5>1. \A i \in 1..Len(q) : i \in 1..Len(r) /\ r[i] = q[i]
            BY <1>5 DEF JoinedTo
          <5>2. Yields(q, l, g, x.no) => Yields(r, l, g, x.no)
            BY <5>1 DEF Yields
          <5> QED
            BY <4>2, <5>2 DEF WakesOf
        <4> QED
          BY <4>2, <4>3, <4>4, <4>5 DEF WakesOf
      <3> QED
        BY <3>1, <3>2
    <2> QED
      BY <2>1 DEF WakesWaiting
  <1> QED
    BY <1>3, <1>4, <1>7, <1>8, <1>9, <1>10, <1>11 DEF Scheduled

(* A fiber in a closing scope holds interruptions off.                     *)
LEMMA ClosingHolds ==
  ASSUME Typed, Nested(fib, scope), NEW f \in Fibers, fib[f].holds = 0
  PROVE  ~ClosingTop(fib[f])
  <1> SUFFICES ASSUME ClosingTop(fib[f]) PROVE FALSE
    OBVIOUS
  <1>1. PICK st : st = fib[f].stack
    OBVIOUS
  <1>2. st \in Seq(Frames) /\ Cardinality(Holding(st)) = 0 /\ st # <<>> /\ Last(st).kind = "closing"
    BY <1>1 DEF Typed, TypedFibers, FiberType, Nested, Held, ClosingTop
  <1>3. Len(st) \in 1..Len(st) /\ Last(st) = st[Len(st)]
    BY <1>2, LenProperties, EmptySeq DEF Last
  <1>4. Len(st) \in Holding(st)
    BY <1>2, <1>3 DEF Holding
  <1>5. IsFiniteSet(Holding(st))
    BY <1>2, HoldingFinite
  <1>6. Holding(st) = {}
    BY <1>2, <1>5, FS_EmptySet
  <1> QED
    BY <1>4, <1>6

(* The tasks that throw the interruption into the dropped waits.           *)
LEMMA ThrowsDropped ==
  ASSUME NEW S \in SUBSET Fibers, NEW b, NEW s, b \notin S, NEW D, D = Dropped(S, b, s),
         NEW ts, ts = Throws(S, b, s)
  PROVE  Continue(ts, D) /\ \A i \in 1..Len(ts) : ts[i].kind = "throw"
  <1>1. PICK A, B : A = {f \in S : Drops(f, None)} /\ B = {f \in {b} \cap Fibers : Drops(f, s)}
    OBVIOUS
  <1>2. A \in SUBSET Fibers /\ B \in SUBSET Fibers /\ A \cap B = {} /\ D = A \cup B
    BY <1>1 DEF Dropped
  <1>3. PICK x, y : x = ThrowTasks(InForkOrder(A)) /\ y = ThrowTasks(InForkOrder(B))
    OBVIOUS
  <1>4. Continue(x, A) /\ \A i \in 1..Len(x) : x[i].kind = "throw"
    BY <1>2, <1>3, ThrowsInOrder
  <1>5. Continue(y, B) /\ \A i \in 1..Len(y) : y[i].kind = "throw"
    BY <1>2, <1>3, ThrowsInOrder
  <1>6. ts = x \o y
    BY <1>1, <1>3 DEF Throws
  <1>7. Continue(ts, A \cup B)
    BY <1>2, <1>4, <1>5, <1>6, ContinueBoth
  <1>8. JoinedTo(Tasks, x, y, ts)
    BY <1>4, <1>5, <1>6, Joined DEF Continue
  <1>9. ASSUME NEW i \in 1..Len(ts) PROVE ts[i].kind = "throw"
    <2>1. CASE i \in 1..Len(x)
      BY <1>4, <1>8, <2>1 DEF JoinedTo
    <2>2. CASE i \notin 1..Len(x)
      <3>1. i - Len(x) \in 1..Len(y) /\ Len(x) + (i - Len(x)) = i
        BY <1>8, <2>2 DEF JoinedTo
      <3> QED
        BY <1>5, <1>8, <3>1 DEF JoinedTo
    <2> QED
      BY <2>1, <2>2
  <1> QED
    BY <1>2, <1>7, <1>9

LEMMA AbortedCalls ==
  ASSUME calls \subseteq CallType, NEW D, NEW K, K = Aborted(D)
  PROVE  K \in SUBSET CallType /\ SameCalls(calls, K)
  <1>1. ASSUME NEW x \in K PROVE x \in CallType /\ \E y \in calls : x.f = y.f /\ x.no = y.no
    <2>1. PICK y \in calls : x = IF y.f \in D /\ fib[y.f].wait.no = y.no THEN [y EXCEPT !.aborted = TRUE] ELSE y
      BY DEF Aborted
    <2>2. y \in CallType
      OBVIOUS
    <2>3. CASE x = y
      BY <2>2, <2>3
    <2>4. CASE x = [y EXCEPT !.aborted = TRUE]
      <3>1. x \in CallType /\ x.f = y.f /\ x.no = y.no
        BY <2>2, <2>4 DEF CallType
      <3> QED
        BY <3>1
    <2> QED
      BY <2>1, <2>3, <2>4
  <1> QED
    BY <1>1 DEF SameCalls

(* The fibers of S, and b, are interrupted.                                *)
Base(c, q) ==
  /\ Typed /\ Nested(fib, scope) /\ q \in Seq(Tasks)
  /\ Scheduled(c, q, waits, later, calls, fib, scope, deferred, unwound)
Aims(S, b, s) ==
  /\ S \in SUBSET Fibers /\ s \in Scopes \cup {None} /\ b \notin S
  /\ b \in Fibers => InScope(fib[b].stack, s)
InterruptKeeps(c, q, w, k, G) ==
  /\ TypedFibers(G) /\ Nested(G, scope)
  /\ q \in Seq(Tasks) /\ w \in Seq(Fibers) /\ k \in SUBSET CallType
  /\ Scheduled(c, q, w, later, k, G, scope, deferred, unwound)

LEMMA InterruptsKept ==
  ASSUME NEW c, NEW q, Base(c, q), NEW S, NEW b, NEW s, Aims(S, b, s),
         NEW D, D = Dropped(S, b, s), NEW G, G = Interrupted(S, b, s),
         NEW r, r = q \o Throws(S, b, s), NEW v, v = Without(waits, D), NEW K, K = Aborted(D)
  PROVE  InterruptKeeps(c, r, v, K, G) /\ InterruptedTo(S, b, s, D, G)
  <1>1. PICK ts : ts = Throws(S, b, s)
    OBVIOUS
  <1>2. /\ TypedFibers(fib) /\ scope \in [Scopes -> ScopeType] /\ deferred \in [Deferreds -> CellType]
        /\ q \in Seq(Tasks) /\ waits \in Seq(Fibers) /\ later \in SUBSET Tasks
        /\ calls \in SUBSET CallType /\ fib \in [Fibers -> FiberType]
        /\ Typed /\ Nested(fib, scope) /\ ScopesOf(scope)
        /\ Scheduled(c, q, waits, later, calls, fib, scope, deferred, unwound)
    BY DEF Base, Typed, TypedScheduler, TypedFibers, Nested
  <1>3. S \in SUBSET Fibers /\ s \in Scopes \cup {None} /\ b \notin S
    BY DEF Aims
  <1>4. InterruptedTo(S, b, s, D, G)
    BY <1>2, <1>3, InterruptedFields
  <1>5. TypedFibers(G) /\ G \in [Fibers -> FiberType]
    BY <1>4 DEF InterruptedTo, TypedFibers
  <1>6. Continue(ts, D) /\ \A i \in 1..Len(ts) : ts[i].kind = "throw"
    BY <1>1, <1>3, ThrowsDropped
  <1>7. K \in SUBSET CallType /\ SameCalls(calls, K)
    BY <1>2, AbortedCalls
  <1>8. Releases(fib, G, D)
    BY <1>4 DEF InterruptedTo, Releases
  <1>9. ASSUME NEW g \in D PROVE g \in Fibers /\ fib[g].holds = 0 /\ fib[g].wait.no # 0 /\ fib[g].wait.on # "closing"
    <2>1. g \in Fibers /\ fib[g].holds = 0 /\ fib[g].wait.no # 0
      BY <1>3 DEF Dropped, Drops, Waiting
    <2>2. ClosingOf(fib[g], scope)
      BY <1>2, <2>1 DEF Scheduled, Closing
    <2>3. ~ClosingTop(fib[g])
      BY <1>2, <2>1, ClosingHolds
    <2> QED
      BY <2>1, <2>2, <2>3 DEF ClosingOf
  <1>10. D \subseteq WaitingIn(fib) /\ \A g \in D : fib[g].wait.on # "closing"
    BY <1>9 DEF WaitingIn
  <1>11. Awake(G)
    <2> SUFFICES ASSUME NEW g \in Fibers, G[g].wait.no # 0 PROVE ~Interrupts(G[g])
      BY DEF Awake
    <2>1. g \notin D /\ fib[g].wait.no # 0
      BY <1>4 DEF InterruptedTo, NoWait
    <2>2. ~Interrupts(fib[g])
      BY <1>2, <2>1 DEF Scheduled, Awake
    <2>3. fib[g].holds = 0 => Pending(g, S, b, s) = fib[g].pending
      BY <2>1 DEF Dropped, Drops, Waiting, Pending
    <2> QED
      BY <1>4, <2>2, <2>3 DEF InterruptedTo, Interrupts
  <1>12. SameScopes(scope, scope) /\ CellsFor(deferred, deferred, fib, D) /\ SameNest(scope, scope)
    BY DEF SameScopes, CellsFor, SameNest
  <1>13. \A i \in 1..Len(ts) : ts[i].kind = "throw" => fib[ts[i].f].holds = 0 \/ unwound
    BY <1>6, <1>9 DEF Continue
  <1>14. Scheduled(c, r, v, later, K, G, scope, deferred, unwound) /\ r \in Seq(Tasks) /\ v \in Seq(Fibers)
    <2>1. Taking(fib, q, waits, D, ts, r, v, unwound, unwound)
      BY <1>1, <1>6, <1>10, <1>13 DEF Taking
    <2> QED
      BY ONLY <1>2, <1>5, <1>7, <1>8, <1>11, <1>12, <2>1, DropsScheduled, ZenonT(30)
  <1>15. Nested(G, scope)
    <2>1. SameStacks(fib, G)
      BY <1>4 DEF InterruptedTo, SameStacks
    <2>2. ASSUME NEW g \in Fibers, NEW t \in Asked(G[g])
          PROVE  t \in Asked(fib[g]) \/ InScope(fib[g].stack, t)
      <3>1. t \in Asked(fib[g]) \/ (g = b /\ t = s)
        BY <1>4 DEF InterruptedTo, Pending, Asked
      <3> QED
        BY <3>1 DEF Aims
    <2> QED
      BY <1>2, <1>5, <1>12, <2>1, <2>2, NestedKept
  <1> QED
    BY <1>4, <1>5, <1>7, <1>14, <1>15 DEF InterruptKeeps

-----------------------------------------------------------------------------
(* The running fiber suspends.                                             *)

(* f calls an operation and waits as x says; y is what wakes it.           *)
WaitsFor(F, G, f, x, y) ==
  \A g \in Fibers :
    /\ G[g].ops = IF g = f THEN F[g].ops + 1 ELSE F[g].ops
    /\ G[g].wait = IF g = f THEN x ELSE F[g].wait
    /\ G[g].watchers = F[g].watchers \/ G[g].watchers = Append(F[g].watchers, y)
    /\ G[g].stack = F[g].stack /\ G[g].holds = F[g].holds /\ G[g].pending = F[g].pending
    /\ G[g].unwinding = F[g].unwinding /\ G[g].unwinds = F[g].unwinds
    /\ G[g].born = F[g].born /\ G[g].scope = F[g].scope /\ G[g].result = F[g].result
CellsWith(d, e, y) ==
  \A x \in Deferreds :
    /\ e[x].full = d[x].full
    /\ e[x].waiters = d[x].waiters \/ e[x].waiters = Append(d[x].waiters, y)
TasksWith(q, r, l, m, t) ==
  (r = q \/ r = Append(q, t)) /\ l \subseteq m /\ m \subseteq l \cup {t}
WaitIs(f, n, x, y) ==
  /\ x.no = n /\ x.on \in {"pause", "host", "fiber", "deferred"}
  /\ y \in Wakes /\ y.f = f /\ y.no = n

LEMMA NumbersAppended ==
  ASSUME NEW F, NEW G, NEW f \in Fibers, NEW ws \in Seq(Wakes), Numbers(F, ws), NEW y \in Wakes,
         \A g \in Fibers : F[g].ops \in Nat /\ G[g].ops \in Nat /\ F[g].ops <= G[g].ops,
         G[f].ops = F[f].ops + 1, y.f = f, y.no = F[f].ops + 1, NEW v, v = Append(ws, y)
  PROVE  Numbers(G, v)
  <1>1. AppendedTo(Wakes, ws, y, v)
    BY Appended
  <1>2. Numbers(G, ws)
    BY NumbersKept
  <1>3. \A i \in 1..Len(v) : (i \in 1..Len(ws) /\ v[i] = ws[i]) \/ (i = Len(ws) + 1 /\ v[i] = y)
    BY <1>1 DEF AppendedTo
  <1>4. ASSUME NEW i \in 1..Len(v) PROVE v[i].no \in 1..G[v[i].f].ops
    <2>1. CASE i \in 1..Len(ws) /\ v[i] = ws[i]
      BY <1>2, <2>1 DEF Numbers
    <2>2. CASE v[i] = y
      BY <2>2
    <2> QED
      BY <1>3, <2>1, <2>2
  <1>5. \A i \in 1..Len(ws) : ~(ws[i].f = y.f /\ ws[i].no = y.no)
    BY DEF Numbers
  <1>6. ASSUME NEW i \in 1..Len(v), NEW j \in 1..Len(v), v[i].f = v[j].f, v[i].no = v[j].no
        PROVE  i = j
    BY <1>2, <1>3, <1>5, <1>6 DEF Numbers
  <1> QED
    BY <1>4, <1>6 DEF Numbers

LEMMA RegisteredAppended ==
  ASSUME NEW ws \in Seq(Wakes), NEW y \in Wakes, NEW v, v = Append(ws, y)
  PROVE  Registered(v, y.f, y.no) /\ \A f, n : Registered(ws, f, n) => Registered(v, f, n)
  <1>1. AppendedTo(Wakes, ws, y, v)
    BY Appended
  <1>2. Len(ws) + 1 \in 1..Len(v) /\ v[Len(ws) + 1] = y /\ \A i \in 1..Len(ws) : i \in 1..Len(v) /\ v[i] = ws[i]
    BY <1>1 DEF AppendedTo
  <1> QED
    BY <1>2 DEF Registered

(* f suspends: G, e, r, m, K and v are the fibers, the deferreds, the       *)
(* queue, the yields, the host calls and the waits after it.               *)
Rests(F, G, f, n, x, y, d, e, q, r, l, m, k, K, w, v) ==
  /\ n = F[f].ops + 1 /\ WaitIs(f, n, x, y) /\ WaitsFor(F, G, f, x, y) /\ CellsWith(d, e, y)
  /\ TasksWith(q, r, l, m, Task("go", f, n, "run"))
  /\ \A c \in K : c \in k \/ (c.f = f /\ c.no = n)
  /\ ~ClosingTop(F[f]) /\ ~Interrupts(F[f]) /\ WakesOf(f, x, G, e, r, m) /\ v = Append(w, f)
RestScheduled(G, X, e, u, r, m, K, v) ==
  /\ Scheduled(None, r, v, m, K, G, X, e, u) /\ r \in Seq(Tasks) /\ v \in Seq(Fibers)
  /\ m \in SUBSET Tasks

LEMMA WaitsScheduled ==
  ASSUME NEW f \in Fibers, NEW q \in Seq(Tasks), NEW w \in Seq(Fibers), NEW l \in SUBSET Tasks,
         NEW k \in SUBSET CallType, NEW K \in SUBSET CallType,
         NEW F \in [Fibers -> FiberType], NEW G \in [Fibers -> FiberType],
         NEW X \in [Scopes -> ScopeType],
         NEW d \in [Deferreds -> CellType], NEW e \in [Deferreds -> CellType], NEW u,
         Scheduled(f, q, w, l, k, F, X, d, u),
         NEW n, NEW x, NEW y, NEW r, NEW m, NEW v,
         Rests(F, G, f, n, x, y, d, e, q, r, l, m, k, K, w, v)
  PROVE  RestScheduled(G, X, e, u, r, m, K, v)
  <1> PICK t : t = Task("go", f, n, "run")
    OBVIOUS
  <1>a. n = F[f].ops + 1 /\ WaitIs(f, n, x, y)
    BY DEF Rests
  <1>b. WaitsFor(F, G, f, x, y) /\ CellsWith(d, e, y) /\ TasksWith(q, r, l, m, t)
    BY DEF Rests
  <1>c. \A c \in K : c \in k \/ (c.f = f /\ c.no = n)
    BY DEF Rests
  <1>d. ~ClosingTop(F[f]) /\ ~Interrupts(F[f]) /\ WakesOf(f, x, G, e, r, m) /\ v = Append(w, f)
    BY DEF Rests
  <1> USE <1>a, <1>b, <1>c, <1>d
  <1>1. F[f].ops \in Nat /\ n \in Nat /\ n # 0
    BY SMTT(30) DEF FiberType
  <1>2. t \in Tasks /\ t.kind = "go" /\ t.f = f /\ t.no = n /\ ~Own(t)
    BY <1>1 DEF Task, Tasks, Own
  <1>3. \A g \in Fibers : F[g].ops \in Nat /\ G[g].ops \in Nat /\ F[g].ops <= G[g].ops
    <2>1. \A g \in Fibers : F[g].ops \in Nat /\ (G[g].ops = F[g].ops \/ G[g].ops = F[g].ops + 1)
      BY DEF FiberType, WaitsFor
    <2> QED
      BY <2>1
  <1>4. G[f].ops = n /\ G[f].wait = x
    BY DEF WaitsFor
  <1>5. LiveIn(G) = LiveIn(F) /\ WaitingIn(G) = WaitingIn(F) \cup {f}
    BY <1>1 DEF LiveIn, WaitingIn, WaitsFor, WaitIs
  <1>6. m \in SUBSET Tasks
    BY <1>2 DEF TasksWith
  <1>7. r \in Seq(Tasks) /\ \A i \in 1..Len(r) : (i \in 1..Len(q) /\ r[i] = q[i]) \/ r[i] = t
    <2>1. CASE r = q
      BY <2>1
    <2>2. CASE r = Append(q, t)
      <3>1. AppendedTo(Tasks, q, t, r)
        BY <1>2, <2>2, Appended
      <3> QED
        BY <3>1 DEF AppendedTo
    <2> QED
      BY <2>1, <2>2 DEF TasksWith
  <1>8. \A i \in 1..Len(q) : i \in 1..Len(r) /\ r[i] = q[i]
    <2>1. CASE r = Append(q, t)
      <3>1. AppendedTo(Tasks, q, t, r)
        BY <1>2, <2>1, Appended
      <3> QED
        BY <3>1 DEF AppendedTo
    <2> QED
      BY <2>1 DEF TasksWith
  <1>9. Placed(None, r, v, LiveIn(G)) /\ Elems(v) = WaitingIn(G) /\ v \in Seq(Fibers)
    <2>1. PICK L : L = LiveIn(F)
      OBVIOUS
    <2>2. Placed(f, q, w, L) /\ Elems(w) = WaitingIn(F)
      BY <2>1 DEF Scheduled
    <2>3. Placed(f, r, w, L)
      <3>1. CASE r = Append(q, t)
        BY <1>2, <2>2, <3>1, PlacedAdd
      <3> QED
        BY <2>2, <3>1 DEF TasksWith
    <2>4. Placed(None, r, v, L) /\ Elems(v) = Elems(w) \cup {f} /\ v \in Seq(Fibers)
      BY <1>7, <2>3, PlacedWait
    <2> QED
      BY <1>5, <2>1, <2>2, <2>4
  <1>10. \A ws \in Seq(Wakes) : Numbers(F, ws) => Numbers(G, ws) /\ Numbers(G, Append(ws, y))
    <2> SUFFICES ASSUME NEW ws \in Seq(Wakes), Numbers(F, ws)
                 PROVE  Numbers(G, ws) /\ Numbers(G, Append(ws, y))
      OBVIOUS
    <2>1. Numbers(G, ws)
      BY <1>3, NumbersKept
    <2>2. y \in Wakes /\ y.f = f /\ y.no = F[f].ops + 1 /\ G[f].ops = F[f].ops + 1
      BY <1>4 DEF WaitIs
    <2>3. PICK z : z = Append(ws, y)
      OBVIOUS
    <2>4. Numbers(G, z)
      BY <1>3, <2>2, <2>3, NumbersAppended
    <2> QED
      BY <2>1, <2>3, <2>4
  <1>11. Numbered(G, e, r, m, K)
    <2>1. ASSUME NEW g \in Fibers PROVE NumbersWait(g, G[g].wait, G[g].ops)
      <3>1. CASE g = f
        BY <1>1, <1>4, <3>1 DEF NumbersWait, WaitIs
      <3>2. CASE g # f
        <4>1. NumbersWait(g, F[g].wait, F[g].ops) /\ G[g].wait = F[g].wait /\ G[g].ops = F[g].ops
          BY <3>2 DEF Scheduled, Numbered, WaitsFor
        <4> QED
          BY <4>1
      <3> QED
        BY <3>1, <3>2
    <2>2. ASSUME NEW g \in Fibers PROVE Numbers(G, G[g].watchers)
      <3>1. Numbers(F, F[g].watchers) /\ F[g].watchers \in Seq(Wakes)
        BY DEF Scheduled, Numbered, FiberType
      <3>2. G[g].watchers = F[g].watchers \/ G[g].watchers = Append(F[g].watchers, y)
        BY DEF WaitsFor
      <3> QED
        BY <1>10, <3>1, <3>2
    <2>3. ASSUME NEW c \in Deferreds PROVE Numbers(G, e[c].waiters)
      <3>1. Numbers(F, d[c].waiters) /\ d[c].waiters \in Seq(Wakes)
        BY DEF Scheduled, Numbered, CellType
      <3>2. e[c].waiters = d[c].waiters \/ e[c].waiters = Append(d[c].waiters, y)
        BY DEF CellsWith
      <3> QED
        BY <1>10, <3>1, <3>2
    <2>4. ASSUME NEW i \in 1..Len(r), r[i].kind = "go" PROVE r[i].no \in 1..G[r[i].f].ops
      <3>1. CASE r[i] = t
        BY <1>1, <1>2, <1>4, <3>1
      <3>2. CASE i \in 1..Len(q) /\ r[i] = q[i]
        <4>1. q[i].f \in Fibers
          BY <3>2, ElementOfSeq, LenProperties DEF Tasks
        <4>2. q[i].no \in 1..F[q[i].f].ops
          BY <2>4, <3>2 DEF Scheduled, Numbered
        <4> QED
          BY <1>3, <3>2, <4>1, <4>2
      <3> QED
        BY <1>7, <3>1, <3>2
    <2>5. ASSUME NEW z \in m PROVE z.kind = "go" /\ z.no \in 1..G[z.f].ops
      <3>1. CASE z = t
        BY <1>1, <1>2, <1>4, <3>1
      <3>2. CASE z \in l
        <4>1. z.f \in Fibers
          BY <3>2 DEF Tasks
        <4>2. z.kind = "go" /\ z.no \in 1..F[z.f].ops
          BY <3>2 DEF Scheduled, Numbered
        <4> QED
          BY <1>3, <4>1, <4>2
      <3> QED
        BY <3>1, <3>2 DEF TasksWith
    <2>6. ASSUME NEW c \in K PROVE c.no \in 1..G[c.f].ops
      <3>1. CASE c \in k
        <4>1. c.f \in Fibers
          BY <3>1 DEF CallType
        <4>2. c.no \in 1..F[c.f].ops
          BY <3>1 DEF Scheduled, Numbered
        <4> QED
          BY <1>3, <4>1, <4>2
      <3>2. CASE c.f = f /\ c.no = n
        BY <1>1, <1>4, <3>2
      <3> QED
        BY <3>1, <3>2
    <2> QED
      BY <2>1, <2>2, <2>3, <2>4, <2>5, <2>6 DEF Numbered
  <1>12. Closing(G, X)
    <2>0. F[f].wait.on # "closing" /\ x.on # "closing"
      BY DEF Scheduled, Closing, ClosingOf, WaitIs
    <2>1. ASSUME NEW g \in Fibers PROVE ClosingOf(G[g], X)
      <3>1. ClosingOf(F[g], X) /\ G[g].stack = F[g].stack
        BY DEF Scheduled, Closing, WaitsFor
      <3>2. CASE g # f
        <4>1. G[g].wait = F[g].wait
          BY <3>2 DEF WaitsFor
        <4> QED
          BY <3>1, <4>1 DEF ClosingOf, ClosingTop
      <3>3. CASE g = f
        BY <1>4, <2>0, <3>1, <3>3 DEF ClosingOf, ClosingTop
      <3> QED
        BY <3>2, <3>3
    <2>2. ASSUME NEW s \in Scopes PROVE CloserOf(G, X[s], s)
      <3>1. CloserOf(F, X[s], s)
        BY DEF Scheduled, Closing
      <3>2. ASSUME X[s].closer # 0 PROVE X[s].fiber \in Fibers /\ G[X[s].fiber].wait = F[X[s].fiber].wait
        <4>1. X[s].fiber \in Fibers /\ F[X[s].fiber].wait.on = "closing"
          BY <3>1, <3>2 DEF CloserOf
        <4> QED
          BY <2>0, <4>1 DEF WaitsFor
      <3> QED
        BY <3>1, <3>2 DEF CloserOf
    <2> QED
      BY <2>1, <2>2 DEF Closing
  <1>13. Children(G, X)
    <2>1. Children(F, X)
      BY DEF Scheduled
    <2>2. \A g \in Fibers : G[g].born = F[g].born /\ G[g].scope = F[g].scope /\ G[g].result = F[g].result
      BY DEF WaitsFor
    <2> QED
      BY <2>1, <2>2 DEF Children
  <1>14. Queued(G, r, u)
    <2>1. ASSUME NEW i \in 1..Len(r)
          PROVE  /\ r[i].kind = "begin" => r[i].f # Main /\ G[r[i].f].stack = <<>>
                 /\ r[i].kind = "throw" => G[r[i].f].holds = 0 \/ u
      <3>1. r[i] \in Tasks
        BY <1>7, ElementOfSeq, LenProperties
      <3>2. r[i].f \in Fibers
        BY <3>1 DEF Tasks
      <3>3. G[r[i].f].stack = F[r[i].f].stack /\ G[r[i].f].holds = F[r[i].f].holds
        BY <3>2 DEF WaitsFor
      <3>4. CASE i \in 1..Len(q) /\ r[i] = q[i]
        BY <3>3, <3>4 DEF Scheduled, Queued
      <3>5. CASE r[i] = t
        BY <1>2, <3>5
      <3> QED
        BY <1>7, <3>4, <3>5
    <2> QED
      BY ONLY <2>1 DEF Queued
  <1>15. Awake(G)
    <2>1. \A g \in Fibers : Interrupts(G[g]) = Interrupts(F[g])
      BY DEF WaitsFor, Interrupts
    <2>2. \A g \in Fibers : g # f => G[g].wait = F[g].wait
      BY DEF WaitsFor
    <2>3. Awake(F)
      BY DEF Scheduled
    <2> QED
      BY <2>1, <2>2, <2>3 DEF Awake
  <1>16. WakesWaiting(G, e, r, m)
    <2>1. ASSUME NEW g \in Fibers PROVE WakesOf(g, G[g].wait, G, e, r, m)
      <3>1. CASE g = f
        BY <1>4, <3>1
      <3>2. CASE g # f
        <4>1. PICK a : a = F[g].wait
          OBVIOUS
        <4>2. G[g].wait = a /\ WakesOf(g, a, F, d, q, l)
          BY <3>2, <4>1 DEF WaitsFor, Scheduled, WakesWaiting
        <4>3. y \in Wakes
          BY DEF WaitIs
        <4>4. ASSUME a.on = "fiber" PROVE a.of \in LiveIn(G) /\ Registered(G[a.of].watchers, g, a.no)
          <5>1. a.of \in LiveIn(G) /\ a.of \in Fibers /\ Registered(F[a.of].watchers, g, a.no)
            BY <1>5, <4>2, <4>4 DEF WakesOf, LiveIn
          <5>2. F[a.of].watchers \in Seq(Wakes)
            BY <5>1 DEF FiberType
          <5>3. G[a.of].watchers = F[a.of].watchers \/ G[a.of].watchers = Append(F[a.of].watchers, y)
            BY <5>1 DEF WaitsFor
          <5>4. PICK A, B : A = F[a.of].watchers /\ B = G[a.of].watchers
            OBVIOUS
          <5>5. Registered(A, g, a.no) => Registered(B, g, a.no)
            <6>1. CASE B = Append(A, y)
              BY ONLY <4>3, <5>2, <5>4, <6>1, RegisteredAppended
            <6> QED
              BY <5>3, <5>4, <6>1
          <5> QED
            BY <5>1, <5>4, <5>5
        <4>5. ASSUME a.on = "deferred"
              PROVE  a.of \in Deferreds /\ ~e[a.of].full /\ Registered(e[a.of].waiters, g, a.no)
          <5>1. a.of \in Deferreds /\ ~d[a.of].full /\ Registered(d[a.of].waiters, g, a.no)
            BY <4>2, <4>5 DEF WakesOf
          <5>2. d[a.of].waiters \in Seq(Wakes)
            BY <5>1 DEF CellType
          <5>3. /\ e[a.of].full = d[a.of].full
                /\ e[a.of].waiters = d[a.of].waiters \/ e[a.of].waiters = Append(d[a.of].waiters, y)
            BY <5>1 DEF CellsWith
          <5>4. PICK A, B : A = d[a.of].waiters /\ B = e[a.of].waiters
            OBVIOUS
          <5>5. Registered(A, g, a.no) => Registered(B, g, a.no)
            <6>1. CASE B = Append(A, y)
              BY ONLY <4>3, <5>2, <5>4, <6>1, RegisteredAppended
            <6> QED
              BY <5>3, <5>4, <6>1
          <5> QED
            BY <5>1, <5>3, <5>4, <5>5
        <4>6. Yields(q, l, g, a.no) => Yields(r, m, g, a.no)
          BY <1>8 DEF Yields, TasksWith
        <4> QED
          BY <4>2, <4>4, <4>5, <4>6 DEF WakesOf
      <3> QED
        BY <3>1, <3>2
    <2> QED
      BY <2>1 DEF WakesWaiting
  <1> QED
    BY <1>6, <1>7, <1>9, <1>11, <1>12, <1>13, <1>14, <1>15, <1>16 DEF Scheduled, RestScheduled

LEMMA SuspendedFields ==
  ASSUME NEW F, TypedFibers(F), NEW f \in Fibers, F[f].ops < MaxOps[f], NEW n \in Nat, NEW on \in WaitKinds,
         NEW of \in Nat, NEW x, x = [no |-> n, on |-> on, of |-> of],
         NEW G, G = Suspended(Called(F, f), f, n, on, of)
  PROVE  /\ TypedFibers(G) /\ \A y : WaitsFor(F, G, f, x, y)
         /\ \A g \in Fibers : G[g].watchers = F[g].watchers
  <1>1. PICK r, H : r = F[f] /\ H = Called(F, f)
    OBVIOUS
  <1>2. Becomes(F, H, f, r.ops + 1, r.pending, r.unwinding, r.unwinds, r.holds, r.stack)
    BY <1>1, CalledBecomes
  <1>3. PICK a : a = H[f]
    OBVIOUS
  <1>4. PICK b : b = [a EXCEPT !.wait = x]
    OBVIOUS
  <1>5. TypedFibers(H) /\ a \in FiberType /\ a.ops <= MaxOps[f]
    BY <1>2, <1>3 DEF Becomes, TypedFibers
  <1>6. /\ b \in FiberType /\ b.wait = x /\ b.ops = a.ops /\ b.watchers = a.watchers
        /\ b.stack = a.stack /\ b.holds = a.holds /\ b.pending = a.pending
        /\ b.unwinding = a.unwinding /\ b.unwinds = a.unwinds
        /\ b.born = a.born /\ b.scope = a.scope /\ b.result = a.result
    <2>1. x \in [no : Nat, on : WaitKinds, of : Nat]
      OBVIOUS
    <2> QED
      BY <1>4, <1>5, <2>1 DEF FiberType
  <1>7. G = Upd(H, f, b)
    BY <1>1, <1>3, <1>4 DEF Suspended, Upd
  <1>8. TypedFibers(G) /\ G[f] = b /\ \A g \in Fibers \ {f} : G[g] = H[g]
    BY <1>5, <1>6, <1>7, FiberUpdated
  <1>9. (\A y : WaitsFor(F, G, f, x, y)) /\ \A g \in Fibers : G[g].watchers = F[g].watchers
    <2>1. \A g \in Fibers \ {f} : G[g] = F[g]
      BY <1>2, <1>8 DEF Becomes
    <2>2. Fields(r, a, r.ops + 1, r.pending, r.unwinding, r.unwinds, r.holds, r.stack)
      BY <1>1, <1>2, <1>3 DEF Becomes
    <2>3. ASSUME NEW g \in Fibers
          PROVE  /\ G[g].ops = IF g = f THEN F[g].ops + 1 ELSE F[g].ops
                 /\ G[g].wait = IF g = f THEN x ELSE F[g].wait
                 /\ G[g].watchers = F[g].watchers
                 /\ G[g].stack = F[g].stack /\ G[g].holds = F[g].holds /\ G[g].pending = F[g].pending
                 /\ G[g].unwinding = F[g].unwinding /\ G[g].unwinds = F[g].unwinds
                 /\ G[g].born = F[g].born /\ G[g].scope = F[g].scope /\ G[g].result = F[g].result
      <3>1. CASE g = f
        BY <1>1, <1>6, <1>8, <2>2, <3>1 DEF Fields
      <3>2. CASE g # f
        BY <2>1, <3>2
      <3> QED
        BY <3>1, <3>2
    <2> QED
      BY <2>3 DEF WaitsFor
  <1> QED
    BY <1>8, <1>9

LEMMA WatchFields ==
  ASSUME NEW F, TypedFibers(F), NEW f \in Fibers, F[f].ops < MaxOps[f], NEW h \in Fibers,
         NEW verb \in Verbs, NEW n \in Nat, n = NextNo(f),
         NEW x, x = [no |-> n, on |-> "fiber", of |-> h], NEW y, y = Wake(f, n, verb),
         NEW G, G = Watch(F, f, h, verb)
  PROVE  /\ TypedFibers(G) /\ WaitsFor(F, G, f, x, y) /\ y \in Wakes
         /\ Registered(G[h].watchers, f, n)
  <1>1. PICK H : H = Suspended(Called(F, f), f, n, "fiber", h)
    OBVIOUS
  <1>2. "fiber" \in WaitKinds /\ h \in Nat
    BY ConstantsAssumption DEF WaitKinds, Fibers
  <1>3. TypedFibers(H) /\ WaitsFor(F, H, f, x, y) /\ \A g \in Fibers : H[g].watchers = F[g].watchers
    BY <1>1, <1>2, SuspendedFields
  <1>4. y \in Wakes /\ y.f = f /\ y.no = n
    BY DEF Wake, Wakes
  <1>5. PICK a, ws, v : a = H[h] /\ ws = a.watchers /\ v = Append(ws, y)
    OBVIOUS
  <1>6. PICK b : b = [a EXCEPT !.watchers = v]
    OBVIOUS
  <1>7. a \in FiberType /\ a.ops <= MaxOps[h] /\ ws \in Seq(Wakes)
    <2>1. a \in FiberType /\ a.ops <= MaxOps[h]
      BY <1>3, <1>5 DEF TypedFibers
    <2> QED
      BY <1>5, <2>1 DEF FiberType
  <1>8. v \in Seq(Wakes) /\ Registered(v, f, n)
    <2>1. AppendedTo(Wakes, ws, y, v)
      BY <1>4, <1>5, <1>7, Appended
    <2>2. Registered(v, y.f, y.no)
      BY <1>4, <1>5, <1>7, RegisteredAppended
    <2> QED
      BY <1>4, <2>1, <2>2 DEF AppendedTo
  <1>9. /\ b \in FiberType /\ b.wait = a.wait /\ b.ops = a.ops /\ b.watchers = v
        /\ b.stack = a.stack /\ b.holds = a.holds /\ b.pending = a.pending
        /\ b.unwinding = a.unwinding /\ b.unwinds = a.unwinds
        /\ b.born = a.born /\ b.scope = a.scope /\ b.result = a.result
    BY <1>6, <1>7, <1>8 DEF FiberType
  <1>10. G = Upd(H, h, b)
    BY <1>1, <1>5, <1>6 DEF Watch, Upd
  <1>11. TypedFibers(G) /\ G[h] = b /\ \A g \in Fibers \ {h} : G[g] = H[g]
    BY <1>3, <1>7, <1>9, <1>10, FiberUpdated
  <1>12. ws = F[h].watchers
    BY <1>3, <1>5
  <1>13. WaitsFor(F, G, f, x, y)
    <2>1. ASSUME NEW g \in Fibers
          PROVE  /\ G[g].ops = IF g = f THEN F[g].ops + 1 ELSE F[g].ops
                 /\ G[g].wait = IF g = f THEN x ELSE F[g].wait
                 /\ G[g].watchers = F[g].watchers \/ G[g].watchers = Append(F[g].watchers, y)
                 /\ G[g].stack = F[g].stack /\ G[g].holds = F[g].holds /\ G[g].pending = F[g].pending
                 /\ G[g].unwinding = F[g].unwinding /\ G[g].unwinds = F[g].unwinds
                 /\ G[g].born = F[g].born /\ G[g].scope = F[g].scope /\ G[g].result = F[g].result
      <3>1. CASE g = h
        BY <1>3, <1>5, <1>9, <1>11, <1>12, <3>1 DEF WaitsFor
      <3>2. CASE g # h
        BY <1>3, <1>11, <3>2 DEF WaitsFor
      <3> QED
        BY <3>1, <3>2
    <2> QED
      BY ONLY <2>1 DEF WaitsFor
  <1> QED
    BY <1>4, <1>8, <1>9, <1>11, <1>13

(* The state after fiber f suspended.                                      *)
Rested(q, k, w, f, n) ==
  /\ TasksWith(q, queue', later, later', Task("go", f, n, "run"))
  /\ calls' \in SUBSET CallType /\ (\A c \in calls' : c \in k \/ (c.f = f /\ c.no = n))
  /\ waits' = Append(w, f) /\ cur' = None /\ flow' = "run" /\ over' = over /\ scope' = scope
  /\ unwound' = unwound /\ reported' = reported /\ pauses' \in 0..(HostEvery - 1)

LEMMA SuspendsInv ==
  ASSUME Typed, ~over, NEW f \in Fibers, NEW q, NEW w, NEW k, NEW F, InterruptKeeps(f, q, w, k, F),
         NEW n, n = F[f].ops + 1, NEW x, NEW y, WaitIs(f, n, x, y), WaitsFor(F, fib', f, x, y),
         TypedFibers(fib'), CellsWith(deferred, deferred', y), deferred' \in [Deferreds -> CellType],
         Rested(q, k, w, f, n), ~ClosingTop(F[f]), ~Interrupts(F[f]),
         WakesOf(f, x, fib', deferred', queue', later')
  PROVE  Inv'
  <1>1. /\ q \in Seq(Tasks) /\ w \in Seq(Fibers) /\ k \in SUBSET CallType /\ F \in [Fibers -> FiberType]
        /\ Scheduled(f, q, w, later, k, F, scope, deferred, unwound) /\ Nested(F, scope) /\ ScopesOf(scope)
    BY DEF InterruptKeeps, TypedFibers, Nested
  <1>2. /\ later \in SUBSET Tasks /\ scope \in [Scopes -> ScopeType] /\ deferred \in [Deferreds -> CellType]
        /\ fib' \in [Fibers -> FiberType] /\ calls' \in SUBSET CallType
    BY DEF Typed, TypedScheduler, TypedFibers, Rested
  <1>3. PICK t : t = Task("go", f, n, "run")
    OBVIOUS
  <1>4. /\ TasksWith(q, queue', later, later', t) /\ waits' = Append(w, f)
        /\ \A c \in calls' : c \in k \/ (c.f = f /\ c.no = n)
    BY <1>3 DEF Rested
  <1>5. /\ Scheduled(None, queue', waits', later', calls', fib', scope, deferred', unwound)
        /\ queue' \in Seq(Tasks) /\ waits' \in Seq(Fibers) /\ later' \in SUBSET Tasks
    <2>1. Rests(F, fib', f, n, x, y, deferred, deferred', q, queue', later, later', k, calls', w, waits')
      BY <1>3, <1>4 DEF Rests
    <2>2. RestScheduled(fib', scope, deferred', unwound, queue', later', calls', waits')
      BY ONLY <1>1, <1>2, <2>1, f \in Fibers, deferred' \in [Deferreds -> CellType], WaitsScheduled
    <2> QED
      BY <2>2 DEF RestScheduled
  <1>6. Nested(fib', scope)
    <2>1. F[f].born
      <3>1. f \in LiveIn(F)
        <4>1. f # None
          BY ConstantsAssumption DEF Fibers, None
        <4> QED
          BY <1>1, <4>1 DEF Scheduled, Placed
      <3> QED
        BY <3>1 DEF LiveIn
    <2>2. SameStacks(F, fib') /\ SameNest(scope, scope)
      BY <2>1 DEF WaitsFor, SameStacks, SameNest
    <2>3. \A g \in Fibers : \A s \in Asked(fib'[g]) : s \in Asked(F[g]) \/ InScope(F[g].stack, s)
      BY DEF WaitsFor, Asked
    <2> QED
      BY <1>1, <1>2, <2>2, <2>3, NestedKept
  <1>7. Typed'
    BY <1>2, <1>5 DEF Typed, TypedScheduler, Rested
  <1> QED
    BY <1>5, <1>6, <1>7 DEF Inv, Rested

(* The running fiber suspends as it is.                                    *)
LEMMA RequestFacts ==
  ASSUME Inv, NEW f \in Fibers, NEW op, Request(f, op)
  PROVE  /\ Typed /\ ~over /\ cur = f /\ InterruptKeeps(f, queue, waits, calls, fib)
         /\ ~ClosingTop(fib[f]) /\ ~Interrupts(fib[f]) /\ fib[f].ops < MaxOps[f]
         /\ fib[f].ops \in Nat /\ NextNo(f) = fib[f].ops + 1 /\ NextNo(f) \in Nat /\ TypedFibers(fib)
  <1>1. ~over /\ cur = f /\ fib[f].ops < MaxOps[f] /\ ~InFrame(f, "closing") /\ ~Interrupting(f)
    BY DEF Request, CanCall, Running
  <1>2. Scheduled(f, queue, waits, later, calls, fib, scope, deferred, unwound)
    BY <1>1, RunningFacts
  <1>3. InterruptKeeps(f, queue, waits, calls, fib)
    BY <1>2 DEF InterruptKeeps, Inv, Typed, TypedScheduler
  <1>4. ~ClosingTop(fib[f])
    BY <1>1 DEF InFrame, Top, ClosingTop
  <1>5. ~Interrupts(fib[f])
    BY <1>1 DEF Interrupting, Interrupts
  <1>6. fib[f].ops \in Nat
    BY StackFacts
  <1> QED
    BY <1>1, <1>3, <1>4, <1>5, <1>6 DEF NextNo, Inv, Typed

LEMMA AwaitInv ==
  ASSUME Inv, NEW f \in Fibers, NEW op, Await(f, op)
  PROVE  Inv'
  <1>1. PICK n, x, y : n = NextNo(f) /\ x = [no |-> n, on |-> "host", of |-> None] /\ y = Wake(f, n, "get")
    OBVIOUS
  <1>2. /\ Request(f, op) /\ cur' = None /\ flow' = "run" /\ waits' = Append(waits, f)
        /\ fib' = Suspended(Called(fib, f), f, n, "host", None)
        /\ calls' = IF op = "host" THEN calls \cup {HostCall(f)} ELSE calls
        /\ UNCHANGED <<queue, over, pauses, later, scope, deferred, unwound, reported>>
    BY <1>1 DEF Await, Suspends
  <1>3. /\ Typed /\ ~over /\ InterruptKeeps(f, queue, waits, calls, fib)
        /\ ~ClosingTop(fib[f]) /\ ~Interrupts(fib[f]) /\ fib[f].ops < MaxOps[f]
        /\ fib[f].ops \in Nat /\ n = fib[f].ops + 1 /\ n \in Nat /\ TypedFibers(fib)
    BY <1>1, <1>2, RequestFacts
  <1>4. "host" \in WaitKinds /\ None \in Nat
    BY DEF WaitKinds, None
  <1>5. TypedFibers(fib') /\ WaitsFor(fib, fib', f, x, y)
    BY <1>1, <1>2, <1>3, <1>4, SuspendedFields
  <1>6. WaitIs(f, n, x, y)
    BY <1>1, <1>3 DEF WaitIs, Wake, Wakes, Verbs
  <1>7. CellsWith(deferred, deferred', y) /\ deferred' \in [Deferreds -> CellType]
    BY <1>2, <1>3 DEF CellsWith, Typed
  <1>8. HostCall(f) \in CallType /\ HostCall(f).f = f /\ HostCall(f).no = n
    BY <1>1, <1>3 DEF HostCall, CallType
  <1>9. calls' \in SUBSET CallType /\ \A c \in calls' : c \in calls \/ (c.f = f /\ c.no = n)
    <2>1. \A c \in calls' : c \in calls \/ c = HostCall(f)
      BY <1>2
    <2> QED
      BY <1>3, <1>8, <2>1 DEF Typed, TypedScheduler
  <1>10. Rested(queue, calls, waits, f, n)
    BY <1>2, <1>3, <1>9 DEF Rested, TasksWith, Typed, TypedScheduler
  <1>11. WakesOf(f, x, fib', deferred', queue', later')
    BY <1>1 DEF WakesOf
  <1> QED
    BY ONLY f \in Fibers, <1>3, <1>5, <1>6, <1>7, <1>10, <1>11, SuspendsInv

LEMMA PauseInv ==
  ASSUME Inv, NEW f \in Fibers, Pause(f)
  PROVE  Inv'
  <1>1. PICK n, x, y, t : /\ n = NextNo(f) /\ x = [no |-> n, on |-> "pause", of |-> None]
                          /\ y = Wake(f, n, "get") /\ t = Task("go", f, n, "run")
    OBVIOUS
  <1>2. /\ Request(f, "pause") /\ cur' = None /\ flow' = "run" /\ waits' = Append(waits, f)
        /\ fib' = Suspended(Called(fib, f), f, n, "pause", None)
        /\ pauses' = (pauses + 1) % HostEvery
        /\ \/ later' = later \cup {t} /\ queue' = queue
           \/ queue' = Append(queue, t) /\ later' = later
        /\ UNCHANGED <<over, calls, scope, deferred, unwound, reported>>
    BY <1>1 DEF Pause, Suspends
  <1>3. /\ Typed /\ ~over /\ InterruptKeeps(f, queue, waits, calls, fib)
        /\ ~ClosingTop(fib[f]) /\ ~Interrupts(fib[f]) /\ fib[f].ops < MaxOps[f]
        /\ fib[f].ops \in Nat /\ n = fib[f].ops + 1 /\ n \in Nat /\ TypedFibers(fib)
    BY <1>1, <1>2, RequestFacts
  <1>4. "pause" \in WaitKinds /\ None \in Nat
    BY DEF WaitKinds, None
  <1>5. TypedFibers(fib') /\ WaitsFor(fib, fib', f, x, y)
    BY <1>1, <1>2, <1>3, <1>4, SuspendedFields
  <1>6. WaitIs(f, n, x, y)
    BY <1>1, <1>3 DEF WaitIs, Wake, Wakes, Verbs
  <1>7. CellsWith(deferred, deferred', y) /\ deferred' \in [Deferreds -> CellType]
    BY <1>2, <1>3 DEF CellsWith, Typed
  <1>8. pauses' \in 0..(HostEvery - 1)
    <2>1. pauses \in Nat /\ HostEvery \in Nat \ {0}
      BY <1>3, ConstantsAssumption DEF Typed, TypedScheduler
    <2> QED
      BY <1>2, <2>1
  <1>9. Rested(queue, calls, waits, f, n)
    <2>1. TasksWith(queue, queue', later, later', t)
      BY <1>2 DEF TasksWith
    <2>2. calls' \in SUBSET CallType
      BY <1>2, <1>3 DEF Typed, TypedScheduler
    <2> QED
      BY <1>1, <1>2, <1>8, <2>1, <2>2 DEF Rested
  <1>10. WakesOf(f, x, fib', deferred', queue', later')
    <2>1. t.kind = "go" /\ t.f = f /\ t.no = n /\ t \in Tasks
      BY <1>1, <1>3 DEF Task, Tasks
    <2>2. Yields(queue', later', f, n)
      <3>1. CASE later' = later \cup {t}
        BY <2>1, <3>1 DEF Yields
      <3>2. CASE queue' = Append(queue, t)
        <4>1. queue \in Seq(Tasks)
          BY <1>3 DEF Typed, TypedScheduler
        <4>2. AppendedTo(Tasks, queue, t, queue')
          BY <2>1, <3>2, <4>1, Appended
        <4>3. Len(queue) + 1 \in 1..Len(queue') /\ queue'[Len(queue) + 1] = t
          BY <4>2 DEF AppendedTo
        <4> QED
          BY <2>1, <4>3 DEF Yields
      <3> QED
        BY <1>2, <3>1, <3>2
    <2> QED
      BY <1>1, <2>2 DEF WakesOf
  <1> QED
    BY ONLY f \in Fibers, <1>3, <1>5, <1>6, <1>7, <1>9, <1>10, SuspendsInv

(* A fork into a closed scope, and a wait for what has already happened.   *)
LEMMA ForkClosedInv ==
  ASSUME Inv, NEW f \in Fibers, NEW s \in Scopes, ForkClosed(f, s)
  PROVE  Inv'
  <1>1. CanCall(f, "fork") /\ Continues(f, "die") /\ "die" \in Outcomes \cup {"run"}
    BY DEF ForkClosed, Outcomes
  <1> QED
    BY <1>1, ContinuesInv

LEMMA InterruptEndedInv ==
  ASSUME Inv, NEW f \in Fibers, NEW h \in Fibers, InterruptEnded(f, h)
  PROVE  Inv'
  <1>1. PICK o : o = IF scope[fib[h].scope].ended THEN "die" ELSE "run"
    OBVIOUS
  <1>2. CanCall(f, "interrupt") /\ Continues(f, o) /\ o \in Outcomes \cup {"run"}
    BY <1>1 DEF InterruptEnded, Request, Outcomes
  <1> QED
    BY <1>2, ContinuesInv

(* A fiber waits for another one, or for itself.                           *)
LEMMA JoinInv ==
  ASSUME Inv, NEW f \in Fibers, NEW h \in Fibers, NEW verb, Join(f, h, verb)
  PROVE  Inv'
  <1>1. PICK n, x, y : n = NextNo(f) /\ x = [no |-> n, on |-> "fiber", of |-> h] /\ y = Wake(f, n, verb)
    OBVIOUS
  <1>2. Request(f, verb) /\ verb \in Verbs
    BY DEF Join, Verbs
  <1>3. CASE \E o \in Outcomes \cup {"run"} : Continues(f, o)
    BY <1>2, <1>3, ContinuesInv DEF Request
  <1>4. CASE Live(h) /\ fib' = Watch(fib, f, h, verb) /\ Suspends(f)
             /\ UNCHANGED <<queue, over, pauses, later, calls, scope, deferred, unwound, reported>>
    <2>1. /\ Typed /\ ~over /\ InterruptKeeps(f, queue, waits, calls, fib)
          /\ ~ClosingTop(fib[f]) /\ ~Interrupts(fib[f]) /\ fib[f].ops < MaxOps[f]
          /\ fib[f].ops \in Nat /\ n = fib[f].ops + 1 /\ n \in Nat /\ TypedFibers(fib)
      BY <1>1, <1>2, RequestFacts
    <2>2. /\ TypedFibers(fib') /\ WaitsFor(fib, fib', f, x, y) /\ y \in Wakes
          /\ Registered(fib'[h].watchers, f, n)
      BY <1>1, <1>2, <1>4, <2>1, WatchFields
    <2>3. WaitIs(f, n, x, y)
      BY <1>1, <2>2 DEF WaitIs, Wake
    <2>4. CellsWith(deferred, deferred', y) /\ deferred' \in [Deferreds -> CellType]
      BY <1>4, <2>1 DEF CellsWith, Typed
    <2>5. Rested(queue, calls, waits, f, n)
      BY <1>4, <2>1 DEF Rested, TasksWith, Typed, TypedScheduler, Suspends
    <2>6. WakesOf(f, x, fib', deferred', queue', later')
      <3>1. h \in LiveIn(fib')
        BY <1>4, <2>2 DEF WaitsFor, Live, LiveIn
      <3> QED
        BY <1>1, <2>2, <3>1 DEF WakesOf
    <2> QED
      BY ONLY f \in Fibers, <2>1, <2>2, <2>3, <2>4, <2>5, <2>6, SuspendsInv
  <1>5. fib[h].result \in Outcomes \cup {NotYet}
    BY StackFacts DEF FiberType
  <1>6. "die" \in Outcomes \cup {"run"} /\ Settled(verb, fib[h].result) \in Outcomes \cup {"run"}
    BY DEF Outcomes, Settled
  <1> QED
    BY <1>3, <1>4, <1>6 DEF Join

(* A fiber waits for a deferred.                                           *)
LEMMA AwaitDeferredInv ==
  ASSUME Inv, NEW f \in Fibers, NEW d \in Deferreds, AwaitDeferred(f, d)
  PROVE  Inv'
  <1>1. PICK n, x, y : n = NextNo(f) /\ x = [no |-> n, on |-> "deferred", of |-> d] /\ y = Wake(f, n, "get")
    OBVIOUS
  <1>2. Request(f, "get")
    BY DEF AwaitDeferred
  <1>3. CASE \E o \in Outcomes \cup {"run"} : Continues(f, o)
    BY <1>2, <1>3, ContinuesInv DEF Request
  <1>4. CASE /\ ~deferred[d].full
             /\ deferred' = [deferred EXCEPT ![d].waiters = Append(@, Wake(f, NextNo(f), "get"))]
             /\ fib' = Suspended(Called(fib, f), f, NextNo(f), "deferred", d)
             /\ Suspends(f)
             /\ UNCHANGED <<queue, over, pauses, later, calls, scope, unwound, reported>>
    <2>1. /\ Typed /\ ~over /\ InterruptKeeps(f, queue, waits, calls, fib)
          /\ ~ClosingTop(fib[f]) /\ ~Interrupts(fib[f]) /\ fib[f].ops < MaxOps[f]
          /\ fib[f].ops \in Nat /\ n = fib[f].ops + 1 /\ n \in Nat /\ TypedFibers(fib)
      BY <1>1, <1>2, RequestFacts
    <2>2. "deferred" \in WaitKinds /\ d \in Nat
      BY ConstantsAssumption DEF WaitKinds, Deferreds
    <2>3. TypedFibers(fib') /\ WaitsFor(fib, fib', f, x, y)
      BY <1>1, <1>4, <2>1, <2>2, SuspendedFields
    <2>4. WaitIs(f, n, x, y)
      BY <1>1, <2>1 DEF WaitIs, Wake, Wakes, Verbs
    <2>5. PICK a, ws, v : a = deferred[d] /\ ws = a.waiters /\ v = Append(ws, y)
      OBVIOUS
    <2>6. deferred \in [Deferreds -> CellType] /\ a \in CellType /\ ws \in Seq(Wakes) /\ y \in Wakes
      BY <2>1, <2>4, <2>5 DEF Typed, CellType, WaitIs
    <2>7. v \in Seq(Wakes) /\ Registered(v, f, n)
      <3>1. AppendedTo(Wakes, ws, y, v)
        BY <2>5, <2>6, Appended
      <3>2. Registered(v, y.f, y.no)
        BY <2>5, <2>6, RegisteredAppended
      <3> QED
        BY <2>4, <3>1, <3>2 DEF AppendedTo, WaitIs
    <2>8. PICK b : b = [a EXCEPT !.waiters = v]
      OBVIOUS
    <2>9. b \in CellType /\ b.waiters = v /\ b.full = a.full
      BY <2>6, <2>7, <2>8 DEF CellType
    <2>10. deferred' = [deferred EXCEPT ![d] = b]
      BY <1>1, <1>4, <2>5, <2>8
    <2>11. deferred' \in [Deferreds -> CellType] /\ deferred'[d] = b /\ \A e \in Deferreds \ {d} : deferred'[e] = deferred[e]
      <3> HIDE DEF CellType
      <3> QED
        BY <2>6, <2>9, <2>10
    <2>12. CellsWith(deferred, deferred', y)
      BY <2>5, <2>9, <2>11 DEF CellsWith
    <2>13. Rested(queue, calls, waits, f, n)
      BY <1>4, <2>1 DEF Rested, TasksWith, Typed, TypedScheduler, Suspends
    <2>14. WakesOf(f, x, fib', deferred', queue', later')
      BY <1>1, <1>4, <2>5, <2>7, <2>9, <2>11 DEF WakesOf
    <2> QED
      BY ONLY f \in Fibers, <2>1, <2>3, <2>4, <2>11, <2>12, <2>13, <2>14, SuspendsInv
  <1>5. "die" \in Outcomes \cup {"run"} /\ "run" \in Outcomes \cup {"run"}
    BY DEF Outcomes
  <1> QED
    BY <1>3, <1>4, <1>5 DEF AwaitDeferred

(* A fiber interrupts another one and waits for it.                        *)
LEMMA InterruptOtherInv ==
  ASSUME Inv, NEW f \in Fibers, NEW h \in Fibers, InterruptOther(f, h)
  PROVE  Inv'
  <1>1. PICK n, x, y, S, D, F, q, w, k :
          /\ n = NextNo(f) /\ x = [no |-> n, on |-> "fiber", of |-> h] /\ y = Wake(f, n, "interrupt")
          /\ S = {h} /\ D = Dropped(S, None, None) /\ F = Interrupted(S, None, None)
          /\ q = queue \o Throws(S, None, None) /\ w = Without(waits, D) /\ k = Aborted(D)
    OBVIOUS
  <1>2. /\ Request(f, "interrupt") /\ h # f /\ Live(h)
        /\ fib' = Watch(F, f, h, "interrupt") /\ queue' = q /\ calls' = k
        /\ cur' = None /\ flow' = "run" /\ waits' = Append(w, f)
        /\ UNCHANGED <<over, pauses, later, scope, deferred, unwound, reported>>
    BY <1>1 DEF InterruptOther
  <1>3. /\ Typed /\ ~over /\ cur = f /\ InterruptKeeps(f, queue, waits, calls, fib)
        /\ ~ClosingTop(fib[f]) /\ ~Interrupts(fib[f]) /\ fib[f].ops < MaxOps[f]
        /\ fib[f].ops \in Nat /\ n = fib[f].ops + 1 /\ n \in Nat /\ TypedFibers(fib)
    BY <1>1, <1>2, RequestFacts
  <1>4. Base(f, queue)
    BY <1>3 DEF Base, InterruptKeeps
  <1>5. None \notin Fibers
    BY ConstantsAssumption DEF Fibers, None
  <1>6. Aims(S, None, None)
    BY <1>1, <1>5 DEF Aims
  <1>7. InterruptKeeps(f, q, w, k, F) /\ InterruptedTo(S, None, None, D, F)
    BY <1>1, <1>4, <1>6, InterruptsKept
  <1>8. Fields(fib[f], F[f], fib[f].ops, fib[f].pending, fib[f].unwinding, fib[f].unwinds,
               fib[f].holds, fib[f].stack)
    <2>1. f \notin D /\ Pending(f, S, None, None) = fib[f].pending
      BY <1>1, <1>2, <1>5 DEF Dropped, Pending
    <2> QED
      BY <1>7, <2>1 DEF InterruptedTo, Fields
  <1>9. F[f].ops < MaxOps[f] /\ n = F[f].ops + 1 /\ ~ClosingTop(F[f]) /\ ~Interrupts(F[f])
    BY <1>3, <1>8 DEF Fields, ClosingTop, Interrupts
  <1>10. TypedFibers(F) /\ "interrupt" \in Verbs
    BY <1>7 DEF InterruptedTo, Verbs
  <1>11. /\ TypedFibers(fib') /\ WaitsFor(F, fib', f, x, y) /\ y \in Wakes
         /\ Registered(fib'[h].watchers, f, n)
    BY <1>1, <1>2, <1>3, <1>9, <1>10, WatchFields
  <1>12. WaitIs(f, n, x, y)
    BY <1>1, <1>11 DEF WaitIs, Wake
  <1>13. CellsWith(deferred, deferred', y) /\ deferred' \in [Deferreds -> CellType]
    BY <1>2, <1>3 DEF CellsWith, Typed
  <1>14. Rested(q, k, w, f, n)
    BY <1>2, <1>3, <1>7 DEF Rested, TasksWith, Typed, TypedScheduler, InterruptKeeps
  <1>15. WakesOf(f, x, fib', deferred', queue', later')
    <2>1. h \in LiveIn(fib')
      BY <1>2, <1>7, <1>11 DEF WaitsFor, Live, LiveIn, InterruptedTo
    <2> QED
      BY <1>1, <1>11, <2>1 DEF WakesOf
  <1> QED
    BY ONLY f \in Fibers, <1>3, <1>7, <1>9, <1>11, <1>12, <1>13, <1>14, <1>15, SuspendsInv

-----------------------------------------------------------------------------
(* The body of a scope ends and its fiber waits for the children.          *)
Shuts(F, G, f, s, X, Y) ==
  /\ \A g \in Fibers : g # f => G[g] = F[g]
  /\ G[f].wait = [no |-> ClosingNo(f, s), on |-> "closing", of |-> s]
  /\ G[f].ops = F[f].ops /\ G[f].watchers = F[f].watchers /\ G[f].born = F[f].born
  /\ G[f].scope = F[f].scope /\ G[f].result = F[f].result
  /\ G[f].holds # 0 /\ ClosingTop(G[f]) /\ Last(G[f].stack).s = s
  /\ X[s].children # {} /\ X[s].closer = 0
  /\ \A t \in Scopes : t # s => Y[t] = X[t]
  /\ Y[s].children = X[s].children /\ Y[s].fiber = f /\ Y[s].closer = ClosingNo(f, s)

LEMMA ShutsScheduled ==
  ASSUME NEW f \in Fibers, NEW q \in Seq(Tasks), NEW w \in Seq(Fibers), NEW l \in SUBSET Tasks,
         NEW k \in SUBSET CallType,
         NEW F \in [Fibers -> FiberType], NEW G \in [Fibers -> FiberType],
         NEW X \in [Scopes -> ScopeType], NEW Y \in [Scopes -> ScopeType],
         NEW d \in [Deferreds -> CellType], NEW u,
         Scheduled(f, q, w, l, k, F, X, d, u), NEW s \in Scopes, Shuts(F, G, f, s, X, Y),
         NEW v, v = Append(w, f)
  PROVE  Scheduled(None, q, v, l, k, G, Y, d, u) /\ v \in Seq(Fibers)
  <1>1. /\ \A g \in Fibers : g # f => G[g] = F[g]
        /\ \A g \in Fibers : /\ G[g].ops = F[g].ops /\ G[g].watchers = F[g].watchers
                             /\ G[g].born = F[g].born /\ G[g].scope = F[g].scope
                             /\ G[g].result = F[g].result
    BY DEF Shuts
  <1>2. \A g \in Fibers : F[g].ops \in Nat /\ G[g].ops \in Nat /\ F[g].ops <= G[g].ops
    <2>1. \A g \in Fibers : F[g].ops \in Nat /\ G[g].ops = F[g].ops
      BY <1>1 DEF FiberType
    <2> QED
      BY <2>1
  <1>3. ClosingNo(f, s) \in Nat \ {0} /\ \A g \in Fibers : \A t \in Scopes : ClosingNo(g, t) \in Nat \ {0}
    BY ConstantsAssumption DEF ClosingNo, Scopes
  <1>4. G[f].wait.no # 0 /\ G[f].wait.no = ClosingNo(f, s) /\ G[f].wait.on = "closing" /\ G[f].wait.of = s
    BY <1>3 DEF Shuts
  <1>5. LiveIn(G) = LiveIn(F) /\ WaitingIn(G) = WaitingIn(F) \cup {f}
    <2>1. LiveIn(G) = LiveIn(F)
      BY <1>1 DEF LiveIn
    <2>2. ASSUME NEW g \in Fibers PROVE g \in WaitingIn(G) <=> g \in WaitingIn(F) \/ g = f
      BY <1>1, <1>4 DEF WaitingIn
    <2> QED
      BY <2>1, <2>2 DEF WaitingIn
  <1>6. F[f].wait.no = 0 /\ f \notin Tasked(q)
    BY DEF Scheduled, Placed, WaitingIn
  <1>7. Placed(None, q, v, LiveIn(G)) /\ Elems(v) = WaitingIn(G) /\ v \in Seq(Fibers)
    <2>1. PICK L : L = LiveIn(F)
      OBVIOUS
    <2>2. Placed(f, q, w, L) /\ Elems(w) = WaitingIn(F)
      BY <2>1 DEF Scheduled
    <2>3. Placed(None, q, v, L) /\ Elems(v) = Elems(w) \cup {f} /\ v \in Seq(Fibers)
      BY <2>2, PlacedWait
    <2> QED
      BY <1>5, <2>1, <2>2, <2>3
  <1>8. Numbered(G, d, q, l, k)
    <2>1. ASSUME NEW g \in Fibers PROVE NumbersWait(g, G[g].wait, G[g].ops)
      <3>1. NumbersWait(g, F[g].wait, F[g].ops)
        BY DEF Scheduled, Numbered
      <3>2. CASE g = f
        BY <1>4, <3>2 DEF NumbersWait
      <3>3. CASE g # f
        BY <1>1, <3>1, <3>3
      <3> QED
        BY <3>2, <3>3
    <2>2. ASSUME NEW g \in Fibers PROVE Numbers(G, G[g].watchers)
      <3>1. Numbers(F, F[g].watchers) /\ F[g].watchers \in Seq(Wakes)
        BY DEF Scheduled, Numbered, FiberType
      <3> QED
        BY <1>1, <1>2, <3>1, NumbersKept
    <2>3. ASSUME NEW c \in Deferreds PROVE Numbers(G, d[c].waiters)
      <3>1. Numbers(F, d[c].waiters) /\ d[c].waiters \in Seq(Wakes)
        BY DEF Scheduled, Numbered, CellType
      <3> QED
        BY <1>2, <3>1, NumbersKept
    <2>4. \A i \in 1..Len(q) : q[i].f \in Fibers
      BY ElementOfSeq, LenProperties DEF Tasks
    <2>5. (\A t \in l : t.f \in Fibers) /\ (\A c \in k : c.f \in Fibers)
      BY DEF Tasks, CallType
    <2>6. ASSUME NEW i \in 1..Len(q), q[i].kind = "go" PROVE q[i].no \in 1..G[q[i].f].ops
      BY <1>1, <2>4, <2>6 DEF Scheduled, Numbered
    <2>7. ASSUME NEW t \in l PROVE t.kind = "go" /\ t.no \in 1..G[t.f].ops
      BY <1>1, <2>5 DEF Scheduled, Numbered
    <2>8. ASSUME NEW c \in k PROVE c.no \in 1..G[c.f].ops
      BY <1>1, <2>5 DEF Scheduled, Numbered
    <2> QED
      BY <2>1, <2>2, <2>3, <2>6, <2>7, <2>8 DEF Numbered
  <1>9. Closing(G, Y)
    <2>1. ASSUME NEW g \in Fibers PROVE ClosingOf(G[g], Y)
      <3>1. CASE g = f
        <4>1. ClosingTop(G[f]) /\ Last(G[f].stack).s = s /\ Y[s].children # {} /\ Y[s].closer = G[f].wait.no
          BY <1>4 DEF Shuts
        <4> QED
          BY <1>4, <3>1, <4>1 DEF ClosingOf
      <3>2. CASE g # f
        <4>1. ClosingOf(F[g], X) /\ G[g] = F[g] /\ NumbersWait(g, F[g].wait, F[g].ops)
          BY <1>1, <3>2 DEF Scheduled, Closing, Numbered
        <4>2. CASE ~ClosingTop(F[g])
          BY <4>1, <4>2 DEF ClosingOf
        <4>3. CASE ClosingTop(F[g])
          <5>1. PICK t : t = Last(F[g].stack).s
            OBVIOUS
          <5>2. t \in Scopes
            BY <4>1, <4>3, <5>1 DEF ClosingOf
          <5>3. t # s
            <6>1. ASSUME t = s PROVE FALSE
              <7>1. F[g].wait.on = "closing" /\ F[g].wait.of = s /\ F[g].wait.no = 0
                BY <4>1, <4>3, <5>1, <6>1 DEF ClosingOf, Shuts
              <7> QED
                BY <1>3, <4>1, <7>1 DEF NumbersWait
            <6> QED
              BY <6>1
          <5>4. Y[t] = X[t]
            BY <5>2, <5>3 DEF Shuts
          <5> QED
            BY <4>1, <4>3, <5>1, <5>4 DEF ClosingOf
        <4> QED
          BY <4>2, <4>3
      <3> QED
        BY <3>1, <3>2
    <2>2. ASSUME NEW t \in Scopes PROVE CloserOf(G, Y[t], t)
      <3>1. CASE t = s
        BY <3>1 DEF CloserOf, Shuts
      <3>2. CASE t # s
        <4>1. CloserOf(F, X[t], t) /\ Y[t] = X[t]
          BY <3>2 DEF Scheduled, Closing, Shuts
        <4>2. X[t].closer # 0 => X[t].fiber # f
          BY <1>6, <4>1 DEF CloserOf
        <4> QED
          BY <1>1, <4>1, <4>2 DEF CloserOf
      <3> QED
        BY <3>1, <3>2
    <2> QED
      BY <2>1, <2>2 DEF Closing
  <1>10. Children(G, Y)
    <2>1. \A t \in Scopes : Y[t].children = X[t].children
      BY DEF Shuts
    <2> QED
      BY <1>1, <2>1 DEF Scheduled, Children
  <1>11. Queued(G, q, u)
    <2>1. \A i \in 1..Len(q) : Own(q[i]) => q[i].f \in Fibers /\ q[i].f # f
      <3>1. \A i \in 1..Len(q) : q[i].f \in Fibers
        BY ElementOfSeq, LenProperties DEF Tasks
      <3> QED
        BY <1>6, <3>1 DEF Tasked
    <2> QED
      BY <1>1, <2>1 DEF Scheduled, Queued, Own
  <1>12. Awake(G)
    <2>1. ASSUME NEW g \in Fibers, G[g].wait.no # 0 PROVE ~Interrupts(G[g])
      <3>1. CASE g = f
        BY <3>1 DEF Shuts, Interrupts
      <3>2. CASE g # f
        BY <1>1, <2>1, <3>2 DEF Scheduled, Awake
      <3> QED
        BY <3>1, <3>2
    <2> QED
      BY <2>1 DEF Awake
  <1>13. WakesWaiting(G, d, q, l)
    <2>1. \A g \in LiveIn(F) : g \in LiveIn(G) /\ G[g].watchers = F[g].watchers
      BY <1>1, <1>5 DEF LiveIn
    <2>2. ASSUME NEW g \in Fibers PROVE WakesOf(g, G[g].wait, G, d, q, l)
      <3>1. CASE g = f
        BY <1>4, <3>1 DEF WakesOf
      <3>2. CASE g # f
        <4>1. WakesOf(g, F[g].wait, F, d, q, l) /\ G[g] = F[g]
          BY <1>1, <3>2 DEF Scheduled, WakesWaiting
        <4>2. WakesOf(g, F[g].wait, G, d, q, l)
          BY <2>1, <4>1 DEF WakesOf
        <4> QED
          BY <4>1, <4>2
      <3> QED
        BY <3>1, <3>2
    <2> QED
      BY <2>2 DEF WakesWaiting
  <1> QED
    BY <1>7, <1>8, <1>9, <1>10, <1>11, <1>12, <1>13 DEF Scheduled

(* The stack of a fiber whose scope s is closing.                          *)
ShutStack(f, s, st, v, h, X) ==
  /\ v \in Seq(Frames) /\ FramesIn(f, v, X) /\ v # <<>> /\ Last(v) = Frame("closing", s, NotYet)
  /\ h \in Nat /\ h = Cardinality(Holding(v)) /\ h # 0
  /\ \A t : InScope(st, t) => InScope(v, t) \/ t = s
  /\ \A t : HasFrame(st, t) => HasFrame(v, t)

LEMMA ShutsStack ==
  ASSUME Inv, ~over, NEW f \in Fibers, cur = f, fib[f].stack # <<>>, Last(fib[f].stack).kind = "scope",
         NEW s, s = Last(fib[f].stack).s, NEW o \in Outcomes, scope[s].children # {},
         BodyEndedTo(scope, f, s, o, scope'),
         NEW a, a = fib[f].stack, NEW v, v = Append(Front(a), Frame("closing", s, NotYet)),
         NEW h, h = fib[f].holds + 1
  PROVE  ShutStack(f, s, a, v, h, scope')
  <1>1. PICK st, x : st = Front(a) /\ x = Frame("closing", s, NotYet)
    OBVIOUS
  <1>2. s \in Scopes /\ scope[s].fiber = f /\ ~scope[s].ended /\ ~scope[s].bodyDone
    BY BodyFacts
  <1>3. /\ a \in Seq(Frames) /\ FramesIn(f, a, scope) /\ fib[f].holds \in Nat
        /\ fib[f].holds = Cardinality(Holding(a))
    BY StackFacts
  <1>4. FrameEnds(f, a, st, scope)
    BY <1>1, <1>3, FramesFront
  <1>5. /\ st \in Seq(Frames) /\ FramesIn(f, st, scope) /\ (\A i \in 1..Len(st) : st[i].kind # "closing")
        /\ (\A t : HasFrame(a, t) => HasFrame(st, t) \/ t = s)
        /\ (\A t : InScope(a, t) => InScope(st, t) \/ t = s)
        /\ (\A i \in 1..Len(st) : OfScope(st[i]) => st[i].s < s)
        /\ Cardinality(Holding(st)) = fib[f].holds
    BY <1>3, <1>4 DEF FrameEnds, OfScope
  <1>6. x \in Frames /\ x.kind = "closing" /\ x.s = s /\ OfScope(x)
    BY <1>1, <1>2, ConstantsAssumption DEF Frame, Frames, OfScope, Scopes
  <1>7. ~HasFrame(st, s)
    <2>1. s \in Nat
      BY <1>2, ConstantsAssumption DEF Scopes
    <2> QED
      BY <1>5, <2>1 DEF HasFrame
  <1>8. FramesIn(f, st, scope')
    <2>1. \A t \in Scopes : HasFrame(st, t) =>
            /\ scope'[t].fiber = scope[t].fiber /\ scope'[t].ended = scope[t].ended
            /\ scope'[t].bodyDone = scope[t].bodyDone
      BY <1>7 DEF BodyEndedTo
    <2> QED
      BY <1>5, <2>1, FramesScope
  <1>9. FrameOf(f, x, scope')
    <2>1. scope'[s].fiber = f /\ ~scope'[s].ended /\ scope'[s].bodyDone
      BY <1>2 DEF BodyEndedTo
    <2> QED
      BY <1>2, <1>6, <2>1 DEF FrameOf
  <1>10. FrameBegins(f, st, x, v, scope')
    BY <1>1, <1>5, <1>6, <1>8, <1>9, FramesAppend
  <1>11. Cardinality(Holding(v)) = fib[f].holds + 1
    BY <1>5, <1>6, <1>10 DEF FrameBegins
  <1>12. ASSUME NEW t, HasFrame(a, t) PROVE HasFrame(v, t)
    BY <1>5, <1>6, <1>10, <1>12 DEF FrameBegins
  <1>13. ASSUME NEW t, InScope(a, t) PROVE InScope(v, t) \/ t = s
    BY <1>5, <1>10, <1>13 DEF FrameBegins
  <1>14. v \in Seq(Frames) /\ FramesIn(f, v, scope') /\ v # <<>> /\ Last(v) = x
    BY <1>10 DEF FrameBegins
  <1> QED
    BY ONLY <1>1, <1>3, <1>11, <1>12, <1>13, <1>14, h = fib[f].holds + 1 DEF ShutStack

(* The fiber itself: G is F with the interruptions of s forgotten, the     *)
(* stack v, h holds and the wait x.                                        *)
ShutTo(F, G, f, s, x, v, h) ==
  /\ TypedFibers(G) /\ \A g \in Fibers : g # f => G[g] = F[g]
  /\ G[f].wait = x /\ G[f].stack = v /\ G[f].holds = h
  /\ G[f].pending = F[f].pending \ {s} /\ G[f].unwinds = F[f].unwinds \ {s}
  /\ G[f].ops = F[f].ops /\ G[f].watchers = F[f].watchers /\ G[f].born = F[f].born
  /\ G[f].scope = F[f].scope /\ G[f].result = F[f].result

LEMMA ShutFields ==
  ASSUME NEW F, TypedFibers(F), NEW f \in Fibers, NEW s \in Scopes, NEW y, NEW v \in Seq(Frames), NEW h \in Nat,
         v = Append(Front(F[f].stack), y), h = F[f].holds + 1,
         NEW x, x = [no |-> ClosingNo(f, s), on |-> "closing", of |-> s],
         NEW G, G = Suspended([Replaced(Forgets(F, f, s), f, y) EXCEPT ![f].holds = @ + 1],
                              f, ClosingNo(f, s), "closing", s)
  PROVE  ShutTo(F, G, f, s, x, v, h)
  <1>1. PICK r, A, B, C : /\ r = F[f] /\ A = Forgets(F, f, s) /\ B = Replaced(A, f, y)
                          /\ C = [B EXCEPT ![f].holds = @ + 1]
    OBVIOUS
  <1>2. Becomes(F, A, f, r.ops, r.pending \ {s}, r.unwinding, r.unwinds \ {s}, r.holds, r.stack)
    BY <1>1, ForgetsBecomes
  <1>3. B = SetStack(A, f, v)
    <2>1. A[f].stack = r.stack
      BY <1>2 DEF Becomes, Fields
    <2> QED
      BY <1>1, <2>1 DEF Replaced, SetStack
  <1>4. Becomes(F, B, f, r.ops, r.pending \ {s}, r.unwinding, r.unwinds \ {s}, r.holds, v)
    BY <1>2, <1>3, BecomesStack
  <1>5. C = SetHolds(B, f, h)
    <2>1. B[f].holds = r.holds
      BY <1>4 DEF Becomes, Fields
    <2> QED
      BY <1>1, <2>1 DEF SetHolds
  <1>6. Becomes(F, C, f, r.ops, r.pending \ {s}, r.unwinding, r.unwinds \ {s}, h, v)
    BY <1>4, <1>5, BecomesHolds
  <1>7. PICK a : a = C[f]
    OBVIOUS
  <1>8. PICK b : b = [a EXCEPT !.wait = x]
    OBVIOUS
  <1>9. TypedFibers(C) /\ a \in FiberType /\ a.ops <= MaxOps[f]
    BY <1>6, <1>7 DEF Becomes, TypedFibers
  <1>10. x \in [no : Nat, on : WaitKinds, of : Nat]
    BY ConstantsAssumption DEF ClosingNo, WaitKinds, Scopes
  <1>11. /\ b \in FiberType /\ b.wait = x /\ b.ops = a.ops /\ b.watchers = a.watchers
         /\ b.stack = a.stack /\ b.holds = a.holds /\ b.pending = a.pending
         /\ b.unwinding = a.unwinding /\ b.unwinds = a.unwinds
         /\ b.born = a.born /\ b.scope = a.scope /\ b.result = a.result
    BY <1>8, <1>9, <1>10 DEF FiberType
  <1>12. G = Upd(C, f, b)
    BY <1>1, <1>7, <1>8 DEF Suspended, Upd
  <1>13. TypedFibers(G) /\ G[f] = b /\ \A g \in Fibers \ {f} : G[g] = C[g]
    <2>1. b \in FiberType /\ b.ops <= MaxOps[f] /\ TypedFibers(C)
      BY <1>9, <1>11
    <2> QED
      BY ONLY f \in Fibers, <2>1, <1>12, FiberUpdated
  <1>14. \A g \in Fibers : g # f => G[g] = F[g]
    BY <1>6, <1>13 DEF Becomes
  <1> QED
    BY <1>1, <1>6, <1>7, <1>11, <1>13, <1>14 DEF Becomes, Fields, ShutTo

(* A fiber is not a child of the scopes it opened.                         *)
LEMMA NotOwnChild ==
  ASSUME Forked(fib, scope), Children(fib, scope), NEW s \in Scopes, NEW f \in Fibers, scope[s].fiber = f
  PROVE  f \notin scope[s].children
  <1> SUFFICES ASSUME f \in scope[s].children PROVE FALSE
    OBVIOUS
  <1>1. fib[f].born /\ fib[f].scope = s
    BY DEF Children
  <1>2. f # Main
    BY <1>1, ConstantsAssumption DEF Forked, Scopes, None
  <1>3. scope[s].fiber \in 1..(f - 1)
    BY <1>1, <1>2 DEF Forked
  <1> QED
    BY <1>3, ConstantsAssumption DEF Fibers

LEMMA EndBodyClosingInv ==
  ASSUME Inv, NEW f \in Fibers, NEW o \in Outcomes, EndBody(f, o), scope[Top(f).s].children # {}
  PROVE  Inv'
  <1>1. PICK s, S : s = Top(f).s /\ S = scope[s].children
    OBVIOUS
  <1>2. PICK D, F, q, w, k, y :
          /\ D = Dropped(S, None, None) /\ F = Interrupted(S, None, None)
          /\ q = queue \o Throws(S, None, None) /\ w = Without(waits, D) /\ k = Aborted(D)
          /\ y = Frame("closing", s, NotYet)
    OBVIOUS
  <1>3. /\ ~over /\ cur = f /\ fib[f].stack # <<>> /\ Last(fib[f].stack).kind = "scope"
        /\ Last(fib[f].stack).s = s
    BY <1>1 DEF EndBody, Passing, InFrame, Top
  <1>4. S # {}
    BY <1>1
  <1>5. /\ scope' = BodyEnded(f, s, o) /\ queue' = q /\ calls' = k /\ waits' = Append(w, f)
        /\ fib' = Suspended([Replaced(Forgets(F, f, s), f, y) EXCEPT ![f].holds = @ + 1],
                            f, ClosingNo(f, s), "closing", s)
        /\ cur' = None /\ flow' = "run"
        /\ UNCHANGED <<over, pauses, later, deferred, unwound, reported>>
    BY <1>1, <1>2, <1>4 DEF EndBody
  <1>6. s \in Scopes /\ scope[s].fiber = f /\ ~scope[s].ended /\ ~scope[s].bodyDone /\ scope[s].closer = 0
    BY <1>3, BodyFacts
  <1>7. BodyEndedTo(scope, f, s, o, scope')
    BY <1>5, <1>6, BodyEnds
  <1>8. /\ Typed /\ Nested(fib, scope) /\ fib[f].born
        /\ Scheduled(f, queue, waits, later, calls, fib, scope, deferred, unwound)
    BY <1>3, RunningFacts DEF Inv
  <1>9. Base(f, queue)
    BY <1>8 DEF Base, Typed, TypedScheduler
  <1>10. None \notin Fibers
    BY ConstantsAssumption DEF Fibers, None
  <1>11. S \in SUBSET Fibers /\ f \notin S
    <2>1. S \in SUBSET Fibers
      BY <1>1, <1>6, <1>8 DEF Typed, ScopeType
    <2> QED
      BY <1>1, <1>6, <1>8, <2>1, NotOwnChild DEF Nested, Scheduled
  <1>12. Aims(S, None, None)
    BY <1>10, <1>11 DEF Aims
  <1>13. InterruptKeeps(f, q, w, k, F) /\ InterruptedTo(S, None, None, D, F)
    BY <1>2, <1>9, <1>12, InterruptsKept
  <1>14. Fields(fib[f], F[f], fib[f].ops, fib[f].pending, fib[f].unwinding, fib[f].unwinds,
                fib[f].holds, fib[f].stack)
    <2>1. f \notin D /\ Pending(f, S, None, None) = fib[f].pending
      BY <1>2, <1>10, <1>11 DEF Dropped, Pending
    <2> QED
      BY <1>13, <2>1 DEF InterruptedTo, Fields
  <1>15. PICK a, v, h, x : /\ a = fib[f].stack /\ v = Append(Front(a), y) /\ h = fib[f].holds + 1
                           /\ x = [no |-> ClosingNo(f, s), on |-> "closing", of |-> s]
    OBVIOUS
  <1>16. ShutStack(f, s, a, v, h, scope')
    BY <1>1, <1>2, <1>3, <1>4, <1>7, <1>15, ShutsStack
  <1>17. v \in Seq(Frames) /\ h \in Nat /\ h # 0
    BY <1>16 DEF ShutStack
  <1>18. TypedFibers(F) /\ v = Append(Front(F[f].stack), y) /\ h = F[f].holds + 1
    BY <1>13, <1>14, <1>15 DEF InterruptedTo, Fields
  <1>19. ShutTo(F, fib', f, s, x, v, h)
    BY <1>5, <1>6, <1>15, <1>17, <1>18, ShutFields
  <1>20. Shuts(F, fib', f, s, scope, scope')
    <2>1. ClosingTop(fib'[f]) /\ Last(fib'[f].stack).s = s
      BY <1>16, <1>19 DEF ClosingTop, ShutTo, ShutStack, Frame
    <2>2. /\ \A t \in Scopes : t # s => scope'[t] = scope[t]
          /\ scope'[s].children = scope[s].children /\ scope'[s].fiber = f
          /\ scope'[s].closer = ClosingNo(f, s)
      BY <1>1, <1>4, <1>6, <1>7 DEF BodyEndedTo
    <2> QED
      BY <1>1, <1>4, <1>6, <1>15, <1>17, <1>19, <2>1, <2>2 DEF Shuts, ShutTo
  <1>21. /\ F \in [Fibers -> FiberType] /\ fib' \in [Fibers -> FiberType]
         /\ scope \in [Scopes -> ScopeType] /\ scope' \in [Scopes -> ScopeType] /\ ScopesOf(scope')
         /\ deferred \in [Deferreds -> CellType] /\ later \in SUBSET Tasks
         /\ q \in Seq(Tasks) /\ w \in Seq(Fibers) /\ k \in SUBSET CallType
    BY <1>7, <1>8, <1>13, <1>19
       DEF Typed, TypedScheduler, TypedFibers, InterruptKeeps, ShutTo, BodyEndedTo
  <1>22. Scheduled(f, q, w, later, k, F, scope, deferred, unwound) /\ Nested(F, scope)
    BY <1>13 DEF InterruptKeeps
  <1>23. Scheduled(None, q, waits', later, k, fib', scope', deferred, unwound) /\ waits' \in Seq(Fibers)
    BY <1>5, <1>6, <1>20, <1>21, <1>22, ShutsScheduled, ZenonT(30)
  <1>24. Nested(fib', scope')
    <2>1. SameElsewhere(F, fib', f)
      BY <1>19 DEF SameElsewhere, ShutTo
    <2>2. SameOutside(scope, scope', f)
      BY <1>6, <1>7 DEF SameOutside, BodyEndedTo
    <2>3. F[f].born
      BY <1>8, <1>14 DEF Fields
    <2>4. FramesIn(f, fib'[f].stack, scope') /\ fib'[f].holds = Cardinality(Holding(fib'[f].stack))
      BY <1>16, <1>19 DEF ShutTo, ShutStack
    <2>5. ASSUME NEW t \in Asked(fib'[f]) PROVE InScope(fib'[f].stack, t)
      <3>1. t # s /\ t \in Asked(fib[f])
        BY <1>14, <1>19 DEF Fields, ShutTo, Asked
      <3>2. InScope(a, t)
        BY <1>15, <3>1, StackFacts
      <3> QED
        BY <1>16, <1>19, <3>1, <3>2 DEF ShutTo, ShutStack
    <2>6. ASSUME NEW t \in Scopes, scope'[t].fiber = f, ~scope'[t].ended PROVE HasFrame(fib'[f].stack, t)
      <3>1. scope[t].fiber = f /\ ~scope[t].ended
        BY <1>6, <1>7, <2>6 DEF BodyEndedTo
      <3>2. f # None
        BY <1>10
      <3>3. HasFrame(a, t)
        BY <1>8, <1>15, <3>1, <3>2 DEF Nested, FramesOf
      <3> QED
        BY <1>16, <1>19, <3>3 DEF ShutTo, ShutStack
    <2> QED
      BY <1>21, <1>22, <2>1, <2>2, <2>3, <2>4, <2>5, <2>6, NestedRuns
  <1>25. Typed'
    <2>1. TypedFibers(fib')
      BY <1>19 DEF ShutTo
    <2> QED
      BY <1>5, <1>8, <1>21, <1>23, <2>1 DEF Typed, TypedScheduler
  <1> QED
    BY <1>3, <1>5, <1>23, <1>24, <1>25 DEF Inv

-----------------------------------------------------------------------------
(* The running fiber has called an operation.                              *)
LEMMA CalledKept ==
  ASSUME Inv, NEW f \in Fibers, NEW op, CanCall(f, op), NEW F, F = Called(fib, f), NEW r, r = fib[f]
  PROVE  /\ InterruptKeeps(f, queue, waits, calls, F) /\ ~over /\ Typed
         /\ Becomes(fib, F, f, r.ops + 1, r.pending, r.unwinding, r.unwinds, r.holds, r.stack)
  <1>1. ~over /\ cur = f /\ fib[f].ops < MaxOps[f]
    BY DEF CanCall, Running
  <1>2. /\ Typed /\ Nested(fib, scope) /\ fib[f].born
        /\ Scheduled(f, queue, waits, later, calls, fib, scope, deferred, unwound)
    BY <1>1, RunningFacts DEF Inv
  <1>3. /\ queue \in Seq(Tasks) /\ waits \in Seq(Fibers) /\ later \in SUBSET Tasks
        /\ calls \in SUBSET CallType /\ fib \in [Fibers -> FiberType] /\ TypedFibers(fib)
        /\ scope \in [Scopes -> ScopeType] /\ deferred \in [Deferreds -> CellType] /\ ScopesOf(scope)
    BY <1>2 DEF Typed, TypedScheduler, TypedFibers, Nested
  <1>4. Becomes(fib, F, f, r.ops + 1, r.pending, r.unwinding, r.unwinds, r.holds, r.stack)
    BY <1>1, <1>3, CalledBecomes
  <1>5. TypedFibers(F) /\ F \in [Fibers -> FiberType]
    BY <1>4 DEF Becomes, TypedFibers
  <1>6. fib[f].ops <= r.ops + 1
    BY <1>3 DEF FiberType
  <1>7. Runs(fib, F, f)
    BY <1>4, <1>6, BecomesRuns
  <1>8. SameScopes(scope, scope) /\ SameCells(deferred, deferred) /\ SameNest(scope, scope)
    BY DEF SameScopes, SameCells, SameNest
  <1>9. Scheduled(f, queue, waits, later, calls, F, scope, deferred, unwound)
    BY <1>2, <1>3, <1>5, <1>7, <1>8, RunsScheduled
  <1>10. Nested(F, scope)
    <2>1. SameStacks(fib, F)
      BY <1>2, <1>4 DEF SameStacks, Becomes, Fields
    <2>2. \A g \in Fibers : \A s \in Asked(F[g]) : s \in Asked(fib[g]) \/ InScope(fib[g].stack, s)
      BY <1>4 DEF Becomes, Fields, Asked
    <2> QED
      BY <1>2, <1>3, <1>5, <1>8, <2>1, <2>2, NestedKept
  <1> QED
    BY <1>1, <1>2, <1>3, <1>4, <1>5, <1>9, <1>10 DEF InterruptKeeps

(* The fiber c is forked into the scope s.                                 *)
Adds(F, G, s, c, X, Y) ==
  /\ ~F[c].born /\ (\A g \in 1..(c - 1) : F[g].born)
  /\ (\A g \in Fibers : g # c => G[g] = F[g]) /\ G[c] = NewFiber(s)
  /\ X[s].fiber # None /\ ~X[s].bodyDone
  /\ \A t \in Scopes : t # s => Y[t] = X[t]
  /\ Y[s].children = X[s].children \cup {c} /\ Y[s].closer = X[s].closer /\ Y[s].fiber = X[s].fiber
  /\ Y[s].ended = X[s].ended /\ Y[s].bodyDone = X[s].bodyDone /\ Y[s].closed = X[s].closed
  /\ Y[s].out = X[s].out

LEMMA AddsNested ==
  ASSUME NEW F \in [Fibers -> FiberType], NEW G \in [Fibers -> FiberType],
         NEW X \in [Scopes -> ScopeType], NEW Y \in [Scopes -> ScopeType],
         Nested(F, X), NEW s \in Scopes, NEW c \in Fibers, Adds(F, G, s, c, X, Y)
  PROVE  Nested(G, Y)
  <1>1. /\ \A g \in Fibers : g # c => G[g] = F[g]
        /\ G[c].born /\ G[c].scope = s /\ G[c].stack = <<>> /\ G[c].holds = 0
        /\ G[c].pending = {} /\ G[c].unwinds = {} /\ G[c].ops = 0 /\ ~F[c].born
    BY DEF Adds, NewFiber
  <1>2. \A t \in Scopes : /\ Y[t].fiber = X[t].fiber /\ Y[t].ended = X[t].ended /\ Y[t].bodyDone = X[t].bodyDone
                          /\ Y[t].closed = X[t].closed /\ Y[t].out = X[t].out
    BY DEF Adds
  <1>3. Main \in Fibers /\ None \notin Fibers /\ c \in Nat /\ \A g \in Fibers : g \in Nat
    BY ConstantsAssumption DEF Main, Fibers, None
  <1>4. X[s].fiber \in 1..(c - 1)
    <2>1. X[s].fiber # None /\ X[s].fiber \in 0..NFibers
      BY DEF Adds, ScopeType
    <2>2. X[s].fiber \in Fibers
      BY <2>1, ConstantsAssumption DEF Fibers, None
    <2>3. F[X[s].fiber].born
      BY <2>1 DEF Nested, Forked
    <2>4. ~(c <= X[s].fiber)
      BY <1>1, <2>2, <2>3 DEF Nested, Forked
    <2> QED
      BY <1>3, <2>2, <2>4 DEF Fibers
  <1>5. Forked(G, Y)
    <2>1. G[Main].born /\ G[Main].scope = None
      BY <1>1, <1>3 DEF Nested, Forked
    <2>2. \A g \in Fibers : ~G[g].born => G[g].ops = 0 /\ G[g].stack = <<>>
      BY <1>1 DEF Nested, Forked
    <2>3. ASSUME NEW g \in Fibers, NEW h \in Fibers, g <= h, G[h].born PROVE G[g].born
      <3>1. CASE h = c
        <4>1. g = c \/ g \in 1..(c - 1)
          BY <1>3, <2>3, <3>1 DEF Fibers
        <4> QED
          BY <1>1, <4>1 DEF Adds
      <3>2. CASE h # c
        <4>1. F[h].born
          BY <1>1, <2>3, <3>2
        <4>2. F[g].born
          BY <2>3, <4>1 DEF Nested, Forked
        <4> QED
          BY <1>1, <4>2
      <3> QED
        BY <3>1, <3>2
    <2>4. ASSUME NEW g \in Fibers, G[g].born, g # Main
          PROVE  G[g].scope \in Scopes /\ Y[G[g].scope].fiber \in 1..(g - 1)
      <3>1. CASE g = c
        BY <1>1, <1>2, <1>4, <3>1
      <3>2. CASE g # c
        <4>1. G[g] = F[g] /\ F[g].scope \in Scopes /\ X[F[g].scope].fiber \in 1..(g - 1)
          BY <1>1, <2>4, <3>2 DEF Nested, Forked
        <4> QED
          BY <1>2, <4>1
      <3> QED
        BY <3>1, <3>2
    <2>5. ASSUME NEW t \in Scopes, Y[t].fiber # None PROVE G[Y[t].fiber].born
      <3>1. Y[t].fiber \in Fibers /\ F[Y[t].fiber].born
        <4>1. Y[t].fiber \in 0..NFibers
          BY DEF ScopeType
        <4> QED
          BY <1>2, <2>5, <4>1, ConstantsAssumption DEF Nested, Forked, Fibers, None
      <3> QED
        BY <1>1, <3>1
    <2> QED
      BY <2>1, <2>2, <2>3, <2>4, <2>5 DEF Forked
  <1>6. \A g \in Fibers : G[g].stack = F[g].stack
    BY <1>1 DEF Nested, Forked
  <1>7. FramesOf(G, Y)
    <2>1. ASSUME NEW g \in Fibers PROVE FramesIn(g, G[g].stack, Y)
      <3>1. FramesIn(g, F[g].stack, X) /\ F[g].stack \in Seq(Frames)
        BY DEF Nested, FramesOf, FiberType
      <3> QED
        BY <1>2, <1>6, <3>1, FramesScope
    <2>2. ASSUME NEW t \in Scopes, Y[t].fiber # None, ~Y[t].ended PROVE HasFrame(G[Y[t].fiber].stack, t)
      <3>1. Y[t].fiber \in Fibers /\ HasFrame(F[X[t].fiber].stack, t)
        <4>1. Y[t].fiber \in 0..NFibers
          BY DEF ScopeType
        <4> QED
          BY <1>2, <2>2, <4>1, ConstantsAssumption DEF Nested, FramesOf, Fibers, None
      <3> QED
        BY <1>2, <1>6, <3>1
    <2> QED
      BY <2>1, <2>2 DEF FramesOf
  <1>8. ScopesOf(Y)
    <2>1. ASSUME NEW t \in Scopes, Y[t].fiber = None PROVE Y[t] = NewScope(None, 0)
      <3>1. t # s /\ X[t].fiber = None
        BY <1>2, <2>1 DEF Adds
      <3> QED
        BY <3>1 DEF Adds, Nested, ScopesOf
    <2> QED
      BY <1>2, <2>1 DEF Nested, ScopesOf
  <1>9. Held(G)
    <2>1. Holding(<<>>) = {}
      BY DEF Holding
    <2>2. Cardinality(Holding(<<>>)) = 0
      BY <2>1, FS_EmptySet
    <2> QED
      BY <1>1, <2>2 DEF Nested, Held
  <1>10. Aimed(G)
    BY <1>1 DEF Nested, Aimed
  <1> QED
    BY <1>5, <1>7, <1>8, <1>9, <1>10 DEF Nested

BeginsLast(q, c, r) == r = Append(q, Task("begin", c, 0, "run"))

LEMMA AddsScheduled ==
  ASSUME NEW f \in Fibers, NEW q \in Seq(Tasks), NEW w \in Seq(Fibers), NEW l \in SUBSET Tasks,
         NEW k \in SUBSET CallType,
         NEW F \in [Fibers -> FiberType], NEW G \in [Fibers -> FiberType],
         NEW X \in [Scopes -> ScopeType], NEW Y \in [Scopes -> ScopeType],
         NEW d \in [Deferreds -> CellType], NEW u, Nested(F, X),
         Scheduled(f, q, w, l, k, F, X, d, u), NEW s \in Scopes, NEW c \in Fibers, Adds(F, G, s, c, X, Y),
         NEW r, BeginsLast(q, c, r)
  PROVE  Scheduled(f, r, w, l, k, G, Y, d, u) /\ r \in Seq(Tasks)
  <1> PICK t : t = Task("begin", c, 0, "run")
    OBVIOUS
  <1>0. r = Append(q, t)
    BY DEF BeginsLast
  <1>1. /\ \A g \in Fibers : g # c => G[g] = F[g]
        /\ G[c].born /\ G[c].scope = s /\ G[c].stack = <<>> /\ G[c].holds = 0 /\ G[c].wait = NoWait
        /\ G[c].watchers = <<>> /\ G[c].result = NotYet /\ ~F[c].born
    BY DEF Adds, NewFiber
  <1>2. t \in Tasks /\ t.f = c /\ t.kind = "begin" /\ Own(t)
    BY DEF Task, Tasks, Own
  <1>3. c \notin LiveIn(F) /\ LiveIn(G) = LiveIn(F) \cup {c}
    BY <1>1 DEF LiveIn
  <1>4. Elems(w) = WaitingIn(F) /\ c \notin WaitingIn(F) /\ c \notin Tasked(q)
    BY <1>3 DEF Scheduled, Placed
  <1>5. WaitingIn(G) = WaitingIn(F)
    <2>1. \A g \in Fibers : g \in WaitingIn(G) <=> g \in WaitingIn(F)
      BY <1>1, <1>4 DEF WaitingIn, NoWait
    <2> QED
      BY <2>1 DEF WaitingIn
  <1>6. Placed(f, r, w, LiveIn(G)) /\ r \in Seq(Tasks)
    <2>1. PICK L : L = LiveIn(F)
      OBVIOUS
    <2>2. Placed(f, q, w, L) /\ (Own(t) => t.f \notin L)
      BY <1>2, <1>3, <2>1 DEF Scheduled
    <2>3. r \in Seq(Tasks) /\ Placed(f, r, w, IF Own(t) THEN L \cup {t.f} ELSE L)
      BY <1>0, <1>2, <2>2, PlacedAdd
    <2> QED
      BY <1>2, <1>3, <2>1, <2>3
  <1>7. /\ \A i \in 1..Len(r) : (i \in 1..Len(q) /\ r[i] = q[i]) \/ r[i] = t
        /\ \A i \in 1..Len(q) : i \in 1..Len(r) /\ r[i] = q[i]
    <2>1. AppendedTo(Tasks, q, t, r)
      BY <1>0, <1>2, Appended
    <2> QED
      BY <2>1 DEF AppendedTo
  <1>8. \A g \in Fibers : F[g].ops \in Nat /\ G[g].ops \in Nat /\ F[g].ops <= G[g].ops
    <2>1. \A g \in Fibers : F[g].ops \in Nat /\ G[g].ops \in Nat
      BY DEF FiberType
    <2>2. F[c].ops = 0
      BY <1>1 DEF Nested, Forked
    <2>3. \A g \in Fibers : F[g].ops = 0 \/ G[g].ops = F[g].ops
      BY <1>1, <2>2
    <2> QED
      BY ONLY <2>1, <2>3
  <1>9. \A i \in 1..Len(q) : q[i].f \in Fibers
    BY ElementOfSeq, LenProperties DEF Tasks
  <1>10. Numbered(G, d, r, l, k)
    <2>1. ASSUME NEW g \in Fibers PROVE NumbersWait(g, G[g].wait, G[g].ops)
      <3>1. CASE g = c
        BY <1>1, <3>1 DEF NumbersWait, NoWait
      <3>2. CASE g # c
        BY <1>1, <3>2 DEF Scheduled, Numbered
      <3> QED
        BY <3>1, <3>2
    <2>2. ASSUME NEW g \in Fibers PROVE Numbers(G, G[g].watchers)
      <3>1. CASE g = c
        BY <1>1, <3>1 DEF Numbers
      <3>2. CASE g # c
        <4>1. Numbers(F, F[g].watchers) /\ F[g].watchers \in Seq(Wakes) /\ G[g] = F[g]
          BY <1>1, <3>2 DEF Scheduled, Numbered, FiberType
        <4>2. Numbers(G, F[g].watchers)
          BY <1>8, <4>1, NumbersKept
        <4> QED
          BY <4>1, <4>2
      <3> QED
        BY <3>1, <3>2
    <2>3. ASSUME NEW e \in Deferreds PROVE Numbers(G, d[e].waiters)
      <3>1. Numbers(F, d[e].waiters) /\ d[e].waiters \in Seq(Wakes)
        BY DEF Scheduled, Numbered, CellType
      <3> QED
        BY <1>8, <3>1, NumbersKept
    <2>4. ASSUME NEW i \in 1..Len(r), r[i].kind = "go" PROVE r[i].no \in 1..G[r[i].f].ops
      <3>1. i \in 1..Len(q) /\ r[i] = q[i]
        BY <1>2, <1>7, <2>4
      <3>2. q[i].f \in Fibers /\ q[i].no \in 1..F[q[i].f].ops
        BY <1>9, <2>4, <3>1 DEF Scheduled, Numbered
      <3> QED
        BY <1>8, <3>1, <3>2
    <2>5. ASSUME NEW y \in l PROVE y.kind = "go" /\ y.no \in 1..G[y.f].ops
      <3>1. y.f \in Fibers
        BY DEF Tasks
      <3>2. y.kind = "go" /\ y.no \in 1..F[y.f].ops
        BY DEF Scheduled, Numbered
      <3> QED
        BY <1>8, <3>1, <3>2
    <2>6. ASSUME NEW y \in k PROVE y.no \in 1..G[y.f].ops
      <3>1. y.f \in Fibers
        BY DEF CallType
      <3>2. y.no \in 1..F[y.f].ops
        BY DEF Scheduled, Numbered
      <3> QED
        BY <1>8, <3>1, <3>2
    <2> QED
      BY <2>1, <2>2, <2>3, <2>4, <2>5, <2>6 DEF Numbered
  <1>11. Closing(G, Y)
    <2>1. ASSUME NEW g \in Fibers PROVE ClosingOf(G[g], Y)
      <3>1. CASE g = c
        BY <1>1, <3>1 DEF ClosingOf, ClosingTop, NoWait
      <3>2. CASE g # c
        <4>1. ClosingOf(F[g], X) /\ G[g] = F[g]
          BY <1>1, <3>2 DEF Scheduled, Closing
        <4>2. CASE ~ClosingTop(F[g])
          BY <4>1, <4>2 DEF ClosingOf
        <4>3. CASE ClosingTop(F[g])
          <5>1. PICK a, y : a = F[g].stack /\ y = Last(a).s
            OBVIOUS
          <5>2. a \in Seq(Frames) /\ FramesIn(g, a, X) /\ a # <<>> /\ Last(a).kind = "closing"
            BY <4>3, <5>1 DEF ClosingTop, Nested, FramesOf, FiberType
          <5>3. Len(a) \in 1..Len(a) /\ Last(a) = a[Len(a)]
            BY <5>2, LenProperties, EmptySeq DEF Last
          <5>4. y \in Scopes /\ X[y].bodyDone
            BY <5>1, <5>2, <5>3 DEF FramesIn, FrameOf, OfScope
          <5>5. Y[y] = X[y]
            BY <5>4 DEF Adds
          <5> QED
            BY <4>1, <4>3, <5>1, <5>5 DEF ClosingOf
        <4> QED
          BY <4>2, <4>3
      <3> QED
        BY <3>1, <3>2
    <2>2. ASSUME NEW y \in Scopes PROVE CloserOf(G, Y[y], y)
      <3>1. CloserOf(F, X[y], y) /\ Y[y].closer = X[y].closer /\ Y[y].fiber = X[y].fiber
        BY DEF Scheduled, Closing, Adds
      <3>2. X[y].closer # 0 => X[y].fiber # c
        BY <1>4, <3>1 DEF CloserOf, WaitingIn
      <3> QED
        BY <1>1, <3>1, <3>2 DEF CloserOf
    <2> QED
      BY <2>1, <2>2 DEF Closing
  <1>12. Children(G, Y)
    <2>1. ASSUME NEW y \in Scopes, NEW g \in Fibers
          PROVE  g \in Y[y].children <=> G[g].born /\ G[g].result = NotYet /\ G[g].scope = y
      <3>1. g \in X[y].children <=> F[g].born /\ F[g].result = NotYet /\ F[g].scope = y
        BY DEF Scheduled, Children
      <3>2. Y[y].children = IF y = s THEN X[y].children \cup {c} ELSE X[y].children
        BY DEF Adds
      <3>3. CASE g = c
        BY <1>1, <3>1, <3>2, <3>3
      <3>4. CASE g # c
        BY <1>1, <3>1, <3>2, <3>4
      <3> QED
        BY <3>3, <3>4
    <2> QED
      BY <2>1 DEF Children
  <1>13. Queued(G, r, u)
    <2>1. ASSUME NEW i \in 1..Len(r)
          PROVE  /\ r[i].kind = "begin" => r[i].f # Main /\ G[r[i].f].stack = <<>>
                 /\ r[i].kind = "throw" => G[r[i].f].holds = 0 \/ u
      <3>1. CASE i \in 1..Len(q) /\ r[i] = q[i]
        <4>1. Own(q[i]) => q[i].f \in Fibers /\ q[i].f # c
          BY <1>4, <1>9, <3>1 DEF Tasked
        <4>2. /\ q[i].kind = "begin" => q[i].f # Main /\ F[q[i].f].stack = <<>>
              /\ q[i].kind = "throw" => F[q[i].f].holds = 0 \/ u
          BY <3>1 DEF Scheduled, Queued
        <4> QED
          BY <1>1, <3>1, <4>1, <4>2 DEF Own
      <3>2. CASE r[i] = t
        <4>1. c # Main
          BY <1>1 DEF Nested, Forked
        <4> QED
          BY <1>1, <1>2, <3>2, <4>1
      <3> QED
        BY <1>7, <3>1, <3>2
    <2> QED
      BY <2>1 DEF Queued
  <1>14. Awake(G)
    BY <1>1 DEF Scheduled, Awake, NoWait
  <1>15. WakesWaiting(G, d, r, l)
    <2>1. \A g \in LiveIn(F) : g \in LiveIn(G) /\ G[g].watchers = F[g].watchers
      BY <1>1, <1>3 DEF LiveIn
    <2>2. ASSUME NEW g \in Fibers PROVE WakesOf(g, G[g].wait, G, d, r, l)
      <3>1. CASE g = c
        BY <1>1, <3>1 DEF WakesOf, NoWait
      <3>2. CASE g # c
        <4>1. WakesOf(g, F[g].wait, F, d, q, l) /\ G[g] = F[g]
          BY <1>1, <3>2 DEF Scheduled, WakesWaiting
        <4>2. Yields(q, l, g, F[g].wait.no) => Yields(r, l, g, F[g].wait.no)
          BY <1>7 DEF Yields
        <4>3. WakesOf(g, F[g].wait, G, d, r, l)
          BY <2>1, <4>1, <4>2 DEF WakesOf
        <4> QED
          BY <4>1, <4>3
      <3> QED
        BY <3>1, <3>2
    <2> QED
      BY <2>2 DEF WakesWaiting
  <1> QED
    BY <1>4, <1>5, <1>6, <1>10, <1>11, <1>12, <1>13, <1>14, <1>15 DEF Scheduled

LEMMA ForkInv ==
  ASSUME Inv, NEW f \in Fibers, NEW s \in Scopes, NEW c \in Fibers, Fork(f, s, c)
  PROVE  Inv'
  <1>1. PICK F, r, t, n, a : /\ F = Called(fib, f) /\ r = fib[f] /\ t = Task("begin", c, 0, "run")
                             /\ n = NewFiber(s) /\ a = scope[s]
    OBVIOUS
  <1>2. PICK b : b = [a EXCEPT !.children = @ \cup {c}]
    OBVIOUS
  <1>3. /\ CanCall(f, "fork") /\ scope[s].fiber # None /\ ~scope[s].closed
        /\ ~fib[c].born /\ (\A g \in 1..(c - 1) : fib[g].born)
        /\ fib' = Upd(F, c, n) /\ scope' = SetScope(scope, s, b) /\ queue' = Append(queue, t)
        /\ cur = f /\ cur' = f
        /\ UNCHANGED <<flow, calls, deferred, over, waits, pauses, later, unwound, reported>>
    BY <1>1, <1>2 DEF Fork, Stays, Upd, SetScope, CanCall, Running
  <1>4. /\ InterruptKeeps(f, queue, waits, calls, F) /\ ~over /\ Typed
        /\ Becomes(fib, F, f, r.ops + 1, r.pending, r.unwinding, r.unwinds, r.holds, r.stack)
    BY <1>1, <1>3, CalledKept
  <1>5. /\ TypedFibers(F) /\ F \in [Fibers -> FiberType] /\ Nested(F, scope)
        /\ scope \in [Scopes -> ScopeType] /\ deferred \in [Deferreds -> CellType]
        /\ queue \in Seq(Tasks) /\ waits \in Seq(Fibers) /\ later \in SUBSET Tasks /\ calls \in SUBSET CallType
        /\ Scheduled(f, queue, waits, later, calls, F, scope, deferred, unwound)
    BY <1>4 DEF InterruptKeeps, TypedFibers, Typed, TypedScheduler
  <1>6. n \in FiberType /\ n.ops <= MaxOps[c]
    <2>1. <<>> \in Seq(Wakes) /\ <<>> \in Seq(Frames)
      BY EmptySeq
    <2>2. s \in 0..NScopes /\ MaxOps[c] \in Nat
      BY ConstantsAssumption DEF Scopes
    <2> QED
      BY <1>1, <2>1, <2>2 DEF NewFiber, FiberType, NoWait, WaitKinds, None, NotYet
  <1>7. TypedFibers(fib') /\ fib'[c] = n /\ \A g \in Fibers \ {c} : fib'[g] = F[g]
    BY <1>3, <1>5, <1>6, FiberUpdated
  <1>8. a \in ScopeType
    BY <1>1, <1>5
  <1>9. /\ b \in ScopeType /\ b.children = a.children \cup {c} /\ b.closer = a.closer /\ b.fiber = a.fiber
        /\ b.ended = a.ended /\ b.bodyDone = a.bodyDone /\ b.closed = a.closed /\ b.out = a.out
    BY <1>2, <1>8 DEF ScopeType
  <1>10. scope' \in [Scopes -> ScopeType] /\ scope'[s] = b /\ \A t2 \in Scopes \ {s} : scope'[t2] = scope[t2]
    BY <1>3, <1>5, <1>9, ScopeUpdated
  <1>11. \A g \in Fibers : F[g].born = fib[g].born
    BY <1>4, <1>1 DEF Becomes, Fields
  <1>12. \A g \in 1..(c - 1) : g \in Fibers
    BY ConstantsAssumption DEF Fibers
  <1>13. ~scope[s].bodyDone
    BY <1>3 DEF Inv, Nested, ScopesOf
  <1>14. Adds(F, fib', s, c, scope, scope')
    BY <1>1, <1>3, <1>7, <1>9, <1>10, <1>11, <1>12, <1>13 DEF Adds
  <1>15. fib' \in [Fibers -> FiberType]
    BY <1>7 DEF TypedFibers
  <1>16. Nested(fib', scope')
    BY <1>5, <1>10, <1>14, <1>15, AddsNested
  <1>17. Scheduled(f, queue', waits, later, calls, fib', scope', deferred, unwound) /\ queue' \in Seq(Tasks)
    <2>1. BeginsLast(queue, c, queue') /\ scope' \in [Scopes -> ScopeType]
      BY <1>1, <1>3, <1>10 DEF BeginsLast
    <2> QED
      BY ONLY f \in Fibers, s \in Scopes, c \in Fibers, <1>5, <1>14, <1>15, <2>1, AddsScheduled
  <1>18. Typed'
    BY <1>3, <1>4, <1>7, <1>10, <1>17 DEF Typed, TypedScheduler
  <1> QED
    BY <1>3, <1>4, <1>16, <1>17, <1>18 DEF Inv

-----------------------------------------------------------------------------
(* Waiting fibers are woken.                                               *)

LEMMA ReleasedFields ==
  ASSUME NEW F, TypedFibers(F), NEW D, NEW G, G = Released(F, D)
  PROVE  /\ TypedFibers(G) /\ Releases(F, G, D)
         /\ \A g \in Fibers : /\ G[g].pending = F[g].pending /\ G[g].unwinding = F[g].unwinding
                              /\ G[g].unwinds = F[g].unwinds
  <1>1. ASSUME NEW g \in Fibers
        PROVE  /\ G[g] \in FiberType /\ G[g].ops = F[g].ops
               /\ G[g].wait = IF g \in D THEN NoWait ELSE F[g].wait
               /\ G[g].stack = F[g].stack /\ G[g].holds = F[g].holds
               /\ G[g].watchers = F[g].watchers /\ G[g].born = F[g].born
               /\ G[g].scope = F[g].scope /\ G[g].result = F[g].result
               /\ G[g].pending = F[g].pending /\ G[g].unwinding = F[g].unwinding
               /\ G[g].unwinds = F[g].unwinds
    <2>1. PICK r : r = F[g]
      OBVIOUS
    <2>2. PICK x : x = [r EXCEPT !.wait = NoWait]
      OBVIOUS
    <2>3. r \in FiberType
      BY <2>1 DEF TypedFibers
    <2>4. G[g] = IF g \in D THEN x ELSE r
      BY <2>1, <2>2 DEF Released
    <2>5. NoWait \in [no : Nat, on : WaitKinds, of : Nat]
      BY DEF NoWait, WaitKinds, None
    <2>6. /\ x \in FiberType /\ x.wait = NoWait /\ x.ops = r.ops
          /\ x.stack = r.stack /\ x.holds = r.holds
          /\ x.watchers = r.watchers /\ x.born = r.born
          /\ x.scope = r.scope /\ x.result = r.result
          /\ x.pending = r.pending /\ x.unwinding = r.unwinding /\ x.unwinds = r.unwinds
      BY <2>2, <2>3, <2>5 DEF FiberType
    <2> HIDE DEF FiberType
    <2> QED
      BY <2>1, <2>3, <2>4, <2>6
  <1>2. G \in [Fibers -> FiberType]
    <2>1. G = [g \in Fibers |-> G[g]]
      BY DEF Released
    <2> QED
      BY <1>1, <2>1
  <1> QED
    BY <1>1, <1>2 DEF Releases, TypedFibers

(* The fibers of D are woken: K, G, e, r and v are the host calls, the     *)
(* fibers, the deferreds, the queue and the waits after it.                *)
WakeKeeps(c, r, v, K, G, e) ==
  /\ TypedFibers(G) /\ Nested(G, scope) /\ r \in Seq(Tasks) /\ v \in Seq(Fibers)
  /\ Scheduled(c, r, v, later, K, G, scope, e, unwound)

LEMMA ReleasesKept ==
  ASSUME Typed, NEW c, NEW q, NEW w, NEW k, NEW F, InterruptKeeps(c, q, w, k, F), NEW D,
         NEW G, G = Released(F, D), NEW K \in SUBSET CallType, SameCalls(k, K),
         NEW e \in [Deferreds -> CellType], CellsFor(deferred, e, F, D),
         NEW ts, NEW r, NEW v, Taking(F, q, w, D, ts, r, v, unwound, unwound)
  PROVE  WakeKeeps(c, r, v, K, G, e)
  <1>1. /\ TypedFibers(G) /\ Releases(F, G, D)
        /\ \A g \in Fibers : /\ G[g].pending = F[g].pending /\ G[g].unwinding = F[g].unwinding
                             /\ G[g].unwinds = F[g].unwinds
    BY ReleasedFields DEF InterruptKeeps
  <1>2. /\ F \in [Fibers -> FiberType] /\ G \in [Fibers -> FiberType]
        /\ scope \in [Scopes -> ScopeType] /\ deferred \in [Deferreds -> CellType]
        /\ q \in Seq(Tasks) /\ w \in Seq(Fibers) /\ later \in SUBSET Tasks /\ k \in SUBSET CallType
        /\ Scheduled(c, q, w, later, k, F, scope, deferred, unwound) /\ Nested(F, scope) /\ ScopesOf(scope)
    BY <1>1 DEF InterruptKeeps, TypedFibers, Typed, TypedScheduler, Nested
  <1>3. SameScopes(scope, scope) /\ SameNest(scope, scope)
    BY DEF SameScopes, SameNest
  <1>4. Awake(G)
    <2> SUFFICES ASSUME NEW g \in Fibers, G[g].wait.no # 0 PROVE ~Interrupts(G[g])
      BY DEF Awake
    <2>1. F[g].wait.no # 0 /\ G[g].holds = F[g].holds
      BY <1>1 DEF Releases, NoWait
    <2>2. ~Interrupts(F[g])
      BY <1>2, <2>1 DEF Scheduled, Awake
    <2> QED
      BY <1>1, <2>1, <2>2 DEF Interrupts
  <1>5. Scheduled(c, r, v, later, K, G, scope, e, unwound) /\ r \in Seq(Tasks) /\ v \in Seq(Fibers)
    <2>1. Releases(F, G, D)
      BY <1>1
    <2> QED
      BY ONLY <1>2, <1>3, <1>4, <2>1, K \in SUBSET CallType, SameCalls(k, K),
              e \in [Deferreds -> CellType], CellsFor(deferred, e, F, D),
              Taking(F, q, w, D, ts, r, v, unwound, unwound), DropsScheduled, ZenonT(30)
  <1>6. Nested(G, scope)
    <2>1. SameStacks(F, G)
      BY <1>1 DEF Releases, SameStacks
    <2>2. \A g \in Fibers : \A s \in Asked(G[g]) : s \in Asked(F[g]) \/ InScope(F[g].stack, s)
      BY <1>1 DEF Asked
    <2> QED
      BY <1>2, <1>3, <2>1, <2>2, NestedKept
  <1> QED
    BY <1>1, <1>5, <1>6 DEF WakeKeeps

(* The number of a wait that an operation began is not the one of a scope  *)
(* waiting for its children.                                               *)
LEMMA RegisteredWaits ==
  ASSUME NEW F, TypedFibers(F), NEW ws \in Seq(Wakes), Numbers(F, ws), NEW g \in Fibers,
         NumbersWait(g, F[g].wait, F[g].ops), Registered(ws, g, F[g].wait.no)
  PROVE  F[g].wait.no # 0 /\ F[g].wait.on # "closing"
  <1>1. PICK i \in 1..Len(ws) : ws[i].f = g /\ ws[i].no = F[g].wait.no
    BY DEF Registered
  <1>2. F[g].wait.no \in 1..F[g].ops
    BY <1>1 DEF Numbers
  <1>3. F[g].ops \in Nat /\ F[g].ops <= MaxOps[g] /\ MaxOps[g] \in Nat
    BY ConstantsAssumption DEF TypedFibers, FiberType
  <1>4. ASSUME F[g].wait.on = "closing" PROVE FALSE
    <2>1. PICK t \in Scopes : F[g].wait.no = MaxOps[g] + t
      BY <1>4 DEF NumbersWait, ClosingNo
    <2>2. t \in Nat /\ t # 0
      BY <2>1, ConstantsAssumption DEF Scopes
    <2> QED
      BY <1>2, <1>3, <2>1, <2>2
  <1> QED
    BY <1>2, <1>3, <1>4

LEMMA CompleteInv ==
  ASSUME Inv, NEW f \in Fibers, NEW d \in Deferreds, Complete(f, d)
  PROVE  Inv'
  <1>1. CanCall(f, "complete")
    BY DEF Complete
  <1>2. CASE \E o \in Outcomes \cup {"run"} : Continues(f, o)
    BY <1>1, <1>2, ContinuesInv
  <1>3. PICK ws, z, F, D, ts, r, x : /\ ws = deferred[d].waiters /\ z = Woken(ws, {}) /\ F = Called(fib, f)
                               /\ D = Taken(z) /\ ts = ResumeTasks(z, "value") /\ r = fib[f]
                               /\ x = deferred[d]
    OBVIOUS
  <1>4. CASE /\ deferred' = [deferred EXCEPT ![d].full = TRUE, ![d].waiters = <<>>]
             /\ fib' = Released(F, D) /\ waits' = Without(waits, D) /\ queue' = queue \o ts
             /\ UNCHANGED <<cur, flow, over, pauses, later, calls, scope, unwound, reported>>
    <2>1. /\ InterruptKeeps(f, queue, waits, calls, F) /\ ~over /\ Typed
          /\ Becomes(fib, F, f, r.ops + 1, r.pending, r.unwinding, r.unwinds, r.holds, r.stack)
      BY <1>1, <1>3, CalledKept
    <2>2. /\ cur = f /\ TypedFibers(F) /\ Scheduled(f, queue, waits, later, calls, F, scope, deferred, unwound)
      BY <1>1, <2>1 DEF InterruptKeeps, CanCall, Running
    <2>3. \A g \in Fibers : F[g].wait = fib[g].wait
      BY <2>1 DEF Becomes, Fields
    <2>4. x \in CellType /\ ws \in Seq(Wakes) /\ deferred \in [Deferreds -> CellType]
      BY <1>3, <2>1 DEF Typed, CellType
    <2>5. Numbers(F, ws) /\ Apart(ws)
      BY <1>3, <2>2 DEF Scheduled, Numbered, Numbers, Apart
    <2>6. WokenFrom(fib, ws, {}, z)
      BY <1>3, <2>4, <2>5, WokenEach
    <2>7. D = {g \in Fibers : Registered(ws, g, F[g].wait.no)}
      BY <1>3, <2>3, <2>6 DEF WokenFrom
    <2>8. "value" \in Outcomes
      BY DEF Outcomes
    <2>9. Continue(ts, D) /\ \A i \in 1..Len(ts) : ts[i].kind = "resume"
      BY <1>3, <2>6, <2>8, ResumesEach
    <2>10. ASSUME NEW g \in D PROVE g \in Fibers /\ F[g].wait.no # 0 /\ F[g].wait.on # "closing"
      <3>1. g \in Fibers /\ Registered(ws, g, F[g].wait.no)
        BY <2>7
      <3>2. NumbersWait(g, F[g].wait, F[g].ops)
        BY <2>2, <3>1 DEF Scheduled, Numbered
      <3> QED
        BY <2>2, <2>4, <2>5, <3>1, <3>2, RegisteredWaits
    <2>11. Taking(F, queue, waits, D, ts, queue', waits', unwound, unwound)
      <3>1. D \subseteq WaitingIn(F) /\ \A g \in D : F[g].wait.on # "closing"
        BY <2>10 DEF WaitingIn
      <3> QED
        BY <1>4, <2>9, <3>1 DEF Taking
    <2>12. PICK y : y = [x EXCEPT !.full = TRUE, !.waiters = <<>>]
      OBVIOUS
    <2>13. y \in CellType /\ y.waiters = <<>>
      <3>1. <<>> \in Seq(Wakes)
        BY EmptySeq
      <3> QED
        BY <2>4, <2>12, <3>1 DEF CellType
    <2>14. deferred' = [deferred EXCEPT ![d] = y]
      <3> HIDE DEF CellType
      <3> QED
        BY <1>3, <1>4, <2>4, <2>12
    <2>15. deferred' \in [Deferreds -> CellType] /\ deferred'[d] = y /\ \A e \in Deferreds : e # d => deferred'[e] = deferred[e]
      <3> HIDE DEF CellType
      <3> QED
        BY <2>4, <2>13, <2>14
    <2>16. CellsFor(deferred, deferred', F, D)
      <3>1. ASSUME NEW g \in Fibers, F[g].wait.on = "deferred", F[g].wait.of = d PROVE g \in D
        <4>1. WakesOf(g, F[g].wait, F, deferred, queue, later)
          BY <2>2 DEF Scheduled, WakesWaiting
        <4>2. Registered(ws, g, F[g].wait.no)
          BY <1>3, <3>1, <4>1 DEF WakesOf
        <4> QED
          BY <2>7, <4>2
      <3> QED
        BY <2>13, <2>15, <3>1 DEF CellsFor
    <2>17. calls \in SUBSET CallType /\ SameCalls(calls, calls)
      BY <2>1 DEF Typed, TypedScheduler, SameCalls
    <2>18. WakeKeeps(f, queue', waits', calls, fib', deferred')
      <3>1. fib' = Released(F, D) /\ deferred' \in [Deferreds -> CellType]
        BY <1>4, <2>15
      <3> QED
        BY <2>1, <2>11, <2>16, <2>17, <3>1, ReleasesKept
    <2>19. Typed'
      BY <1>4, <2>1, <2>15, <2>18 DEF Typed, TypedScheduler, WakeKeeps
    <2> QED
      BY <1>4, <2>1, <2>2, <2>18, <2>19 DEF Inv, WakeKeeps
  <1>5. "die" \in Outcomes \cup {"run"} /\ "run" \in Outcomes \cup {"run"}
    BY DEF Outcomes
  <1> QED
    BY <1>2, <1>3, <1>4, <1>5 DEF Complete

-----------------------------------------------------------------------------
(* A fiber ends.                                                           *)

LEMMA FinishMainInv ==
  ASSUME Inv, ~over, NEW o \in Outcomes, FinishMain(o)
  PROVE  Inv'
  <1>1. PICK r : r = fib[Main]
    OBVIOUS
  <1>2. PICK x : x = [r EXCEPT !.result = o]
    OBVIOUS
  <1>3. /\ Typed /\ TypedFibers(fib) /\ Nested(fib, scope) /\ ScopesOf(scope)
        /\ Scheduled(cur, queue, waits, later, calls, fib, scope, deferred, unwound)
        /\ scope \in [Scopes -> ScopeType]
    BY DEF Inv, Typed, Nested
  <1>4. Main \in Fibers
    BY ConstantsAssumption DEF Main, Fibers
  <1>5. r \in FiberType /\ r.ops <= MaxOps[Main]
    BY <1>1, <1>3, <1>4 DEF TypedFibers
  <1>6. /\ x \in FiberType /\ x.ops = r.ops /\ x.wait = r.wait /\ x.stack = r.stack /\ x.holds = r.holds
        /\ x.born = r.born /\ x.scope = r.scope /\ x.pending = r.pending
        /\ x.unwinding = r.unwinding /\ x.unwinds = r.unwinds
    BY <1>2, <1>5 DEF FiberType
  <1>7. /\ fib' = Upd(fib, Main, x) /\ over' = TRUE /\ queue' = <<>> /\ waits' = <<>>
        /\ calls' = Aborted(Fibers) /\ cur' = None /\ flow' = "run"
        /\ UNCHANGED <<pauses, later, scope, deferred, unwound, reported>>
    BY <1>1, <1>2 DEF FinishMain, Upd
  <1>8. TypedFibers(fib') /\ fib'[Main] = x /\ \A g \in Fibers \ {Main} : fib'[g] = fib[g]
    <2>1. x \in FiberType /\ x.ops <= MaxOps[Main]
      BY <1>5, <1>6
    <2> QED
      BY ONLY <1>3, <1>4, <1>7, <2>1, FiberUpdated
  <1>9. \A g \in Fibers : /\ fib'[g].wait = fib[g].wait /\ fib'[g].stack = fib[g].stack
                          /\ fib'[g].holds = fib[g].holds /\ fib'[g].ops = fib[g].ops
                          /\ fib'[g].born = fib[g].born /\ fib'[g].scope = fib[g].scope
                          /\ fib'[g].pending = fib[g].pending
                          /\ fib'[g].unwinding = fib[g].unwinding /\ fib'[g].unwinds = fib[g].unwinds
    <2>1. ASSUME NEW g \in Fibers, g = Main
          PROVE  /\ fib'[g].wait = fib[g].wait /\ fib'[g].stack = fib[g].stack
                 /\ fib'[g].holds = fib[g].holds /\ fib'[g].ops = fib[g].ops
                 /\ fib'[g].born = fib[g].born /\ fib'[g].scope = fib[g].scope
                 /\ fib'[g].pending = fib[g].pending
                 /\ fib'[g].unwinding = fib[g].unwinding /\ fib'[g].unwinds = fib[g].unwinds
      BY <1>1, <1>6, <1>8, <2>1
    <2> QED
      BY <1>8, <2>1
  <1>10. Awake(fib')
    <2>1. Awake(fib)
      BY <1>3 DEF Scheduled
    <2> QED
      BY <1>9, <2>1 DEF Awake, Interrupts
  <1>11. Nested(fib', scope')
    <2>1. SameStacks(fib, fib') /\ SameNest(scope, scope')
      BY <1>7, <1>9 DEF SameStacks, SameNest
    <2>2. \A g \in Fibers : \A s \in Asked(fib'[g]) : s \in Asked(fib[g]) \/ InScope(fib[g].stack, s)
      BY <1>9 DEF Asked
    <2>3. fib \in [Fibers -> FiberType] /\ fib' \in [Fibers -> FiberType] /\ scope' = scope
      BY <1>3, <1>7, <1>8 DEF TypedFibers
    <2>4. SameNest(scope, scope)
      BY DEF SameNest
    <2>5. Nested(fib', scope)
      BY <1>3, <2>1, <2>2, <2>3, <2>4, NestedKept
    <2> QED
      BY <2>3, <2>5
  <1>12. Typed'
    <2>1. calls' \in SUBSET CallType
      BY <1>3, <1>7, AbortedCalls DEF Typed, TypedScheduler
    <2>2. <<>> \in Seq(Tasks) /\ <<>> \in Seq(Fibers)
      BY EmptySeq
    <2> QED
      BY <1>3, <1>7, <1>8, <2>1, <2>2 DEF Typed, TypedScheduler
  <1> QED
    BY <1>7, <1>10, <1>11, <1>12 DEF Inv

(* The running fiber ends, and the fibers of E are woken.                  *)
MovesOn(q, w, E, ts, r, v) ==
  /\ E \subseteq Elems(w) /\ Continue(ts, E) /\ r = q \o ts
  /\ v \in Seq(Fibers) /\ Distinct(v) /\ Elems(v) = Elems(w) \ E

LEMMA PlacedEnds ==
  ASSUME NEW f \in Fibers, NEW q \in Seq(Tasks), NEW w \in Seq(Fibers), NEW L, Placed(f, q, w, L),
         NEW E, NEW ts, NEW r, NEW v, MovesOn(q, w, E, ts, r, v)
  PROVE  Placed(None, r, v, L \ {f}) /\ r \in Seq(Tasks)
  <1> USE DEF MovesOn
  <1>1. PICK M : M = L \ {f}
    OBVIOUS
  <1>2. Placed(None, q, w, M)
    BY <1>1, PlacedEnd
  <1>3. r \in Seq(Tasks) /\ Tasked(r) = Tasked(q) \cup E
        /\ (OwnApart(q) /\ Tasked(q) \cap E = {} => OwnApart(r))
    BY TaskedJoined
  <1>4. OwnApart(q) /\ Tasked(q) \cap E = {}
    BY <1>2 DEF Placed, OwnApart
  <1> QED
    BY <1>1, <1>2, <1>3, <1>4 DEF Placed, OwnApart

(* The record of a scope one of whose children ended.                      *)
ChildEndedTo(X, f, s, Y) ==
  /\ Y \in [Scopes -> ScopeType] /\ \A t \in Scopes : t # s => Y[t] = X[t]
  /\ Y[s].children = X[s].children \ {f}
  /\ Y[s].closer = IF X[s].children = {f} THEN 0 ELSE X[s].closer
  /\ Y[s].fiber = X[s].fiber /\ Y[s].ended = X[s].ended /\ Y[s].bodyDone = X[s].bodyDone
  /\ Y[s].out = X[s].out /\ (X[s].closed => Y[s].closed)

LEMMA ChildEnds ==
  ASSUME scope \in [Scopes -> ScopeType], NEW f \in Fibers, NEW s \in Scopes, NEW o \in Outcomes,
         NEW Y, Y = ChildEnded(f, s, o)
  PROVE  ChildEndedTo(scope, f, s, Y)
  <1>1. PICK y, a, b, c :
          /\ y = scope[s] /\ a = FirstFailure(s, o) /\ b = (scope[s].closed \/ Failure(o))
          /\ c = (IF scope[s].children = {f} THEN 0 ELSE scope[s].closer)
    OBVIOUS
  <1>2. PICK z : z = y.children \ {f}
    OBVIOUS
  <1>3. PICK x : x = [y EXCEPT !.children = z, !.first = a, !.closed = b, !.closer = c]
    OBVIOUS
  <1>4. Y = SetScope(scope, s, x)
    BY <1>1, <1>2, <1>3 DEF ChildEnded, SetScope
  <1>5. y \in ScopeType /\ a \in Outcomes \cup {NotYet}
    BY <1>1, Returns
  <1>6. b \in BOOLEAN /\ c \in Nat /\ z \in SUBSET Fibers
    BY <1>1, <1>2, <1>5 DEF ScopeType, Failure
  <1>7. /\ x \in ScopeType /\ x.children = z /\ x.closer = c /\ x.fiber = y.fiber /\ x.ended = y.ended
        /\ x.bodyDone = y.bodyDone /\ x.out = y.out /\ x.closed = b
    BY <1>3, <1>5, <1>6 DEF ScopeType
  <1>8. Y \in [Scopes -> ScopeType] /\ Y[s] = x /\ \A t \in Scopes \ {s} : Y[t] = scope[t]
    BY <1>4, <1>7, ScopeUpdated
  <1>9. scope[s].closed => Y[s].closed
    BY <1>1, <1>7, <1>8
  <1> QED
    BY <1>1, <1>2, <1>7, <1>8, <1>9 DEF ChildEndedTo

(* The fibers that the end of f wakes: those that watch it and, when it is *)
(* the last child, the one whose scope waits for its children.             *)
EndWakes(F, X, f, s) ==
  {g \in Fibers : \/ Registered(F[f].watchers, g, F[g].wait.no)
                  \/ X[s].children = {f} /\ X[s].closer # 0 /\ g = X[s].fiber}
EndsAs(F, G, f, E) ==
  /\ G[f].watchers = <<>> /\ G[f].result # NotYet
  /\ \A g \in Fibers :
       /\ G[g].wait = IF g \in E THEN NoWait ELSE F[g].wait
       /\ g # f => G[g].watchers = F[g].watchers /\ G[g].result = F[g].result
       /\ G[g].stack = F[g].stack /\ G[g].holds = F[g].holds /\ G[g].ops = F[g].ops
       /\ G[g].born = F[g].born /\ G[g].scope = F[g].scope /\ G[g].pending = F[g].pending
       /\ G[g].unwinding = F[g].unwinding /\ G[g].unwinds = F[g].unwinds

LEMMA EndWakesWaiting ==
  ASSUME NEW f \in Fibers, NEW F, TypedFibers(F), NEW X, NEW d, NEW q, NEW l, NEW k,
         Numbered(F, d, q, l, k), Closing(F, X), NEW s \in Scopes
  PROVE  \A g \in EndWakes(F, X, f, s) :
           /\ g \in Fibers /\ F[g].wait.no # 0
           /\ F[g].wait.on = "closing" => /\ g = X[s].fiber /\ X[s].children = {f} /\ X[s].closer # 0
                                          /\ F[g].wait.of = s
  <1> SUFFICES ASSUME NEW g \in EndWakes(F, X, f, s)
               PROVE  /\ g \in Fibers /\ F[g].wait.no # 0
                      /\ F[g].wait.on = "closing" => /\ g = X[s].fiber /\ X[s].children = {f} /\ X[s].closer # 0
                                                     /\ F[g].wait.of = s
    OBVIOUS
  <1>1. g \in Fibers
    BY DEF EndWakes
  <1>2. CASE Registered(F[f].watchers, g, F[g].wait.no)
    <2>1. NumbersWait(g, F[g].wait, F[g].ops) /\ Numbers(F, F[f].watchers) /\ F[f].watchers \in Seq(Wakes)
      BY <1>1 DEF Numbered, TypedFibers, FiberType
    <2> QED
      BY <1>1, <1>2, <2>1, RegisteredWaits
  <1>3. CASE X[s].children = {f} /\ X[s].closer # 0 /\ g = X[s].fiber
    <2>1. F[g].wait = [no |-> X[s].closer, on |-> "closing", of |-> s]
      BY <1>3 DEF Closing, CloserOf
    <2> QED
      BY <1>1, <1>3, <2>1
  <1> QED
    BY <1>2, <1>3 DEF EndWakes

LEMMA EndsScheduled ==
  ASSUME NEW f \in Fibers, NEW q \in Seq(Tasks), NEW w \in Seq(Fibers), NEW l \in SUBSET Tasks,
         NEW k \in SUBSET CallType, NEW F, TypedFibers(F), NEW G, TypedFibers(G),
         NEW X \in [Scopes -> ScopeType], NEW Y, NEW d \in [Deferreds -> CellType], NEW u,
         Nested(F, X), Scheduled(f, q, w, l, k, F, X, d, u),
         NEW s \in Scopes, f \in X[s].children, ChildEndedTo(X, f, s, Y),
         NEW E, E = EndWakes(F, X, f, s), EndsAs(F, G, f, E),
         NEW ts, NEW r, NEW v, MovesOn(q, w, E, ts, r, v), \A i \in 1..Len(ts) : ts[i].kind = "resume"
  PROVE  Scheduled(None, r, v, l, k, G, Y, d, u) /\ r \in Seq(Tasks)
  <1>0. /\ Numbered(F, d, q, l, k) /\ Placed(f, q, w, LiveIn(F)) /\ Elems(w) = WaitingIn(F)
        /\ Closing(F, X) /\ Children(F, X) /\ Queued(F, q, u) /\ Awake(F) /\ WakesWaiting(F, d, q, l)
    BY DEF Scheduled
  <1>1. \A g \in E : /\ g \in Fibers /\ F[g].wait.no # 0
                     /\ F[g].wait.on = "closing" => /\ g = X[s].fiber /\ X[s].children = {f} /\ X[s].closer # 0
                                                    /\ F[g].wait.of = s
    BY <1>0, EndWakesWaiting
  <1>2. /\ F \in [Fibers -> FiberType] /\ G \in [Fibers -> FiberType]
        /\ \A g \in Fibers : F[g].ops \in Nat /\ G[g].ops \in Nat /\ F[g].ops <= G[g].ops
    <2>1. F \in [Fibers -> FiberType] /\ G \in [Fibers -> FiberType]
      BY DEF TypedFibers
    <2>2. \A g \in Fibers : F[g].ops \in Nat /\ G[g].ops = F[g].ops
      BY <2>1 DEF FiberType, EndsAs
    <2> QED
      BY <2>1, <2>2
  <1>3. LiveIn(G) = LiveIn(F) \ {f} /\ WaitingIn(G) = WaitingIn(F) \ E
    <2>1. \A g \in Fibers : g \in LiveIn(G) <=> g \in LiveIn(F) /\ g # f
      BY DEF LiveIn, EndsAs
    <2>2. \A g \in Fibers : g \in WaitingIn(G) <=> g \in WaitingIn(F) /\ g \notin E
      BY DEF WaitingIn, EndsAs, NoWait
    <2> QED
      BY <2>1, <2>2 DEF LiveIn, WaitingIn
  <1>4. Placed(None, r, v, LiveIn(G)) /\ r \in Seq(Tasks) /\ Elems(v) = WaitingIn(G)
    <2>1. PICK L : L = LiveIn(F)
      OBVIOUS
    <2>2. Placed(f, q, w, L)
      BY <1>0, <2>1
    <2>3. Placed(None, r, v, L \ {f}) /\ r \in Seq(Tasks)
      BY <2>2, PlacedEnds
    <2>4. Elems(v) = Elems(w) \ E
      BY DEF MovesOn
    <2> QED
      BY <1>0, <1>3, <2>1, <2>3, <2>4
  <1>5. /\ \A i \in 1..Len(r) : (i \in 1..Len(q) /\ r[i] = q[i]) \/ r[i].kind = "resume"
        /\ \A i \in 1..Len(q) : i \in 1..Len(r) /\ r[i] = q[i]
    <2>1. JoinedTo(Tasks, q, ts, r)
      BY Joined DEF MovesOn, Continue
    <2>2. ASSUME NEW i \in 1..Len(r), i \notin 1..Len(q) PROVE r[i].kind = "resume"
      <3>1. i - Len(q) \in 1..Len(ts) /\ Len(q) + (i - Len(q)) = i
        BY <2>1, <2>2 DEF JoinedTo
      <3> QED
        BY <2>1, <3>1 DEF JoinedTo
    <2> QED
      BY <2>1, <2>2 DEF JoinedTo
  <1>6. \A i \in 1..Len(q) : q[i].f \in Fibers
    <2>1. \A i \in 1..Len(q) : q[i] \in Tasks
      BY ElementOfSeq, LenProperties
    <2> QED
      BY <2>1 DEF Tasks
  <1>7. Numbered(G, d, r, l, k)
    <2>1. ASSUME NEW g \in Fibers PROVE NumbersWait(g, G[g].wait, G[g].ops)
      <3>1. NumbersWait(g, F[g].wait, F[g].ops) /\ G[g].ops = F[g].ops
        BY <1>0 DEF Numbered, EndsAs
      <3>2. G[g].wait = F[g].wait \/ G[g].wait = NoWait
        BY DEF EndsAs
      <3> QED
        BY <3>1, <3>2 DEF NumbersWait, NoWait
    <2>2. ASSUME NEW g \in Fibers PROVE Numbers(G, G[g].watchers)
      <3>1. CASE g = f
        BY <3>1 DEF Numbers, EndsAs
      <3>2. CASE g # f
        <4>1. Numbers(F, F[g].watchers) /\ F[g].watchers \in Seq(Wakes) /\ G[g].watchers = F[g].watchers
          BY <1>0, <1>2, <3>2 DEF Numbered, FiberType, EndsAs
        <4> QED
          BY <1>2, <4>1, NumbersKept
      <3> QED
        BY <3>1, <3>2
    <2>3. ASSUME NEW c \in Deferreds PROVE Numbers(G, d[c].waiters)
      <3>1. Numbers(F, d[c].waiters) /\ d[c].waiters \in Seq(Wakes)
        BY <1>0 DEF Numbered, CellType
      <3> QED
        BY <1>2, <3>1, NumbersKept
    <2>4. ASSUME NEW i \in 1..Len(r), r[i].kind = "go" PROVE r[i].no \in 1..G[r[i].f].ops
      <3>1. i \in 1..Len(q) /\ r[i] = q[i]
        BY <1>5, <2>4
      <3>2. q[i].f \in Fibers /\ q[i].no \in 1..F[q[i].f].ops
        BY <1>0, <1>6, <2>4, <3>1 DEF Numbered
      <3> QED
        BY <1>2, <3>1, <3>2
    <2>5. ASSUME NEW t \in l PROVE t.kind = "go" /\ t.no \in 1..G[t.f].ops
      <3>1. t.f \in Fibers
        BY DEF Tasks
      <3>2. t.kind = "go" /\ t.no \in 1..F[t.f].ops
        BY <1>0 DEF Numbered
      <3> QED
        BY <1>2, <3>1, <3>2
    <2>6. ASSUME NEW c \in k PROVE c.no \in 1..G[c.f].ops
      <3>1. c.f \in Fibers
        BY DEF CallType
      <3>2. c.no \in 1..F[c.f].ops
        BY <1>0 DEF Numbered
      <3> QED
        BY <1>2, <3>1, <3>2
    <2> QED
      BY <2>1, <2>2, <2>3, <2>4, <2>5, <2>6 DEF Numbered
  <1>8. Closing(G, Y)
    <2>1. ASSUME NEW g \in Fibers PROVE ClosingOf(G[g], Y)
      <3>1. /\ ClosingOf(F[g], X) /\ NumbersWait(g, F[g].wait, F[g].ops)
            /\ G[g].wait = (IF g \in E THEN NoWait ELSE F[g].wait) /\ G[g].stack = F[g].stack
        BY <1>0 DEF Closing, Numbered, EndsAs
      <3>2. CASE ~ClosingTop(F[g])
        BY <3>1, <3>2 DEF ClosingOf, ClosingTop, NoWait
      <3>3. CASE ClosingTop(F[g])
        <4>1. PICK a, t : a = F[g].stack /\ t = Last(a).s
          OBVIOUS
        <4>2. a \in Seq(Frames) /\ FramesIn(g, a, X) /\ a # <<>> /\ Last(a).kind = "closing"
          BY <1>2, <3>3, <4>1 DEF ClosingTop, Nested, FramesOf, FiberType
        <4>3. Len(a) \in 1..Len(a) /\ Last(a) = a[Len(a)]
          BY <4>2, LenProperties, EmptySeq DEF Last
        <4>4. t \in Scopes /\ X[t].fiber = g
          BY <4>1, <4>2, <4>3 DEF FramesIn, FrameOf, OfScope
        <4>5. \/ F[g].wait = NoWait /\ X[t].children = {}
              \/ /\ F[g].wait.on = "closing" /\ F[g].wait.of = t
                 /\ X[t].children # {} /\ X[t].closer = F[g].wait.no
          BY <3>1, <3>3, <4>1 DEF ClosingOf
        <4>6. CASE F[g].wait = NoWait /\ X[t].children = {}
          <5>1. g \notin E /\ t # s
            BY <1>1, <4>6 DEF NoWait
          <5>2. Y[t] = X[t]
            BY <4>4, <5>1 DEF ChildEndedTo
          <5> QED
            BY <3>1, <3>3, <4>1, <4>4, <4>6, <5>1, <5>2 DEF ClosingOf, ClosingTop
        <4>7. CASE /\ F[g].wait.on = "closing" /\ F[g].wait.of = t
                   /\ X[t].children # {} /\ X[t].closer = F[g].wait.no
          <5>1. CASE g \in E
            <6>1. t = s /\ X[s].children = {f} /\ G[g].wait = NoWait
              BY <1>1, <3>1, <4>7, <5>1
            <6>2. Y[t].children = {}
              BY <6>1 DEF ChildEndedTo
            <6> QED
              BY <3>1, <3>3, <4>1, <4>4, <6>1, <6>2 DEF ClosingOf, ClosingTop
          <5>2. CASE g \notin E
            <6>1. F[g].wait.no # 0
              <7>1. F[g].wait.no = ClosingNo(g, t)
                BY <3>1, <4>7 DEF NumbersWait
              <7> QED
                BY <4>4, <7>1, ConstantsAssumption DEF ClosingNo, Scopes
            <6>2. t = s => X[s].children # {f}
              BY <4>4, <4>7, <5>2, <6>1 DEF EndWakes
            <6>3. Y[t].children # {} /\ Y[t].closer = X[t].closer
              <7>1. CASE t = s
                <8>1. PICK c \in X[s].children : c # f
                  BY <6>2, <7>1
                <8> QED
                  BY <6>2, <7>1, <8>1 DEF ChildEndedTo
              <7>2. CASE t # s
                BY <4>4, <4>7, <7>2 DEF ChildEndedTo
              <7> QED
                BY <7>1, <7>2
            <6> QED
              BY <3>1, <3>3, <4>1, <4>4, <4>7, <5>2, <6>3 DEF ClosingOf, ClosingTop
          <5> QED
            BY <5>1, <5>2
        <4> QED
          BY <4>5, <4>6, <4>7
      <3> QED
        BY <3>2, <3>3
    <2>2. ASSUME NEW t \in Scopes PROVE CloserOf(G, Y[t], t)
      <3> SUFFICES ASSUME Y[t].closer # 0
                   PROVE  /\ Y[t].fiber \in Fibers
                          /\ G[Y[t].fiber].wait = [no |-> Y[t].closer, on |-> "closing", of |-> t]
        BY DEF CloserOf
      <3>1. Y[t].closer = X[t].closer /\ Y[t].fiber = X[t].fiber /\ (t = s => X[s].children # {f})
        BY DEF ChildEndedTo
      <3>2. X[t].fiber \in Fibers /\ F[X[t].fiber].wait = [no |-> X[t].closer, on |-> "closing", of |-> t]
        BY <1>0, <3>1 DEF Closing, CloserOf
      <3>3. X[t].fiber \notin E
        BY <1>1, <3>1, <3>2
      <3> QED
        BY <3>1, <3>2, <3>3 DEF EndsAs
    <2> QED
      BY <2>1, <2>2 DEF Closing
  <1>9. Children(G, Y)
    <2>1. ASSUME NEW t \in Scopes, NEW g \in Fibers
          PROVE  g \in Y[t].children <=> G[g].born /\ G[g].result = NotYet /\ G[g].scope = t
      <3>1. g \in X[t].children <=> F[g].born /\ F[g].result = NotYet /\ F[g].scope = t
        BY <1>0 DEF Children
      <3>2. F[f].scope = s
        BY <1>0 DEF Children
      <3>3. Y[t].children = IF t = s THEN X[t].children \ {f} ELSE X[t].children
        BY DEF ChildEndedTo
      <3>4. CASE g = f
        BY <3>1, <3>2, <3>3, <3>4 DEF EndsAs
      <3>5. CASE g # f
        BY <3>1, <3>3, <3>5 DEF EndsAs
      <3> QED
        BY <3>4, <3>5
    <2> QED
      BY <2>1 DEF Children
  <1>10. Queued(G, r, u)
    <2>1. ASSUME NEW i \in 1..Len(r)
          PROVE  /\ r[i].kind = "begin" => r[i].f # Main /\ G[r[i].f].stack = <<>>
                 /\ r[i].kind = "throw" => G[r[i].f].holds = 0 \/ u
      <3>1. CASE i \in 1..Len(q) /\ r[i] = q[i]
        BY <1>0, <1>6, <3>1, SMTT(30) DEF Queued, EndsAs
      <3>2. CASE r[i].kind = "resume"
        BY <3>2
      <3> QED
        BY <1>5, <3>1, <3>2
    <2> QED
      BY <2>1 DEF Queued
  <1>11. Awake(G)
    <2> SUFFICES ASSUME NEW g \in Fibers, G[g].wait.no # 0 PROVE ~Interrupts(G[g])
      BY DEF Awake
    <2>1. F[g].wait.no # 0
      BY DEF EndsAs, NoWait
    <2>2. ~Interrupts(F[g])
      BY <1>0, <2>1 DEF Awake
    <2> QED
      BY <2>2 DEF Interrupts, EndsAs
  <1>12. WakesWaiting(G, d, r, l)
    <2>1. ASSUME NEW g \in Fibers PROVE WakesOf(g, G[g].wait, G, d, r, l)
      <3>1. CASE g \in E
        BY <3>1 DEF WakesOf, EndsAs, NoWait
      <3>2. CASE g \notin E
        <4>1. WakesOf(g, F[g].wait, F, d, q, l) /\ G[g].wait = F[g].wait
          BY <1>0, <3>2 DEF WakesWaiting, EndsAs
        <4>2. Yields(q, l, g, F[g].wait.no) => Yields(r, l, g, F[g].wait.no)
          BY <1>5 DEF Yields
        <4>3. ASSUME F[g].wait.on = "fiber"
              PROVE  F[g].wait.of \in LiveIn(G) /\ Registered(G[F[g].wait.of].watchers, g, F[g].wait.no)
          <5>1. F[g].wait.of \in LiveIn(F) /\ Registered(F[F[g].wait.of].watchers, g, F[g].wait.no)
            BY <4>1, <4>3 DEF WakesOf
          <5>2. F[g].wait.of # f
            BY <3>2, <5>1 DEF EndWakes
          <5>3. F[g].wait.of \in Fibers
            BY <5>1 DEF LiveIn
          <5> QED
            BY <1>3, <5>1, <5>2, <5>3 DEF EndsAs
        <4> QED
          BY <4>1, <4>2, <4>3 DEF WakesOf
      <3> QED
        BY <3>1, <3>2
    <2> QED
      BY <2>1 DEF WakesWaiting
  <1> QED
    BY <1>4, <1>7, <1>8, <1>9, <1>10, <1>11, <1>12 DEF Scheduled

(* Who is woken when f ends.                                               *)
Closer(f, s) == IF scope[s].children = {f} THEN CloserWake(s) ELSE <<>>

ClosesWith(c, f, s) ==
  /\ c \in Seq(Wakes)
  /\ \A i, j \in 1..Len(c) : i = j
  /\ \A i \in 1..Len(c) : /\ scope[s].children = {f} /\ scope[s].closer # 0
                          /\ c[i].f = scope[s].fiber /\ c[i].no = scope[s].closer
  /\ scope[s].children = {f} /\ scope[s].closer # 0 => 1 \in 1..Len(c)

LEMMA CloserWakes ==
  ASSUME scope \in [Scopes -> ScopeType], NEW F, NEW f \in Fibers, NEW s \in Scopes, CloserOf(F, scope[s], s),
         NEW c, c = Closer(f, s)
  PROVE  ClosesWith(c, f, s)
  <1>1. CASE scope[s].children = {f} /\ scope[s].closer # 0
    <2>1. PICK y : y = Wake(scope[s].fiber, scope[s].closer, "closing")
      OBVIOUS
    <2>2. c = <<y>>
      BY <1>1, <2>1 DEF Closer, CloserWake
    <2>3. scope[s].fiber \in Fibers /\ scope[s].closer \in Nat
      BY <1>1 DEF CloserOf, ScopeType
    <2>4. y \in Wakes /\ y.f = scope[s].fiber /\ y.no = scope[s].closer
      BY <2>1, <2>3 DEF Wake, Wakes, Verbs
    <2>5. c \in Seq(Wakes) /\ Len(c) = 1 /\ c[1] = y
      BY <2>2, <2>4
    <2> QED
      BY <1>1, <2>4, <2>5 DEF ClosesWith
  <1>2. CASE ~(scope[s].children = {f} /\ scope[s].closer # 0)
    <2>1. c = <<>>
      BY <1>2 DEF Closer, CloserWake
    <2>2. <<>> \in Seq(Wakes) /\ Len(<<>>) = 0
      BY EmptySeq
    <2> QED
      BY <1>2, <2>1, <2>2 DEF ClosesWith
  <1> QED
    BY <1>1, <1>2

(* The wakes of the closer and of the watchers, and the tasks they queue.  *)
WakesAtEnd(f, s, D, o, z, ts) ==
  z = Woken(Closer(f, s) \o fib[f].watchers, D) /\ ts = ResumeTasks(z, o)
EndWoke(F, f, s, E, ts) ==
  /\ E = EndWakes(F, scope, f, s) /\ Continue(ts, E)
  /\ \A i \in 1..Len(ts) : ts[i].kind = "resume"

LEMMA EndWoken ==
  ASSUME NEW f \in Fibers, NEW q, Base(f, q), NEW S, NEW b, NEW s \in Scopes, NEW D, NEW F,
         InterruptedTo(S, b, s, D, F), Closing(F, scope), NEW o \in Outcomes, NEW z, NEW ts,
         WakesAtEnd(f, s, D, o, z, ts)
  PROVE  EndWoke(F, f, s, Taken(z), ts)
  <1>0. PICK ws : ws = Closer(f, s) \o fib[f].watchers
    OBVIOUS
  <1>a. z = Woken(ws, D) /\ ts = ResumeTasks(z, o)
    BY <1>0 DEF WakesAtEnd
  <1>1. PICK c, W : c = Closer(f, s) /\ W = fib[f].watchers
    OBVIOUS
  <1>2. /\ scope \in [Scopes -> ScopeType] /\ fib \in [Fibers -> FiberType] /\ TypedFibers(fib)
        /\ Numbered(fib, deferred, q, later, calls) /\ Closing(fib, scope)
    BY DEF Base, Typed, TypedFibers, Scheduled
  <1>3. W \in Seq(Wakes) /\ Numbers(fib, W)
    BY <1>1, <1>2 DEF FiberType, Numbered
  <1>4. CloserOf(F, scope[s], s) /\ CloserOf(fib, scope[s], s)
    BY <1>2 DEF Closing
  <1>5. /\ c \in Seq(Wakes)
        /\ \A i, j \in 1..Len(c) : i = j
        /\ \A i \in 1..Len(c) : /\ scope[s].children = {f} /\ scope[s].closer # 0
                                /\ c[i].f = scope[s].fiber /\ c[i].no = scope[s].closer
        /\ scope[s].children = {f} /\ scope[s].closer # 0 => 1 \in 1..Len(c)
    <2>1. ClosesWith(c, f, s)
      BY <1>1, <1>2, <1>4, CloserWakes
    <2> QED
      BY <2>1 DEF ClosesWith
  <1>6. JoinedTo(Wakes, c, W, ws)
    BY <1>0, <1>1, <1>3, <1>5, Joined
  <1>7. \A i \in 1..Len(ws) : \/ i \in 1..Len(c) /\ ws[i] = c[i]
                              \/ i - Len(c) \in 1..Len(W) /\ ws[i] = W[i - Len(c)]
    <2> SUFFICES ASSUME NEW i \in 1..Len(ws), i \notin 1..Len(c)
                 PROVE  i - Len(c) \in 1..Len(W) /\ ws[i] = W[i - Len(c)]
      BY <1>6 DEF JoinedTo
    <2>1. i - Len(c) \in 1..Len(W) /\ Len(c) + (i - Len(c)) = i
      BY <1>6 DEF JoinedTo
    <2> QED
      BY <1>6, <2>1 DEF JoinedTo
  <1>8. ASSUME NEW i \in 1..Len(W) PROVE W[i].f \in Fibers /\ W[i].no \in 1..fib[W[i].f].ops
    <2>1. W[i] \in Wakes
      BY <1>3, ElementOfSeq
    <2> QED
      BY <1>3, <2>1 DEF Numbers, Wakes
  <1>9. \A i \in 1..Len(W) : \A j \in 1..Len(c) : ~(W[i].f = c[j].f /\ W[i].no = c[j].no)
    <2> SUFFICES ASSUME NEW i \in 1..Len(W), NEW j \in 1..Len(c), W[i].f = c[j].f, W[i].no = c[j].no
                 PROVE  FALSE
      OBVIOUS
    <2>1. PICK g : g = scope[s].fiber
      OBVIOUS
    <2>2. g \in Fibers /\ fib[g].wait = [no |-> scope[s].closer, on |-> "closing", of |-> s]
      BY <1>4, <1>5, <2>1 DEF CloserOf
    <2>3. W[i].f = g /\ W[i].no = fib[g].wait.no
      BY <1>5, <2>1, <2>2
    <2>4. Registered(W, g, fib[g].wait.no) /\ NumbersWait(g, fib[g].wait, fib[g].ops)
      BY <1>2, <2>2, <2>3 DEF Registered, Numbered
    <2>5. fib[g].wait.on # "closing"
      BY <1>2, <1>3, <2>2, <2>4, RegisteredWaits
    <2> QED
      BY <2>2, <2>5
  <1>10. Apart(ws)
    <2> SUFFICES ASSUME NEW i \in 1..Len(ws), NEW j \in 1..Len(ws), ws[i].f = ws[j].f, ws[i].no = ws[j].no
                 PROVE  i = j
      BY DEF Apart
    <2>1. Len(c) \in Nat /\ Len(W) \in Nat /\ Len(ws) \in Nat /\ i \in Int /\ j \in Int
      BY <1>6 DEF JoinedTo
    <2>2. CASE i \in 1..Len(c) /\ ws[i] = c[i]
      <3>1. CASE j \in 1..Len(c) /\ ws[j] = c[j]
        BY <1>5, <2>2, <3>1
      <3>2. CASE j - Len(c) \in 1..Len(W) /\ ws[j] = W[j - Len(c)]
        BY <1>9, <2>2, <3>2
      <3> QED
        BY <1>7, <3>1, <3>2
    <2>3. CASE i - Len(c) \in 1..Len(W) /\ ws[i] = W[i - Len(c)]
      <3>1. CASE j \in 1..Len(c) /\ ws[j] = c[j]
        BY <1>9, <2>3, <3>1
      <3>2. CASE j - Len(c) \in 1..Len(W) /\ ws[j] = W[j - Len(c)]
        <4>1. i - Len(c) = j - Len(c)
          BY <1>3, <2>3, <3>2 DEF Numbers
        <4> QED
          BY <2>1, <4>1
      <3> QED
        BY <1>7, <3>1, <3>2
    <2> QED
      BY <1>7, <2>2, <2>3
  <1>11. ws \in Seq(Wakes)
    BY <1>6 DEF JoinedTo
  <1>12. WokenFrom(fib, ws, D, z)
    BY <1>a, <1>10, <1>11, WokenEach
  <1>13. \A g, n : Registered(ws, g, n) <=> Registered(c, g, n) \/ Registered(W, g, n)
    <2>1. ASSUME NEW g, NEW n, Registered(ws, g, n) PROVE Registered(c, g, n) \/ Registered(W, g, n)
      <3>1. PICK i \in 1..Len(ws) : ws[i].f = g /\ ws[i].no = n
        BY <2>1 DEF Registered
      <3>2. CASE i \in 1..Len(c) /\ ws[i] = c[i]
        BY <3>1, <3>2 DEF Registered
      <3>3. CASE i - Len(c) \in 1..Len(W) /\ ws[i] = W[i - Len(c)]
        BY <3>1, <3>3 DEF Registered
      <3> QED
        BY <1>7, <3>2, <3>3
    <2>2. ASSUME NEW g, NEW n, Registered(c, g, n) PROVE Registered(ws, g, n)
      <3>1. PICK i \in 1..Len(c) : c[i].f = g /\ c[i].no = n
        BY <2>2 DEF Registered
      <3>2. i \in 1..Len(ws) /\ ws[i] = c[i]
        BY <1>6, <3>1 DEF JoinedTo
      <3> QED
        BY <3>1, <3>2 DEF Registered
    <2>3. ASSUME NEW g, NEW n, Registered(W, g, n) PROVE Registered(ws, g, n)
      <3>1. PICK i \in 1..Len(W) : W[i].f = g /\ W[i].no = n
        BY <2>3 DEF Registered
      <3>2. Len(c) + i \in 1..Len(ws) /\ ws[Len(c) + i] = W[i]
        BY <1>6, <3>1 DEF JoinedTo
      <3> QED
        BY <3>1, <3>2 DEF Registered
    <2> QED
      BY <2>1, <2>2, <2>3
  <1>14. \A g, n : Registered(c, g, n) <=> /\ scope[s].children = {f} /\ scope[s].closer # 0
                                           /\ g = scope[s].fiber /\ n = scope[s].closer
    <2>1. ASSUME NEW g, NEW n, Registered(c, g, n)
          PROVE  scope[s].children = {f} /\ scope[s].closer # 0 /\ g = scope[s].fiber /\ n = scope[s].closer
      BY <1>5, <2>1 DEF Registered
    <2>2. ASSUME NEW g, NEW n, scope[s].children = {f}, scope[s].closer # 0, g = scope[s].fiber, n = scope[s].closer
          PROVE  Registered(c, g, n)
      BY <1>5, <2>2 DEF Registered
    <2> QED
      BY <2>1, <2>2
  <1>15. ASSUME NEW g \in Fibers
         PROVE  g \notin D /\ Registered(ws, g, fib[g].wait.no) <=> g \in EndWakes(F, scope, f, s)
    <2>1. F[f].watchers = W /\ F[g].wait = IF g \in D THEN NoWait ELSE fib[g].wait
      BY <1>1 DEF InterruptedTo
    <2>2. g \in EndWakes(F, scope, f, s) <=>
            \/ Registered(W, g, F[g].wait.no)
            \/ scope[s].children = {f} /\ scope[s].closer # 0 /\ g = scope[s].fiber
      BY <2>1 DEF EndWakes
    <2>3. CASE g \in D
      <3>1. F[g].wait.no = 0
        BY <2>1, <2>3 DEF NoWait
      <3>2. ~Registered(W, g, 0)
        <4>1. \A i \in 1..Len(W) : W[i].no # 0
          <5>1. ASSUME NEW i \in 1..Len(W) PROVE W[i].no # 0
            <6>1. fib[W[i].f].ops \in Nat
              BY <1>2, <1>8 DEF FiberType
            <6> QED
              BY <1>8, <6>1
          <5> QED
            BY <5>1
        <4> QED
          BY <4>1 DEF Registered
      <3>3. ~(scope[s].closer # 0 /\ g = scope[s].fiber)
        BY <1>4, <3>1 DEF CloserOf
      <3> QED
        BY <2>2, <2>3, <3>1, <3>2, <3>3
    <2>4. CASE g \notin D
      <3>1. F[g].wait.no = fib[g].wait.no
        BY <2>1, <2>4
      <3>2. scope[s].closer # 0 /\ g = scope[s].fiber => fib[g].wait.no = scope[s].closer
        BY <1>4 DEF CloserOf
      <3> QED
        BY <1>13, <1>14, <2>2, <2>4, <3>1, <3>2
    <2> QED
      BY <2>3, <2>4
  <1>16. Taken(z) = EndWakes(F, scope, f, s)
    <2>1. Taken(z) = {g \in Fibers : g \notin D /\ Registered(ws, g, fib[g].wait.no)}
      BY <1>12 DEF WokenFrom
    <2>2. \A g \in EndWakes(F, scope, f, s) : g \in Fibers
      BY DEF EndWakes
    <2> QED
      BY <1>15, <2>1, <2>2
  <1>17. Continue(ts, Taken(z)) /\ \A i \in 1..Len(ts) : ts[i].kind = "resume"
    BY <1>a, <1>12, ResumesEach
  <1> QED
    BY <1>16, <1>17 DEF EndWoke

(* The fiber that ends, and the ones it wakes.                             *)
LEMMA EndFields ==
  ASSUME NEW F, TypedFibers(F), NEW f \in Fibers, NEW o \in Outcomes, NEW E,
         NEW G, G = [Released(F, E) EXCEPT ![f].result = o, ![f].watchers = <<>>]
  PROVE  TypedFibers(G) /\ EndsAs(F, G, f, E)
  <1>1. PICK H : H = Released(F, E)
    OBVIOUS
  <1>2. /\ TypedFibers(H) /\ Releases(F, H, E)
        /\ \A g \in Fibers : /\ H[g].pending = F[g].pending /\ H[g].unwinding = F[g].unwinding
                             /\ H[g].unwinds = F[g].unwinds
    BY <1>1, ReleasedFields
  <1>3. PICK a, b : a = H[f] /\ b = [H[f] EXCEPT !.result = o, !.watchers = <<>>]
    OBVIOUS
  <1>4. a \in FiberType /\ a.ops <= MaxOps[f] /\ H \in [Fibers -> FiberType]
    BY <1>2, <1>3 DEF TypedFibers
  <1>5. /\ b \in FiberType /\ b.result = o /\ b.watchers = <<>>
        /\ b.wait = a.wait /\ b.stack = a.stack /\ b.holds = a.holds /\ b.ops = a.ops
        /\ b.born = a.born /\ b.scope = a.scope /\ b.pending = a.pending
        /\ b.unwinding = a.unwinding /\ b.unwinds = a.unwinds
    <2>1. <<>> \in Seq(Wakes)
      BY EmptySeq
    <2> QED
      BY <1>3, <1>4, <2>1 DEF FiberType
  <1>6. G = Upd(H, f, b)
    <2> HIDE DEF FiberType
    <2> QED
      BY <1>1, <1>3, <1>4 DEF Upd
  <1>7. TypedFibers(G) /\ G[f] = b /\ \A g \in Fibers \ {f} : G[g] = H[g]
    <2>1. TypedFibers(H) /\ b \in FiberType /\ b.ops <= MaxOps[f]
      BY <1>2, <1>4, <1>5
    <2> QED
      BY ONLY f \in Fibers, <1>6, <2>1, FiberUpdated
  <1>8. o # NotYet
    BY DEF Outcomes, NotYet
  <1>9. ASSUME NEW g \in Fibers
        PROVE  /\ G[g].wait = IF g \in E THEN NoWait ELSE F[g].wait
               /\ g # f => G[g].watchers = F[g].watchers /\ G[g].result = F[g].result
               /\ G[g].stack = F[g].stack /\ G[g].holds = F[g].holds /\ G[g].ops = F[g].ops
               /\ G[g].born = F[g].born /\ G[g].scope = F[g].scope /\ G[g].pending = F[g].pending
               /\ G[g].unwinding = F[g].unwinding /\ G[g].unwinds = F[g].unwinds
    <2>1. CASE g = f
      BY <1>2, <1>3, <1>5, <1>7, <2>1, ZenonT(30) DEF Releases
    <2>2. CASE g # f
      <3>1. G[g] = H[g]
        BY <1>7, <2>2
      <3> QED
        BY ONLY <1>2, <1>9, <2>2, <3>1 DEF Releases
    <2> QED
      BY <2>1, <2>2
  <1>10. G[f].watchers = <<>> /\ G[f].result # NotYet
    BY <1>5, <1>7, <1>8
  <1>11. EndsAs(F, G, f, E)
    BY ONLY <1>9, <1>10 DEF EndsAs
  <1> QED
    BY <1>7, <1>11

(* The scope of a live fiber, and whom its first failure interrupts.       *)
LEMMA EndAims ==
  ASSUME NEW f \in Fibers, NEW q, Base(f, q), f # Main, NEW s, s = fib[f].scope, NEW i \in BOOLEAN,
         NEW S, S = (IF i THEN scope[s].children \ {f} ELSE {}),
         NEW b, b = (IF i /\ ~scope[s].bodyDone THEN scope[s].fiber ELSE None)
  PROVE  s \in Scopes /\ f \in scope[s].children /\ Aims(S, b, s)
  <1>1. /\ Nested(fib, scope) /\ scope \in [Scopes -> ScopeType] /\ Children(fib, scope)
        /\ fib[f].born /\ fib[f].result = NotYet
    <2>1. f # None
      BY ConstantsAssumption DEF Fibers, None
    <2>2. f \in LiveIn(fib)
      BY <2>1 DEF Base, Scheduled, Placed
    <2> QED
      BY <2>2 DEF Base, Typed, Scheduled, LiveIn
  <1>2. s \in Scopes /\ scope[s].fiber \in 1..(f - 1)
    BY <1>1 DEF Nested, Forked
  <1>3. f \in scope[s].children
    BY <1>1, <1>2 DEF Children
  <1>4. scope[s].fiber \in Fibers /\ None \notin Fibers
    BY <1>2, ConstantsAssumption DEF Fibers, None
  <1>5. S \in SUBSET Fibers
    BY <1>1, <1>2 DEF ScopeType
  <1>6. b \notin S
    <2>1. scope[s].fiber \notin scope[s].children
      BY <1>1, <1>2, <1>4, NotOwnChild DEF Nested
    <2> QED
      BY <1>4, <1>5, <2>1
  <1>7. b \in Fibers => InScope(fib[b].stack, s)
    <2> SUFFICES ASSUME b \in Fibers PROVE InScope(fib[b].stack, s)
      OBVIOUS
    <2>1. b = scope[s].fiber /\ ~scope[s].bodyDone
      BY <1>4
    <2>2. ~scope[s].ended
      BY <1>1, <1>2, <2>1 DEF Nested, ScopesOf
    <2>3. HasFrame(fib[b].stack, s) /\ FramesIn(b, fib[b].stack, scope)
      BY <1>1, <1>2, <1>4, <2>1, <2>2 DEF Nested, FramesOf
    <2>4. PICK j \in 1..Len(fib[b].stack) : OfScope(fib[b].stack[j]) /\ fib[b].stack[j].s = s
      BY <2>3 DEF HasFrame
    <2>5. FrameOf(b, fib[b].stack[j], scope)
      BY <2>3, <2>4 DEF FramesIn
    <2>6. fib[b].stack[j].kind = "scope"
      BY <2>1, <2>4, <2>5 DEF FrameOf, OfScope
    <2> QED
      BY <2>4, <2>6 DEF InScope
  <1> QED
    BY <1>2, <1>3, <1>5, <1>6, <1>7 DEF Aims

LEMMA FinishChildInv ==
  ASSUME ~over, NEW f \in Fibers, NEW q, Base(f, q), f # Main, NEW o \in Outcomes, FinishChild(f, o, q)
  PROVE  Inv'
  <1>1. PICK s, i : s = fib[f].scope /\ i = (Failure(o) /\ scope[s].first = NotYet)
    OBVIOUS
  <1>2. PICK S, b : /\ S = (IF i THEN scope[s].children \ {f} ELSE {})
                    /\ b = (IF i /\ ~scope[s].bodyDone THEN scope[s].fiber ELSE None)
    OBVIOUS
  <1>3. PICK D, F : D = Dropped(S, b, s) /\ F = Interrupted(S, b, s)
    OBVIOUS
  <1>4. PICK r, v, K, ws : /\ r = q \o Throws(S, b, s) /\ v = Without(waits, D) /\ K = Aborted(D)
                           /\ ws = Closer(f, s) \o fib[f].watchers
    OBVIOUS
  <1>5. PICK z : z = Woken(ws, D)
    OBVIOUS
  <1>6. PICK E, ts : E = Taken(z) /\ ts = ResumeTasks(z, o)
    OBVIOUS
  <1>7. /\ fib' = [Released(F, E) EXCEPT ![f].result = o, ![f].watchers = <<>>]
        /\ scope' = ChildEnded(f, s, o) /\ queue' = r \o ts /\ waits' = Without(waits, D \cup E)
        /\ calls' = K /\ cur' = None /\ flow' = "run"
        /\ UNCHANGED <<over, pauses, later, deferred, unwound, reported>>
    BY <1>1, <1>2, <1>3, <1>4, <1>5, <1>6 DEF FinishChild, Closer
  <1>8. s \in Scopes /\ f \in scope[s].children /\ Aims(S, b, s)
    <2>1. i \in BOOLEAN
      BY <1>1 DEF Failure
    <2> QED
      BY <1>1, <1>2, <2>1, EndAims
  <1>9. InterruptKeeps(f, r, v, K, F) /\ InterruptedTo(S, b, s, D, F)
    BY <1>3, <1>4, <1>8, InterruptsKept
  <1>10. /\ Typed /\ waits \in Seq(Fibers) /\ later \in SUBSET Tasks /\ scope \in [Scopes -> ScopeType]
         /\ deferred \in [Deferreds -> CellType]
    BY DEF Base, Typed, TypedScheduler
  <1>11. /\ TypedFibers(F) /\ Nested(F, scope) /\ r \in Seq(Tasks) /\ v \in Seq(Fibers) /\ K \in SUBSET CallType
         /\ Scheduled(f, r, v, later, K, F, scope, deferred, unwound) /\ Closing(F, scope)
    BY <1>9 DEF InterruptKeeps, Scheduled
  <1>12. /\ E = EndWakes(F, scope, f, s) /\ Continue(ts, E)
         /\ \A j \in 1..Len(ts) : ts[j].kind = "resume"
    <2>1. WakesAtEnd(f, s, D, o, z, ts)
      BY <1>4, <1>5, <1>6 DEF WakesAtEnd
    <2>2. s \in Scopes /\ InterruptedTo(S, b, s, D, F) /\ Closing(F, scope)
      BY <1>8, <1>9, <1>11
    <2>3. EndWoke(F, f, s, Taken(z), ts)
      BY ONLY f \in Fibers, o \in Outcomes, Base(f, q), <2>1, <2>2, EndWoken
    <2> QED
      BY <1>6, <2>3 DEF EndWoke
  <1>13. TypedFibers(fib') /\ EndsAs(F, fib', f, E)
    BY <1>7, <1>11, EndFields
  <1>14. ChildEndedTo(scope, f, s, scope')
    BY <1>7, <1>8, <1>10, ChildEnds
  <1>15. MovesOn(r, v, E, ts, queue', waits')
    <2>1. PICK C : C = D \cup E
      OBVIOUS
    <2>2. Filtered(Fibers, waits, C, waits') /\ Filtered(Fibers, waits, D, v)
      BY <1>4, <1>7, <1>10, <2>1, WithoutProperties
    <2>3. Distinct(waits)
      BY DEF Base, Scheduled, Placed
    <2>4. /\ waits' \in Seq(Fibers) /\ Distinct(waits') /\ Elems(waits') = Elems(waits) \ C
          /\ Elems(v) = Elems(waits) \ D
      BY <2>2, <2>3 DEF Filtered
    <2>5. E \subseteq Elems(v)
      <3>1. Numbered(F, deferred, r, later, K) /\ Elems(v) = WaitingIn(F)
        BY <1>11 DEF Scheduled
      <3>2. \A g \in E : g \in Fibers /\ F[g].wait.no # 0
        BY <1>8, <1>11, <1>12, <3>1, EndWakesWaiting
      <3> QED
        BY <3>1, <3>2 DEF WaitingIn
    <2> QED
      BY <1>7, <1>12, <2>1, <2>4, <2>5 DEF MovesOn
  <1>16. Scheduled(None, queue', waits', later, K, fib', scope', deferred, unwound) /\ queue' \in Seq(Tasks)
    BY <1>8, <1>10, <1>11, <1>12, <1>13, <1>14, <1>15, EndsScheduled
  <1>17. Nested(fib', scope')
    <2>1. SameStacks(F, fib')
      BY <1>13 DEF SameStacks, EndsAs
    <2>2. SameNest(scope, scope') /\ scope' \in [Scopes -> ScopeType]
      BY <1>14 DEF SameNest, ChildEndedTo
    <2>3. ScopesOf(scope')
      <3>1. \A t \in Scopes : /\ scope'[t].fiber = scope[t].fiber /\ scope'[t].ended = scope[t].ended
                              /\ scope'[t].bodyDone = scope[t].bodyDone /\ scope'[t].out = scope[t].out
                              /\ (scope[t].closed => scope'[t].closed)
        BY <1>14 DEF ChildEndedTo
      <3>2. scope[s].fiber # None
        <4>1. scope[s] = NewScope(None, 0) => scope[s].children = {}
          BY DEF NewScope
        <4> QED
          BY <1>8, <1>11, <4>1 DEF Nested, ScopesOf
      <3>3. \A t \in Scopes : scope'[t].fiber = None => scope'[t] = NewScope(None, 0)
        BY <1>11, <1>14, <3>1, <3>2 DEF ChildEndedTo, Nested, ScopesOf
      <3> QED
        BY <1>11, <3>1, <3>3 DEF Nested, ScopesOf
    <2>4. \A g \in Fibers : \A t \in Asked(fib'[g]) : t \in Asked(F[g]) \/ InScope(F[g].stack, t)
      BY <1>13 DEF Asked, EndsAs
    <2>5. F \in [Fibers -> FiberType] /\ fib' \in [Fibers -> FiberType]
      BY <1>11, <1>13 DEF TypedFibers
    <2> QED
      BY <1>10, <1>11, <2>1, <2>2, <2>3, <2>4, <2>5, NestedKept
  <1>18. Typed'
    <2>1. scope' \in [Scopes -> ScopeType] /\ waits' \in Seq(Fibers)
      BY <1>14, <1>15 DEF ChildEndedTo, MovesOn
    <2> QED
      BY <1>7, <1>10, <1>11, <1>13, <1>16, <2>1 DEF Typed, TypedScheduler
  <1> QED
    BY <1>7, <1>16, <1>17, <1>18 DEF Inv

LEMMA FinishInv ==
  ASSUME Inv, NEW f \in Fibers, NEW o \in Outcomes, Finish(f, o)
  PROVE  Inv'
  <1>1. ~over /\ cur = f
    BY DEF Finish
  <1>2. CASE f = Main
    BY <1>1, <1>2, FinishMainInv DEF Finish
  <1>3. CASE f # Main
    <2>1. Base(f, queue)
      BY <1>1, RunningFacts DEF Base, Inv, Typed, TypedScheduler
    <2>2. FinishChild(f, o, queue)
      BY <1>3 DEF Finish
    <2> QED
      BY <1>1, <1>3, <2>1, <2>2, FinishChildInv
  <1> QED
    BY <1>2, <1>3

-----------------------------------------------------------------------------
(* The first task of the queue runs.                                       *)

(* Task t is taken from the queue q, and the fibers of D leave the waits w:*)
(* a yield that is dropped is not one that a waiting fiber waits for.      *)
Takes(F, q, w, D, t, c, r, v) ==
  /\ TailOf(Tasks, q, t, r) /\ Placed(c, r, v, LiveIn(F)) /\ Elems(v) = Elems(w) \ D
  /\ D \subseteq WaitingIn(F) /\ (\A g \in D : F[g].wait.on # "closing")
  /\ \A g \in Fibers \ D : ~(t.kind = "go" /\ t.f = g /\ t.no = F[g].wait.no)

(* The schedule stays in order when the first task is taken.               *)
LEMMA TakesScheduled ==
  ASSUME NEW q \in Seq(Tasks), NEW w \in Seq(Fibers), NEW l \in SUBSET Tasks,
         NEW k \in SUBSET CallType, NEW F \in [Fibers -> FiberType], NEW G \in [Fibers -> FiberType],
         NEW X \in [Scopes -> ScopeType], NEW d \in [Deferreds -> CellType], NEW u,
         Scheduled(None, q, w, l, k, F, X, d, u), NEW D, Releases(F, G, D), Awake(G),
         NEW t, NEW c, NEW r, NEW v, Takes(F, q, w, D, t, c, r, v)
  PROVE  Scheduled(c, r, v, l, k, G, X, d, u) /\ r \in Seq(Tasks)
  <1> USE DEF Takes
  <1>1. \A g \in Fibers : F[g].ops \in Nat /\ G[g].ops \in Nat /\ F[g].ops <= G[g].ops
    <2>1. \A g \in Fibers : F[g].ops \in Nat /\ G[g].ops = F[g].ops
      BY DEF FiberType, Releases
    <2> QED
      BY <2>1
  <1>2. LiveIn(G) = LiveIn(F) /\ WaitingIn(G) = WaitingIn(F) \ D
    BY DEF LiveIn, WaitingIn, Releases, NoWait
  <1>3. Placed(c, r, v, LiveIn(G)) /\ Elems(v) = WaitingIn(G) /\ r \in Seq(Tasks)
    BY <1>2 DEF Scheduled, TailOf
  <1>4. \A i \in 1..Len(r) : i + 1 \in 1..Len(q) /\ r[i] = q[i + 1]
    <2>1. TailOf(Tasks, q, t, r)
      OBVIOUS
    <2> QED
      BY ONLY <2>1 DEF TailOf
  <1>5. \A i \in 1..Len(q) : q[i] = t \/ (i - 1 \in 1..Len(r) /\ q[i] = r[i - 1])
    <2> SUFFICES ASSUME NEW i \in 1..Len(q), i # 1 PROVE i - 1 \in 1..Len(r) /\ q[i] = r[i - 1]
      BY DEF TailOf
    <2>1. PICK j \in 1..Len(r) : j = i - 1 /\ i = j + 1
      BY DEF TailOf
    <2> QED
      BY <1>4, <2>1
  <1>6. \A i \in 1..Len(r) : r[i].f \in Fibers
    <2>1. \A i \in 1..Len(r) : r[i] \in Tasks
      BY <1>3, ElementOfSeq, LenProperties
    <2> QED
      BY <2>1 DEF Tasks
  <1>7. Numbered(G, d, r, l, k)
    <2>1. ASSUME NEW g \in Fibers PROVE NumbersWait(g, G[g].wait, G[g].ops)
      <3>1. NumbersWait(g, F[g].wait, F[g].ops)
        BY DEF Scheduled, Numbered
      <3>2. CASE g \in D
        <4>1. G[g].wait = NoWait
          BY <3>2 DEF Releases
        <4> QED
          BY <4>1 DEF NumbersWait, NoWait
      <3>3. CASE g \notin D
        BY <3>1, <3>3 DEF Releases
      <3> QED
        BY <3>2, <3>3
    <2>2. ASSUME NEW g \in Fibers PROVE Numbers(G, G[g].watchers)
      <3>1. Numbers(F, F[g].watchers) /\ F[g].watchers \in Seq(Wakes) /\ G[g].watchers = F[g].watchers
        BY DEF Scheduled, Numbered, FiberType, Releases
      <3> QED
        BY <1>1, <3>1, NumbersKept
    <2>3. ASSUME NEW x \in Deferreds PROVE Numbers(G, d[x].waiters)
      <3>1. Numbers(F, d[x].waiters) /\ d[x].waiters \in Seq(Wakes)
        BY DEF Scheduled, Numbered, CellType
      <3> QED
        BY <1>1, <3>1, NumbersKept
    <2>4. ASSUME NEW i \in 1..Len(r), r[i].kind = "go" PROVE r[i].no \in 1..G[r[i].f].ops
      <3>1. r[i].f \in Fibers /\ i + 1 \in 1..Len(q) /\ r[i] = q[i + 1]
        BY <1>4, <1>6
      <3>2. r[i].no \in 1..F[r[i].f].ops
        BY <2>4, <3>1 DEF Scheduled, Numbered
      <3> QED
        BY <3>1, <3>2 DEF Releases
    <2>5. ASSUME NEW x \in l PROVE x.kind = "go" /\ x.no \in 1..G[x.f].ops
      <3>1. x.f \in Fibers
        BY DEF Tasks
      <3> QED
        BY <3>1 DEF Scheduled, Numbered, Releases
    <2>6. ASSUME NEW x \in k PROVE x.no \in 1..G[x.f].ops
      <3>1. x.f \in Fibers
        BY DEF CallType
      <3> QED
        BY <3>1 DEF Scheduled, Numbered, Releases
    <2> QED
      BY <2>1, <2>2, <2>3, <2>4, <2>5, <2>6 DEF Numbered
  <1>8. Closing(G, X)
    <2>1. ASSUME NEW g \in Fibers PROVE ClosingOf(G[g], X)
      <3>1. ClosingOf(F[g], X) /\ G[g].stack = F[g].stack
        BY DEF Scheduled, Closing, Releases
      <3>2. CASE g \notin D
        <4>1. G[g].wait = F[g].wait
          BY <3>2 DEF Releases
        <4> QED
          BY <3>1, <4>1 DEF ClosingOf, ClosingTop
      <3>3. CASE g \in D
        <4>1. G[g].wait = NoWait /\ F[g].wait # NoWait /\ F[g].wait.on # "closing"
          BY <3>3 DEF Releases, WaitingIn, NoWait
        <4>2. ~ClosingTop(F[g])
          BY <3>1, <4>1 DEF ClosingOf
        <4> QED
          BY <3>1, <4>1, <4>2 DEF ClosingOf, ClosingTop, NoWait
      <3> QED
        BY <3>2, <3>3
    <2>2. ASSUME NEW s \in Scopes PROVE CloserOf(G, X[s], s)
      <3>1. CloserOf(F, X[s], s)
        BY DEF Scheduled, Closing
      <3>2. ASSUME X[s].closer # 0
            PROVE  G[X[s].fiber].wait = F[X[s].fiber].wait
        <4>1. X[s].fiber \in Fibers /\ F[X[s].fiber].wait.on = "closing"
          BY <3>1, <3>2 DEF CloserOf
        <4> QED
          BY <4>1 DEF Releases
      <3> QED
        BY <3>1, <3>2 DEF CloserOf
    <2> QED
      BY <2>1, <2>2 DEF Closing
  <1>9. Children(G, X)
    <2>1. Children(F, X)
      BY DEF Scheduled
    <2>2. \A g \in Fibers : G[g].born = F[g].born /\ G[g].scope = F[g].scope /\ G[g].result = F[g].result
      BY DEF Releases
    <2> QED
      BY <2>1, <2>2 DEF Children
  <1>10. Queued(G, r, u)
    <2>1. ASSUME NEW i \in 1..Len(r)
          PROVE  /\ r[i].kind = "begin" => r[i].f # Main /\ G[r[i].f].stack = <<>>
                 /\ r[i].kind = "throw" => G[r[i].f].holds = 0 \/ u
      <3>1. r[i].f \in Fibers /\ i + 1 \in 1..Len(q) /\ r[i] = q[i + 1]
        BY <1>4, <1>6
      <3>2. G[r[i].f].stack = F[r[i].f].stack /\ G[r[i].f].holds = F[r[i].f].holds
        BY <3>1 DEF Releases
      <3> QED
        BY <3>1, <3>2 DEF Scheduled, Queued
    <2> QED
      BY ONLY <2>1 DEF Queued
  <1>11. WakesWaiting(G, d, r, l)
    <2>1. ASSUME NEW g \in Fibers PROVE WakesOf(g, G[g].wait, G, d, r, l)
      <3>1. CASE g \in D
        BY <3>1 DEF WakesOf, Releases, NoWait
      <3>2. CASE g \notin D
        <4>1. PICK x : x = F[g].wait
          OBVIOUS
        <4>2. G[g].wait = x /\ WakesOf(g, x, F, d, q, l)
          BY <3>2, <4>1 DEF Releases, Scheduled, WakesWaiting
        <4>3. x.on = "fiber" => x.of \in LiveIn(G) /\ Registered(G[x.of].watchers, g, x.no)
          BY <1>2, <4>2 DEF WakesOf, Releases, LiveIn
        <4>4. x.on = "pause" => Yields(r, l, g, x.no)
          <5> SUFFICES ASSUME x.on = "pause" PROVE Yields(r, l, g, x.no)
            OBVIOUS
          <5>1. Yields(q, l, g, x.no)
            BY <4>2 DEF WakesOf
          <5>2. ~(t.kind = "go" /\ t.f = g /\ t.no = x.no)
            BY <3>2, <4>1
          <5>3. CASE \E y \in l : y.kind = "go" /\ y.f = g /\ y.no = x.no
            BY <5>3 DEF Yields
          <5>4. CASE \E i \in 1..Len(q) : q[i].kind = "go" /\ q[i].f = g /\ q[i].no = x.no
            <6>1. PICK i \in 1..Len(q) : q[i].kind = "go" /\ q[i].f = g /\ q[i].no = x.no
              BY <5>4
            <6>2. i - 1 \in 1..Len(r) /\ q[i] = r[i - 1]
              BY <1>5, <5>2, <6>1
            <6> QED
              BY <6>1, <6>2 DEF Yields
          <5> QED
            BY <5>1, <5>3, <5>4 DEF Yields
        <4> QED
          BY <4>2, <4>3, <4>4 DEF WakesOf
      <3> QED
        BY <3>1, <3>2
    <2> QED
      BY <2>1 DEF WakesWaiting
  <1> QED
    BY <1>3, <1>7, <1>8, <1>9, <1>10, <1>11 DEF Scheduled

(* The fiber of a task of its own runs, with what waits left alone.        *)
LEMMA NextRuns ==
  ASSUME Inv, ~over, cur = None, queue # <<>>, NEW t, t = Head(queue), Own(t), NEW r, r = Tail(queue)
  PROVE  /\ t.f \in Fibers /\ t.in \in Outcomes \cup {"run"} /\ Base(t.f, r)
         /\ t.kind = "begin" => t.f # Main /\ fib[t.f].stack = <<>>
  <1>1. /\ Typed /\ Nested(fib, scope)
        /\ Scheduled(None, queue, waits, later, calls, fib, scope, deferred, unwound)
        /\ queue \in Seq(Tasks) /\ waits \in Seq(Fibers) /\ later \in SUBSET Tasks
        /\ calls \in SUBSET CallType /\ fib \in [Fibers -> FiberType]
        /\ scope \in [Scopes -> ScopeType] /\ deferred \in [Deferreds -> CellType]
    BY DEF Inv, Typed, TypedScheduler, TypedFibers
  <1>2. PICK L : L = LiveIn(fib)
    OBVIOUS
  <1>3. Placed(None, queue, waits, L) /\ Awake(fib) /\ Queued(fib, queue, unwound)
    BY <1>1, <1>2 DEF Scheduled
  <1>4. /\ t \in Tasks /\ r \in Seq(Tasks) /\ (Own(t) => t.f \in L)
        /\ IF Own(t) THEN Placed(t.f, r, waits, L) ELSE Placed(None, r, waits, L)
    BY ONLY <1>1, <1>3, queue # <<>>, t = Head(queue), r = Tail(queue), PlacedNext
  <1>5. TailOf(Tasks, queue, t, r)
    BY <1>1, Tailed
  <1>6. Releases(fib, fib, {})
    BY DEF Releases
  <1>7. Takes(fib, queue, waits, {}, t, t.f, r, waits)
    BY <1>2, <1>4, <1>5 DEF Takes, Own
  <1>8. Scheduled(t.f, r, waits, later, calls, fib, scope, deferred, unwound)
    BY ONLY <1>1, <1>3, <1>6, <1>7, TakesScheduled
  <1>9. t.f \in Fibers /\ t.in \in Outcomes \cup {"run"}
    BY <1>4 DEF Tasks
  <1>10. 1 \in 1..Len(queue) /\ queue[1] = t
    BY <1>5 DEF TailOf
  <1>11. t.kind = "begin" => t.f # Main /\ fib[t.f].stack = <<>>
    BY <1>3, <1>10 DEF Queued
  <1> QED
    BY <1>1, <1>4, <1>8, <1>9, <1>11 DEF Base

(* Fiber f runs, with an interruption delivered to it or without.          *)
LEMMA TakenRuns ==
  ASSUME ~over, Typed, NEW f \in Fibers, NEW r, NEW v, NEW F, InterruptKeeps(f, r, v, calls, F),
         NEW y, y = F[f], NEW x, x = y \/ x = Delivered(y), fib' = Upd(F, f, x),
         cur' = f, flow' \in Outcomes \cup {"run"}, queue' = r, waits' = v, Dequeued
  PROVE  Inv'
  <1>1. /\ TypedFibers(F) /\ F \in [Fibers -> FiberType] /\ Nested(F, scope) /\ ScopesOf(scope)
        /\ r \in Seq(Tasks) /\ v \in Seq(Fibers) /\ calls \in SUBSET CallType /\ later \in SUBSET Tasks
        /\ scope \in [Scopes -> ScopeType] /\ deferred \in [Deferreds -> CellType]
        /\ Scheduled(f, r, v, later, calls, F, scope, deferred, unwound)
    BY DEF InterruptKeeps, TypedFibers, Typed, TypedScheduler, Nested
  <1>2. y \in FiberType /\ y.ops <= MaxOps[f]
    BY <1>1 DEF TypedFibers
  <1>3. PICK p, b, u : p = x.pending /\ b = x.unwinding /\ u = x.unwinds
    OBVIOUS
  <1>4. x \in FiberType /\ Asked(x) \subseteq Asked(y) /\ Fields(y, x, y.ops, p, b, u, y.holds, y.stack)
    <2>1. CASE x = y
      BY <1>2, <1>3, <2>1 DEF Fields
    <2>2. CASE x = Delivered(y)
      <3>1. /\ x \in FiberType /\ Asked(x) \subseteq Asked(y)
            /\ Fields(y, x, y.ops, x.pending, x.unwinding, x.unwinds, y.holds, y.stack)
        BY ONLY <1>1, <1>2, <2>2, DeliveredFields
      <3> QED
        BY <1>3, <3>1
    <2> QED
      BY <2>1, <2>2
  <1>5. Becomes(F, fib', f, y.ops, p, b, u, y.holds, y.stack)
    BY <1>1, <1>2, <1>4, FieldsBecome
  <1>6. Runs(F, fib', f)
    <2>1. F[f].ops <= y.ops
      BY <1>2 DEF FiberType
    <2> QED
      BY <1>5, <2>1, BecomesRuns
  <1>7. fib' \in [Fibers -> FiberType] /\ TypedFibers(fib')
    BY <1>5 DEF Becomes, TypedFibers
  <1>8. SameScopes(scope, scope) /\ SameCells(deferred, deferred) /\ SameNest(scope, scope)
    BY DEF SameScopes, SameCells, SameNest
  <1>9. Scheduled(f, r, v, later, calls, fib', scope, deferred, unwound)
    BY <1>1, <1>6, <1>7, <1>8, RunsScheduled
  <1>10. Nested(fib', scope)
    <2>1. F[f].born
      <3>1. f # None
        BY ConstantsAssumption DEF Fibers, None
      <3>2. f \in LiveIn(F)
        BY <1>1, <3>1 DEF Scheduled, Placed
      <3> QED
        BY <3>2 DEF LiveIn
    <2>2. SameStacks(F, fib')
      BY <1>5, <2>1 DEF SameStacks, Becomes, Fields
    <2>3. fib'[f].pending = x.pending /\ fib'[f].unwinds = x.unwinds
      BY <1>3, <1>5 DEF Becomes, Fields
    <2>4. \A g \in Fibers : \A s \in Asked(fib'[g]) : s \in Asked(F[g]) \/ InScope(F[g].stack, s)
      BY <1>4, <1>5, <2>3 DEF Becomes, Asked
    <2> QED
      BY <1>1, <1>7, <1>8, <2>2, <2>4, NestedKept
  <1>11. Typed'
    BY <1>1, <1>7 DEF Typed, TypedScheduler, Dequeued
  <1> QED
    BY <1>9, <1>10, <1>11 DEF Inv, Dequeued

(* The first task begins a fiber, or ends one interrupted before it began. *)
LEMMA BeginInv ==
  ASSUME Inv, Begin
  PROVE  Inv'
  <1>1. PICK t, r : t = Head(queue) /\ r = Tail(queue)
    OBVIOUS
  <1>2. ~over /\ cur = None /\ queue # <<>> /\ t.kind = "begin" /\ Own(t)
    BY <1>1 DEF Begin, NextTask, Own
  <1>3. /\ t.f \in Fibers /\ Base(t.f, r) /\ t.f # Main /\ fib[t.f].stack = <<>>
    BY <1>1, <1>2, NextRuns
  <1>4. PICK f \in Fibers : f = t.f
    BY <1>3
  <1>5. CASE fib[f].pending # {}
    <2>1. "int" \in Outcomes
      BY DEF Outcomes
    <2>2. FinishChild(f, "int", r)
      BY <1>1, <1>4, <1>5 DEF Begin
    <2> QED
      BY <1>2, <1>3, <1>4, <2>1, <2>2, FinishChildInv
  <1>6. CASE fib[f].pending = {}
    <2>1. cur' = f /\ flow' = "run" /\ queue' = r /\ waits' = waits /\ fib' = fib /\ Dequeued
      BY <1>1, <1>4, <1>6 DEF Begin
    <2>2. Typed /\ InterruptKeeps(f, r, waits, calls, fib)
      BY <1>3, <1>4 DEF Base, InterruptKeeps, Typed, TypedScheduler
    <2>3. PICK y : y = fib[f]
      OBVIOUS
    <2>4. fib' = Upd(fib, f, y)
      BY <2>1, <2>2, <2>3 DEF Typed, TypedFibers, Upd
    <2>5. flow' \in Outcomes \cup {"run"}
      BY <2>1
    <2> QED
      BY ONLY <1>2, <2>1, <2>2, <2>3, <2>4, <2>5, TakenRuns
  <1> QED
    BY <1>5, <1>6

(* The first task resumes a fiber.                                         *)
LEMMA ResumeInv ==
  ASSUME Inv, Resume
  PROVE  Inv'
  <1>1. PICK t, r : t = Head(queue) /\ r = Tail(queue)
    OBVIOUS
  <1>2. ~over /\ cur = None /\ queue # <<>> /\ t.kind = "resume" /\ Own(t)
    BY <1>1 DEF Resume, NextTask, Own
  <1>3. t.f \in Fibers /\ t.in \in Outcomes \cup {"run"} /\ Base(t.f, r)
    BY <1>1, <1>2, NextRuns
  <1>4. PICK f \in Fibers : f = t.f
    BY <1>3
  <1>5. Typed /\ InterruptKeeps(f, r, waits, calls, fib)
    BY <1>3, <1>4 DEF Base, InterruptKeeps, Typed, TypedScheduler
  <1>6. PICK y, x : y = fib[f] /\ x = IF t.in = "run" /\ Interrupting(f) THEN Delivered(y) ELSE y
    OBVIOUS
  <1>7. /\ cur' = f /\ queue' = r /\ waits' = waits /\ Dequeued /\ fib' = Upd(fib, f, x)
        /\ flow' \in Outcomes \cup {"run"}
    <2>1. fib = Upd(fib, f, fib[f])
      BY <1>5 DEF Typed, TypedFibers, Upd
    <2>2. "int" \in Outcomes
      BY DEF Outcomes
    <2> QED
      BY <1>1, <1>3, <1>4, <1>6, <2>1, <2>2 DEF Resume, Resumes, Upd
  <1>8. x = y \/ x = Delivered(y)
    BY <1>6
  <1> QED
    BY ONLY <1>2, <1>5, <1>6, <1>7, <1>8, TakenRuns

(* The first task throws the interruption into a dropped continuation.     *)
LEMMA ThrowInv ==
  ASSUME Inv, Throw
  PROVE  Inv'
  <1>1. PICK t, r : t = Head(queue) /\ r = Tail(queue)
    OBVIOUS
  <1>2. ~over /\ cur = None /\ queue # <<>> /\ t.kind = "throw" /\ Own(t)
    BY <1>1 DEF Throw, NextTask, Own
  <1>3. t.f \in Fibers /\ Base(t.f, r)
    BY <1>1, <1>2, NextRuns
  <1>4. PICK f \in Fibers : f = t.f
    BY <1>3
  <1>5. Typed /\ InterruptKeeps(f, r, waits, calls, fib)
    BY <1>3, <1>4 DEF Base, InterruptKeeps, Typed, TypedScheduler
  <1>6. PICK y, x : y = fib[f] /\ x = Delivered(y)
    OBVIOUS
  <1>7. /\ cur' = f /\ queue' = r /\ waits' = waits /\ Dequeued /\ fib' = Upd(fib, f, x)
        /\ flow' \in Outcomes \cup {"run"}
    <2>1. "int" \in Outcomes
      BY DEF Outcomes
    <2> QED
      BY <1>1, <1>4, <1>6, <2>1 DEF Throw, Upd
  <1>8. x = y \/ x = Delivered(y)
    BY <1>6
  <1> QED
    BY ONLY <1>2, <1>5, <1>6, <1>7, <1>8, TakenRuns

(* The number of a wait that an operation began, as the code that wakes it *)
(* has it.                                                                 *)
LEMMA CountedWaits ==
  ASSUME NEW F, TypedFibers(F), NEW g \in Fibers, NumbersWait(g, F[g].wait, F[g].ops),
         F[g].wait.no \in 1..F[g].ops
  PROVE  F[g].wait.no # 0 /\ F[g].wait.on # "closing"
  <1>1. F[g].ops \in Nat /\ F[g].ops <= MaxOps[g] /\ MaxOps[g] \in Nat
    BY ConstantsAssumption DEF TypedFibers, FiberType
  <1>2. ASSUME F[g].wait.on = "closing" PROVE FALSE
    <2>1. PICK t \in Scopes : F[g].wait.no = MaxOps[g] + t
      BY <1>2 DEF NumbersWait, ClosingNo
    <2>2. t \in Nat /\ t # 0
      BY <2>1, ConstantsAssumption DEF Scopes
    <2> QED
      BY <1>1, <2>1, <2>2
  <1> QED
    BY <1>1, <1>2

(* Waits that are dropped do not change the constructs.                    *)
LEMMA ReleasesNested ==
  ASSUME NEW F, NEW X \in [Scopes -> ScopeType], TypedFibers(F), Nested(F, X), NEW D,
         NEW G, G = Released(F, D)
  PROVE  Nested(G, X) /\ TypedFibers(G) /\ Releases(F, G, D) /\ (Awake(F) => Awake(G))
  <1>1. /\ TypedFibers(G) /\ Releases(F, G, D)
        /\ \A g \in Fibers : /\ G[g].pending = F[g].pending /\ G[g].unwinding = F[g].unwinding
                             /\ G[g].unwinds = F[g].unwinds
    BY ReleasedFields
  <1>2. F \in [Fibers -> FiberType] /\ G \in [Fibers -> FiberType] /\ ScopesOf(X) /\ SameNest(X, X)
    BY <1>1 DEF TypedFibers, Nested, SameNest
  <1>3. SameStacks(F, G)
    BY <1>1 DEF Releases, SameStacks
  <1>4. \A g \in Fibers : \A s \in Asked(G[g]) : s \in Asked(F[g]) \/ InScope(F[g].stack, s)
    BY <1>1 DEF Asked
  <1>5. Nested(G, X)
    BY <1>2, <1>3, <1>4, NestedKept
  <1>6. ASSUME Awake(F) PROVE Awake(G)
    <2> SUFFICES ASSUME NEW g \in Fibers, G[g].wait.no # 0 PROVE ~Interrupts(G[g])
      BY DEF Awake
    <2>1. F[g].wait.no # 0 /\ G[g].holds = F[g].holds
      BY <1>1 DEF Releases, NoWait
    <2>2. ~Interrupts(F[g])
      BY <1>6, <2>1 DEF Awake
    <2> QED
      BY <1>1, <2>1, <2>2 DEF Interrupts
  <1> QED
    BY <1>1, <1>5, <1>6

(* A yield that continues its fiber.                                       *)
LEMMA YieldRuns ==
  ASSUME Inv, ~over, cur = None, queue # <<>>, NEW t, t = Head(queue), t.kind = "go", NEW r, r = Tail(queue),
         NEW f, f = t.f, fib[f].wait.no = t.no, NEW D, D = {f}, NEW F, F = Released(fib, D),
         NEW v, v = Without(waits, D)
  PROVE  f \in Fibers /\ InterruptKeeps(f, r, v, calls, F)
  <1>1. /\ Typed /\ Nested(fib, scope) /\ TypedFibers(fib)
        /\ Scheduled(None, queue, waits, later, calls, fib, scope, deferred, unwound)
        /\ queue \in Seq(Tasks) /\ waits \in Seq(Fibers) /\ later \in SUBSET Tasks
        /\ calls \in SUBSET CallType /\ fib \in [Fibers -> FiberType]
        /\ scope \in [Scopes -> ScopeType] /\ deferred \in [Deferreds -> CellType]
    BY DEF Inv, Typed, TypedScheduler, TypedFibers
  <1>2. PICK L : L = LiveIn(fib)
    OBVIOUS
  <1>3. /\ Placed(None, queue, waits, L) /\ Awake(fib) /\ Elems(waits) = WaitingIn(fib)
        /\ Numbered(fib, deferred, queue, later, calls) /\ ~Own(t)
    BY <1>1, <1>2 DEF Scheduled, Own
  <1>4. t \in Tasks /\ r \in Seq(Tasks) /\ Placed(None, r, waits, L)
    <2>1. /\ t \in Tasks /\ r \in Seq(Tasks) /\ (Own(t) => t.f \in L)
          /\ IF Own(t) THEN Placed(t.f, r, waits, L) ELSE Placed(None, r, waits, L)
      BY ONLY <1>1, <1>3, queue # <<>>, t = Head(queue), r = Tail(queue), PlacedNext
    <2> QED
      BY <1>3, <2>1
  <1>5. TailOf(Tasks, queue, t, r)
    BY <1>1, Tailed
  <1>6. f \in Fibers
    BY <1>4 DEF Tasks
  <1>7. fib[f].wait.no \in 1..fib[f].ops
    <2>1. 1 \in 1..Len(queue) /\ queue[1] = t
      BY <1>5 DEF TailOf
    <2> QED
      BY <1>3, <2>1 DEF Numbered
  <1>8. fib[f].wait.no # 0 /\ fib[f].wait.on # "closing"
    <2>1. NumbersWait(f, fib[f].wait, fib[f].ops)
      BY <1>3, <1>6 DEF Numbered
    <2> QED
      BY <1>1, <1>6, <1>7, <2>1, CountedWaits
  <1>9. f \in Elems(waits)
    BY <1>3, <1>6, <1>8 DEF WaitingIn
  <1>10. Placed(f, r, v, L) /\ Elems(v) = Elems(waits) \ D /\ v \in Seq(Fibers)
    <2>1. Leaves(f, waits, D, v)
      BY <1>9 DEF Leaves
    <2> QED
      BY ONLY <1>1, <1>4, <2>1, PlacedRun
  <1>11. Nested(F, scope) /\ TypedFibers(F) /\ Releases(fib, F, D) /\ Awake(F)
    BY <1>1, <1>3, ReleasesNested
  <1>12. Takes(fib, queue, waits, D, t, f, r, v)
    BY <1>2, <1>5, <1>6, <1>8, <1>10 DEF Takes, WaitingIn
  <1>13. F \in [Fibers -> FiberType]
    BY <1>11 DEF TypedFibers
  <1>14. Scheduled(f, r, v, later, calls, F, scope, deferred, unwound)
    BY ONLY <1>1, <1>11, <1>12, <1>13, TakesScheduled
  <1> QED
    BY <1>1, <1>4, <1>6, <1>10, <1>11, <1>14 DEF InterruptKeeps

(* The first task is a yield.                                              *)
LEMMA GoInv ==
  ASSUME Inv, Go
  PROVE  Inv'
  <1>1. PICK t, r, f : t = Head(queue) /\ r = Tail(queue) /\ f = t.f
    OBVIOUS
  <1>2. ~over /\ cur = None /\ queue # <<>> /\ t.kind = "go" /\ Dequeued
    BY <1>1 DEF Go, NextTask
  <1>3. Typed /\ TypedFibers(fib)
    BY DEF Inv, Typed
  <1>4. CASE fib[f].wait.no = t.no
    <2>1. PICK D : D = {f}
      OBVIOUS
    <2>2. PICK F, v : F = Released(fib, D) /\ v = Without(waits, D)
      OBVIOUS
    <2>3. f \in Fibers /\ InterruptKeeps(f, r, v, calls, F)
      BY <1>1, <1>2, <1>4, <2>1, <2>2, YieldRuns
    <2>4. PICK y, x : y = F[f] /\ x = IF Interrupting(f) THEN Delivered(y) ELSE y
      OBVIOUS
    <2>5. /\ cur' = f /\ queue' = r /\ waits' = v /\ fib' = Upd(F, f, x)
          /\ flow' \in Outcomes \cup {"run"}
      <3>1. F = Upd(F, f, F[f])
        BY <2>3 DEF InterruptKeeps, TypedFibers, Upd
      <3>2. "int" \in Outcomes
        BY DEF Outcomes
      <3> QED
        BY <1>1, <1>4, <2>1, <2>2, <2>4, <3>1, <3>2 DEF Go, Resumes, Upd
    <2>6. x = y \/ x = Delivered(y)
      BY <2>4
    <2> QED
      BY ONLY <1>2, <1>3, <2>3, <2>4, <2>5, <2>6, TakenRuns
  <1>5. CASE fib[f].wait.no # t.no
    <2>1. queue' = r /\ UNCHANGED <<cur, flow, waits, fib>> /\ Dequeued
      BY <1>1, <1>5 DEF Go
    <2>2. /\ Nested(fib, scope)
          /\ Scheduled(None, queue, waits, later, calls, fib, scope, deferred, unwound)
          /\ queue \in Seq(Tasks) /\ waits \in Seq(Fibers) /\ later \in SUBSET Tasks
          /\ calls \in SUBSET CallType /\ fib \in [Fibers -> FiberType]
          /\ scope \in [Scopes -> ScopeType] /\ deferred \in [Deferreds -> CellType]
      BY <1>2 DEF Inv, Typed, TypedScheduler, TypedFibers
    <2>3. PICK L : L = LiveIn(fib)
      OBVIOUS
    <2>4. Placed(None, queue, waits, L) /\ Awake(fib) /\ ~Own(t)
      BY <1>2, <2>2, <2>3 DEF Scheduled, Own
    <2>5. /\ t \in Tasks /\ r \in Seq(Tasks) /\ (Own(t) => t.f \in L)
          /\ IF Own(t) THEN Placed(t.f, r, waits, L) ELSE Placed(None, r, waits, L)
      BY ONLY <1>1, <1>2, <2>2, <2>4, PlacedNext
    <2>6. TailOf(Tasks, queue, t, r)
      BY <1>1, <1>2, <2>2, Tailed
    <2>7. Releases(fib, fib, {})
      BY DEF Releases
    <2>8. Takes(fib, queue, waits, {}, t, None, r, waits)
      BY <1>1, <1>5, <2>3, <2>4, <2>5, <2>6 DEF Takes
    <2>9. Scheduled(None, r, waits, later, calls, fib, scope, deferred, unwound) /\ r \in Seq(Tasks)
      BY ONLY <2>2, <2>4, <2>7, <2>8, TakesScheduled
    <2>10. Typed'
      BY <1>3, <2>1, <2>9 DEF Typed, TypedScheduler, Dequeued
    <2> QED
      BY <1>2, <2>1, <2>2, <2>9, <2>10 DEF Inv, Dequeued
  <1> QED
    BY <1>4, <1>5

-----------------------------------------------------------------------------
(* Host callbacks.                                                         *)

(* What a host callback finds: no fiber runs and no task waits.            *)
LEMMA HostFacts ==
  ASSUME Inv, HostTurn
  PROVE  /\ ~over /\ cur = None /\ queue = <<>> /\ Typed /\ Nested(fib, scope) /\ TypedFibers(fib)
         /\ Scheduled(None, queue, waits, later, calls, fib, scope, deferred, unwound)
         /\ queue \in Seq(Tasks) /\ waits \in Seq(Fibers) /\ later \in SUBSET Tasks
         /\ calls \in SUBSET CallType /\ fib \in [Fibers -> FiberType]
         /\ scope \in [Scopes -> ScopeType] /\ deferred \in [Deferreds -> CellType]
         /\ InterruptKeeps(None, queue, waits, calls, fib)
  BY DEF Inv, HostTurn, Typed, TypedScheduler, TypedFibers, InterruptKeeps

(* A host call settles.                                                    *)
LEMMA SettleInv ==
  ASSUME Inv, NEW c \in calls, NEW in \in {"run", "die"}, Settle(c, in)
  PROVE  Inv'
  <1>1. HostTurn /\ calls' = calls \ {c} /\ UNCHANGED <<cur, flow, over, pauses, later, scope, deferred, unwound>>
        /\ reported' = FALSE
    BY DEF Settle
  <1>2. /\ ~over /\ cur = None /\ queue = <<>> /\ Typed /\ Nested(fib, scope) /\ TypedFibers(fib)
        /\ Scheduled(None, queue, waits, later, calls, fib, scope, deferred, unwound)
        /\ queue \in Seq(Tasks) /\ waits \in Seq(Fibers) /\ later \in SUBSET Tasks
        /\ calls \in SUBSET CallType /\ fib \in [Fibers -> FiberType]
        /\ scope \in [Scopes -> ScopeType] /\ deferred \in [Deferreds -> CellType]
        /\ InterruptKeeps(None, queue, waits, calls, fib)
    BY <1>1, HostFacts
  <1>3. calls' \in SUBSET CallType /\ SameCalls(calls, calls') /\ calls' \subseteq calls
    BY <1>1, <1>2 DEF SameCalls
  <1>4. PICK f, t : f = c.f /\ t = Task("resume", f, 0, in)
    OBVIOUS
  <1>5. f \in Fibers /\ c.no \in 1..fib[f].ops
    BY <1>2, <1>4 DEF Scheduled, Numbered, CallType
  <1>6. CASE fib[f].wait.no = c.no
    <2>1. PICK D, ts : D = {f} /\ ts = <<t>>
      OBVIOUS
    <2>2. fib' = Released(fib, D) /\ waits' = Without(waits, D) /\ queue' = Append(queue, t)
      BY <1>4, <1>6, <2>1 DEF Settle
    <2>3. t \in Tasks /\ t.f = f /\ t.kind = "resume"
      BY <1>4, <1>5 DEF Task, Tasks, Outcomes
    <2>4. queue' = queue \o ts
      BY <1>2, <2>1, <2>2, <2>3, AppendIsConcat
    <2>5. ts \in Seq(Tasks) /\ Len(ts) = 1 /\ ts[1] = t
      BY <2>1, <2>3
    <2>6. Continue(ts, D)
      BY <2>1, <2>3, <2>5 DEF Continue
    <2>7. fib[f].wait.no # 0 /\ fib[f].wait.on # "closing"
      <3>1. NumbersWait(f, fib[f].wait, fib[f].ops)
        BY <1>2, <1>5 DEF Scheduled, Numbered
      <3>2. fib[f].wait.no \in 1..fib[f].ops
        BY <1>5, <1>6
      <3> QED
        BY <1>2, <1>5, <3>1, <3>2, CountedWaits
    <2>8. Taking(fib, queue, waits, D, ts, queue', waits', unwound, unwound)
      <3>1. D \subseteq WaitingIn(fib) /\ \A g \in D : fib[g].wait.on # "closing"
        BY <1>5, <2>1, <2>7 DEF WaitingIn
      <3>2. \A i \in 1..Len(ts) : ts[i].kind # "throw"
        BY <2>3, <2>5
      <3> QED
        BY <2>2, <2>4, <2>6, <3>1, <3>2 DEF Taking
    <2>9. CellsFor(deferred, deferred, fib, D)
      BY DEF CellsFor
    <2>10. WakeKeeps(None, queue', waits', calls', fib', deferred)
      BY ONLY <1>2, <1>3, <2>2, <2>8, <2>9, ReleasesKept
    <2>11. Typed'
      BY <1>1, <1>2, <1>3, <2>10 DEF Typed, TypedScheduler, WakeKeeps
    <2> QED
      BY <1>1, <1>2, <2>10, <2>11 DEF Inv, WakeKeeps
  <1>7. CASE fib[f].wait.no # c.no
    <2>1. UNCHANGED <<fib, waits, queue>>
      BY <1>4, <1>7 DEF Settle
    <2>2. Scheduled(None, queue, waits, later, calls', fib, scope, deferred, unwound)
      BY <1>2, <1>3 DEF Scheduled, Numbered
    <2>3. Typed'
      BY <1>1, <1>2, <1>3, <2>1 DEF Typed, TypedScheduler
    <2> QED
      BY <1>1, <1>2, <2>1, <2>2, <2>3 DEF Inv
  <1> QED
    BY <1>6, <1>7

(* The host hands a yield back: the fiber it continues still has it.       *)
ComesBack(q, l, t, r, m) == t \in l /\ r = Append(q, t) /\ m = l \ {t}

LEMMA LaterScheduled ==
  ASSUME NEW q \in Seq(Tasks), NEW w \in Seq(Fibers), NEW l \in SUBSET Tasks, NEW k,
         NEW F, NEW X, NEW d, NEW u, Scheduled(None, q, w, l, k, F, X, d, u),
         NEW t, NEW r, NEW m, ComesBack(q, l, t, r, m)
  PROVE  Scheduled(None, r, w, m, k, F, X, d, u) /\ r \in Seq(Tasks)
  <1> USE DEF ComesBack
  <1>1. t \in Tasks /\ t.kind = "go" /\ t.no \in 1..F[t.f].ops /\ ~Own(t)
    BY DEF Scheduled, Numbered, Own
  <1>2. AppendedTo(Tasks, q, t, r)
    BY <1>1, Appended
  <1>3. \A i \in 1..Len(r) : (i \in 1..Len(q) /\ r[i] = q[i]) \/ r[i] = t
    BY <1>2 DEF AppendedTo
  <1>4. (\A i \in 1..Len(q) : i \in 1..Len(r) /\ r[i] = q[i]) /\ \E i \in 1..Len(r) : r[i] = t
    <2>1. Len(q) + 1 \in 1..Len(r) /\ r[Len(q) + 1] = t
      BY <1>2 DEF AppendedTo
    <2> QED
      BY <1>2, <2>1 DEF AppendedTo
  <1>5. PICK L : L = LiveIn(F)
    OBVIOUS
  <1>6. Placed(None, r, w, L) /\ r \in Seq(Tasks)
    <2>1. Placed(None, q, w, L) /\ (Own(t) => t.f \notin L)
      BY <1>1, <1>5 DEF Scheduled
    <2>2. r \in Seq(Tasks) /\ Placed(None, r, w, IF Own(t) THEN L \cup {t.f} ELSE L)
      BY <1>1, <2>1, PlacedAdd
    <2> QED
      BY <1>1, <2>2
  <1>7. Numbered(F, d, r, m, k)
    <2>1. Numbered(F, d, q, l, k)
      BY DEF Scheduled
    <2>2. \A i \in 1..Len(r) : r[i].kind = "go" => r[i].no \in 1..F[r[i].f].ops
      BY <1>1, <1>3, <2>1 DEF Numbered
    <2> QED
      BY <2>1, <2>2 DEF Numbered
  <1>8. Queued(F, r, u)
    <2>1. Queued(F, q, u)
      BY DEF Scheduled
    <2> QED
      BY <1>1, <1>3, <2>1 DEF Queued
  <1>9. WakesWaiting(F, d, r, m)
    <2>1. \A g, n : Yields(q, l, g, n) => Yields(r, m, g, n)
      BY <1>4 DEF Yields
    <2> QED
      BY <2>1 DEF Scheduled, WakesWaiting, WakesOf
  <1> QED
    BY <1>5, <1>6, <1>7, <1>8, <1>9 DEF Scheduled

(* A yield through the event loop comes back.                              *)
LEMMA LaterInv ==
  ASSUME Inv, NEW go \in later, Later(go)
  PROVE  Inv'
  <1>1. /\ HostTurn /\ later' = later \ {go} /\ reported' = FALSE /\ queue' = Append(queue, go)
        /\ UNCHANGED <<cur, flow, over, pauses, waits, calls, fib, scope, deferred, unwound>>
    BY DEF Later
  <1>2. /\ ~over /\ cur = None /\ Typed /\ Nested(fib, scope)
        /\ Scheduled(None, queue, waits, later, calls, fib, scope, deferred, unwound)
        /\ queue \in Seq(Tasks) /\ waits \in Seq(Fibers) /\ later \in SUBSET Tasks
    BY <1>1, HostFacts
  <1>3. Scheduled(None, queue', waits, later', calls, fib, scope, deferred, unwound) /\ queue' \in Seq(Tasks)
    <2>1. ComesBack(queue, later, go, queue', later')
      BY <1>1 DEF ComesBack
    <2> QED
      BY ONLY <1>2, <2>1, LaterScheduled
  <1>4. Typed'
    BY <1>1, <1>2, <1>3 DEF Typed, TypedScheduler
  <1> QED
    BY <1>1, <1>2, <1>3, <1>4 DEF Inv

(* A sequence backwards.                                                   *)
LEMMA Reversed ==
  ASSUME NEW S, NEW s \in Seq(S), NEW v, v = Reverse(s)
  PROVE  v \in Seq(S) /\ Elems(v) = Elems(s) /\ (Distinct(s) => Distinct(v))
  <1>1. PICK n \in Nat : n = Len(s)
    BY LenProperties
  <1>2. v = [i \in 1..n |-> s[(n - i) + 1]]
    BY <1>1 DEF Reverse
  <1>3. \A i \in 1..n : (n - i) + 1 \in 1..n /\ (n - ((n - i) + 1)) + 1 = i
    BY <1>1
  <1>4. \A i \in 1..n : s[i] \in S
    BY <1>1, ElementOfSeq
  <1>5. v \in Seq(S) /\ Len(v) = n
    BY <1>1, <1>2, <1>3, <1>4, IsASeq, LenProperties
  <1>6. \A i \in 1..n : v[i] = s[(n - i) + 1]
    BY <1>2
  <1>7. ASSUME NEW x PROVE x \in Elems(v) <=> x \in Elems(s)
    <2>1. ASSUME NEW i \in 1..n, x = v[i] PROVE \E j \in 1..n : x = s[j]
      BY <1>3, <1>6, <2>1
    <2>2. ASSUME NEW i \in 1..n, x = s[i] PROVE \E j \in 1..n : x = v[j]
      <3>1. PICK j \in 1..n : j = (n - i) + 1 /\ (n - j) + 1 = i
        BY <1>1, <1>3
      <3>2. v[j] = s[i]
        BY <1>6, <3>1
      <3> QED
        BY <2>2, <3>2
    <2> QED
      BY <1>1, <1>5, <2>1, <2>2 DEF Elems
  <1>8. ASSUME Distinct(s), NEW i \in 1..n, NEW j \in 1..n, v[i] = v[j] PROVE i = j
    <2>1. (n - i) + 1 = (n - j) + 1
      BY <1>1, <1>3, <1>6, <1>8, SMTT(30) DEF Distinct
    <2> QED
      BY <1>1, <2>1
  <1> QED
    BY <1>5, <1>7, <1>8 DEF Distinct

(* The run is stalled: what $Root#interrupt asks of the fibers.            *)
StalledTo(D, G) ==
  /\ TypedFibers(G) /\ Releases(fib, G, D) /\ \A g \in Fibers : Asked(G[g]) = Asked(fib[g])

LEMMA StalledFields ==
  ASSUME TypedFibers(fib), NEW D, NEW H, NEW G,
         H = [f \in Fibers |-> IF Live(f) /\ ~fib[f].unwinding
                               THEN [fib[f] EXCEPT !.pending = @ \cup {None}] ELSE fib[f]],
         G = Released(H, D)
  PROVE  StalledTo(D, G)
  <1>1. ASSUME NEW g \in Fibers
        PROVE  /\ H[g] \in FiberType /\ H[g].ops = fib[g].ops /\ H[g].wait = fib[g].wait
               /\ H[g].stack = fib[g].stack /\ H[g].holds = fib[g].holds
               /\ H[g].watchers = fib[g].watchers /\ H[g].born = fib[g].born
               /\ H[g].scope = fib[g].scope /\ H[g].result = fib[g].result
               /\ Asked(H[g]) = Asked(fib[g])
    <2>1. PICK r, p : r = fib[g] /\ p = fib[g].pending \cup {None}
      OBVIOUS
    <2>2. PICK x : x = [r EXCEPT !.pending = p]
      OBVIOUS
    <2>3. r \in FiberType
      BY <2>1 DEF TypedFibers
    <2>4. H[g] = x \/ H[g] = r
      BY <2>1, <2>2
    <2>5. p \in SUBSET (Scopes \cup {None})
      BY <2>1, <2>3 DEF FiberType
    <2>6. /\ x \in FiberType /\ x.ops = r.ops /\ x.wait = r.wait
          /\ x.stack = r.stack /\ x.holds = r.holds
          /\ x.watchers = r.watchers /\ x.born = r.born
          /\ x.scope = r.scope /\ x.result = r.result
          /\ x.pending = p /\ x.unwinds = r.unwinds
      BY <2>2, <2>3, <2>5 DEF FiberType
    <2>7. Asked(x) = Asked(r)
      BY <2>1, <2>6 DEF Asked
    <2> QED
      BY <2>1, <2>3, <2>4, <2>6, <2>7
  <1>2. TypedFibers(H)
    <2>1. H = [g \in Fibers |-> H[g]]
      OBVIOUS
    <2>2. H \in [Fibers -> FiberType]
      BY <1>1, <2>1
    <2> QED
      BY <1>1, <2>2 DEF TypedFibers
  <1>3. /\ TypedFibers(G) /\ Releases(H, G, D)
        /\ \A g \in Fibers : /\ G[g].pending = H[g].pending /\ G[g].unwinding = H[g].unwinding
                             /\ G[g].unwinds = H[g].unwinds
    BY ONLY <1>2, G = Released(H, D), ReleasedFields
  <1>4. Releases(fib, G, D)
    <2>1. ASSUME NEW g \in Fibers
          PROVE  /\ G[g].wait = IF g \in D THEN NoWait ELSE fib[g].wait
                 /\ G[g].stack = fib[g].stack /\ G[g].holds = fib[g].holds /\ G[g].ops = fib[g].ops
                 /\ G[g].watchers = fib[g].watchers /\ G[g].born = fib[g].born
                 /\ G[g].scope = fib[g].scope /\ G[g].result = fib[g].result
      BY <1>1, <1>3 DEF Releases
    <2> QED
      BY ONLY <2>1 DEF Releases
  <1>5. \A g \in Fibers : Asked(G[g]) = Asked(fib[g])
    BY <1>1, <1>3 DEF Asked
  <1> QED
    BY <1>3, <1>4, <1>5 DEF StalledTo

(* The run is unwound as stalled.                                          *)
LEMMA StalledInv ==
  ASSUME Inv, Stalled
  PROVE  Inv'
  <1>1. PICK D, H : /\ D = {f \in Fibers : Waiting(f) /\ fib[f].wait.on # "closing"}
                    /\ H = [f \in Fibers |-> IF Live(f) /\ ~fib[f].unwinding
                                             THEN [fib[f] EXCEPT !.pending = @ \cup {None}] ELSE fib[f]]
    OBVIOUS
  <1>2. PICK E : E = Fibers \ D
    OBVIOUS
  <1>3. PICK z : z = Without(waits, E)
    OBVIOUS
  <1>4. PICK fs : fs = Reverse(z)
    OBVIOUS
  <1>5. PICK ts : ts = ThrowTasks(fs)
    OBVIOUS
  <1>6. /\ fib' = Released(H, D) /\ queue' = ts /\ waits' = Without(waits, D) /\ unwound' = TRUE
        /\ reported' = TRUE /\ HostTurn
        /\ UNCHANGED <<cur, flow, over, pauses, later, calls, scope, deferred>>
    BY <1>1, <1>2, <1>3, <1>4, <1>5 DEF Stalled, LoopEmpty
  <1>7. /\ ~over /\ cur = None /\ queue = <<>> /\ Typed /\ Nested(fib, scope) /\ TypedFibers(fib)
        /\ Scheduled(None, queue, waits, later, calls, fib, scope, deferred, unwound)
        /\ queue \in Seq(Tasks) /\ waits \in Seq(Fibers) /\ later \in SUBSET Tasks
        /\ calls \in SUBSET CallType /\ fib \in [Fibers -> FiberType]
        /\ scope \in [Scopes -> ScopeType] /\ deferred \in [Deferreds -> CellType]
    BY <1>6, HostFacts
  <1>8. Elems(waits) = WaitingIn(fib) /\ Distinct(waits) /\ \A g \in Fibers : ClosingOf(fib[g], scope)
    BY <1>7 DEF Scheduled, Placed, Closing
  <1>9. D \subseteq WaitingIn(fib) /\ (\A g \in D : fib[g].wait.on # "closing") /\ D \in SUBSET Fibers
    BY <1>1 DEF WaitingIn, Waiting
  <1>10. StalledTo(D, fib')
    BY <1>1, <1>6, <1>7, StalledFields
  <1>11. TypedFibers(fib') /\ Releases(fib, fib', D) /\ fib' \in [Fibers -> FiberType]
    BY <1>10 DEF StalledTo, TypedFibers
  <1>12. Continue(ts, D) /\ \A i \in 1..Len(ts) : ts[i].kind = "throw"
    <2>1. Filtered(Fibers, waits, E, z)
      BY <1>3, <1>7, WithoutProperties
    <2>2. z \in Seq(Fibers) /\ Distinct(z) /\ Elems(z) = Elems(waits) \ E
      BY <1>8, <2>1 DEF Filtered
    <2>3. Elems(z) = D
      BY <1>2, <1>8, <1>9, <2>2 DEF WaitingIn
    <2>4. fs \in Seq(Fibers) /\ Elems(fs) = D /\ Distinct(fs)
      BY <1>4, <2>2, <2>3, Reversed
    <2> QED
      BY <1>5, <2>4, ThrowsEach
  <1>13. queue' = queue \o ts
    BY <1>6, <1>7, <1>12, ConcatEmptySeq DEF Continue
  <1>14. Taking(fib, queue, waits, D, ts, queue', waits', unwound, TRUE)
    BY <1>6, <1>9, <1>12, <1>13 DEF Taking
  <1>15. Awake(fib')
    <2> SUFFICES ASSUME NEW g \in Fibers, fib'[g].wait.no # 0 PROVE ~Interrupts(fib'[g])
      BY DEF Awake
    <2>1. g \notin D /\ fib[g].wait.no # 0 /\ fib'[g].holds = fib[g].holds
      BY <1>11 DEF Releases, NoWait
    <2>2. fib[g].wait.on = "closing"
      BY <1>1, <2>1 DEF Waiting
    <2>3. ClosingTop(fib[g])
      BY <1>8, <2>2 DEF ClosingOf
    <2>4. fib[g].holds # 0
      BY <1>7, <2>3, ClosingHolds
    <2> QED
      BY <2>1, <2>4 DEF Interrupts
  <1>16. /\ SameScopes(scope, scope) /\ CellsFor(deferred, deferred, fib, D) /\ SameNest(scope, scope)
         /\ SameCalls(calls, calls)
    BY DEF SameScopes, CellsFor, SameNest, SameCalls
  <1>17. /\ Scheduled(None, queue', waits', later, calls, fib', scope, deferred, TRUE)
         /\ queue' \in Seq(Tasks) /\ waits' \in Seq(Fibers)
    BY ONLY <1>7, <1>11, <1>14, <1>15, <1>16, DropsScheduled, ZenonT(30)
  <1>18. Nested(fib', scope)
    <2>1. SameStacks(fib, fib')
      BY <1>11 DEF Releases, SameStacks
    <2>2. \A g \in Fibers : \A s \in Asked(fib'[g]) : s \in Asked(fib[g]) \/ InScope(fib[g].stack, s)
      BY <1>10 DEF StalledTo
    <2>3. ScopesOf(scope)
      BY <1>7 DEF Nested
    <2> QED
      BY <1>7, <1>11, <1>16, <2>1, <2>2, <2>3, NestedKept
  <1>19. Typed'
    BY <1>6, <1>7, <1>11, <1>17 DEF Typed, TypedScheduler
  <1> QED
    BY <1>6, <1>7, <1>17, <1>18, <1>19 DEF Inv

-----------------------------------------------------------------------------
(* The invariant holds.                                                    *)

(* Fibers and scopes before the run: main is the only fiber.               *)
LEMMA InitFields ==
  ASSUME Init
  PROVE  /\ TypedFibers(fib) /\ scope \in [Scopes -> ScopeType] /\ deferred \in [Deferreds -> CellType]
         /\ \A f \in Fibers : /\ fib[f].born = (f = Main) /\ fib[f].scope = None /\ fib[f].wait = NoWait
                              /\ fib[f].pending = {} /\ fib[f].unwinds = {} /\ fib[f].holds = 0
                              /\ fib[f].result = NotYet /\ fib[f].watchers = <<>> /\ fib[f].ops = 0
                              /\ fib[f].stack = <<>>
         /\ \A s \in Scopes : /\ scope[s] = NewScope(None, 0) /\ scope[s].fiber = None
                              /\ scope[s].children = {} /\ scope[s].closer = 0
                              /\ ~scope[s].ended /\ ~scope[s].bodyDone
         /\ \A d \in Deferreds : deferred[d].waiters = <<>>
  <1>1. PICK r, x, y : r = NewFiber(None) /\ x = UnbornFiber /\ y = NewScope(None, 0)
    OBVIOUS
  <1>2. NFibers \in Nat \ {0} /\ NScopes \in Nat /\ \A f \in Fibers : MaxOps[f] \in Nat
    BY ConstantsAssumption
  <1>3. <<>> \in Seq(Wakes) /\ <<>> \in Seq(Frames)
    BY EmptySeq
  <1>4. NoWait \in [no : Nat, on : WaitKinds, of : Nat]
    BY DEF NoWait, WaitKinds, None
  <1>5. /\ r \in FiberType /\ r.born = TRUE /\ r.scope = None /\ r.wait = NoWait
        /\ r.pending = {} /\ r.unwinds = {} /\ r.holds = 0 /\ r.result = NotYet
        /\ r.watchers = <<>> /\ r.ops = 0 /\ r.stack = <<>>
    <2> HIDE DEF NoWait
    <2> QED
      BY <1>1, <1>2, <1>3, <1>4 DEF NewFiber, FiberType, None
  <1>6. /\ x \in FiberType /\ x.born = FALSE /\ x.scope = None /\ x.wait = NoWait
        /\ x.pending = {} /\ x.unwinds = {} /\ x.holds = 0 /\ x.result = NotYet
        /\ x.watchers = <<>> /\ x.ops = 0 /\ x.stack = <<>>
    <2>1. x = [r EXCEPT !.born = FALSE]
      BY <1>1 DEF UnbornFiber
    <2> QED
      BY <1>5, <2>1 DEF FiberType
  <1>7. \A f \in Fibers : fib[f] = IF f = Main THEN r ELSE x
    BY <1>1 DEF Init
  <1>8. fib \in [Fibers -> FiberType]
    <2>1. fib = [f \in Fibers |-> IF f = Main THEN r ELSE x]
      BY <1>1 DEF Init
    <2> HIDE DEF FiberType
    <2> QED
      BY <1>5, <1>6, <2>1
  <1>9. /\ y \in ScopeType /\ y.fiber = None /\ y.children = {} /\ y.closer = 0
        /\ y.ended = FALSE /\ y.bodyDone = FALSE
    BY <1>1, <1>2 DEF NewScope, ScopeType, None
  <1>10. scope = [s \in Scopes |-> y]
    BY <1>1 DEF Init
  <1>11. scope \in [Scopes -> ScopeType] /\ \A s \in Scopes : scope[s] = y
    <2> HIDE DEF ScopeType
    <2> QED
      BY <1>9, <1>10
  <1>12. PICK z : z = [scope |-> None, full |-> FALSE, waiters |-> <<>>]
    OBVIOUS
  <1>13. z \in CellType /\ z.waiters = <<>>
    BY <1>2, <1>3, <1>12 DEF CellType, None
  <1>14. deferred = [d \in Deferreds |-> z]
    BY <1>12 DEF Init
  <1>15. deferred \in [Deferreds -> CellType] /\ \A d \in Deferreds : deferred[d] = z
    <2> HIDE DEF CellType
    <2> QED
      BY <1>13, <1>14
  <1>16. TypedFibers(fib)
    BY <1>2, <1>5, <1>6, <1>7, <1>8 DEF TypedFibers
  <1>17. \A f \in Fibers : /\ fib[f].born = (f = Main) /\ fib[f].scope = None /\ fib[f].wait = NoWait
                           /\ fib[f].pending = {} /\ fib[f].unwinds = {} /\ fib[f].holds = 0
                           /\ fib[f].result = NotYet /\ fib[f].watchers = <<>> /\ fib[f].ops = 0
                           /\ fib[f].stack = <<>>
    BY <1>5, <1>6, <1>7
  <1> QED
    BY <1>1, <1>9, <1>11, <1>13, <1>15, <1>16, <1>17

(* The invariant holds before the first step.                              *)
LEMMA InitInv ==
  ASSUME Init
  PROVE  Inv
  <1>1. /\ TypedFibers(fib) /\ scope \in [Scopes -> ScopeType] /\ deferred \in [Deferreds -> CellType]
        /\ \A f \in Fibers : /\ fib[f].born = (f = Main) /\ fib[f].scope = None /\ fib[f].wait = NoWait
                             /\ fib[f].pending = {} /\ fib[f].unwinds = {} /\ fib[f].holds = 0
                             /\ fib[f].result = NotYet /\ fib[f].watchers = <<>> /\ fib[f].ops = 0
                             /\ fib[f].stack = <<>>
        /\ \A s \in Scopes : /\ scope[s] = NewScope(None, 0) /\ scope[s].fiber = None
                             /\ scope[s].children = {} /\ scope[s].closer = 0
                             /\ ~scope[s].ended /\ ~scope[s].bodyDone
        /\ \A d \in Deferreds : deferred[d].waiters = <<>>
    BY InitFields
  <1>2. Main \in Fibers /\ None \notin Fibers /\ \A f \in Fibers : Main <= f /\ (f <= Main => f = Main)
    BY ConstantsAssumption DEF Main, Fibers, None
  <1>3. PICK t : t = Task("resume", Main, 0, "run")
    OBVIOUS
  <1>4. t \in Tasks /\ t.kind = "resume" /\ t.f = Main
    BY <1>2, <1>3 DEF Task, Tasks
  <1>5. queue \in Seq(Tasks) /\ Len(queue) = 1 /\ queue[1] = t
    BY <1>3, <1>4 DEF Init
  <1>6. waits \in Seq(Fibers) /\ Len(waits) = 0 /\ Len(<<>>) = 0
    BY EmptySeq DEF Init
  <1>7. Typed
    <2>1. pauses \in 0..(HostEvery - 1)
      BY ConstantsAssumption DEF Init
    <2> QED
      BY <1>1, <1>5, <1>6, <2>1 DEF Init, Typed, TypedScheduler
  <1>8. Nested(fib, scope)
    <2>1. Forked(fib, scope)
      BY <1>1, <1>2, ZenonT(30) DEF Forked
    <2>2. FramesOf(fib, scope)
      BY <1>1, <1>6 DEF FramesOf, FramesIn
    <2>3. ScopesOf(scope)
      BY <1>1 DEF ScopesOf
    <2>4. Held(fib)
      <3>1. Holding(<<>>) = {}
        BY <1>6 DEF Holding
      <3> QED
        BY <1>1, <3>1, FS_EmptySet DEF Held
    <2>5. Aimed(fib)
      BY <1>1 DEF Aimed
    <2> QED
      BY <2>1, <2>2, <2>3, <2>4, <2>5 DEF Nested
  <1>9. Numbered(fib, deferred, queue, later, calls)
    <2>1. \A f \in Fibers : NumbersWait(f, fib[f].wait, fib[f].ops)
      BY <1>1 DEF NumbersWait, NoWait
    <2>2. Numbers(fib, <<>>)
      BY <1>6 DEF Numbers
    <2>3. later = {} /\ calls = {}
      BY DEF Init
    <2>4. \A i \in 1..Len(queue) : queue[i].kind # "go"
      BY <1>4, <1>5
    <2> QED
      BY <1>1, <2>1, <2>2, <2>3, <2>4 DEF Numbered
  <1>10. Placed(None, queue, waits, LiveIn(fib)) /\ Elems(waits) = WaitingIn(fib)
    <2>1. Elems(waits) = {} /\ Distinct(waits)
      BY <1>6 DEF Elems, Distinct
    <2>2. Tasked(queue) = {Main}
      BY <1>4, <1>5 DEF Tasked, Own
    <2>3. LiveIn(fib) = {Main} /\ WaitingIn(fib) = {}
      <3>1. \A f \in Fibers : fib[f].born /\ fib[f].result = NotYet <=> f = Main
        BY <1>1
      <3>2. \A f \in Fibers : fib[f].wait.no = 0
        BY <1>1 DEF NoWait
      <3> QED
        BY <1>2, <3>1, <3>2 DEF LiveIn, WaitingIn
    <2> QED
      BY <1>2, <1>5, <2>1, <2>2, <2>3 DEF Placed
  <1>11. Closing(fib, scope)
    BY <1>1 DEF Closing, ClosingOf, ClosingTop, CloserOf, NoWait
  <1>12. Children(fib, scope)
    BY <1>1 DEF Children, Scopes, None
  <1>13. Queued(fib, queue, unwound)
    BY <1>4, <1>5 DEF Queued
  <1>14. Awake(fib) /\ WakesWaiting(fib, deferred, queue, later)
    BY <1>1 DEF Awake, WakesWaiting, WakesOf, NoWait
  <1>15. Scheduled(cur, queue, waits, later, calls, fib, scope, deferred, unwound)
    BY <1>9, <1>10, <1>11, <1>12, <1>13, <1>14 DEF Scheduled, Init
  <1> QED
    BY <1>7, <1>8, <1>14, <1>15 DEF Inv

(* Every step keeps the invariant.                                         *)
LEMMA NextInv ==
  ASSUME Inv, Next
  PROVE  Inv'
  <1>1. ASSUME NEW f \in Fibers, Calls(f) PROVE Inv'
    BY <1>1, OpenWithInv, OpenScopeInv, ForkClosedInv, ForkInv, NewDeferredInv, CompleteInv, AwaitDeferredInv,
       DeliverInv, AwaitInv, PauseInv, JoinInv, InterruptEndedInv, InterruptOtherInv, InterruptSelfInv
    DEF Calls
  <1>2. ASSUME NEW f \in Fibers, Ends(f) PROVE Inv'
    BY <1>2, EndWithInv, BeginReleaseInv, EndReleaseInv, EndAttemptInv, EndBodyEmptyInv, EndBodyClosingInv,
       FinishInv
    DEF Ends
  <1>3. ASSUME NEW f \in Fibers, EndScope(f) PROVE Inv'
    BY <1>3, EndScopeInv
  <1>4. ASSUME Drain PROVE Inv'
    BY <1>4, BeginInv, ResumeInv, GoInv, ThrowInv DEF Drain
  <1>5. ASSUME Host PROVE Inv'
    BY <1>5, SettleInv, LaterInv, StalledInv DEF Host
  <1>6. ASSUME Exit PROVE Inv'
    BY <1>6 DEF Exit, vars, Inv, Typed
  <1> QED
    BY <1>1, <1>2, <1>3, <1>4, <1>5, <1>6 DEF Next, Step

(* A step that changes nothing keeps the invariant.                        *)
LEMMA StutterInv ==
  ASSUME Inv, UNCHANGED vars
  PROVE  Inv'
  BY DEF vars, Inv, Typed

(* Every state of a run is typed; fibers are nested in scopes as they were *)
(* forked; and while the run is not over, every live fiber is in exactly   *)
(* one place, and what may wake a waiting one knows of it.                 *)
THEOREM SchedulerConsistent == Spec => []Inv
  <1>1. Init => Inv
    BY InitInv
  <1>2. Inv /\ [Next]_vars => Inv'
    BY NextInv, StutterInv
  <1> QED
    BY <1>1, <1>2, PTL DEF Spec

-----------------------------------------------------------------------------
(* What follows from the invariant.                                        *)

(* A fiber that may be interrupted is not left waiting.                    *)
LEMMA InvAwake == Inv => NoSleepThroughInterrupt
  <1>1. Inv => Awake(fib)
    BY DEF Inv, Scheduled
  <1> QED
    BY <1>1 DEF Awake, Interrupts, NoSleepThroughInterrupt, Waiting, Interrupting

(* In every state of every run, a fiber that $Fiber#interrupting says may  *)
(* be interrupted does not sit in a wait that nobody cancels.              *)
THEOREM NoneSleepsThroughInterrupt == Spec => []NoSleepThroughInterrupt
  BY SchedulerConsistent, InvAwake, PTL

(* What a fiber is interrupted out of is a scope whose body it is in.      *)
LEMMA InvAimed == Inv => InterruptStaysInScope
  <1> SUFFICES ASSUME Inv PROVE InterruptStaysInScope
    OBVIOUS
  <1>1. Aimed(fib) /\ \A f \in Fibers : fib[f].stack \in Seq(Frames)
    BY DEF Inv, Nested, Typed, TypedFibers, FiberType
  <1>2. \A f \in Fibers : DOMAIN fib[f].stack = 1..Len(fib[f].stack)
    BY <1>1, LenProperties
  <1> QED
    BY <1>1, <1>2 DEF Aimed, InScope, InterruptStaysInScope

(* In every state of every run, no interruption of a scope's body is       *)
(* pending in, or unwinds, a fiber that has left that body.                *)
THEOREM InterruptsStayInScope == Spec => []InterruptStaysInScope
  BY SchedulerConsistent, InvAimed, PTL

(* What a waiting fiber waits for knows that it waits.                     *)
LEMMA InvWakes == Inv => NoLostWakeup
  <1> SUFFICES ASSUME Inv, ~over, NEW f \in Fibers, NEW w, w = fib[f].wait
               PROVE  CASE w.on = "fiber" -> /\ Live(w.of)
                                             /\ \E i \in DOMAIN fib[w.of].watchers :
                                                  fib[w.of].watchers[i].f = f /\ fib[w.of].watchers[i].no = w.no
                        [] w.on = "deferred" -> /\ ~deferred[w.of].full
                                                /\ \E i \in DOMAIN deferred[w.of].waiters :
                                                     /\ deferred[w.of].waiters[i].f = f
                                                     /\ deferred[w.of].waiters[i].no = w.no
                        [] w.on = "closing" -> scope[w.of].children # {} /\ scope[w.of].closer = w.no
                        [] w.on = "pause" -> \E t \in later \cup {queue[i] : i \in DOMAIN queue} :
                                               t.kind = "go" /\ t.f = f /\ t.no = w.no
                        [] OTHER -> TRUE
    BY DEF NoLostWakeup
  <1>1. /\ WakesOf(f, w, fib, deferred, queue, later) /\ ClosingOf(fib[f], scope)
        /\ fib \in [Fibers -> FiberType] /\ deferred \in [Deferreds -> CellType] /\ queue \in Seq(Tasks)
    BY DEF Inv, Typed, TypedFibers, TypedScheduler, Scheduled, WakesWaiting, Closing
  <1>2. CASE w.on = "fiber"
    <2>1. w.of \in Fibers /\ Live(w.of) /\ Registered(fib[w.of].watchers, f, w.no)
      BY <1>1, <1>2 DEF WakesOf, LiveIn, Live
    <2>2. DOMAIN fib[w.of].watchers = 1..Len(fib[w.of].watchers)
      BY <1>1, <2>1, LenProperties DEF FiberType
    <2> QED
      BY <1>2, <2>1, <2>2 DEF Registered
  <1>3. CASE w.on = "deferred"
    <2>1. w.of \in Deferreds /\ ~deferred[w.of].full /\ Registered(deferred[w.of].waiters, f, w.no)
      BY <1>1, <1>3 DEF WakesOf
    <2>2. DOMAIN deferred[w.of].waiters = 1..Len(deferred[w.of].waiters)
      BY <1>1, <2>1, LenProperties DEF CellType
    <2> QED
      BY <1>3, <2>1, <2>2 DEF Registered
  <1>4. CASE w.on = "closing"
    <2>1. scope[w.of].children # {} /\ scope[w.of].closer = w.no
      BY <1>1, <1>4 DEF ClosingOf, NoWait
    <2> QED
      BY <1>4, <2>1
  <1>5. CASE w.on = "pause"
    <2>1. Yields(queue, later, f, w.no) /\ DOMAIN queue = 1..Len(queue)
      BY <1>1, <1>5, LenProperties DEF WakesOf
    <2>2. \E t \in later \cup {queue[i] : i \in DOMAIN queue} : t.kind = "go" /\ t.f = f /\ t.no = w.no
      BY <2>1 DEF Yields
    <2> QED
      BY <1>5, <2>2
  <1>6. CASE w.on \notin {"fiber", "deferred", "closing", "pause"}
    BY <1>6
  <1> QED
    BY <1>2, <1>3, <1>4, <1>5, <1>6

(* In every state of every run, the fiber, the deferred, the scope or the  *)
(* yield that a fiber waits for will call the wake of that very wait.      *)
THEOREM NoWakeupLost == Spec => []NoLostWakeup
  BY SchedulerConsistent, InvWakes, PTL

(* A set of positions that has at most one element.                        *)
LEMMA OnePosition ==
  ASSUME NEW n \in Nat, NEW T \in SUBSET (1..n), \A i, j \in T : i = j
  PROVE  Cardinality(T) = IF T = {} THEN 0 ELSE 1
  <1>1. CASE T = {}
    BY <1>1, FS_EmptySet
  <1>2. CASE T # {}
    <2>1. PICK i \in T : TRUE
      BY <1>2
    <2>2. T = {i}
      BY <2>1
    <2> QED
      BY <1>2, <2>2, FS_Singleton
  <1> QED
    BY <1>1, <1>2

(* The state has its type.                                                 *)
LEMMA InvTyped == Inv => TypeOK
  <1> SUFFICES ASSUME Inv PROVE TypeOK
    OBVIOUS
  <1>1. ASSUME NEW f \in Fibers
        PROVE  fib[f] \in [born : BOOLEAN, scope : 0..NScopes,
                           wait : [no : Nat, on : WaitKinds, of : Nat],
                           pending : SUBSET (Scopes \cup {None}), unwinding : BOOLEAN,
                           unwinds : SUBSET Scopes, holds : Nat,
                           result : Outcomes \cup {NotYet}, watchers : Seq(Wakes),
                           ops : 0..MaxOps[f], stack : Seq(Frames)]
    <2>1. PICK r : r = fib[f]
      OBVIOUS
    <2>2. r \in FiberType /\ r.ops \in 0..MaxOps[f]
      <3>1. r \in FiberType /\ r.ops <= MaxOps[f] /\ MaxOps[f] \in Nat
        BY <2>1, ConstantsAssumption DEF Inv, Typed, TypedFibers
      <3>2. r.ops \in Nat
        BY <3>1 DEF FiberType
      <3> QED
        BY <3>1, <3>2
    <2> QED
      BY <2>1, <2>2 DEF FiberType
  <1>2. calls \subseteq [f : Fibers, no : Nat, aborted : BOOLEAN]
    BY DEF Inv, Typed, TypedScheduler, CallType
  <1>3. /\ scope \in [Scopes -> [fiber : 0..NFibers, depth : Nat, children : SUBSET Fibers,
                                 closed : BOOLEAN, bodyDone : BOOLEAN, ended : BOOLEAN,
                                 first : Outcomes \cup {NotYet}, closer : Nat,
                                 out : Outcomes \cup {NotYet}, ret : Outcomes \cup {NotYet}]]
        /\ deferred \in [Deferreds -> [scope : 0..NScopes, full : BOOLEAN, waiters : Seq(Wakes)]]
    BY DEF Inv, Typed, ScopeType, CellType
  <1> QED
    BY <1>1, <1>2, <1>3 DEF TypeOK, Inv, Typed, TypedScheduler

(* A live fiber is in one place, once.                                     *)
LEMMA InvPlaced == Inv => OneContinuation
  <1> SUFFICES ASSUME Inv, ~over, NEW f \in Fibers, NEW T, NEW W,
                      T = {i \in DOMAIN queue : queue[i].f = f /\ queue[i].kind # "go"},
                      W = {i \in DOMAIN waits : waits[i] = f}
               PROVE  /\ (IF cur = f THEN 1 ELSE 0) + Cardinality(W) + Cardinality(T)
                           = (IF Live(f) THEN 1 ELSE 0)
                      /\ Waiting(f) <=> W # {}
    BY InvTyped DEF OneContinuation
  <1>1. /\ Placed(cur, queue, waits, LiveIn(fib)) /\ Elems(waits) = WaitingIn(fib)
        /\ queue \in Seq(Tasks) /\ waits \in Seq(Fibers)
    BY DEF Inv, Scheduled, Typed, TypedScheduler
  <1>2. /\ DOMAIN queue = 1..Len(queue) /\ DOMAIN waits = 1..Len(waits)
        /\ Len(queue) \in Nat /\ Len(waits) \in Nat
    BY <1>1, LenProperties
  <1>3. (T # {} <=> f \in Tasked(queue)) /\ (W # {} <=> f \in Elems(waits))
    BY <1>2 DEF Tasked, Own, Elems
  <1>4. Cardinality(T) = IF T = {} THEN 0 ELSE 1
    <2>1. T \in SUBSET (1..Len(queue)) /\ \A i, j \in T : i = j
      BY <1>1, <1>2 DEF Placed, Own
    <2> QED
      BY <1>2, <2>1, OnePosition
  <1>5. Cardinality(W) = IF W = {} THEN 0 ELSE 1
    <2>1. W \in SUBSET (1..Len(waits)) /\ \A i, j \in W : i = j
      BY <1>1, <1>2 DEF Placed, Distinct
    <2> QED
      BY <1>2, <2>1, OnePosition
  <1>6. /\ Live(f) <=> cur = f \/ f \in Elems(waits) \/ f \in Tasked(queue)
        /\ ~(cur = f /\ f \in Elems(waits)) /\ ~(cur = f /\ f \in Tasked(queue))
        /\ ~(f \in Elems(waits) /\ f \in Tasked(queue))
    <2>1. f # None
      BY ConstantsAssumption DEF Fibers, None
    <2>2. Live(f) <=> f \in LiveIn(fib)
      BY DEF Live, LiveIn
    <2> QED
      BY <1>1, <2>1, <2>2 DEF Placed
  <1>7. Waiting(f) <=> W # {}
    BY <1>1, <1>3 DEF WaitingIn, Waiting
  <1> QED
    BY <1>3, <1>4, <1>5, <1>6, <1>7

(* In every state of every run, a live fiber runs, waits, or has one task, *)
(* and a fiber that ended or was not forked is nowhere ($advance takes a   *)
(* continuation once).                                                     *)
THEOREM ContinuationsRunOnce == Spec => []OneContinuation
  BY SchedulerConsistent, InvPlaced, PTL

-----------------------------------------------------------------------------
(* What an interruption may cut short.                                     *)

(* A step from the fibers F to G begins no unwinding.                      *)
Shaped(F) ==
  /\ F = [f \in Fibers |-> F[f]]
  /\ \A f \in Fibers : {"unwinding", "unwinds", "pending"} \subseteq DOMAIN F[f]
Unforced(F, G) ==
  \A g \in Fibers : (G[g].unwinding => F[g].unwinding) /\ G[g].unwinds \subseteq F[g].unwinds
Quiet(F, G) == Shaped(G) /\ Unforced(F, G)

(* The updates of the fibers that begin no unwinding.                      *)
LEMMA QuietUpdates ==
  ASSUME NEW F, Shaped(F), NEW f \in Fibers
  PROVE  /\ Quiet(F, Called(F, f)) /\ Quiet(F, Popped(F, f))
         /\ \A r : Quiet(F, Pushed(F, f, r)) /\ Quiet(F, Replaced(F, f, r))
         /\ \A n, x, y : Quiet(F, Suspended(F, f, n, x, y))
         /\ \A D : Quiet(F, Released(F, D))
         /\ \A n : Quiet(F, [F EXCEPT ![f].holds = n])
         /\ \A s : Quiet(F, Forgets(F, f, s)) /\ Quiet(F, [F EXCEPT ![f] = NewFiber(s)])
         /\ \A w : Quiet(F, [F EXCEPT ![f].watchers = w])
         /\ \A o, w : Quiet(F, [F EXCEPT ![f].result = o, ![f].watchers = w]) /\ Quiet(F, [F EXCEPT ![f].result = o])
  <1> USE DEF Quiet
  <1>1. Quiet(F, Called(F, f)) /\ Quiet(F, Popped(F, f))
    BY DEF Shaped, Unforced, Called, Popped
  <1>2. ASSUME NEW r PROVE Quiet(F, Pushed(F, f, r)) /\ Quiet(F, Replaced(F, f, r))
    BY DEF Shaped, Unforced, Pushed, Replaced
  <1>3. ASSUME NEW n, NEW x, NEW y PROVE Quiet(F, Suspended(F, f, n, x, y))
    BY DEF Shaped, Unforced, Suspended
  <1>4. ASSUME NEW D PROVE Quiet(F, Released(F, D))
    BY DEF Shaped, Unforced, Released
  <1>5. ASSUME NEW n PROVE Quiet(F, [F EXCEPT ![f].holds = n])
    BY DEF Shaped, Unforced
  <1>6. ASSUME NEW s PROVE Quiet(F, Forgets(F, f, s))
    BY DEF Shaped, Unforced, Forgets
  <1>7. ASSUME NEW s PROVE Quiet(F, [F EXCEPT ![f] = NewFiber(s)])
    <2>1. PICK r, G : r = NewFiber(s) /\ G = [F EXCEPT ![f] = r]
      OBVIOUS
    <2>2. {"unwinding", "unwinds", "pending"} \subseteq DOMAIN r /\ r.unwinding = FALSE /\ r.unwinds = {}
      BY <2>1 DEF NewFiber
    <2>3. Quiet(F, G)
      BY <2>1, <2>2 DEF Shaped, Unforced
    <2> QED
      BY <2>1, <2>3
  <1>8. ASSUME NEW w PROVE Quiet(F, [F EXCEPT ![f].watchers = w])
    BY DEF Shaped, Unforced
  <1>9. ASSUME NEW o, NEW w
        PROVE  Quiet(F, [F EXCEPT ![f].result = o, ![f].watchers = w]) /\ Quiet(F, [F EXCEPT ![f].result = o])
    BY DEF Shaped, Unforced
  <1> HIDE DEF Quiet
  <1> QED
    BY <1>1, <1>2, <1>3, <1>4, <1>5, <1>6, <1>7, <1>8, <1>9

(* One update after another.                                               *)
LEMMA QuietTwice ==
  ASSUME NEW F, NEW G, NEW H, Quiet(F, G), Quiet(G, H)
  PROVE  Quiet(F, H)
  BY DEF Quiet, Unforced

LEMMA QuietInterrupted ==
  ASSUME Shaped(fib), NEW S, NEW b, NEW s
  PROVE  Quiet(fib, Interrupted(S, b, s))
  BY DEF Quiet, Shaped, Unforced, Interrupted

(* A step begins an unwinding only where nothing holds it off, or when the *)
(* run has been unwound as stalled.                                        *)
Spares == \A f \in Fibers :
  (fib'[f].unwinding /\ ~fib[f].unwinding) \/ ~(fib'[f].unwinds \subseteq fib[f].unwinds)
    => fib[f].holds = 0 \/ unwound

LEMMA QuietSpares ==
  ASSUME Quiet(fib, fib')
  PROVE  Spares
  BY DEF Quiet, Unforced, Spares

(* Only fiber f is affected, which holds nothing off.                      *)
LEMMA OnlySpares ==
  ASSUME Shaped(fib), NEW f \in Fibers, fib[f].holds = 0 \/ unwound, NEW G, Quiet(fib, G), NEW r,
         fib' = [G EXCEPT ![f] = r]
  PROVE  Spares
  <1>1. \A g \in Fibers : g # f => fib'[g] = G[g]
    BY DEF Quiet, Shaped
  <1> QED
    BY <1>1 DEF Quiet, Unforced, Spares

LEMMA CallsSpare ==
  ASSUME Shaped(fib), NEW f \in Fibers, Calls(f)
  PROVE  Spares
  <1>1. PICK F : F = Called(fib, f)
    OBVIOUS
  <1>2. Quiet(fib, F) /\ Shaped(F)
    BY <1>1, QuietUpdates DEF Quiet
  <1>3. Quiet(fib, fib)
    BY DEF Quiet, Unforced
  <1>4. ASSUME NEW o, Continues(f, o) PROVE Spares
    BY <1>1, <1>2, <1>4, QuietSpares DEF Continues
  <1>5. ASSUME NEW r, fib' = Pushed(F, f, r) PROVE Spares
    <2>1. Quiet(F, fib')
      BY <1>2, <1>5, QuietUpdates
    <2> QED
      BY <1>2, <2>1, QuietTwice, QuietSpares
  <1>6. ASSUME OpenWith(f) \/ OpenAttempt(f) PROVE Spares
    BY <1>1, <1>5, <1>6 DEF OpenWith, OpenAttempt
  <1>7. ASSUME NEW s \in Scopes, OpenScope(f, s) PROVE Spares
    BY <1>1, <1>5, <1>7 DEF OpenScope
  <1>8. ASSUME NEW s \in Scopes, NEW c \in Fibers, Fork(f, s, c) PROVE Spares
    <2>1. fib' = [F EXCEPT ![c] = NewFiber(s)]
      BY <1>1, <1>8 DEF Fork
    <2>2. Quiet(F, fib')
      BY <1>2, <2>1, QuietUpdates
    <2> QED
      BY <1>2, <2>2, QuietTwice, QuietSpares
  <1>9. ASSUME NEW s \in Scopes, NEW d \in Deferreds, NewDeferred(f, s, d) PROVE Spares
    BY <1>1, <1>2, <1>4, <1>9, QuietSpares DEF NewDeferred
  <1>10. ASSUME NEW d \in Deferreds, Complete(f, d) PROVE Spares
    <2>1. CASE \E o : Continues(f, o)
      BY <1>4, <2>1
    <2>2. CASE \E D : fib' = Released(F, D)
      <3>1. Quiet(F, fib')
        BY <1>2, <2>2, QuietUpdates
      <3> QED
        BY <1>2, <3>1, QuietTwice, QuietSpares
    <2> QED
      BY <1>1, <1>10, <2>1, <2>2 DEF Complete
  <1>11. ASSUME NEW n, NEW x, NEW y, fib' = Suspended(F, f, n, x, y) PROVE Spares
    <2>1. Quiet(F, fib')
      BY <1>2, <1>11, QuietUpdates
    <2> QED
      BY <1>2, <2>1, QuietTwice, QuietSpares
  <1>12. ASSUME NEW d \in Deferreds, AwaitDeferred(f, d) PROVE Spares
    BY <1>1, <1>4, <1>11, <1>12 DEF AwaitDeferred
  <1>13. ASSUME NEW op \in Requests, Await(f, op) PROVE Spares
    BY <1>1, <1>11, <1>13 DEF Await
  <1>14. ASSUME Pause(f) PROVE Spares
    BY <1>1, <1>11, <1>14 DEF Pause
  <1>15. ASSUME NEW h \in Fibers, NEW verb, NEW A, Quiet(fib, A), fib' = Watch(A, f, h, verb) PROVE Spares
    <2>1. PICK B, C, n : B = Called(A, f) /\ n = NextNo(f) /\ C = Suspended(B, f, n, "fiber", h)
      OBVIOUS
    <2>2. Quiet(A, B) /\ Quiet(B, C)
      BY <1>15, <2>1, QuietUpdates DEF Quiet
    <2>3. PICK w : w = Append(C[h].watchers, Wake(f, n, verb))
      OBVIOUS
    <2>4. fib' = [C EXCEPT ![h].watchers = w]
      BY <1>15, <2>1, <2>3 DEF Watch
    <2>5. Quiet(C, fib')
      BY <2>2, <2>4, QuietUpdates DEF Quiet
    <2> QED
      BY <1>15, <2>2, <2>5, QuietTwice, QuietSpares
  <1>16. ASSUME NEW h \in Fibers, NEW verb \in {"join", "await"}, Join(f, h, verb) PROVE Spares
    BY <1>3, <1>4, <1>15, <1>16 DEF Join
  <1>17. ASSUME NEW h \in Fibers, InterruptOther(f, h) PROVE Spares
    BY <1>15, <1>17, QuietInterrupted DEF InterruptOther
  <1>18. ASSUME InterruptSelf(f) PROVE Spares
    <2>1. CASE fib[f].holds = 0
      BY <1>3, <1>18, <2>1, OnlySpares DEF InterruptSelf
    <2>2. CASE fib[f].holds # 0
      <3>1. PICK r, x : r = Interrupted({f}, None, None)[f] /\ x = [r EXCEPT !.ops = @ + 1]
        OBVIOUS
      <3>2. fib' = [fib EXCEPT ![f] = x]
        BY <1>18, <2>2, <3>1 DEF InterruptSelf
      <3>3. /\ r.unwinding = fib[f].unwinding /\ r.unwinds = fib[f].unwinds
            /\ {"unwinding", "unwinds", "pending"} \subseteq DOMAIN r
        BY <3>1 DEF Interrupted, Shaped
      <3>4. x.unwinding = fib[f].unwinding /\ x.unwinds = fib[f].unwinds
        BY <3>1, <3>3
      <3> QED
        BY <3>2, <3>4 DEF Shaped, Spares
    <2> QED
      BY <2>1, <2>2
  <1>19. ASSUME NEW op, Deliver(f, op) PROVE Spares
    BY <1>3, <1>19, OnlySpares DEF Deliver, Interrupting
  <1>20. ASSUME NEW s \in Scopes, ForkClosed(f, s) PROVE Spares
    BY <1>4, <1>20 DEF ForkClosed
  <1>21. ASSUME NEW h \in Fibers, InterruptEnded(f, h) PROVE Spares
    BY <1>4, <1>21 DEF InterruptEnded
  <1> QED
    BY <1>6, <1>7, <1>8, <1>9, <1>10, <1>12, <1>13, <1>14, <1>16, <1>17, <1>18, <1>19, <1>20, <1>21 DEF Calls

(* A forked fiber ends.                                                    *)
LEMMA FinishSpares ==
  ASSUME Shaped(fib), NEW f \in Fibers, NEW o, NEW q, FinishChild(f, o, q)
  PROVE  Spares
  <1> DEFINE s == fib[f].scope
             isFirst == Failure(o) /\ scope[s].first = NotYet
             S == IF isFirst THEN scope[s].children \ {f} ELSE {}
             b == IF isFirst /\ ~scope[s].bodyDone THEN scope[s].fiber ELSE None
             closer == IF scope[s].children = {f} THEN CloserWake(s) ELSE <<>>
             D == Taken(Woken(closer \o fib[f].watchers, Dropped(S, b, s)))
             A == Interrupted(S, b, s)
             F == Released(A, D)
  <1>1. fib' = [F EXCEPT ![f].result = o, ![f].watchers = <<>>]
    BY DEF FinishChild
  <1> HIDE DEF s, isFirst, S, b, closer, D
  <1>2. Quiet(fib, A)
    BY <1>1, QuietInterrupted
  <1>3. Quiet(A, F)
    BY <1>1, <1>2, QuietUpdates DEF Quiet
  <1>4. Quiet(F, fib')
    BY <1>1, <1>3, QuietUpdates DEF Quiet
  <1> QED
    BY <1>2, <1>3, <1>4, QuietTwice, QuietSpares

(* The steps that end a construct.                                         *)
LEMMA EndsSpare ==
  ASSUME Shaped(fib), NEW f \in Fibers, Ends(f) \/ EndScope(f)
  PROVE  Spares
  <1>1. Quiet(fib, fib)
    BY DEF Quiet, Unforced
  <1>2. ASSUME NEW F, NEW n, Quiet(fib, F), fib' = [F EXCEPT ![f].holds = n] PROVE Spares
    <2>1. Quiet(F, fib')
      BY <1>2, QuietUpdates DEF Quiet
    <2> QED
      BY <1>2, <2>1, QuietTwice, QuietSpares
  <1>3. ASSUME NEW o, BeginRelease(f, o) PROVE Spares
    <2>1. PICK F : F = Replaced(fib, f, Frame("release", None, o))
      OBVIOUS
    <2>2. Quiet(fib, F) /\ fib' = [F EXCEPT ![f].holds = F[f].holds + 1]
      BY <1>3, <2>1, QuietUpdates DEF BeginRelease
    <2> QED
      BY <1>2, <2>2
  <1>4. ASSUME NEW F, F = Popped(fib, f), fib' = [F EXCEPT ![f].holds = F[f].holds - 1] PROVE Spares
    <2>1. Quiet(fib, F)
      BY <1>4, QuietUpdates
    <2> QED
      BY <1>2, <1>4, <2>1
  <1>5. ASSUME NEW o, EndRelease(f, o) PROVE Spares
    BY <1>4, <1>5 DEF EndRelease
  <1>6. ASSUME EndScope(f) PROVE Spares
    BY <1>4, <1>6 DEF EndScope
  <1>7. ASSUME NEW o, EndAttempt(f, o) PROVE Spares
    BY <1>7, QuietUpdates, QuietSpares DEF EndAttempt
  <1>8. ASSUME NEW o, EndWith(f, o) PROVE Spares
    BY <1>1, <1>8, QuietSpares DEF EndWith
  <1>9. ASSUME NEW o, EndBody(f, o) PROVE Spares
    <2>1. PICK s, S, A, F : /\ s = Top(f).s /\ S = scope[s].children
                            /\ A = Interrupted(S, None, None) /\ F = Forgets(A, f, s)
      OBVIOUS
    <2>2. Quiet(fib, A)
      BY <2>1, QuietInterrupted
    <2>3. Quiet(A, F)
      BY <2>1, <2>2, QuietUpdates DEF Quiet
    <2>4. Quiet(fib, F) /\ Shaped(F)
      BY <2>2, <2>3, QuietTwice DEF Quiet
    <2>5. CASE fib' = Popped(F, f)
      <3>1. Quiet(F, fib')
        BY <2>4, <2>5, QuietUpdates
      <3> QED
        BY <2>4, <3>1, QuietTwice, QuietSpares
    <2>6. CASE \E r, n : fib' = Suspended([Replaced(F, f, r) EXCEPT ![f].holds = @ + 1], f, n, "closing", s)
      <3>1. PICK r, n, B, C : /\ B = Replaced(F, f, r) /\ C = [B EXCEPT ![f].holds = B[f].holds + 1]
                              /\ fib' = Suspended(C, f, n, "closing", s)
        BY <2>6
      <3>2. Quiet(F, B)
        BY <2>4, <3>1, QuietUpdates
      <3>3. Quiet(B, C)
        BY <3>1, <3>2, QuietUpdates DEF Quiet
      <3>4. Quiet(C, fib')
        BY <3>1, <3>3, QuietUpdates DEF Quiet
      <3> QED
        BY <2>4, <3>2, <3>3, <3>4, QuietTwice, QuietSpares
    <2> QED
      BY <1>9, <2>1, <2>5, <2>6 DEF EndBody
  <1>10. ASSUME NEW o, Finish(f, o) PROVE Spares
    <2>1. CASE f = Main
      <3>1. fib' = [fib EXCEPT ![f].result = o]
        BY <1>10, <2>1 DEF Finish, FinishMain
      <3> QED
        BY <3>1, QuietUpdates, QuietSpares
    <2>2. CASE f # Main
      BY <1>10, <2>2, FinishSpares DEF Finish
    <2> QED
      BY <2>1, <2>2
  <1> QED
    BY <1>3, <1>5, <1>6, <1>7, <1>8, <1>9, <1>10 DEF Ends

(* The tasks of the queue: an interruption is delivered where nothing      *)
(* holds it off, and thrown only into a fiber that was dropped so.         *)
LEMMA DrainSpares ==
  ASSUME Inv, Shaped(fib), Drain
  PROVE  Spares
  <1>1. PICK t, f : t = Head(queue) /\ f = t.f
    OBVIOUS
  <1>2. ~over /\ cur = None /\ queue # <<>>
    BY DEF Drain, Begin, Resume, Go, Throw, NextTask
  <1>3. queue \in Seq(Tasks) /\ Queued(fib, queue, unwound)
    BY <1>2 DEF Inv, Typed, TypedScheduler, Scheduled
  <1>4. t \in Tasks /\ t = queue[1] /\ 1 \in 1..Len(queue)
    BY <1>1, <1>2, <1>3
  <1>5. f \in Fibers /\ (t.kind = "throw" => fib[f].holds = 0 \/ unwound)
    BY <1>1, <1>3, <1>4 DEF Tasks, Queued
  <1>6. Quiet(fib, fib)
    BY DEF Quiet, Unforced
  <1>7. ASSUME NEW F, Quiet(fib, F), NEW in, Resumes(F, f, in) PROVE Spares
    <2>1. CASE Interrupting(f) /\ fib' = [F EXCEPT ![f] = Delivered(F[f])]
      BY <1>5, <1>7, <2>1, OnlySpares DEF Interrupting
    <2>2. CASE fib' = F
      BY <1>7, <2>2, QuietSpares
    <2> QED
      BY <1>7, <2>1, <2>2 DEF Resumes
  <1>8. ASSUME Begin PROVE Spares
    <2>1. CASE fib' = fib
      BY <1>6, <2>1, QuietSpares
    <2>2. CASE FinishChild(f, "int", Tail(queue))
      BY <1>5, <2>2, FinishSpares
    <2> QED
      BY <1>1, <1>8, <2>1, <2>2 DEF Begin
  <1>9. ASSUME Resume PROVE Spares
    BY <1>1, <1>6, <1>7, <1>9 DEF Resume
  <1>10. ASSUME Go PROVE Spares
    <2>1. CASE Resumes(Released(fib, {f}), f, "run")
      <3>1. Quiet(fib, Released(fib, {f}))
        BY <1>5, QuietUpdates
      <3> QED
        BY <1>7, <2>1, <3>1
    <2>2. CASE fib' = fib
      BY <1>6, <2>2, QuietSpares
    <2> QED
      BY <1>1, <1>10, <2>1, <2>2 DEF Go
  <1>11. ASSUME Throw PROVE Spares
    <2>1. t.kind = "throw" /\ fib' = [fib EXCEPT ![f] = Delivered(fib[f])]
      BY <1>1, <1>11 DEF Throw, NextTask
    <2> QED
      BY <1>5, <1>6, <2>1, OnlySpares
  <1> QED
    BY <1>8, <1>9, <1>10, <1>11 DEF Drain

(* Host callbacks only ask for interruptions.                              *)
LEMMA HostSpares ==
  ASSUME Inv, Shaped(fib), Host
  PROVE  Spares
  <1>1. Quiet(fib, fib) /\ Main \in Fibers
    BY ConstantsAssumption DEF Quiet, Unforced, Main, Fibers
  <1>2. ASSUME NEW F, Quiet(fib, F), NEW D, fib' = Released(F, D) PROVE Spares
    <2>1. Quiet(F, fib')
      BY <1>1, <1>2, QuietUpdates DEF Quiet
    <2> QED
      BY <1>2, <2>1, QuietTwice, QuietSpares
  <1>3. ASSUME fib' = fib PROVE Spares
    BY <1>1, <1>3, QuietSpares
  <1>4. ASSUME NEW c, NEW in, Settle(c, in) PROVE Spares
    BY <1>1, <1>2, <1>3, <1>4 DEF Settle
  <1>5. ASSUME NEW go, Later(go) PROVE Spares
    BY <1>3, <1>5 DEF Later
  <1>6. ASSUME Stalled PROVE Spares
    <2>1. PICK F, D : /\ F = [f \in Fibers |-> IF Live(f) /\ ~fib[f].unwinding
                                               THEN [fib[f] EXCEPT !.pending = @ \cup {None}]
                                               ELSE fib[f]]
                      /\ fib' = Released(F, D)
      BY <1>6 DEF Stalled
    <2>2. Quiet(fib, F)
      BY <2>1 DEF Quiet, Shaped, Unforced
    <2> QED
      BY <1>2, <2>1, <2>2
  <1> QED
    BY <1>4, <1>5, <1>6 DEF Host

(* In every step of every run, an interruption begins to unwind a fiber    *)
(* only where no release and no closing scope of it holds interruptions    *)
(* off, unless the run was unwound as stalled ($hold, $Fiber#deliver).     *)
THEOREM ReleasesUninterrupted == Spec => ReleaseUninterrupted
  <1>1. Inv => Shaped(fib)
    <2>1. Inv => fib \in [Fibers -> FiberType]
      BY DEF Inv, Typed, TypedFibers
    <2>2. \A r \in FiberType : {"unwinding", "unwinds", "pending"} \subseteq DOMAIN r
      BY DEF FiberType
    <2> QED
      BY <2>1, <2>2 DEF Shaped
  <1>2. Inv /\ Next => Spares
    <2> SUFFICES ASSUME Inv, Next PROVE Spares
      OBVIOUS
    <2>1. ASSUME Exit PROVE Spares
      BY <2>1 DEF Exit, vars, Spares
    <2> QED
      BY <1>1, <2>1, CallsSpare, EndsSpare, DrainSpares, HostSpares DEF Next, Step
  <1>3. Inv /\ [Next]_vars => [Spares]_vars
    BY <1>2
  <1>4. ReleaseUninterrupted <=> [][Spares]_vars
    BY PTL DEF ReleaseUninterrupted, Spares
  <1> QED
    BY <1>3, <1>4, SchedulerConsistent, PTL DEF Spec

-----------------------------------------------------------------------------
(* The scheduler implements StructuredConcurrency: what the scopes see of  *)
(* the fibers F and of the scope objects X.                                *)

Formed(F) ==
  /\ F = [f \in Fibers |-> F[f]]
  /\ \A f \in Fibers : {"born", "scope", "result"} \subseteq DOMAIN F[f]
Alike(r, x) == x.born = r.born /\ x.scope = r.scope /\ x.result = r.result
Unseen(F, G) == Formed(G) /\ \A f \in Fibers : Alike(F[f], G[f])
SeenSame(x, y) ==
  /\ y.fiber = x.fiber /\ y.ended = x.ended /\ y.bodyDone = x.bodyDone /\ y.closed = x.closed
  /\ y.first = x.first /\ y.out = x.out /\ y.ret = x.ret
Unmoved(X, Y) == \A s \in Scopes : SeenSame(X[s], Y[s])

(* The updates of the fibers that the scopes do not see.                   *)
LEMMA UnseenUpdates ==
  ASSUME NEW F, Formed(F), NEW f \in Fibers
  PROVE  /\ Unseen(F, F) /\ Unseen(F, Called(F, f)) /\ Unseen(F, Popped(F, f))
         /\ \A r : Unseen(F, Pushed(F, f, r)) /\ Unseen(F, Replaced(F, f, r))
         /\ \A n, x, y : Unseen(F, Suspended(F, f, n, x, y))
         /\ \A D : Unseen(F, Released(F, D))
         /\ \A n : Unseen(F, [F EXCEPT ![f].holds = n])
         /\ \A s : Unseen(F, Forgets(F, f, s))
         /\ \A w : Unseen(F, [F EXCEPT ![f].watchers = w])
  <1> USE DEF Unseen, Formed, Alike
  <1>1. Unseen(F, F) /\ Unseen(F, Called(F, f)) /\ Unseen(F, Popped(F, f))
    BY DEF Called, Popped
  <1>2. ASSUME NEW r PROVE Unseen(F, Pushed(F, f, r)) /\ Unseen(F, Replaced(F, f, r))
    BY DEF Pushed, Replaced
  <1>3. ASSUME NEW n, NEW x, NEW y PROVE Unseen(F, Suspended(F, f, n, x, y))
    BY DEF Suspended
  <1>4. ASSUME NEW D PROVE Unseen(F, Released(F, D))
    BY DEF Released
  <1>5. ASSUME NEW n PROVE Unseen(F, [F EXCEPT ![f].holds = n])
    OBVIOUS
  <1>6. ASSUME NEW s PROVE Unseen(F, Forgets(F, f, s))
    BY DEF Forgets
  <1>7. ASSUME NEW w PROVE Unseen(F, [F EXCEPT ![f].watchers = w])
    OBVIOUS
  <1> HIDE DEF Unseen, Formed, Alike
  <1> QED
    BY <1>1, <1>2, <1>3, <1>4, <1>5, <1>6, <1>7

(* One update after another.                                               *)
LEMMA UnseenTwice ==
  ASSUME NEW F, NEW G, NEW H, Unseen(F, G), Unseen(G, H)
  PROVE  Unseen(F, H)
  BY DEF Unseen, Alike

(* To interrupt fibers, and to deliver an interruption.                    *)
LEMMA UnseenInterrupts ==
  ASSUME Formed(fib)
  PROVE  /\ \A S, b, s : Unseen(fib, Interrupted(S, b, s))
         /\ \A F, f : f \in Fibers /\ Unseen(fib, F) => Unseen(fib, [F EXCEPT ![f] = Delivered(F[f])])
  <1>1. ASSUME NEW S, NEW b, NEW s PROVE Unseen(fib, Interrupted(S, b, s))
    BY DEF Unseen, Formed, Alike, Interrupted
  <1>2. ASSUME NEW F, NEW f \in Fibers, Unseen(fib, F) PROVE Unseen(fib, [F EXCEPT ![f] = Delivered(F[f])])
    <2>1. PICK r, x : r = F[f] /\ x = Delivered(r)
      OBVIOUS
    <2>2. {"born", "scope", "result"} \subseteq DOMAIN r
      BY <1>2, <2>1 DEF Unseen, Formed
    <2>3. {"born", "scope", "result"} \subseteq DOMAIN x /\ Alike(r, x)
      BY <2>1, <2>2 DEF Delivered, Alike
    <2> QED
      BY <1>2, <2>1, <2>3 DEF Unseen, Formed, Alike
  <1> QED
    BY <1>1, <1>2

(* A step that the scopes do not see.                                      *)
LEMMA UnseenStutters ==
  ASSUME Unseen(fib, fib'), Unmoved(scope, scope')
  PROVE  UNCHANGED Scoping!vars
  <1>1. \A s \in Scopes : SeenSame(scope[s], scope'[s])
    BY DEF Unmoved
  <1>2. \A f \in Fibers : Alike(fib[f], fib'[f])
    BY DEF Unseen
  <1>3. [s \in Scopes |-> Phase(s)]' = [s \in Scopes |-> Phase(s)]
    BY <1>1 DEF Phase, SeenSame
  <1> QED
    BY <1>1, <1>2, <1>3 DEF Scoping!vars, SeenSame, Alike

(* A live fiber opens a scope.                                             *)
LEMMA OpenScopeScoping ==
  ASSUME Inv, Formed(fib), NEW f \in Fibers, NEW s \in Scopes, OpenScope(f, s)
  PROVE  Scoping!Open(f, s)
  <1>1. PICK F, x, y : F = Called(fib, f) /\ x = scope[s] /\ y = NewScope(f, ScopeDepth(f))
    OBVIOUS
  <1>2. /\ ~over /\ cur = f /\ x.fiber = None /\ scope' = [scope EXCEPT ![s] = y]
        /\ \E r : fib' = Pushed(F, f, r)
    BY <1>1 DEF OpenScope, CanCall, Running
  <1>3. Unseen(fib, F) /\ Formed(F)
    BY <1>1, UnseenUpdates DEF Unseen
  <1>4. Unseen(F, fib')
    BY <1>2, <1>3, UnseenUpdates
  <1>5. Unseen(fib, fib')
    BY <1>3, <1>4, UnseenTwice
  <1>6. fib[f].born /\ fib[f].result = NotYet /\ f # None
    BY <1>2, RunningFacts, ConstantsAssumption DEF Fibers, None
  <1>7. scope \in [Scopes -> ScopeType] /\ x = NewScope(None, 0)
    BY <1>1, <1>2 DEF Inv, Typed, Nested, ScopesOf
  <1>8. /\ y.fiber = f /\ ~y.ended /\ ~y.bodyDone /\ ~y.closed
        /\ y.first = x.first /\ y.out = x.out /\ y.ret = x.ret
    BY <1>1, <1>7 DEF NewScope
  <1>9. scope'[s] = y /\ \A t \in Scopes : t # s => scope'[t] = scope[t]
    BY <1>2, <1>7
  <1>10. [t \in Scopes |-> Phase(t)]' = [[t \in Scopes |-> Phase(t)] EXCEPT ![s] = "open"]
    BY <1>6, <1>8, <1>9 DEF Phase
  <1>11. Phase(s) = "new"
    BY <1>1, <1>2 DEF Phase
  <1>12. /\ [t \in Scopes |-> scope'[t].fiber] = [[t \in Scopes |-> scope[t].fiber] EXCEPT ![s] = f]
         /\ \A t \in Scopes : /\ scope'[t].first = scope[t].first /\ scope'[t].out = scope[t].out
                              /\ scope'[t].ret = scope[t].ret
    BY <1>1, <1>8, <1>9
  <1>13. \A g \in Fibers : Alike(fib[g], fib'[g])
    BY <1>5 DEF Unseen
  <1> QED
    BY <1>6, <1>10, <1>11, <1>12, <1>13 DEF Scoping!Open, Scoping!Live, Alike, NotYet

(* A fiber is forked into an open scope.                                   *)
LEMMA ForkScoping ==
  ASSUME Inv, Formed(fib), NEW f \in Fibers, NEW s \in Scopes, NEW c \in Fibers, Fork(f, s, c)
  PROVE  Scoping!Fork(c, s)
  <1>1. PICK F, x, r, n : /\ F = Called(fib, f) /\ x = scope[s] /\ r = NewFiber(s)
                          /\ n = x.children \cup {c}
    OBVIOUS
  <1>2. /\ ~over /\ cur = f /\ x.fiber # None /\ ~x.closed /\ ~fib[c].born
        /\ fib' = [F EXCEPT ![c] = r] /\ scope' = [scope EXCEPT ![s].children = n]
    BY <1>1 DEF Fork, CanCall, Running
  <1>3. Unseen(fib, F)
    BY <1>1, UnseenUpdates
  <1>4. scope \in [Scopes -> ScopeType] /\ Forked(fib, scope) /\ ScopesOf(scope)
    BY DEF Inv, Typed, Nested
  <1>5. Phase(s) = "open"
    BY <1>1, <1>2, <1>4 DEF Phase, ScopesOf
  <1>6. \A g \in Fibers : g >= c => ~fib[g].born
    BY <1>2, <1>4 DEF Forked, Fibers
  <1>7. r.born /\ r.result = "none" /\ r.scope = s
    BY <1>1 DEF NewFiber, NotYet
  <1>8. fib'[c] = r /\ \A g \in Fibers : g # c => Alike(fib[g], fib'[g])
    BY <1>2, <1>3 DEF Unseen, Formed
  <1>9. Unmoved(scope, scope')
    BY <1>2, <1>4 DEF Unmoved, SeenSame, ScopeType
  <1>10. [t \in Scopes |-> Phase(t)]' = [t \in Scopes |-> Phase(t)]
    BY <1>9 DEF Unmoved, SeenSame, Phase
  <1>11. \A t \in Scopes : /\ scope'[t].fiber = scope[t].fiber /\ scope'[t].first = scope[t].first
                           /\ scope'[t].out = scope[t].out /\ scope'[t].ret = scope[t].ret
    BY <1>9 DEF Unmoved, SeenSame
  <1>12. \A g \in Fibers : g # c => /\ fib'[g].born = fib[g].born /\ fib'[g].scope = fib[g].scope
                                    /\ fib'[g].result = fib[g].result
    BY <1>8 DEF Alike
  <1>13. [g \in Fibers |-> IF fib'[g].born THEN fib'[g].result ELSE "unborn"]
           = [[g \in Fibers |-> IF fib[g].born THEN fib[g].result ELSE "unborn"] EXCEPT ![c] = "none"]
    BY <1>7, <1>8, <1>12
  <1>14. [g \in Fibers |-> fib'[g].scope] = [[g \in Fibers |-> fib[g].scope] EXCEPT ![c] = s]
    BY <1>7, <1>8, <1>12
  <1>15. \A g \in Scoping!Fibers : g >= c => ~Scoping!Born(g)
    BY <1>6 DEF Scoping!Born, Scoping!Fibers, Fibers
  <1> QED
    BY <1>5, <1>10, <1>11, <1>13, <1>14, <1>15 DEF Scoping!Fork

(* The abstract definitions of what a scope returns are the scheduler's.   *)
LEMMA ScopingReturns ==
  ASSUME NEW s \in Scopes, NEW o
  PROVE  Scoping!FirstOf(s, o) = FirstFailure(s, o) /\ Scoping!Returned(s, o) = Return(s, o)
  BY DEF Scoping!FirstOf, Scoping!Returned, Scoping!Failures, FirstFailure, Return, Failure, NotYet

(* The children of a scope are its live children.                          *)
LEMMA ScopingChildren ==
  ASSUME Children(fib, scope), NEW s \in Scopes, scope[s].children \subseteq Fibers
  PROVE  (\E f \in Scoping!Fibers : Scoping!LiveChild(f, s)) <=> scope[s].children # {}
  <1>1. \A f \in Fibers : Scoping!LiveChild(f, s) <=> f \in scope[s].children
    BY DEF Scoping!LiveChild, Scoping!Live, Children, NotYet
  <1> QED
    BY <1>1 DEF Scoping!Fibers, Fibers

(* The scopes that a fiber opened after the one whose body it is in have   *)
(* returned.                                                               *)
LEMMA InnerEnded ==
  ASSUME Inv, NEW f \in Fibers, fib[f].stack # <<>>, NEW s, s = Last(fib[f].stack).s,
         OfScope(Last(fib[f].stack)), NEW t \in Scopes, t > s, scope[t].fiber = f
  PROVE  scope[t].ended
  <1> SUFFICES ASSUME ~scope[t].ended PROVE FALSE
    OBVIOUS
  <1>1. PICK st : st = fib[f].stack
    OBVIOUS
  <1>2. st \in Seq(Frames) /\ FramesIn(f, st, scope) /\ HasFrame(st, t)
    BY <1>1, StackFacts
  <1>3. Len(st) \in Nat \ {0}
    BY <1>1, <1>2, LenProperties, EmptySeq
  <1>4. PICK i \in 1..Len(st) : OfScope(st[i]) /\ st[i].s = t
    BY <1>2 DEF HasFrame
  <1>5. st[Len(st)].s = s /\ OfScope(st[Len(st)]) /\ Len(st) \in 1..Len(st)
    BY <1>1, <1>3 DEF Last
  <1>6. i # Len(st)
    <2>1. t \in Nat
      BY DEF Scopes
    <2> QED
      BY <1>4, <1>5, <2>1
  <1>7. i < Len(st)
    BY <1>3, <1>6
  <1>8. t < s /\ t \in Nat /\ s \in Nat
    <2>1. s \in Scopes
      BY <1>2, <1>5 DEF FramesIn, FrameOf
    <2> QED
      BY <1>2, <1>4, <1>5, <1>7, <2>1 DEF FramesIn, Scopes
  <1> QED
    BY <1>8

(* The body of a scope ends.                                               *)
LEMMA EndBodyScoping ==
  ASSUME Inv, Formed(fib), NEW f \in Fibers, NEW o \in Outcomes, EndBody(f, o)
  PROVE  \E s \in Scopes : Scoping!EndBody(s, o)
  <1>1. PICK s, S, A, F : /\ s = Top(f).s /\ S = scope[s].children
                          /\ A = Interrupted(S, None, None) /\ F = Forgets(A, f, s)
    OBVIOUS
  <1>2. /\ ~over /\ cur = f /\ fib[f].stack # <<>>
        /\ Last(fib[f].stack).kind = "scope" /\ s = Last(fib[f].stack).s
    BY <1>1 DEF EndBody, Passing, InFrame, Top
  <1>3. Unseen(fib, fib')
    <2>1. Unseen(fib, A)
      BY <1>1, UnseenInterrupts
    <2>2. Unseen(A, F)
      BY <1>1, <2>1, UnseenUpdates DEF Unseen
    <2>3. Unseen(fib, F) /\ Formed(F)
      BY <2>1, <2>2, UnseenTwice DEF Unseen
    <2>4. CASE fib' = Popped(F, f)
      <3>1. Unseen(F, fib')
        BY <2>3, <2>4, UnseenUpdates
      <3> QED
        BY <2>3, <3>1, UnseenTwice
    <2>5. CASE \E r, n : fib' = Suspended([Replaced(F, f, r) EXCEPT ![f].holds = @ + 1], f, n, "closing", s)
      <3>1. PICK r, n, B, C : /\ B = Replaced(F, f, r) /\ C = [B EXCEPT ![f].holds = B[f].holds + 1]
                              /\ fib' = Suspended(C, f, n, "closing", s)
        BY <2>5
      <3>2. Unseen(F, B)
        BY <2>3, <3>1, UnseenUpdates
      <3>3. Unseen(B, C)
        BY <3>1, <3>2, UnseenUpdates DEF Unseen
      <3>4. Unseen(C, fib')
        BY <3>1, <3>3, UnseenUpdates DEF Unseen
      <3> QED
        BY <2>3, <3>2, <3>3, <3>4, UnseenTwice
    <2> QED
      BY <1>1, <2>4, <2>5 DEF EndBody
  <1>4. s \in Scopes /\ scope[s].fiber = f /\ ~scope[s].ended /\ ~scope[s].bodyDone /\ f # None
    BY <1>2, BodyFacts, ConstantsAssumption DEF Fibers, None
  <1>5. scope \in [Scopes -> ScopeType] /\ Children(fib, scope)
    BY <1>2 DEF Inv, Typed, Scheduled
  <1>6. S \subseteq Fibers
    BY <1>1, <1>4, <1>5 DEF ScopeType
  <1>7. PICK n, m : n = FirstFailure(s, o) /\ m = Return(s, o)
    OBVIOUS
  <1>8. PICK x, y : /\ x = scope[s] /\ scope' = [scope EXCEPT ![s] = y]
                    /\ y = [x EXCEPT !.bodyDone = TRUE, !.closed = TRUE, !.first = n, !.out = o,
                                     !.closer = IF x.children # {} THEN ClosingNo(f, s) ELSE 0,
                                     !.ended = x.children = {},
                                     !.ret = IF x.children = {} THEN m ELSE x.ret]
    BY <1>1, <1>7 DEF EndBody, BodyEnded
  <1>9. x \in ScopeType /\ x = scope[s] /\ x.children = S
    BY <1>1, <1>4, <1>5, <1>8
  <1>10. /\ y.fiber = x.fiber /\ y.bodyDone = TRUE /\ y.first = n /\ y.out = o
         /\ y.ended = (x.children = {})
         /\ y.ret = IF x.children = {} THEN m ELSE x.ret
    BY <1>8, <1>9 DEF ScopeType
  <1>11. scope'[s] = y /\ \A t \in Scopes : t # s => scope'[t] = scope[t]
    BY <1>4, <1>5, <1>8
  <1>12. \A t \in Scoping!Scopes : t > s /\ scope[t].fiber = f => Phase(t) = "ended"
    <2>1. OfScope(Last(fib[f].stack))
      BY <1>2 DEF OfScope
    <2> QED
      BY <1>2, <1>4, <2>1, InnerEnded DEF Phase, Scoping!Scopes, Scopes
  <1>13. Phase(s) \in {"open", "failed"}
    BY <1>4 DEF Phase
  <1>14. [t \in Scopes |-> Phase(t)]'
           = [[t \in Scopes |-> Phase(t)] EXCEPT ![s] = IF S = {} THEN "ended" ELSE "closing"]
    BY <1>4, <1>9, <1>10, <1>11 DEF Phase
  <1>15. /\ [t \in Scopes |-> scope'[t].first] = [[t \in Scopes |-> scope[t].first] EXCEPT ![s] = n]
         /\ [t \in Scopes |-> scope'[t].out] = [[t \in Scopes |-> scope[t].out] EXCEPT ![s] = o]
         /\ [t \in Scopes |-> scope'[t].fiber] = [t \in Scopes |-> scope[t].fiber]
    BY <1>4, <1>9, <1>10, <1>11
  <1>16. IF S = {} THEN [t \in Scopes |-> scope'[t].ret] = [[t \in Scopes |-> scope[t].ret] EXCEPT ![s] = m]
         ELSE [t \in Scopes |-> scope'[t].ret] = [t \in Scopes |-> scope[t].ret]
    BY <1>4, <1>9, <1>10, <1>11
  <1>17. \A g \in Fibers : Alike(fib[g], fib'[g])
    BY <1>3 DEF Unseen
  <1>18. (\E g \in Scoping!Fibers : Scoping!LiveChild(g, s)) <=> S # {}
    BY <1>1, <1>4, <1>5, <1>6, ScopingChildren
  <1>19. Scoping!FirstOf(s, o) = n /\ Scoping!Returned(s, o) = m
    BY <1>4, <1>7, ScopingReturns
  <1>20. UNCHANGED <<[g \in Fibers |-> IF fib[g].born THEN fib[g].result ELSE "unborn"],
                     [g \in Fibers |-> fib[g].scope]>>
    BY <1>17 DEF Alike
  <1>21. Scoping!EndBody(s, o)
    BY <1>4, <1>12, <1>13, <1>14, <1>15, <1>16, <1>18, <1>19, <1>20
    DEF Scoping!EndBody, Scoping!BodyRuns, Scoping!Scopes, Scopes
  <1> QED
    BY <1>4, <1>21

(* A scope whose children have ended returns.                              *)
LEMMA EndScopeScoping ==
  ASSUME Inv, Formed(fib), NEW f \in Fibers, EndScope(f)
  PROVE  \E s \in Scopes : Scoping!Return(s)
  <1>1. PICK s, F : s = Top(f).s /\ F = Popped(fib, f)
    OBVIOUS
  <1>2. PICK o, m : o = scope[s].out /\ m = Return(s, o)
    OBVIOUS
  <1>3. /\ ~over /\ cur = f /\ fib[f].stack # <<>>
        /\ Last(fib[f].stack).kind = "closing" /\ s = Last(fib[f].stack).s
        /\ scope' = [scope EXCEPT ![s].ended = TRUE, ![s].ret = m]
        /\ fib' = [F EXCEPT ![f].holds = F[f].holds - 1]
    BY <1>1, <1>2 DEF EndScope, InFrame, Top
  <1>4. Unseen(fib, fib')
    <2>1. Unseen(fib, F)
      BY <1>1, UnseenUpdates
    <2>2. Unseen(F, fib')
      BY <1>3, <2>1, UnseenUpdates DEF Unseen
    <2> QED
      BY <2>1, <2>2, UnseenTwice
  <1>5. s \in Scopes /\ scope[s].fiber = f /\ ~scope[s].ended /\ scope[s].bodyDone /\ f # None
    <2>1. PICK a, st : a = fib[f].stack /\ st = Front(a)
      OBVIOUS
    <2>2. a \in Seq(Frames) /\ FramesIn(f, a, scope)
      BY <2>1, StackFacts
    <2>3. FrameEnds(f, a, st, scope)
      BY <1>3, <2>1, <2>2, FramesFront
    <2>4. FrameOf(f, Last(a), scope)
      BY <1>3, <2>1, <2>3 DEF FrameEnds, OfScope
    <2>5. f # None
      BY ConstantsAssumption DEF Fibers, None
    <2> QED
      BY <1>3, <2>1, <2>4, <2>5 DEF FrameOf
  <1>6. scope \in [Scopes -> ScopeType] /\ Children(fib, scope) /\ ClosingOf(fib[f], scope)
    BY <1>3 DEF Inv, Typed, Scheduled, Closing
  <1>7. scope[s].children = {}
    <2>1. fib[f].wait = NoWait
      BY <1>3, RunningFacts
    <2> QED
      BY <1>3, <1>6, <2>1 DEF ClosingOf, ClosingTop, NoWait
  <1>8. PICK x, y : x = scope[s] /\ y = [x EXCEPT !.ended = TRUE, !.ret = m]
    OBVIOUS
  <1>9. x \in ScopeType /\ x = scope[s]
    BY <1>5, <1>6, <1>8
  <1>10. /\ y.fiber = x.fiber /\ y.bodyDone = x.bodyDone /\ y.first = x.first /\ y.out = x.out
         /\ y.ended = TRUE /\ y.ret = m
    BY <1>8, <1>9 DEF ScopeType
  <1>11. scope'[s] = y /\ \A t \in Scopes : t # s => scope'[t] = scope[t]
    BY <1>3, <1>5, <1>6, <1>8
  <1>12. Phase(s) = "closing"
    BY <1>5 DEF Phase
  <1>13. [t \in Scopes |-> Phase(t)]' = [[t \in Scopes |-> Phase(t)] EXCEPT ![s] = "ended"]
    BY <1>5, <1>9, <1>10, <1>11 DEF Phase
  <1>14. /\ [t \in Scopes |-> scope'[t].ret] = [[t \in Scopes |-> scope[t].ret] EXCEPT ![s] = m]
         /\ \A t \in Scopes : /\ scope'[t].first = scope[t].first /\ scope'[t].out = scope[t].out
                              /\ scope'[t].fiber = scope[t].fiber
    BY <1>5, <1>9, <1>10, <1>11
  <1>15. ~\E g \in Scoping!Fibers : Scoping!LiveChild(g, s)
    BY <1>5, <1>6, <1>7, ScopingChildren
  <1>16. Scoping!Returned(s, o) = m
    BY <1>2, <1>5, ScopingReturns
  <1>17. UNCHANGED <<[g \in Fibers |-> IF fib[g].born THEN fib[g].result ELSE "unborn"],
                     [g \in Fibers |-> fib[g].scope]>>
    BY <1>4 DEF Unseen, Alike
  <1>18. Scoping!Return(s)
    BY <1>2, <1>5, <1>12, <1>13, <1>14, <1>15, <1>16, <1>17, ZenonT(30) DEF Scoping!Return
  <1> QED
    BY <1>5, <1>18

(* The scopes that a fiber outside of every construct opened have returned. *)
LEMMA ScopesReturned ==
  ASSUME Inv, NEW f \in Fibers, fib[f].stack = <<>>
  PROVE  Scoping!ScopesEnded(f)
  <1>1. ASSUME NEW s \in Scopes, scope[s].fiber = f PROVE scope[s].ended
    <2>1. HasFrame(fib[f].stack, s) \/ scope[s].ended
      BY <1>1, StackFacts
    <2>2. ~HasFrame(fib[f].stack, s)
      <3>1. PICK st : st = fib[f].stack
        OBVIOUS
      <3>2. Len(st) = 0
        BY <3>1
      <3> QED
        BY <3>1, <3>2 DEF HasFrame
    <2> QED
      BY <2>1, <2>2
  <1>2. f # None
    BY ConstantsAssumption DEF Fibers, None
  <1>3. \A s \in Scopes : scope[s].fiber = f => Phase(s) = "ended"
    BY <1>1, <1>2 DEF Phase
  <1> QED
    BY <1>3 DEF Scoping!ScopesEnded, Scoping!Scopes, Scopes

(* How fiber f ends, as the scopes see it.                                 *)
Ending(F, G, f, o) ==
  /\ G[f].result = o /\ G[f].born = F[f].born /\ G[f].scope = F[f].scope
  /\ \A g \in Fibers : g # f => Alike(F[g], G[g])

LEMMA EndingResults ==
  ASSUME NEW f \in Fibers, fib[f].born, NEW o, Ending(fib, fib', f, o)
  PROVE  /\ [g \in Fibers |-> IF fib'[g].born THEN fib'[g].result ELSE "unborn"]
              = [[g \in Fibers |-> IF fib[g].born THEN fib[g].result ELSE "unborn"] EXCEPT ![f] = o]
         /\ [g \in Fibers |-> fib'[g].scope] = [g \in Fibers |-> fib[g].scope]
  <1>1. \A g \in Fibers : fib'[g].born = fib[g].born /\ fib'[g].scope = fib[g].scope
    BY DEF Ending, Alike
  <1>2. \A g \in Fibers : fib'[g].result = IF g = f THEN o ELSE fib[g].result
    BY DEF Ending, Alike
  <1> QED
    BY <1>1, <1>2

(* The main fiber ends.                                                    *)
LEMMA MainScoping ==
  ASSUME Inv, ~over, cur = Main, Main \in Fibers, fib[Main].stack = <<>>, NEW o \in Outcomes, FinishMain(o)
  PROVE  Scoping!EndFiber(Main, o)
  <1>1. fib[Main].born /\ fib[Main].result = NotYet
    BY RunningFacts
  <1>2. fib \in [Fibers -> FiberType]
    BY DEF Inv, Typed, TypedFibers
  <1>3. fib' = [fib EXCEPT ![Main].result = o] /\ scope' = scope
    BY DEF FinishMain
  <1>4. Ending(fib, fib', Main, o)
    BY <1>2, <1>3 DEF Ending, Alike, FiberType
  <1>5. PICK f : f = Main
    OBVIOUS
  <1>6. /\ [g \in Fibers |-> IF fib'[g].born THEN fib'[g].result ELSE "unborn"]
             = [[g \in Fibers |-> IF fib[g].born THEN fib[g].result ELSE "unborn"] EXCEPT ![Main] = o]
        /\ [g \in Fibers |-> fib'[g].scope] = [g \in Fibers |-> fib[g].scope]
    BY <1>1, <1>4, EndingResults
  <1>7. [t \in Scopes |-> Phase(t)]' = [t \in Scopes |-> Phase(t)]
    BY <1>3 DEF Phase
  <1>8. Scoping!Live(Main) /\ Main = Scoping!Main
    BY <1>1 DEF Scoping!Live, NotYet, Main, Scoping!Main
  <1>9. Scoping!ScopesEnded(Main)
    BY ScopesReturned
  <1> QED
    BY <1>3, <1>6, <1>7, <1>8, <1>9 DEF Scoping!EndFiber

(* A forked fiber ends, and reports a failure to its scope.                *)
LEMMA FinishScoping ==
  ASSUME Inv, Formed(fib), NEW f \in Fibers, f # Main, fib[f].born, fib[f].result = NotYet,
         fib[f].stack = <<>>, NEW o \in Outcomes, NEW q, FinishChild(f, o, q)
  PROVE  Scoping!EndFiber(f, o)
  <1> DEFINE s == fib[f].scope
             isFirst == Failure(o) /\ scope[s].first = NotYet
             S == IF isFirst THEN scope[s].children \ {f} ELSE {}
             b == IF isFirst /\ ~scope[s].bodyDone THEN scope[s].fiber ELSE None
             closer == IF scope[s].children = {f} THEN CloserWake(s) ELSE <<>>
             D == Taken(Woken(closer \o fib[f].watchers, Dropped(S, b, s)))
             A == Interrupted(S, b, s)
             F == Released(A, D)
             n == FirstFailure(s, o)
             x == scope[s]
             y == [x EXCEPT !.children = x.children \ {f}, !.first = n, !.closed = x.closed \/ Failure(o),
                            !.closer = IF x.children = {f} THEN 0 ELSE x.closer]
  <1>1. fib' = [F EXCEPT ![f].result = o, ![f].watchers = <<>>] /\ scope' = [scope EXCEPT ![s] = y]
    BY DEF FinishChild, ChildEnded
  <1> HIDE DEF isFirst, S, b, closer, D
  <1>2. Unseen(fib, F)
    <2>1. Unseen(fib, A)
      BY UnseenInterrupts
    <2>2. Unseen(A, F)
      BY <2>1, UnseenUpdates DEF Unseen
    <2> QED
      BY <2>1, <2>2, UnseenTwice
  <1> HIDE DEF A, F
  <1>3. Ending(fib, fib', f, o)
    BY <1>1, <1>2 DEF Ending, Unseen, Formed, Alike
  <1>4. scope \in [Scopes -> ScopeType] /\ s \in Scopes /\ x.fiber # None
    BY ConstantsAssumption DEF Inv, Typed, Nested, Forked, Fibers, None
  <1> HIDE DEF s
  <1>5. x \in ScopeType
    BY <1>4
  <1> HIDE DEF n, x
  <1>6. /\ y.fiber = x.fiber /\ y.ended = x.ended /\ y.bodyDone = x.bodyDone /\ y.first = n
        /\ y.closed = (x.closed \/ Failure(o)) /\ y.out = x.out /\ y.ret = x.ret
    BY <1>5 DEF ScopeType
  <1>7. x = scope[s]
    BY DEF x
  <1> HIDE DEF y
  <1>8. scope'[s] = y /\ \A t \in Scopes : t # s => scope'[t] = scope[t]
    BY <1>1, <1>4
  <1>9. [t \in Scopes |-> scope'[t].first] = [[t \in Scopes |-> scope[t].first] EXCEPT ![s] = n]
    BY <1>4, <1>6, <1>7, <1>8
  <1>10. \A t \in Scopes : /\ scope'[t].fiber = scope[t].fiber /\ scope'[t].out = scope[t].out
                           /\ scope'[t].ret = scope[t].ret
    BY <1>4, <1>6, <1>7, <1>8
  <1>11. Failure(o) <=> o \in Scoping!Failures
    BY DEF Failure, Scoping!Failures
  <1>12. CASE Failure(o)
    <2>1. [t \in Scopes |-> Phase(t)]'
            = IF Phase(s) = "open" THEN [[t \in Scopes |-> Phase(t)] EXCEPT ![s] = "failed"]
              ELSE [t \in Scopes |-> Phase(t)]
      BY <1>4, <1>6, <1>7, <1>8, <1>12, ZenonT(30) DEF Phase
    <2>2. Scoping!FirstOf(s, o) = n
      BY <1>4, ScopingReturns DEF n
    <2>3. Scoping!Live(f) /\ Scoping!ScopesEnded(f) /\ f # Scoping!Main
      BY ScopesReturned DEF Scoping!Live, NotYet, Main, Scoping!Main
    <2>4. /\ [g \in Fibers |-> IF fib'[g].born THEN fib'[g].result ELSE "unborn"]
               = [[g \in Fibers |-> IF fib[g].born THEN fib[g].result ELSE "unborn"] EXCEPT ![f] = o]
          /\ [g \in Fibers |-> fib'[g].scope] = [g \in Fibers |-> fib[g].scope]
      BY <1>3, EndingResults
    <2>5. PICK h : h = [g \in Fibers |-> fib[g].scope]
      OBVIOUS
    <2>6. h[f] = s
      BY <2>5 DEF s
    <2>7. /\ [t \in Scopes |-> scope'[t].first]
               = [[t \in Scopes |-> scope[t].first] EXCEPT ![h[f]] = Scoping!FirstOf(h[f], o)]
          /\ [t \in Scopes |-> Phase(t)]'
               = IF [t \in Scopes |-> Phase(t)][h[f]] = "open"
                 THEN [[t \in Scopes |-> Phase(t)] EXCEPT ![h[f]] = "failed"]
                 ELSE [t \in Scopes |-> Phase(t)]
      <3>1. [t \in Scopes |-> Phase(t)][s] = Phase(s)
        BY <1>4
      <3> QED
        BY <1>9, <2>1, <2>2, <2>6, <3>1
    <2> QED
      BY <1>10, <1>11, <1>12, <2>3, <2>4, <2>5, <2>7 DEF Scoping!EndFiber
  <1>13. CASE ~Failure(o)
    <2>1. n = x.first
      BY <1>7, <1>13 DEF n, FirstFailure
    <2>2. [t \in Scopes |-> Phase(t)]' = [t \in Scopes |-> Phase(t)]
      <3>1. \A t \in Scopes : SeenSame(scope[t], scope'[t])
        BY <1>4, <1>5, <1>6, <1>7, <1>8, <1>13, <2>1 DEF SeenSame, ScopeType
      <3> QED
        BY <3>1 DEF Phase, SeenSame
    <2>3. [t \in Scopes |-> scope'[t].first] = [t \in Scopes |-> scope[t].first]
      BY <1>7, <1>9, <2>1
    <2>4. Scoping!Live(f) /\ Scoping!ScopesEnded(f)
      BY ScopesReturned DEF Scoping!Live, NotYet
    <2>5. /\ [g \in Fibers |-> IF fib'[g].born THEN fib'[g].result ELSE "unborn"]
               = [[g \in Fibers |-> IF fib[g].born THEN fib[g].result ELSE "unborn"] EXCEPT ![f] = o]
          /\ [g \in Fibers |-> fib'[g].scope] = [g \in Fibers |-> fib[g].scope]
      BY <1>3, EndingResults
    <2> QED
      BY <1>10, <1>11, <1>13, <2>2, <2>3, <2>4, <2>5 DEF Scoping!EndFiber
  <1> QED
    BY <1>12, <1>13

(* What the program calls: scopes are opened, fibers forked; the rest is   *)
(* not seen.                                                               *)
Implemented == Scoping!Next \/ UNCHANGED Scoping!vars

LEMMA UnseenImplements ==
  ASSUME NEW F, Unseen(fib, F), Unseen(F, fib'), scope' = scope
  PROVE  Implemented
  <1>1. Unmoved(scope, scope')
    BY DEF Unmoved, SeenSame
  <1> QED
    BY <1>1, UnseenTwice, UnseenStutters DEF Implemented

LEMMA CallsScoping ==
  ASSUME Inv, Formed(fib), NEW f \in Fibers, Calls(f)
  PROVE  Implemented
  <1>1. PICK F : F = Called(fib, f)
    OBVIOUS
  <1>2. Unseen(fib, F) /\ Formed(F) /\ Unseen(fib, fib)
    BY <1>1, UnseenUpdates DEF Unseen
  <1>3. ASSUME Unseen(fib, fib'), scope' = scope PROVE Implemented
    BY <1>2, <1>3, UnseenImplements
  <1>4. ASSUME NEW o, Continues(f, o) PROVE Implemented
    BY <1>1, <1>2, <1>3, <1>4 DEF Continues
  <1>5. ASSUME OpenWith(f) \/ OpenAttempt(f) PROVE Implemented
    <2>1. scope' = scope /\ \E r : fib' = Pushed(F, f, r)
      BY <1>1, <1>5 DEF OpenWith, OpenAttempt
    <2>2. Unseen(F, fib')
      BY <1>2, <2>1, UnseenUpdates
    <2> QED
      BY <1>2, <2>1, <2>2, UnseenImplements
  <1>6. ASSUME NEW s \in Scopes, OpenScope(f, s) PROVE Implemented
    BY <1>6, OpenScopeScoping DEF Implemented, Scoping!Next, Scoping!Fibers, Scoping!Scopes, Fibers, Scopes
  <1>7. ASSUME NEW s \in Scopes, NEW c \in Fibers, Fork(f, s, c) PROVE Implemented
    BY <1>7, ForkScoping DEF Implemented, Scoping!Next, Scoping!Fibers, Scoping!Scopes, Fibers, Scopes
  <1>8. ASSUME NEW s \in Scopes, NEW d \in Deferreds, NewDeferred(f, s, d) PROVE Implemented
    BY <1>1, <1>2, <1>3, <1>4, <1>8 DEF NewDeferred
  <1>9. ASSUME NEW d \in Deferreds, Complete(f, d) PROVE Implemented
    <2>1. CASE \E o : Continues(f, o)
      BY <1>4, <2>1
    <2>2. CASE scope' = scope /\ \E D : fib' = Released(F, D)
      <3>1. Unseen(F, fib')
        BY <1>2, <2>2, UnseenUpdates
      <3> QED
        BY <1>2, <2>2, <3>1, UnseenImplements
    <2> QED
      BY <1>1, <1>9, <2>1, <2>2 DEF Complete
  <1>10. ASSUME NEW n, NEW x, NEW y, fib' = Suspended(F, f, n, x, y), scope' = scope PROVE Implemented
    <2>1. Unseen(F, fib')
      BY <1>2, <1>10, UnseenUpdates
    <2> QED
      BY <1>2, <1>10, <2>1, UnseenImplements
  <1>11. ASSUME NEW d \in Deferreds, AwaitDeferred(f, d) PROVE Implemented
    BY <1>1, <1>4, <1>10, <1>11 DEF AwaitDeferred
  <1>12. ASSUME NEW op \in Requests, Await(f, op) PROVE Implemented
    BY <1>1, <1>10, <1>12 DEF Await
  <1>13. ASSUME Pause(f) PROVE Implemented
    BY <1>1, <1>10, <1>13 DEF Pause
  <1>14. ASSUME NEW h \in Fibers, NEW verb, NEW A, Unseen(fib, A), fib' = Watch(A, f, h, verb), scope' = scope
         PROVE  Implemented
    <2>1. PICK B, C, n : B = Called(A, f) /\ n = NextNo(f) /\ C = Suspended(B, f, n, "fiber", h)
      OBVIOUS
    <2>2. Unseen(A, B) /\ Unseen(B, C)
      BY <1>14, <2>1, UnseenUpdates DEF Unseen
    <2>3. PICK w : w = Append(C[h].watchers, Wake(f, n, verb))
      OBVIOUS
    <2>4. fib' = [C EXCEPT ![h].watchers = w]
      BY <1>14, <2>1, <2>3 DEF Watch
    <2>5. Unseen(C, fib')
      BY <2>2, <2>4, UnseenUpdates DEF Unseen
    <2>6. Unseen(fib, C)
      BY <1>14, <2>2, UnseenTwice
    <2> QED
      BY <1>14, <2>5, <2>6, UnseenImplements
  <1>15. ASSUME NEW h \in Fibers, NEW verb \in {"join", "await"}, Join(f, h, verb) PROVE Implemented
    BY <1>2, <1>4, <1>14, <1>15 DEF Join
  <1>16. ASSUME NEW h \in Fibers, InterruptOther(f, h) PROVE Implemented
    BY <1>14, <1>16, UnseenInterrupts DEF InterruptOther
  <1>17. ASSUME InterruptSelf(f) PROVE Implemented
    <2>1. PICK A, r, x : A = Interrupted({f}, None, None) /\ r = A[f] /\ x = [r EXCEPT !.ops = @ + 1]
      OBVIOUS
    <2>2. scope' = scope /\ (fib' = [fib EXCEPT ![f] = Delivered(x)] \/ fib' = [fib EXCEPT ![f] = x])
      BY <1>17, <2>1 DEF InterruptSelf
    <2>3. {"born", "scope", "result"} \subseteq DOMAIN r /\ Alike(fib[f], r)
      BY <2>1, UnseenInterrupts DEF Unseen, Formed
    <2>4. {"born", "scope", "result"} \subseteq DOMAIN x /\ Alike(fib[f], x)
      BY <2>1, <2>3 DEF Alike
    <2>5. PICK B : B = [fib EXCEPT ![f] = x]
      OBVIOUS
    <2>6. Unseen(fib, B) /\ B[f] = x
      BY <2>4, <2>5 DEF Unseen, Formed, Alike
    <2>7. Unseen(fib, [B EXCEPT ![f] = Delivered(B[f])])
      BY <2>6, UnseenInterrupts
    <2>8. [B EXCEPT ![f] = Delivered(B[f])] = [fib EXCEPT ![f] = Delivered(x)]
      BY <2>5, <2>6
    <2>9. Unseen(fib, fib')
      BY <2>2, <2>5, <2>6, <2>7, <2>8
    <2> QED
      BY <1>3, <2>2, <2>9
  <1>18. ASSUME NEW op, Deliver(f, op) PROVE Implemented
    <2>1. scope' = scope /\ fib' = [F EXCEPT ![f] = Delivered(F[f])]
      <3>1. PICK r : r = Delivered(F[f])
        OBVIOUS
      <3>2. scope' = scope /\ fib' = [fib EXCEPT ![f] = r]
        BY <1>1, <1>18, <3>1 DEF Deliver
      <3>3. [fib EXCEPT ![f] = r] = [F EXCEPT ![f] = r]
        BY <1>1 DEF Called, Formed
      <3> QED
        BY <3>1, <3>2, <3>3
    <2>2. Unseen(fib, fib')
      BY <1>2, <2>1, UnseenInterrupts
    <2> QED
      BY <1>3, <2>1, <2>2
  <1>19. ASSUME NEW s \in Scopes, ForkClosed(f, s) PROVE Implemented
    BY <1>4, <1>19 DEF ForkClosed
  <1>20. ASSUME NEW h \in Fibers, InterruptEnded(f, h) PROVE Implemented
    BY <1>4, <1>20 DEF InterruptEnded
  <1> QED
    BY <1>5, <1>6, <1>7, <1>8, <1>9, <1>11, <1>12, <1>13, <1>15, <1>16, <1>17, <1>18, <1>19, <1>20 DEF Calls

(* The steps that end a construct.                                         *)
LEMMA EndsScoping ==
  ASSUME Inv, Formed(fib), NEW f \in Fibers, Ends(f) \/ EndScope(f)
  PROVE  Implemented
  <1> USE DEF Scoping!Fibers, Scoping!Scopes, Fibers, Scopes, Scoping!Outcomes, Outcomes
  <1>1. Unseen(fib, fib)
    BY UnseenUpdates
  <1>2. ASSUME NEW o, BeginRelease(f, o) PROVE Implemented
    <2>1. PICK F : F = Replaced(fib, f, Frame("release", None, o))
      OBVIOUS
    <2>2. Unseen(fib, F) /\ Formed(F) /\ scope' = scope /\ fib' = [F EXCEPT ![f].holds = F[f].holds + 1]
      BY <1>2, <2>1, UnseenUpdates DEF BeginRelease, Unseen
    <2>3. Unseen(F, fib')
      BY <2>2, UnseenUpdates
    <2> QED
      BY <2>2, <2>3, UnseenImplements
  <1>3. ASSUME NEW o, EndRelease(f, o) PROVE Implemented
    <2>1. PICK F : F = Popped(fib, f)
      OBVIOUS
    <2>2. Unseen(fib, F) /\ Formed(F) /\ scope' = scope /\ fib' = [F EXCEPT ![f].holds = F[f].holds - 1]
      BY <1>3, <2>1, UnseenUpdates DEF EndRelease, Unseen
    <2>3. Unseen(F, fib')
      BY <2>2, UnseenUpdates
    <2> QED
      BY <2>2, <2>3, UnseenImplements
  <1>4. ASSUME NEW o, EndAttempt(f, o) PROVE Implemented
    <2>1. Unseen(fib, fib') /\ scope' = scope
      BY <1>4, UnseenUpdates DEF EndAttempt
    <2> QED
      BY <1>1, <2>1, UnseenImplements
  <1>5. ASSUME NEW o, EndWith(f, o) PROVE Implemented
    BY <1>1, <1>5, UnseenImplements DEF EndWith
  <1>6. ASSUME EndScope(f) PROVE Implemented
    BY <1>6, EndScopeScoping DEF Implemented, Scoping!Next
  <1>7. ASSUME NEW o \in Outcomes, EndBody(f, o) PROVE Implemented
    BY <1>7, EndBodyScoping DEF Implemented, Scoping!Next
  <1>8. ASSUME NEW o \in Outcomes, Finish(f, o) PROVE Implemented
    <2>1. ~over /\ cur = f /\ fib[f].stack = <<>>
      BY <1>8 DEF Finish
    <2>2. fib[f].born /\ fib[f].result = NotYet
      BY <2>1, RunningFacts
    <2>3. CASE f = Main
      <3>1. Scoping!EndFiber(Main, o)
        BY <1>8, <2>1, <2>3, MainScoping DEF Finish
      <3> QED
        BY <1>8, <2>3, <3>1 DEF Implemented, Scoping!Next
    <2>4. CASE f # Main
      <3>1. Scoping!EndFiber(f, o)
        BY <1>8, <2>1, <2>2, <2>4, FinishScoping DEF Finish
      <3> QED
        BY <1>8, <3>1 DEF Implemented, Scoping!Next
    <2> QED
      BY <2>3, <2>4
  <1> QED
    BY <1>2, <1>3, <1>4, <1>5, <1>6, <1>7, <1>8 DEF Ends

(* The tasks of the queue: a fiber interrupted before it began ends.       *)
LEMMA DrainScoping ==
  ASSUME Inv, Formed(fib), Drain
  PROVE  Implemented
  <1>1. PICK t, f, q : t = Head(queue) /\ f = t.f /\ q = Tail(queue)
    OBVIOUS
  <1>2. ~over /\ cur = None /\ queue # <<>>
    BY DEF Drain, Begin, Resume, Go, Throw, NextTask
  <1>3. queue \in Seq(Tasks)
    BY DEF Inv, Typed, TypedScheduler
  <1>4. t \in Tasks
    BY <1>1, <1>2, <1>3
  <1>5. f \in Fibers
    BY <1>1, <1>4 DEF Tasks
  <1>6. Unseen(fib, fib)
    BY <1>5, UnseenUpdates
  <1>7. ASSUME Unseen(fib, fib'), scope' = scope PROVE Implemented
    BY <1>6, <1>7, UnseenImplements
  <1>8. ASSUME NEW F, Unseen(fib, F), NEW in, Resumes(F, f, in), scope' = scope PROVE Implemented
    <2>1. Unseen(fib, [F EXCEPT ![f] = Delivered(F[f])])
      BY <1>5, <1>8, UnseenInterrupts
    <2>2. Unseen(fib, fib')
      BY <1>8, <2>1 DEF Resumes
    <2> QED
      BY <1>7, <1>8, <2>2
  <1>9. ASSUME Begin PROVE Implemented
    <2>1. t.kind = "begin" /\ Own(t)
      BY <1>1, <1>9 DEF Begin, NextTask, Own
    <2>2. f # Main /\ fib[f].stack = <<>> /\ Base(f, q)
      BY <1>1, <1>2, <2>1, NextRuns
    <2>3. fib[f].born /\ fib[f].result = NotYet
      <3>1. Placed(f, q, waits, LiveIn(fib)) /\ f # None
        BY <1>5, <2>2, ConstantsAssumption DEF Base, Scheduled, Fibers, None
      <3> QED
        BY <3>1 DEF Placed, LiveIn
    <2>4. CASE fib' = fib /\ scope' = scope
      BY <1>6, <1>7, <2>4
    <2>5. CASE FinishChild(f, "int", q)
      <3>1. "int" \in Outcomes
        BY DEF Outcomes
      <3>2. Scoping!EndFiber(f, "int")
        BY <1>5, <2>2, <2>3, <2>5, <3>1, FinishScoping
      <3> QED
        BY <1>5, <3>2 DEF Implemented, Scoping!Next, Scoping!Fibers, Fibers, Scoping!Outcomes
    <2> QED
      BY <1>1, <1>9, <2>4, <2>5 DEF Begin, Dequeued
  <1>10. ASSUME Resume PROVE Implemented
    BY <1>1, <1>6, <1>8, <1>10 DEF Resume, Dequeued
  <1>11. ASSUME Go PROVE Implemented
    <2>1. CASE Resumes(Released(fib, {f}), f, "run")
      <3>1. Unseen(fib, Released(fib, {f})) /\ scope' = scope
        BY <1>5, <1>11, UnseenUpdates DEF Go, Dequeued
      <3> QED
        BY <1>8, <2>1, <3>1
    <2>2. CASE fib' = fib
      BY <1>6, <1>7, <1>11, <2>2 DEF Go, Dequeued
    <2> QED
      BY <1>1, <1>11, <2>1, <2>2 DEF Go
  <1>12. ASSUME Throw PROVE Implemented
    <2>1. fib' = [fib EXCEPT ![f] = Delivered(fib[f])] /\ scope' = scope
      BY <1>1, <1>12 DEF Throw, Dequeued
    <2>2. Unseen(fib, fib')
      BY <1>5, <1>6, <2>1, UnseenInterrupts
    <2> QED
      BY <1>7, <2>1, <2>2
  <1> QED
    BY <1>9, <1>10, <1>11, <1>12 DEF Drain

(* Host callbacks are not seen.                                            *)
LEMMA HostScoping ==
  ASSUME Formed(fib), Host
  PROVE  Implemented
  <1>1. Main \in Fibers
    BY ConstantsAssumption DEF Main, Fibers
  <1>2. Unseen(fib, fib)
    BY <1>1, UnseenUpdates
  <1>3. ASSUME NEW F, Unseen(fib, F), NEW D, fib' = Released(F, D), scope' = scope PROVE Implemented
    <2>1. Unseen(F, fib')
      BY <1>1, <1>3, UnseenUpdates DEF Unseen
    <2> QED
      BY <1>3, <2>1, UnseenImplements
  <1>4. ASSUME fib' = fib, scope' = scope PROVE Implemented
    BY <1>2, <1>4, UnseenImplements
  <1>5. ASSUME NEW c, NEW in, Settle(c, in) PROVE Implemented
    BY <1>2, <1>3, <1>4, <1>5 DEF Settle
  <1>6. ASSUME NEW go, Later(go) PROVE Implemented
    BY <1>4, <1>6 DEF Later
  <1>7. ASSUME Stalled PROVE Implemented
    <2>1. PICK F, D : /\ F = [f \in Fibers |-> IF Live(f) /\ ~fib[f].unwinding
                                               THEN [fib[f] EXCEPT !.pending = @ \cup {None}]
                                               ELSE fib[f]]
                      /\ fib' = Released(F, D)
      BY <1>7 DEF Stalled
    <2>2. Unseen(fib, F)
      BY <2>1 DEF Unseen, Formed, Alike
    <2>3. scope' = scope
      BY <1>7 DEF Stalled
    <2> QED
      BY <1>3, <2>1, <2>2, <2>3
  <1> QED
    BY <1>5, <1>6, <1>7 DEF Host

(* A run begins with the main fiber and no scope.                          *)
LEMMA InitScoping ==
  ASSUME Init
  PROVE  Scoping!Init
  <1>1. PICK r, u : r = NewFiber(None) /\ u = UnbornFiber
    OBVIOUS
  <1>2. /\ r.born /\ r.result = "none" /\ r.scope = None /\ ~u.born /\ u.scope = None
    BY <1>1 DEF NewFiber, UnbornFiber, NotYet
  <1>3. fib = [f \in Fibers |-> IF f = Main THEN r ELSE u]
    BY <1>1 DEF Init
  <1>4. PICK x : x = NewScope(None, 0)
    OBVIOUS
  <1>5. scope = [s \in Scopes |-> x] /\ x.fiber = None /\ x.first = "none" /\ x.out = "none" /\ x.ret = "none"
    BY <1>4 DEF Init, NewScope, NotYet
  <1> USE DEF Scoping!Fibers, Scoping!Scopes, Scoping!Main, Scoping!None, Fibers, Scopes, Main, None
  <1>6. /\ [f \in Fibers |-> IF fib[f].born THEN fib[f].result ELSE "unborn"]
             = [f \in Fibers |-> IF f = Main THEN "none" ELSE "unborn"]
        /\ [f \in Fibers |-> fib[f].scope] = [f \in Fibers |-> None]
    BY <1>2, <1>3
  <1>7. [s \in Scopes |-> Phase(s)] = [s \in Scopes |-> "new"]
    BY <1>5 DEF Phase
  <1> QED
    BY <1>5, <1>6, <1>7 DEF Scoping!Init

(* Every run of the scheduler is one of StructuredConcurrency: a fiber     *)
(* ends after the scopes it opened, a scope returns after its children and *)
(* reports the first failure, whatever is interrupted, and whenever.       *)
THEOREM SchedulerImplementsScopes == Spec => ImplementsScopes
  <1>1. Init => Scoping!Init
    BY InitScoping
  <1>2. Inv => Formed(fib)
    <2>1. Inv => fib \in [Fibers -> FiberType]
      BY DEF Inv, Typed, TypedFibers
    <2>2. \A r \in FiberType : {"born", "scope", "result"} \subseteq DOMAIN r
      BY DEF FiberType
    <2> QED
      BY <2>1, <2>2 DEF Formed
  <1>3. Inv /\ [Next]_vars => [Scoping!Next]_(Scoping!vars)
    <2> SUFFICES ASSUME Inv, [Next]_vars PROVE Implemented
      BY DEF Implemented
    <2>1. ASSUME UNCHANGED vars PROVE Implemented
      <3>1. fib' = fib /\ scope' = scope
        BY <2>1 DEF vars
      <3>2. Unseen(fib, fib)
        BY <1>2 DEF Unseen, Alike
      <3> QED
        BY <3>1, <3>2, UnseenImplements
    <2> QED
      BY <1>2, <2>1, CallsScoping, EndsScoping, DrainScoping, HostScoping DEF Next, Step, Exit
  <1> QED
    BY <1>1, <1>3, SchedulerConsistent, PTL DEF Spec, ImplementsScopes, Scoping!Spec

-----------------------------------------------------------------------------
(* What StructuredConcurrency proves of its scopes holds of the scheduler. *)
Promises == INSTANCE StructuredConcurrencyProofs WITH
  result <- [f \in Fibers |-> IF fib[f].born THEN fib[f].result ELSE "unborn"],
  home <- [f \in Fibers |-> fib[f].scope],
  body <- [s \in Scopes |-> scope[s].fiber],
  phase <- [s \in Scopes |-> Phase(s)],
  first <- [s \in Scopes |-> scope[s].first],
  out <- [s \in Scopes |-> scope[s].out],
  ret <- [s \in Scopes |-> scope[s].ret]

(* The two instances of StructuredConcurrency are the same specification.  *)
LEMMA PromisesAreScoping ==
  /\ Promises!Init <=> Scoping!Init
  /\ [Promises!Next]_(Promises!vars) <=> [Scoping!Next]_(Scoping!vars)
  <1> USE DEF Scoping!Fibers, Promises!Fibers, Scoping!Scopes, Promises!Scopes, Scoping!Main, Promises!Main,
              Scoping!None, Promises!None
  <1>1. Promises!Init <=> Scoping!Init
    BY DEF Promises!Init, Scoping!Init
  <1>2. Promises!vars = Scoping!vars /\ (UNCHANGED Promises!vars <=> UNCHANGED Scoping!vars)
    BY DEF Promises!vars, Scoping!vars
  <1> USE DEF Scoping!Live, Promises!Live, Scoping!Born, Promises!Born, Scoping!LiveChild, Promises!LiveChild,
              Scoping!BodyRuns, Promises!BodyRuns, Scoping!Failures, Promises!Failures,
              Scoping!FirstOf, Promises!FirstOf, Scoping!Returned, Promises!Returned,
              Scoping!ScopesEnded, Promises!ScopesEnded
  <1>3. \A f, s : (Promises!Open(f, s) <=> Scoping!Open(f, s)) /\ (Promises!Fork(f, s) <=> Scoping!Fork(f, s))
    BY DEF Promises!Open, Scoping!Open, Promises!Fork, Scoping!Fork
  <1>4. \A s, o : Promises!EndBody(s, o) <=> Scoping!EndBody(s, o)
    BY DEF Promises!EndBody, Scoping!EndBody
  <1>5. \A s : Promises!Return(s) <=> Scoping!Return(s)
    BY DEF Promises!Return, Scoping!Return
  <1>6. \A f, o : Promises!EndFiber(f, o) <=> Scoping!EndFiber(f, o)
    BY DEF Promises!EndFiber, Scoping!EndFiber
  <1>7. Promises!Next <=> Scoping!Next
    BY <1>3, <1>4, <1>5, <1>6 DEF Promises!Next, Scoping!Next, Promises!Outcomes, Scoping!Outcomes
  <1> QED
    BY <1>1, <1>2, <1>7

(* So every run of the scheduler is one of the instance with the proofs.   *)
LEMMA ScopingSpecs == Spec => Promises!Spec
  <1>1. Promises!Init <=> Scoping!Init
    BY PromisesAreScoping
  <1>2. [Promises!Next]_(Promises!vars) <=> [Scoping!Next]_(Scoping!vars)
    BY PromisesAreScoping
  <1> QED
    BY <1>1, <1>2, SchedulerImplementsScopes, PTL DEF ImplementsScopes, Scoping!Spec, Promises!Spec

(* Lifetimes nest in the scheduler: a scope that has returned has no live  *)
(* child, and when main has ended every forked fiber has ended.            *)
THEOREM FiberLifetimesNest == Spec => []LifetimesNest
  <1>1. NFibers \in Nat \ {0} /\ NScopes \in Nat
    BY ConstantsAssumption
  <1>2. Promises!Spec => []Promises!LifetimesNest
    BY <1>1, Promises!LifetimesAreNested
  <1>3. Promises!LifetimesNest <=> LifetimesNest
    BY DEF LifetimesNest, Promises!LifetimesNest, Scoping!LifetimesNest, Promises!ScopeOutlivesChildren,
           Scoping!ScopeOutlivesChildren, Promises!NothingOutlivesMain, Scoping!NothingOutlivesMain,
           Promises!LiveChild, Scoping!LiveChild, Promises!Live, Scoping!Live, Promises!Fibers, Scoping!Fibers,
           Promises!Scopes, Scoping!Scopes, Promises!Main, Scoping!Main
  <1> QED
    BY <1>2, <1>3, ScopingSpecs, PTL

(* No failure is lost in the scheduler: a scope returns a failure exactly  *)
(* when its body or one of the fibers forked into it failed.               *)
THEOREM FiberFailuresReported == Spec => []NoFailureLost
  <1>1. NFibers \in Nat \ {0} /\ NScopes \in Nat
    BY ConstantsAssumption
  <1>2. Promises!Spec => []Promises!NoFailureLost
    BY <1>1, Promises!FailuresReported
  <1>3. Promises!NoFailureLost <=> NoFailureLost
    BY DEF NoFailureLost, Promises!NoFailureLost, Scoping!NoFailureLost, Promises!Child, Scoping!Child,
           Promises!Born, Scoping!Born, Promises!Failures, Scoping!Failures, Promises!Fibers, Scoping!Fibers,
           Promises!Scopes, Scoping!Scopes
  <1> QED
    BY <1>2, <1>3, ScopingSpecs, PTL

=============================================================================
