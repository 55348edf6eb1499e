-------------------------- MODULE SuspendOpsProofs --------------------------
(* Operations that suspend pass one result to their caller, enter no       *)
(* continuation twice and are unwound in order, for any number of calls:   *)
(* the inductive invariant of SuspendOps, and the properties that follow.  *)
EXTENDS SuspendOps, SequenceTheorems, WellFoundedInduction, TLAPS

Places == {"new", "run", "perform", "wait", "queued", "ended"}
Tasks == [c : Conts, mode : {"next", "throw", "interrupt"}, call : Conts]
States ==
  [at : [Conts -> Places], live : SUBSET Calls, waits : Seq(Conts), queue : Seq(Tasks),
   closed : SUBSET Calls, abandoned : SUBSET Calls]

Distinct(s) == \A i, j \in 1..Len(s) : s[i] = s[j] => i = j
Has(s, x) == \E i \in 1..Len(s) : s[i] = x

-----------------------------------------------------------------------------
(* What holds while the run is not over.                                   *)

(* The waits and the tasks are those of the continuations that wait and    *)
(* that are queued.                                                        *)
Listed(a, w, q) ==
  /\ Distinct(w)
  /\ \A c \in Conts : a[c] = "wait" <=> Has(w, c)
  /\ \A i, j \in 1..Len(q) : q[i].c = q[j].c => i = j
  /\ \A c \in Conts : a[c] = "queued" <=> \E i \in 1..Len(q) : q[i].c = c

(* A continuation that waits for a call is waiting for its result.         *)
Awaited(a, l, b) ==
  /\ \A c \in Conts : a[c] = "new" <=> c > n
  /\ \A c \in Conts : a[c] = "perform" => on[c] \in Calls /\ on[c] \in l
  /\ \A c \in Conts : a[c] = "wait" /\ on[c] \in Calls => on[c] \in l \ used
  /\ \A k \in l : k <= n /\ k \notin b
  /\ \A k \in l \ used : on[caller[k]] = k /\ a[caller[k]] \in {"perform", "wait"}
  /\ \A k \in used \cup b : k <= n

(* A result that has not reached the caller is on its way once.            *)
Passed(a, l, q, b) ==
  /\ \A k \in Calls : got[k] \in {0, 1}
  /\ \A k \in Calls : got[k] = 1 =>
       k \in used /\ k \notin b /\ ~(a[caller[k]] = "perform" /\ on[caller[k]] = k)
  /\ \A i \in 1..Len(q) : q[i].call \in Calls =>
       /\ got[q[i].call] = 0 /\ q[i].call \in used \ (b \cup l)
       /\ caller[q[i].call] = q[i].c

(* An implementation that is unwound with its caller comes before it.      *)
Inwards(q, z) ==
  \A i \in 1..Len(q) : q[i].mode = "interrupt" /\ q[i].c \in Calls \ z =>
    \E j \in 1..Len(q) : j > i /\ q[j].c = caller[q[i].c]

(* Implementations that were closed note their defects.                    *)
Noted(a, z) == (\A k \in z \cap defects : orphan) /\ (\A k \in defects : a[k] = "ended")

Waiting(a, l, w, q, z, b) ==
  Listed(a, w, q) /\ Awaited(a, l, b) /\ Passed(a, l, q, b) /\ Inwards(q, z) /\ Noted(a, z)

(* The continuations on the stack st are those that run.                   *)
Stacked(a, st) ==
  Distinct(st) /\ \A c \in Conts : a[c] \in {"run", "perform"} <=> Has(st, c)

(* A continuation waits for calls it made itself.                          *)
Called == \A c \in Conts : on[c] \in Calls => c < on[c] /\ on[c] <= n /\ caller[on[c]] = c

Runs ==
  /\ TypeOK /\ Called /\ Stacked(at, stack) /\ at[Main] # "ended"
  /\ Waiting(at, live, waits, queue, closed, abandoned)

(* What holds when it is.                                                  *)
Ends ==
  /\ TypeOK /\ Distinct(stack) /\ queue = <<>>
  /\ \A k \in Calls : got[k] \in {0, 1} /\ (got[k] = 1 => k \notin abandoned)
  /\ \A c \in Conts : at[c] = "wait" /\ on[c] \in Calls => on[c] \in live \ used
  /\ \A k \in closed \cap defects : orphan
  /\ result = "interrupted" /\ at[Main] = "ended" => ~orphan

(* The inductive invariant.                                                *)
Inv == IF Over THEN Ends ELSE Runs

(* The same of the variables s that dropping a wait changes, when nothing  *)
(* runs.                                                                   *)
Dropped(s) ==
  /\ s \in States
  /\ Waiting(s.at, s.live, s.waits, s.queue, s.closed, s.abandoned)
  /\ s.at[Main] # "ended" /\ \A c \in Conts : s.at[c] \notin {"run", "perform"}

-----------------------------------------------------------------------------
(* Induction.                                                              *)

(* What holds of 0, and of every number whose predecessor it holds of.     *)
LEMMA StepByStep ==
  ASSUME NEW N \in Nat, NEW T, 0 \in T, \A i \in 1..N : i - 1 \in T => i \in T
  PROVE  0..N \subseteq T
  <1> DEFINE B == (0..N) \ T
  <1> SUFFICES ASSUME B # {} PROVE FALSE
    OBVIOUS
  <1>1. B \subseteq Nat
    OBVIOUS
  <1>2. PICK x \in B : \A y \in B : <<y, x>> \notin OpToRel(<, Nat)
    <2> HIDE DEF B
    <2> QED
      BY ONLY B # {}, <1>1, NatLessThanWellFounded, WFMin
  <1>3. x \in 1..N /\ x - 1 \in 0..N
    OBVIOUS
  <1>4. x - 1 \in B
    BY <1>3
  <1>5. <<x - 1, x>> \in OpToRel(<, Nat)
    BY <1>3 DEF OpToRel
  <1> QED
    BY <1>2, <1>4, <1>5

(* A function that is defined by its first value and by its steps F.       *)
Steps(g, N, S, a, F) ==
  g \in [0..N -> S] /\ g[0] = a /\ \A i \in 1..N : g[i] = F[i][g[i - 1]]

LEMMA StepsExist ==
  ASSUME NEW N \in Nat, NEW S, NEW a \in S, NEW F \in [1..N -> [S -> S]]
  PROVE  \E g : Steps(g, N, S, a, F)
  <1> DEFINE T == {m \in 0..N : \E g : Steps(g, m, S, a, F)}
  <1>1. 0 \in T
    <2> DEFINE g == [i \in 0..0 |-> a]
    <2>1. Steps(g, 0, S, a, F)
      BY DEF Steps
    <2> HIDE DEF g
    <2> QED
      BY <2>1
  <1>2. ASSUME NEW m \in 1..N, m - 1 \in T PROVE m \in T
    <2>1. PICK g : Steps(g, m - 1, S, a, F)
      BY <1>2
    <2> DEFINE h == [i \in 0..m |-> IF i = m THEN F[m][g[m - 1]] ELSE g[i]]
    <2>2. g[m - 1] \in S
      BY <2>1 DEF Steps
    <2>3. F[m][g[m - 1]] \in S
      BY <2>2
    <2>4. h \in [0..m -> S] /\ h[0] = a
      BY <2>1, <2>3 DEF Steps
    <2>5. ASSUME NEW i \in 1..m PROVE h[i] = F[i][h[i - 1]]
      <3>1. CASE i = m
        BY <3>1
      <3>2. CASE i # m
        <4>1. h[i] = g[i] /\ h[i - 1] = g[i - 1] /\ i \in 1..(m - 1)
          BY <3>2
        <4> HIDE DEF h
        <4> QED
          BY <2>1, <4>1 DEF Steps
      <3> QED
        BY <3>1, <3>2
    <2>6. Steps(h, m, S, a, F)
      <3> HIDE DEF h
      <3> QED
        BY <2>4, <2>5 DEF Steps
    <2> HIDE DEF h
    <2> QED
      BY <2>6
  <1>3. 0..N \subseteq T
    <2> HIDE DEF T
    <2> QED
      BY <1>1, <1>2, StepByStep
  <1> QED
    BY <1>3

(* Without.                                                                *)
LEMMA WithoutDef ==
  ASSUME NEW S, NEW s \in Seq(S), NEW D
  PROVE  \E r : /\ r[0] = <<>> /\ Without(s, D) = r[Len(s)]
                /\ \A i \in 1..Len(s) :
                     r[i] = IF s[i] \in D THEN r[i - 1] ELSE Append(r[i - 1], s[i])
  <1> DEFINE Rec(r) == r = [i \in 0..Len(s) |-> IF i = 0 THEN <<>>
                              ELSE IF s[i] \in D THEN r[i - 1] ELSE Append(r[i - 1], s[i])]
             F == [i \in 1..Len(s) |-> [x \in Seq(S) |-> IF s[i] \in D THEN x ELSE Append(x, s[i])]]
  <1>1. Len(s) \in Nat /\ \A i \in 1..Len(s) : s[i] \in S
    BY LenProperties, ElementOfSeq
  <1>2. F \in [1..Len(s) -> [Seq(S) -> Seq(S)]] /\ <<>> \in Seq(S)
    BY <1>1, AppendProperties, EmptySeq
  <1>3. PICK g : Steps(g, Len(s), Seq(S), <<>>, F)
    <2> HIDE DEF F
    <2> QED
      BY <1>1, <1>2, StepsExist
  <1>4. ASSUME NEW i \in 1..Len(s)
        PROVE  g[i] = IF s[i] \in D THEN g[i - 1] ELSE Append(g[i - 1], s[i])
    <2>1. g[i - 1] \in Seq(S) /\ g[i] = F[i][g[i - 1]]
      <3> HIDE DEF F
      <3>1. i - 1 \in 0..Len(s)
        BY <1>1
      <3> QED
        BY <1>3, <3>1 DEF Steps
    <2> QED
      BY <2>1
  <1>5. Rec(g)
    <2> HIDE DEF F
    <2>1. g = [i \in 0..Len(s) |-> g[i]] /\ g[0] = <<>>
      BY <1>3 DEF Steps
    <2>2. ASSUME NEW i \in 0..Len(s)
          PROVE  g[i] = IF i = 0 THEN <<>>
                        ELSE IF s[i] \in D THEN g[i - 1] ELSE Append(g[i - 1], s[i])
      <3>1. CASE i = 0
        BY <2>1, <3>1
      <3>2. CASE i # 0
        <4>1. i \in 1..Len(s)
          BY <3>2, <1>1
        <4> QED
          BY <1>4, <3>2, <4>1
      <3> QED
        BY <3>1, <3>2
    <2> QED
      BY <2>1, <2>2
  <1>6. PICK r : r = CHOOSE h : Rec(h)
    OBVIOUS
  <1>7. Rec(r)
    <2> HIDE DEF Rec
    <2> QED
      BY <1>5, <1>6
  <1>8. Without(s, D) = r[Len(s)]
    BY <1>6 DEF Without
  <1>9. r[0] = <<>> /\ \A i \in 1..Len(s) :
                          r[i] = IF s[i] \in D THEN r[i - 1] ELSE Append(r[i - 1], s[i])
    <2>1. \A i \in 0..Len(s) :
            r[i] = IF i = 0 THEN <<>>
                   ELSE IF s[i] \in D THEN r[i - 1] ELSE Append(r[i - 1], s[i])
      BY <1>7, Zenon
    <2>2. 0 \in 0..Len(s) /\ \A i \in 1..Len(s) : i \in 0..Len(s) /\ i # 0
      BY <1>1
    <2> QED
      BY <2>1, <2>2, Zenon
  <1> QED
    BY <1>8, <1>9

(* What is left of a sequence is what is not taken out of it.              *)
Filtered(S, s, D, v) ==
  /\ v \in Seq(S)
  /\ \A x : (\E i \in 1..Len(v) : v[i] = x) <=> x \notin D /\ \E i \in 1..Len(s) : s[i] = x
  /\ Distinct(s) => Distinct(v)

LEMMA WithoutProperties ==
  ASSUME NEW S, NEW s \in Seq(S), NEW D, NEW v, v = Without(s, D)
  PROVE  Filtered(S, s, D, v)
  <1>1. PICK r : /\ r[0] = <<>> /\ Without(s, D) = r[Len(s)]
                 /\ \A i \in 1..Len(s) :
                      r[i] = IF s[i] \in D THEN r[i - 1] ELSE Append(r[i - 1], s[i])
    BY WithoutDef
  <1>2. Len(s) \in Nat /\ \A i \in 1..Len(s) : s[i] \in S
    BY LenProperties, ElementOfSeq
  <1> DEFINE P(i) == /\ r[i] \in Seq(S)
                     /\ \A x : (\E j \in 1..Len(r[i]) : r[i][j] = x)
                                 <=> x \notin D /\ \E j \in 1..i : s[j] = x
                     /\ Distinct(s) => Distinct(r[i])
             T == {i \in 0..Len(s) : P(i)}
  <1>3. 0 \in T
    <2>1. r[0] \in Seq(S) /\ Len(r[0]) = 0
      BY <1>1, EmptySeq
    <2> QED
      BY <1>2, <2>1 DEF Distinct
  <1>4. ASSUME NEW i \in 1..Len(s), i - 1 \in T PROVE i \in T
    <2>1. PICK q, e : q = r[i - 1] /\ e = s[i]
      OBVIOUS
    <2>2. /\ q \in Seq(S) /\ e \in S
          /\ \A x : (\E j \in 1..Len(q) : q[j] = x) <=> x \notin D /\ \E j \in 1..(i - 1) : s[j] = x
          /\ Distinct(s) => Distinct(q)
      BY <1>2, <1>4, <2>1
    <2>3. \A x : (\E j \in 1..i : s[j] = x) <=> e = x \/ \E j \in 1..(i - 1) : s[j] = x
      BY <1>2, <2>1
    <2>4. CASE s[i] \in D
      <3>1. r[i] = q
        BY <1>1, <2>1, <2>4
      <3>2. P(i)
        BY <2>1, <2>2, <2>3, <2>4, <3>1
      <3> QED
        BY <1>2, <3>2
    <2>5. CASE s[i] \notin D
      <3>1. r[i] = Append(q, e)
        BY <1>1, <2>1, <2>5
      <3>2. /\ r[i] \in Seq(S) /\ Len(q) \in Nat /\ Len(r[i]) = Len(q) + 1
            /\ \A j \in 1..Len(q) : r[i][j] = q[j]
            /\ r[i][Len(q) + 1] = e
        BY <2>2, <3>1, AppendProperties, LenProperties
      <3> HIDE DEF T
      <3>3. \A x : (\E j \in 1..Len(r[i]) : r[i][j] = x) <=> e = x \/ \E j \in 1..Len(q) : q[j] = x
        BY <3>2
      <3>4. \A x : (\E j \in 1..Len(r[i]) : r[i][j] = x)
                     <=> x \notin D /\ \E j \in 1..i : s[j] = x
        BY <2>1, <2>2, <2>3, <2>5, <3>3
      <3>5. ASSUME Distinct(s) PROVE Distinct(r[i])
        <4>1. \A j \in 1..Len(q) : q[j] # e
          <5> SUFFICES ASSUME NEW j \in 1..Len(q), q[j] = e PROVE FALSE
            OBVIOUS
          <5>1. PICK k \in 1..(i - 1) : s[k] = e
            BY <2>2
          <5>2. k \in 1..Len(s) /\ k # i
            BY <1>2
          <5> QED
            BY <2>1, <3>5, <5>1, <5>2 DEF Distinct
        <4>2. Distinct(q)
          BY <2>2, <3>5
        <4> QED
          BY <3>2, <4>1, <4>2 DEF Distinct
      <3>6. P(i)
        BY <3>2, <3>4, <3>5
      <3> QED
        BY <1>2, <3>6 DEF T
    <2> QED
      BY <2>4, <2>5
  <1>5. Len(s) \in T
    <2> HIDE DEF T
    <2>1. 0..Len(s) \subseteq T
      BY <1>2, <1>3, <1>4, StepByStep
    <2> QED
      BY <1>2, <2>1
  <1>6. P(Len(s))
    BY <1>5
  <1> QED
    BY <1>1, <1>6 DEF Filtered

(* Inner.                                                                  *)
Unwinds(s, d) ==
  /\ s.at[d] = "wait" /\ on[d] \in Calls
  /\ on[d] \notin used /\ on[d] \notin s.closed /\ s.at[on[d]] = "wait"

InnerFrom(g, s, m) ==
  /\ g \in [m..NCalls -> Seq(Calls)]
  /\ \A d \in m..NCalls : g[d] = IF Unwinds(s, d) THEN Append(g[on[d]], on[d]) ELSE <<>>

LEMMA InnerExists ==
  ASSUME Called, NEW s
  PROVE  \E g : InnerFrom(g, s, 0)
  <1> DEFINE T == {i \in 0..(NCalls + 1) : \E g : InnerFrom(g, s, NCalls + 1 - i)}
  <1>0. NCalls \in Nat /\ NCalls + 1 \in Nat
    BY SuspendOpsAssumption
  <1>1. 0 \in T
    <2> DEFINE g == [d \in (NCalls + 1)..NCalls |-> <<>>]
    <2>1. (NCalls + 1)..NCalls = {}
      BY <1>0
    <2>2. InnerFrom(g, s, NCalls + 1)
      BY <2>1 DEF InnerFrom
    <2>3. NCalls + 1 - 0 = NCalls + 1
      BY <1>0
    <2> HIDE DEF g
    <2> QED
      BY <1>0, <2>2, <2>3
  <1>2. ASSUME NEW i \in 1..(NCalls + 1), i - 1 \in T PROVE i \in T
    <2>1. PICK m \in 0..NCalls : m = NCalls + 1 - i /\ m + 1 = NCalls + 1 - (i - 1)
      BY <1>0
    <2>2. PICK g : InnerFrom(g, s, m + 1)
      BY <1>2, <2>1
    <2> DEFINE v == IF Unwinds(s, m) THEN Append(g[on[m]], on[m]) ELSE <<>>
               h == [d \in m..NCalls |-> IF d = m THEN v ELSE g[d]]
    <2>3. ASSUME NEW d \in m..NCalls, Unwinds(s, d) PROVE on[d] \in (m + 1)..NCalls /\ on[d] \in Calls
      BY <2>3, <1>0 DEF Called, Unwinds, Conts, Calls
    <2>4. m \in m..NCalls /\ \A d \in m..NCalls : d # m => d \in (m + 1)..NCalls
      BY <1>0
    <2>5. v \in Seq(Calls)
      <3>1. CASE Unwinds(s, m)
        <4>1. g[on[m]] \in Seq(Calls) /\ on[m] \in Calls
          BY <2>2, <2>3, <2>4, <3>1 DEF InnerFrom
        <4> QED
          BY <3>1, <4>1, AppendProperties
      <3>2. CASE ~Unwinds(s, m)
        BY <3>2, EmptySeq
      <3> QED
        BY <3>1, <3>2
    <2>6. h \in [m..NCalls -> Seq(Calls)]
      <3> HIDE DEF v
      <3> QED
        BY <2>2, <2>4, <2>5 DEF InnerFrom
    <2>7. ASSUME NEW d \in m..NCalls
          PROVE  h[d] = IF Unwinds(s, d) THEN Append(h[on[d]], on[d]) ELSE <<>>
      <3>1. Unwinds(s, d) => h[on[d]] = g[on[d]]
        <4> HIDE DEF v
        <4>1. ASSUME Unwinds(s, d) PROVE on[d] \in m..NCalls /\ on[d] # m
          BY <2>3, <4>1, <1>0
        <4> QED
          BY <4>1
      <3>2. h[d] = IF d = m THEN v ELSE g[d]
        OBVIOUS
      <3> HIDE DEF h
      <3>3. CASE d = m
        BY <3>1, <3>2, <3>3
      <3>4. CASE d # m
        <4>1. g[d] = IF Unwinds(s, d) THEN Append(g[on[d]], on[d]) ELSE <<>>
          BY <2>2, <2>4, <3>4 DEF InnerFrom
        <4> HIDE DEF v
        <4> QED
          BY <3>1, <3>2, <3>4, <4>1
      <3> QED
        BY <3>3, <3>4
    <2>8. InnerFrom(h, s, m)
      <3> HIDE DEF h
      <3> QED
        BY <2>6, <2>7 DEF InnerFrom
    <2> HIDE DEF h
    <2> QED
      BY <2>1, <2>8
  <1>3. NCalls + 1 \in T
    <2> HIDE DEF T
    <2>1. 0..(NCalls + 1) \subseteq T
      BY <1>0, <1>1, <1>2, StepByStep
    <2> QED
      BY <1>0, <2>1
  <1>4. NCalls + 1 - (NCalls + 1) = 0
    BY <1>0
  <1> QED
    BY <1>3, <1>4

LEMMA InnerDef ==
  ASSUME Called, NEW s, NEW c \in Conts
  PROVE  \E r : /\ Inner(s, c) = r[c]
                /\ \A d \in Conts : r[d] = IF Unwinds(s, d) THEN Append(r[on[d]], on[d]) ELSE <<>>
  <1> DEFINE Rec(g) == g = [d \in Conts |-> IF Unwinds(s, d) THEN Append(g[on[d]], on[d]) ELSE <<>>]
  <1>1. PICK g : InnerFrom(g, s, 0)
    BY InnerExists
  <1>2. Rec(g)
    BY <1>1 DEF InnerFrom, Conts
  <1>3. PICK r : r = CHOOSE h : Rec(h)
    OBVIOUS
  <1>4. Rec(r)
    <2> HIDE DEF Rec
    <2> QED
      BY <1>2, <1>3
  <1>5. Inner(s, c) = r[c]
    BY <1>3 DEF Inner, Unwinds
  <1>6. \A d \in Conts : r[d] = IF Unwinds(s, d) THEN Append(r[on[d]], on[d]) ELSE <<>>
    BY <1>4, Zenon
  <1> QED
    BY <1>5, <1>6

(* The implementations q that are unwound with c: each one waits, and its  *)
(* caller comes right after it.                                            *)
Chain(s, c, q) ==
  /\ q \in Seq(Calls)
  /\ \A i \in 1..Len(q) :
       /\ s.at[q[i]] = "wait" /\ q[i] \notin s.closed /\ q[i] \notin used /\ q[i] > c
       /\ caller[q[i]] = IF i = Len(q) THEN c ELSE q[i + 1]
  /\ \A i, j \in 1..Len(q) : i < j => q[i] > q[j]

LEMMA InnerChain ==
  ASSUME Called, NEW s, NEW c \in Conts
  PROVE  Chain(s, c, Inner(s, c))
  <1>1. PICK r : /\ Inner(s, c) = r[c]
                 /\ \A d \in Conts : r[d] = IF Unwinds(s, d) THEN Append(r[on[d]], on[d]) ELSE <<>>
    BY InnerDef
  <1> DEFINE T == {i \in 0..(NCalls + 1) : \A d \in Conts : d > NCalls - i => Chain(s, d, r[d])}
  <1>0. NCalls \in Nat /\ NCalls + 1 \in Nat
    BY SuspendOpsAssumption
  <1>2. 0 \in T
    BY <1>0 DEF Conts
  <1>3. ASSUME NEW i \in 1..(NCalls + 1), i - 1 \in T PROVE i \in T
    <2> SUFFICES ASSUME NEW d \in Conts, d > NCalls - i PROVE Chain(s, d, r[d])
      OBVIOUS
    <2>1. CASE ~Unwinds(s, d)
      <3>1. r[d] = <<>>
        BY <1>1, <2>1
      <3>2. r[d] \in Seq(Calls) /\ Len(r[d]) = 0
        BY <3>1, EmptySeq
      <3> QED
        BY <3>2 DEF Chain
    <2>2. CASE Unwinds(s, d)
      <3>1. PICK k \in Calls : k = on[d]
        BY <2>2 DEF Unwinds
      <3>2. /\ k > d /\ caller[k] = d /\ k \in Conts
            /\ s.at[k] = "wait" /\ k \notin s.closed /\ k \notin used
        BY <2>2, <3>1 DEF Unwinds, Called, Calls, Conts
      <3>3. Chain(s, k, r[k])
        <4>1. k > NCalls - (i - 1)
          BY <1>0, <3>2 DEF Conts, Calls
        <4> QED
          BY <1>3, <3>2, <4>1
      <3>4. r[d] = Append(r[k], k)
        BY <1>1, <2>2, <3>1
      <3>5. /\ r[d] \in Seq(Calls) /\ Len(r[k]) \in Nat /\ Len(r[d]) = Len(r[k]) + 1
            /\ \A j \in 1..Len(r[k]) : r[d][j] = r[k][j] /\ r[k][j] \in Calls
            /\ r[d][Len(r[k]) + 1] = k
        BY <3>3, <3>4, AppendProperties, LenProperties, ElementOfSeq DEF Chain
      <3>6. ASSUME NEW j \in 1..Len(r[d])
            PROVE  /\ s.at[r[d][j]] = "wait" /\ r[d][j] \notin s.closed /\ r[d][j] \notin used
                   /\ r[d][j] > d
                   /\ caller[r[d][j]] = IF j = Len(r[d]) THEN d ELSE r[d][j + 1]
        <4>1. CASE j = Len(r[k]) + 1
          BY <3>2, <3>5, <4>1
        <4>2. CASE j # Len(r[k]) + 1
          <5>1. j \in 1..Len(r[k]) /\ r[d][j] = r[k][j] /\ r[k][j] \in Calls
            BY <3>5, <4>2
          <5>2. /\ s.at[r[k][j]] = "wait" /\ r[k][j] \notin s.closed /\ r[k][j] \notin used
                /\ r[k][j] > k /\ caller[r[k][j]] = IF j = Len(r[k]) THEN k ELSE r[k][j + 1]
            BY <3>3, <5>1 DEF Chain
          <5>3. caller[r[d][j]] = r[d][j + 1]
            <6>1. CASE j = Len(r[k])
              BY <3>5, <5>1, <5>2, <6>1
            <6>2. CASE j # Len(r[k])
              <7>1. j + 1 \in 1..Len(r[k])
                BY <3>5, <5>1, <6>2
              <7> QED
                BY <3>5, <5>1, <5>2, <6>2, <7>1
            <6> QED
              BY <6>1, <6>2
          <5>4. r[k][j] > d
            BY <3>2, <5>1, <5>2 DEF Calls, Conts
          <5> QED
            BY <3>5, <4>2, <5>1, <5>2, <5>3, <5>4
        <4> QED
          BY <4>1, <4>2
      <3>7. ASSUME NEW j \in 1..Len(r[d]), NEW l \in 1..Len(r[d]), j < l PROVE r[d][j] > r[d][l]
        <4>1. j \in 1..Len(r[k]) /\ r[d][j] = r[k][j]
          BY <3>5, <3>7
        <4>2. CASE l = Len(r[k]) + 1
          BY <3>3, <3>5, <4>1, <4>2 DEF Chain
        <4>3. CASE l # Len(r[k]) + 1
          BY <3>3, <3>5, <3>7, <4>1, <4>3, SMTT(30) DEF Chain
        <4> QED
          BY <4>2, <4>3
      <3> QED
        BY <3>5, <3>6, <3>7 DEF Chain
    <2> QED
      BY <2>1, <2>2
  <1>4. NCalls + 1 \in T
    <2> HIDE DEF T
    <2>1. 0..(NCalls + 1) \subseteq T
      BY <1>0, <1>2, <1>3, StepByStep
    <2> QED
      BY <1>0, <2>1
  <1> QED
    BY <1>0, <1>1, <1>4 DEF Conts

-----------------------------------------------------------------------------
(* A wait is dropped, with the implementations that wait inside it, and    *)
(* they are all thrown an interruption.                                    *)
Unwound(s, c) == [Throw(Drop(s, c), c) EXCEPT !.closed = IF c = Main THEN @ ELSE @ \cup {c}]

Throws(t, c) == t.c = c /\ t.mode = "interrupt" /\ t.call = Other

LEMMA UnwoundQueue ==
  ASSUME NEW old \in Seq(Tasks), NEW q \in Seq(Calls), NEW c \in Conts, NEW new,
         new = Append(old \o [i \in 1..Len(q) |-> Task(q[i], "interrupt", Other)],
                      Task(c, "interrupt", Other))
  PROVE  /\ new \in Seq(Tasks) /\ Len(old) \in Nat /\ Len(q) \in Nat
         /\ Len(new) = Len(old) + Len(q) + 1
         /\ \A i \in 1..Len(old) : new[i] = old[i] /\ old[i] \in Tasks
         /\ \A i \in 1..Len(q) : Throws(new[Len(old) + i], q[i])
         /\ Throws(new[Len(old) + Len(q) + 1], c)
  <1> DEFINE t == [i \in 1..Len(q) |-> Task(q[i], "interrupt", Other)]
  <1>0. Len(old) \in Nat /\ Len(q) \in Nat /\ \A i \in 1..Len(q) : q[i] \in Calls
    BY LenProperties, ElementOfSeq
  <1>1. \A d \in Conts : Task(d, "interrupt", Other) \in Tasks /\ Throws(Task(d, "interrupt", Other), d)
    BY SuspendOpsAssumption DEF Task, Tasks, Other, Conts, Throws
  <1>2. \A d \in Calls : d \in Conts
    BY DEF Calls, Conts
  <1>3. t \in Seq(Tasks) /\ Len(t) = Len(q)
    BY <1>0, <1>1, <1>2
  <1>4. PICK m : m = old \o t
    OBVIOUS
  <1>5. /\ m \in Seq(Tasks) /\ Len(m) = Len(old) + Len(q)
        /\ \A i \in 1..(Len(old) + Len(q)) : m[i] = IF i <= Len(old) THEN old[i] ELSE t[i - Len(old)]
    <2> HIDE DEF t
    <2>1. /\ old \o t \in Seq(Tasks) /\ Len(old \o t) = Len(old) + Len(t)
          /\ \A i \in 1..(Len(old) + Len(t)) :
               (old \o t)[i] = IF i <= Len(old) THEN old[i] ELSE t[i - Len(old)]
      BY <1>3, ConcatProperties, Zenon
    <2> QED
      BY <1>3, <1>4, <2>1, Zenon
  <1>6. /\ new \in Seq(Tasks) /\ Len(new) = Len(m) + 1
        /\ \A i \in 1..Len(m) : new[i] = m[i]
        /\ new[Len(m) + 1] = Task(c, "interrupt", Other)
    BY <1>1, <1>4, <1>5, AppendProperties
  <1>7. ASSUME NEW i \in 1..Len(q) PROVE Throws(new[Len(old) + i], q[i])
    <2>1. Len(old) + i \in 1..Len(m) /\ ~(Len(old) + i <= Len(old)) /\ (Len(old) + i) - Len(old) = i
      BY <1>0, <1>5
    <2>2. new[Len(old) + i] = t[i]
      <3> HIDE DEF t
      <3> QED
        BY <1>5, <1>6, <2>1
    <2>3. new[Len(old) + i] = Task(q[i], "interrupt", Other) /\ q[i] \in Conts
      BY <1>0, <1>2, <2>2
    <2> QED
      BY <1>1, <2>3, Zenon
  <1>8. \A i \in 1..Len(old) : new[i] = old[i] /\ old[i] \in Tasks
    <2> HIDE DEF t
    <2>1. \A i \in 1..Len(old) : new[i] = old[i]
      BY <1>0, <1>5, <1>6
    <2> QED
      BY <2>1, ElementOfSeq
  <1>9. Throws(new[Len(m) + 1], c)
    BY <1>1, <1>6, Zenon
  <1> QED
    BY <1>0, <1>5, <1>6, <1>7, <1>8, <1>9

UnwoundTo(s, c, q, D, K, t) ==
  /\ t.at = [d \in Conts |-> IF d \in D THEN "queued" ELSE s.at[d]]
  /\ t.live = s.live \ K /\ t.waits = Without(s.waits, D)
  /\ t.queue = Append(s.queue \o [i \in 1..Len(q) |-> Task(q[i], "interrupt", Other)],
                      Task(c, "interrupt", Other))
  /\ t.closed = (IF c = Main THEN s.closed ELSE s.closed \cup {c})
  /\ t.abandoned = s.abandoned \cup K
  /\ t = [at |-> t.at, live |-> t.live, waits |-> t.waits, queue |-> t.queue,
          closed |-> t.closed, abandoned |-> t.abandoned]

LEMMA UnwoundFields ==
  ASSUME NEW s, NEW c \in Conts, NEW q, q = Inner(s, c), NEW D, D = {c} \cup ToSet(q),
         NEW K, K = {on[d] : d \in D} \cap Calls,
         NEW t, t = Unwound(s, c)
  PROVE  UnwoundTo(s, c, q, D, K, t)
  <1>1. PICK A, L, W, Q, B :
          /\ A = [d \in Conts |-> IF d \in D THEN "queued" ELSE s.at[d]]
          /\ L = s.live \ K /\ W = Without(s.waits, D)
          /\ Q = s.queue \o [i \in 1..Len(q) |-> Task(q[i], "interrupt", Other)]
          /\ B = s.abandoned \cup K
    OBVIOUS
  <1>2. Drop(s, c) = [at |-> A, live |-> L, waits |-> W, queue |-> Q, closed |-> s.closed,
                      abandoned |-> B]
    BY <1>1 DEF Drop
  <1>3. PICK R, Z, C : /\ R = Append(Q, Task(c, "interrupt", Other)) /\ Z = s.closed
                       /\ C = IF c = Main THEN Z ELSE Z \cup {c}
    OBVIOUS
  <1>4. PICK T : T = Throw(Drop(s, c), c)
    OBVIOUS
  <1>5. T = [at |-> A, live |-> L, waits |-> W, queue |-> R, closed |-> Z, abandoned |-> B]
    <2>1. PICK V : V = Drop(s, c)
      OBVIOUS
    <2>2. V = [at |-> A, live |-> L, waits |-> W, queue |-> Q, closed |-> Z, abandoned |-> B]
      BY <1>2, <1>3, <2>1
    <2>3. V.queue = Q
      BY ONLY <2>2
    <2>4. T = [V EXCEPT !.queue = R]
      BY <1>3, <1>4, <2>1, <2>3 DEF Throw
    <2> QED
      BY ONLY <2>2, <2>4
  <1>6. t = [T EXCEPT !.closed = C]
    BY <1>3, <1>4, <1>5 DEF Unwound
  <1>7. t = [at |-> A, live |-> L, waits |-> W, queue |-> R, closed |-> C, abandoned |-> B]
    BY ONLY <1>5, <1>6
  <1>8. /\ t.at = A /\ t.live = L /\ t.waits = W /\ t.queue = R /\ t.closed = C /\ t.abandoned = B
        /\ t = [at |-> t.at, live |-> t.live, waits |-> t.waits, queue |-> t.queue,
                closed |-> t.closed, abandoned |-> t.abandoned]
    BY ONLY <1>7
  <1> QED
    BY <1>1, <1>3, <1>8, Zenon DEF UnwoundTo

LEMMA UnwoundDropped ==
  ASSUME TypeOK, Called, NEW s, Dropped(s), NEW c \in Conts, s.at[c] = "wait"
  PROVE  Dropped(Unwound(s, c))
  <1>1. PICK q : q = Inner(s, c)
    OBVIOUS
  <1>2. PICK D : D = {c} \cup ToSet(q)
    OBVIOUS
  <1>3. PICK K : K = {on[d] : d \in D} \cap Calls
    OBVIOUS
  <1>4. PICK t : t = Unwound(s, c)
    OBVIOUS
  <1>5. /\ t.at = [d \in Conts |-> IF d \in D THEN "queued" ELSE s.at[d]]
        /\ t.live = s.live \ K /\ t.waits = Without(s.waits, D)
        /\ t.queue = Append(s.queue \o [i \in 1..Len(q) |-> Task(q[i], "interrupt", Other)],
                            Task(c, "interrupt", Other))
        /\ t.closed = (IF c = Main THEN s.closed ELSE s.closed \cup {c})
        /\ t.abandoned = s.abandoned \cup K
        /\ t = [at |-> t.at, live |-> t.live, waits |-> t.waits, queue |-> t.queue,
                closed |-> t.closed, abandoned |-> t.abandoned]
    <2>1. UnwoundTo(s, c, q, D, K, t)
      BY <1>1, <1>2, <1>3, <1>4, UnwoundFields, Zenon
    <2> QED
      BY <2>1, Zenon DEF UnwoundTo
  <1>6. /\ s \in States /\ s.at \in [Conts -> Places] /\ s.live \subseteq Calls
        /\ s.waits \in Seq(Conts) /\ s.queue \in Seq(Tasks)
        /\ s.closed \subseteq Calls /\ s.abandoned \subseteq Calls
        /\ Listed(s.at, s.waits, s.queue) /\ Awaited(s.at, s.live, s.abandoned)
        /\ Passed(s.at, s.live, s.queue, s.abandoned) /\ Inwards(s.queue, s.closed)
        /\ Noted(s.at, s.closed)
    BY DEF Dropped, Waiting, States
  (* What is dropped. *)
  <1>7. Chain(s, c, q)
    BY <1>1, InnerChain
  <1>8. /\ q \in Seq(Calls) /\ Len(q) \in Nat /\ \A i \in 1..Len(q) : q[i] \in Calls /\ q[i] \in Conts
        /\ \A d : d \in D <=> d = c \/ \E i \in 1..Len(q) : q[i] = d
    <2>1. q \in Seq(Calls) /\ Len(q) \in Nat /\ DOMAIN q = 1..Len(q)
      BY <1>7, LenProperties DEF Chain
    <2>2. \A i \in 1..Len(q) : q[i] \in Calls
      BY <2>1, ElementOfSeq
    <2>3. Calls \subseteq Conts
      BY DEF Calls, Conts
    <2> QED
      BY <1>2, <2>1, <2>2, <2>3 DEF ToSet
  <1>9. D \subseteq Conts /\ \A d \in D : s.at[d] = "wait"
    BY <1>7, <1>8 DEF Chain
  <1>10. ASSUME NEW k \in K
         PROVE  k \in Calls /\ k \notin used /\ k \in s.live /\ caller[k] \in D
    <2>1. PICK d \in D : on[d] = k
      BY <1>3
    <2>2. k \in Calls /\ k \in s.live \ used
      BY <1>3, <1>6, <1>9, <2>1 DEF Awaited
    <2> QED
      BY <1>9, <2>1, <2>2 DEF Called
  <1>11. \A d \in Conts : on[d] \in K => d \in D
    BY <1>10 DEF Called
  (* The types and the lists. *)
  <1>12. /\ t.queue \in Seq(Tasks) /\ Len(s.queue) \in Nat
         /\ Len(t.queue) = Len(s.queue) + Len(q) + 1
         /\ \A i \in 1..Len(s.queue) : t.queue[i] = s.queue[i] /\ s.queue[i] \in Tasks
         /\ \A i \in 1..Len(q) : Throws(t.queue[Len(s.queue) + i], q[i])
         /\ Throws(t.queue[Len(s.queue) + Len(q) + 1], c)
    <2>1. PICK old, new : old = s.queue /\ new = t.queue
      OBVIOUS
    <2>2. /\ old \in Seq(Tasks) /\ q \in Seq(Calls)
          /\ new = Append(old \o [i \in 1..Len(q) |-> Task(q[i], "interrupt", Other)],
                          Task(c, "interrupt", Other))
      BY <1>5, <1>6, <1>8, <2>1, Zenon
    <2>3. /\ new \in Seq(Tasks) /\ Len(old) \in Nat
          /\ Len(new) = Len(old) + Len(q) + 1
          /\ \A i \in 1..Len(old) : new[i] = old[i] /\ old[i] \in Tasks
          /\ \A i \in 1..Len(q) : Throws(new[Len(old) + i], q[i])
          /\ Throws(new[Len(old) + Len(q) + 1], c)
      BY <2>2, UnwoundQueue, ZenonT(30)
    <2> QED
      BY <2>1, <2>3, Zenon
  <1>13. /\ t.waits \in Seq(Conts) /\ (Distinct(s.waits) => Distinct(t.waits))
         /\ \A x : (\E i \in 1..Len(t.waits) : t.waits[i] = x)
                     <=> x \notin D /\ \E i \in 1..Len(s.waits) : s.waits[i] = x
    <2>1. PICK w : w = s.waits
      OBVIOUS
    <2>2. w \in Seq(Conts) /\ t.waits = Without(w, D)
      BY <1>5, <1>6, <2>1
    <2>3. PICK v : v = Without(w, D)
      OBVIOUS
    <2>4. /\ v \in Seq(Conts) /\ (Distinct(w) => Distinct(v))
          /\ \A x : (\E i \in 1..Len(v) : v[i] = x) <=> x \notin D /\ \E i \in 1..Len(w) : w[i] = x
      <3>1. Filtered(Conts, w, D, v)
        BY <2>2, <2>3, WithoutProperties
      <3> QED
        BY <3>1 DEF Filtered
    <2> QED
      BY <2>1, <2>2, <2>3, <2>4
  <1>14. /\ t.at \in [Conts -> Places] /\ t.live \subseteq Calls
         /\ t.closed \subseteq Calls /\ t.abandoned \subseteq Calls
    <2>1. t.at \in [Conts -> Places]
      BY <1>5, <1>6 DEF Places
    <2>2. c # Main => c \in Calls
      BY SuspendOpsAssumption DEF Main, Calls, Conts
    <2> QED
      BY <1>3, <1>5, <1>6, <2>1, <2>2
  <1>15. t \in States
    BY <1>5, <1>12, <1>13, <1>14 DEF States
  <1>16. \A d \in Conts : t.at[d] = IF d \in D THEN "queued" ELSE s.at[d]
    BY <1>5
  <1>17. PICK L \in Nat, m \in Nat : L = Len(s.queue) /\ m = Len(q)
    BY <1>8, <1>12
  <1>18. ASSUME NEW i \in 1..Len(t.queue)
         PROVE  \/ i \in 1..L /\ t.queue[i] = s.queue[i]
                \/ i = L + m + 1 /\ t.queue[i].c = c /\ t.queue[i].call = Other
                     /\ t.queue[i].mode = "interrupt"
                \/ \E j \in 1..m : /\ i = L + j /\ t.queue[i].c = q[j] /\ t.queue[i].call = Other
                                   /\ t.queue[i].mode = "interrupt"
    <2>1. CASE i \in 1..L
      BY <1>12, <1>17, <2>1
    <2>2. CASE i = L + m + 1
      BY <1>12, <1>17, <2>2 DEF Throws
    <2>3. CASE i \in (L + 1)..(L + m)
      <3>1. PICK j \in 1..m : i = L + j
        <4>1. i - L \in 1..m /\ i = L + (i - L)
          BY <2>3
        <4> QED
          BY <4>1
      <3>2. Throws(t.queue[i], q[j])
        BY <1>12, <1>17, <3>1
      <3> QED
        BY <3>1, <3>2 DEF Throws
    <2> QED
      BY <1>12, <1>17, <2>1, <2>2, <2>3
  <1>19. \A i \in 1..L : s.queue[i].c \in Conts /\ s.at[s.queue[i].c] = "queued" /\ s.queue[i].c \notin D
    <2>1. ASSUME NEW i \in 1..L PROVE s.queue[i].c \in Conts /\ s.at[s.queue[i].c] = "queued"
      BY <1>6, <1>12, <1>17 DEF Listed, Has, Tasks
    <2> QED
      BY <1>9, <2>1
  <1>20. \A i, j \in 1..m : q[i] = q[j] => i = j
    <2> SUFFICES ASSUME NEW i \in 1..m, NEW j \in 1..m, q[i] = q[j], i < j PROVE FALSE
      OBVIOUS
    <2>1. q[i] > q[j]
      BY <1>7, <1>17 DEF Chain
    <2>2. q[i] \in Int
      BY <1>8, <1>17 DEF Calls
    <2> QED
      BY <2>1, <2>2
  <1>21. \A i \in 1..m : q[i] # c /\ q[i] \in D
    BY <1>7, <1>8, <1>17 DEF Chain, Calls, Conts
  <1>22. Listed(t.at, t.waits, t.queue)
    <2>1. Distinct(t.waits)
      BY <1>6, <1>13 DEF Listed, Has
    <2>2. \A d \in Conts : t.at[d] = "wait" <=> \E i \in 1..Len(t.waits) : t.waits[i] = d
      BY <1>6, <1>13, <1>16 DEF Listed, Has
    <2>3. ASSUME NEW i \in 1..Len(t.queue), NEW j \in 1..Len(t.queue),
                 t.queue[i].c = t.queue[j].c
          PROVE  i = j
      <3>1. CASE i \in 1..L
        <4>1. t.queue[i] = s.queue[i] /\ s.queue[i].c \notin D
          BY <1>12, <1>17, <1>19, <3>1
        <4>2. j \in 1..L /\ t.queue[j] = s.queue[j]
          BY <1>8, <1>18, <1>21, <2>3, <4>1
        <4> QED
          BY <1>6, <1>17, <2>3, <3>1, <4>1, <4>2 DEF Listed, Has
      <3>2. CASE j \in 1..L
        <4>1. t.queue[j] = s.queue[j] /\ s.queue[j].c \notin D
          BY <1>12, <1>17, <1>19, <3>2
        <4>2. i \in 1..L /\ t.queue[i] = s.queue[i]
          BY <1>8, <1>18, <1>21, <2>3, <4>1
        <4> QED
          BY <1>6, <1>17, <2>3, <3>2, <4>1, <4>2 DEF Listed, Has
      <3>3. CASE i \notin 1..L /\ j \notin 1..L
        BY <1>18, <1>20, <1>21, <2>3, <3>3
      <3> QED
        BY <3>1, <3>2, <3>3
    <2>4. ASSUME NEW d \in Conts, t.at[d] = "queued" PROVE \E i \in 1..Len(t.queue) : t.queue[i].c = d
      <3>1. CASE d = c
        <4>1. L + m + 1 \in 1..Len(t.queue) /\ t.queue[L + m + 1].c = c
          BY <1>12, <1>17 DEF Throws
        <4> QED
          BY <3>1, <4>1
      <3>2. CASE \E i \in 1..m : q[i] = d
        <4>1. PICK i \in 1..m : q[i] = d
          BY <3>2
        <4>2. L + i \in 1..Len(t.queue) /\ t.queue[L + i].c = d
          BY <1>12, <1>17, <4>1 DEF Throws
        <4> QED
          BY <4>2
      <3>3. CASE d \notin D
        <4>1. PICK i \in 1..L : s.queue[i].c = d
          BY <1>6, <1>16, <1>17, <2>4, <3>3 DEF Listed, Has
        <4>2. i \in 1..Len(t.queue) /\ t.queue[i].c = d
          BY <1>12, <1>17, <4>1
        <4> QED
          BY <4>2
      <3> QED
        BY <1>8, <1>17, <3>1, <3>2, <3>3
    <2>5. ASSUME NEW d \in Conts, NEW i \in 1..Len(t.queue), t.queue[i].c = d PROVE t.at[d] = "queued"
      <3>1. CASE i \in 1..L
        <4>1. t.queue[i] = s.queue[i]
          BY <1>12, <1>17, <3>1
        <4> QED
          BY <1>16, <1>19, <2>5, <3>1, <4>1
      <3>2. CASE i \notin 1..L
        <4>1. d \in D
          BY <1>8, <1>18, <1>21, <2>5, <3>2
        <4> QED
          BY <1>16, <4>1
      <3> QED
        BY <3>1, <3>2
    <2> QED
      BY <2>1, <2>2, <2>3, <2>4, <2>5 DEF Listed, Has
  (* The calls. *)
  <1>23. Awaited(t.at, t.live, t.abandoned)
    <2>1. \A d \in Conts : t.at[d] = "new" <=> d > n
      BY <1>6, <1>9, <1>16 DEF Awaited
    <2>2. \A d \in Conts : t.at[d] = "perform" => on[d] \in Calls /\ on[d] \in t.live
      BY <1>5, <1>6, <1>9, <1>11, <1>16 DEF Awaited
    <2>3. \A d \in Conts : t.at[d] = "wait" /\ on[d] \in Calls => on[d] \in t.live \ used
      BY <1>5, <1>6, <1>11, <1>16 DEF Awaited
    <2>4. \A k \in t.live : k <= n /\ k \notin t.abandoned
      BY <1>5, <1>6 DEF Awaited
    <2>5. ASSUME NEW k \in t.live \ used
          PROVE  on[caller[k]] = k /\ t.at[caller[k]] \in {"perform", "wait"}
      <3>1. k \in s.live \ used /\ k \notin K /\ k \in Calls /\ caller[k] \in Conts
        BY <1>5, <1>6 DEF TypeOK
      <3>2. on[caller[k]] = k /\ s.at[caller[k]] \in {"perform", "wait"}
        BY <1>6, <3>1 DEF Awaited
      <3>3. caller[k] \notin D
        BY <1>3, <3>1, <3>2
      <3> QED
        BY <1>16, <3>1, <3>2, <3>3
    <2>6. \A k \in used \cup t.abandoned : k <= n
      BY <1>5, <1>6, <1>10 DEF Awaited
    <2> QED
      BY <2>1, <2>2, <2>3, <2>4, <2>5, <2>6 DEF Awaited
  <1>24. Passed(t.at, t.live, t.queue, t.abandoned)
    <2>1. \A k \in Calls : got[k] \in {0, 1}
      BY <1>6 DEF Passed
    <2>2. ASSUME NEW k \in Calls, got[k] = 1
          PROVE  k \in used /\ k \notin t.abandoned /\ ~(t.at[caller[k]] = "perform" /\ on[caller[k]] = k)
      <3>1. /\ k \in used /\ k \notin s.abandoned /\ caller[k] \in Conts
            /\ ~(s.at[caller[k]] = "perform" /\ on[caller[k]] = k)
        BY <1>6, <2>2 DEF Passed, TypeOK
      <3> QED
        BY <1>5, <1>10, <1>16, <3>1
    <2>3. ASSUME NEW i \in 1..Len(t.queue), t.queue[i].call \in Calls
          PROVE  /\ got[t.queue[i].call] = 0
                 /\ t.queue[i].call \in used \ (t.abandoned \cup t.live)
                 /\ caller[t.queue[i].call] = t.queue[i].c
      <3>1. i \in 1..L /\ t.queue[i] = s.queue[i]
        BY <1>18, <2>3 DEF Other, Calls
      <3> QED
        BY <1>5, <1>6, <1>10, <1>17, <2>3, <3>1 DEF Passed
    <2> QED
      BY <2>1, <2>2, <2>3 DEF Passed
  <1>25. Inwards(t.queue, t.closed)
    <2> SUFFICES ASSUME NEW i \in 1..Len(t.queue), t.queue[i].mode = "interrupt",
                        t.queue[i].c \in Calls \ t.closed
                 PROVE  \E j \in 1..Len(t.queue) : j > i /\ t.queue[j].c = caller[t.queue[i].c]
      BY DEF Inwards
    <2>1. CASE i \in 1..L
      <3>1. t.queue[i] = s.queue[i] /\ s.queue[i].c \in Calls \ s.closed
        BY <1>5, <1>12, <1>17, <2>1
      <3>2. PICK j \in 1..L : j > i /\ s.queue[j].c = caller[s.queue[i].c]
        BY <1>6, <1>17, <2>1, <3>1 DEF Inwards
      <3>3. j \in 1..Len(t.queue) /\ t.queue[j] = s.queue[j]
        BY <1>12, <1>17, <3>2
      <3> QED
        BY <3>1, <3>2, <3>3
    <2>2. CASE i = L + m + 1
      <3>1. t.queue[i].c = c
        BY <1>12, <1>17, <2>2 DEF Throws
      <3> QED
        BY <1>5, <3>1, SMTT(30) DEF Calls, Main
    <2>3. CASE i \notin 1..L /\ i # L + m + 1
      <3>1. PICK j \in 1..m : i = L + j /\ t.queue[i].c = q[j]
        BY <1>18, <2>3
      <3>2. caller[q[j]] = IF j = m THEN c ELSE q[j + 1]
        BY <1>7, <1>17, <3>1 DEF Chain
      <3>3. CASE j = m
        <4>1. L + m + 1 \in 1..Len(t.queue) /\ t.queue[L + m + 1].c = c /\ L + m + 1 > i
          BY <1>12, <1>17, <3>1, <3>3 DEF Throws
        <4> QED
          BY <3>1, <3>2, <3>3, <4>1
      <3>4. CASE j # m
        <4>1. j + 1 \in 1..m /\ L + (j + 1) \in 1..Len(t.queue) /\ L + (j + 1) > i
          <5>1. Len(t.queue) = L + m + 1 /\ i = L + j
            BY <1>12, <1>17, <3>1
          <5>2. j \in 1..m /\ L \in Nat /\ m \in Nat
            OBVIOUS
          <5> QED
            BY ONLY <3>4, <5>1, <5>2
        <4>2. t.queue[L + (j + 1)].c = q[j + 1]
          BY <1>12, <1>17, <4>1 DEF Throws
        <4> QED
          BY <3>1, <3>2, <3>4, <4>1, <4>2
      <3> QED
        BY <3>3, <3>4
    <2>4. i \in 1..L \/ i = L + m + 1 \/ (i \notin 1..L /\ i # L + m + 1)
      OBVIOUS
    <2> QED
      BY <2>1, <2>2, <2>3, <2>4, Zenon
  <1>26. Noted(t.at, t.closed)
    <2>1. (\A k \in s.closed \cap defects : orphan) /\ (\A k \in defects : s.at[k] = "ended")
      BY <1>6 DEF Noted
    <2>2. c \notin defects /\ \A k \in defects : k \notin D /\ k \in Conts
      <3>1. \A k \in defects : k \in Conts
        BY DEF TypeOK, Calls, Conts
      <3> QED
        BY <1>9, <2>1, <3>1
    <2> QED
      BY <1>5, <1>16, <2>1, <2>2 DEF Noted
  <1>27. t.at[Main] # "ended" /\ \A d \in Conts : t.at[d] \notin {"run", "perform"}
    <2>1. Main \in Conts
      BY SuspendOpsAssumption DEF Main, Conts
    <2> QED
      BY <1>16, <2>1 DEF Dropped
  <1> QED
    BY <1>4, <1>15, <1>22, <1>23, <1>24, <1>25, <1>26, <1>27 DEF Dropped, Waiting

LEMMA CloseDropped ==
  ASSUME TypeOK, Called, NEW c \in Conts, NEW s, Dropped(s)
  PROVE  Dropped(Close(c, s))
  <1>1. CASE s.at[c] # "wait" \/ on[c] = Closing
    <2>1. Close(c, s) = s
      BY <1>1 DEF Close
    <2> QED
      BY <2>1
  <1>2. CASE ~(s.at[c] # "wait" \/ on[c] = Closing)
    <2>1. Close(c, s) = Unwound(s, c)
      BY <1>2, Zenon DEF Close, Unwound
    <2> QED
      BY <1>2, <2>1, UnwoundDropped
  <1> QED
    BY <1>1, <1>2

(* Every wait is unwound.                                                  *)
LEMMA CloseAllDropped ==
  ASSUME TypeOK, Called, Dropped(Now)
  PROVE  Dropped(CloseAll)
  <1>1. PICK w, N, S, a : w = waits /\ N = Len(w) /\ a = Now /\ S = {s \in States : Dropped(s)}
    OBVIOUS
  <1>2. N \in Nat /\ a \in S /\ \A i \in 1..N : N + 1 - i \in 1..N /\ w[N + 1 - i] \in Conts
    <2>1. w \in Seq(Conts)
      BY <1>1 DEF TypeOK
    <2>2. N \in Nat
      BY <1>1, <2>1, LenProperties
    <2>3. \A i \in 1..N : N + 1 - i \in 1..N
      BY <2>2
    <2>4. a \in S
      BY <1>1 DEF Dropped
    <2> QED
      BY <1>1, <2>1, <2>2, <2>3, <2>4, ElementOfSeq
  <1>3. ASSUME NEW c \in Conts, NEW s \in S PROVE Close(c, s) \in S
    <2>1. Dropped(Close(c, s))
      BY <1>1, CloseDropped
    <2> QED
      BY <1>1, <2>1 DEF Dropped
  <1> DEFINE F == [i \in 1..N |-> [s \in S |-> Close(w[N + 1 - i], s)]]
             Rec(r) == r = [i \in 0..N |-> IF i = 0 THEN a ELSE Close(w[N + 1 - i], r[i - 1])]
  <1>4. F \in [1..N -> [S -> S]]
    BY <1>2, <1>3
  <1>5. PICK g : Steps(g, N, S, a, F)
    <2> HIDE DEF F
    <2> QED
      BY <1>2, <1>4, StepsExist
  <1>6. ASSUME NEW i \in 1..N PROVE g[i] = Close(w[N + 1 - i], g[i - 1])
    <2>1. g[i - 1] \in S /\ g[i] = F[i][g[i - 1]]
      <3> HIDE DEF F
      <3>1. i - 1 \in 0..N
        BY <1>2
      <3> QED
        BY <1>5, <3>1 DEF Steps
    <2> QED
      BY <2>1
  <1>7. Rec(g)
    <2> HIDE DEF F
    <2>1. g = [i \in 0..N |-> g[i]] /\ g[0] = a
      BY <1>5 DEF Steps
    <2>2. ASSUME NEW i \in 0..N PROVE g[i] = IF i = 0 THEN a ELSE Close(w[N + 1 - i], g[i - 1])
      <3>1. CASE i = 0
        BY <2>1, <3>1
      <3>2. CASE i # 0
        <4>1. i \in 1..N
          BY <3>2, <1>2
        <4> QED
          BY <1>6, <3>2, <4>1
      <3> QED
        BY <3>1, <3>2
    <2> QED
      BY <2>1, <2>2, Zenon
  <1>8. PICK r : r = CHOOSE h : Rec(h)
    OBVIOUS
  <1>9. Rec(r)
    <2> HIDE DEF Rec
    <2> QED
      BY <1>7, <1>8
  <1>10. CloseAll = r[N]
    BY <1>1, <1>8, Zenon DEF CloseAll
  <1>11. r[0] = a /\ \A i \in 1..N : r[i] = Close(w[N + 1 - i], r[i - 1])
    <2>1. \A i \in 0..N : r[i] = IF i = 0 THEN a ELSE Close(w[N + 1 - i], r[i - 1])
      BY <1>9, Zenon
    <2>2. 0 \in 0..N /\ \A i \in 1..N : i \in 0..N /\ i # 0
      BY <1>2
    <2> QED
      BY <2>1, <2>2, Zenon
  <1> DEFINE T == {i \in 0..N : r[i] \in S}
  <1>12. 0 \in T
    BY <1>2, <1>11
  <1>13. ASSUME NEW i \in 1..N, i - 1 \in T PROVE i \in T
    <2>1. r[i - 1] \in S /\ w[N + 1 - i] \in Conts /\ i \in 0..N
      BY <1>2, <1>13
    <2>2. r[i] \in S
      BY <1>3, <1>11, <2>1
    <2> QED
      BY <2>1, <2>2
  <1>14. N \in T
    <2> HIDE DEF T
    <2>1. 0..N \subseteq T
      BY <1>2, <1>12, <1>13, StepByStep
    <2> QED
      BY <1>2, <2>1
  <1> QED
    BY <1>1, <1>10, <1>14

-----------------------------------------------------------------------------
(* The stack, the waits and the queue.                                     *)

PushedTo(S, s, x, t) ==
  /\ t \in Seq(S) /\ Len(s) \in Nat /\ Len(t) = Len(s) + 1
  /\ (\A i \in 1..Len(s) : t[i] = s[i]) /\ t[Len(s) + 1] = x
  /\ (\A y : Has(t, y) <=> Has(s, y) \/ y = x)
  /\ (Distinct(s) /\ ~Has(s, x) => Distinct(t))

LEMMA Pushed ==
  ASSUME NEW S, NEW s \in Seq(S), NEW x \in S, NEW t, t = Append(s, x)
  PROVE  PushedTo(S, s, x, t)
  <1>1. /\ t \in Seq(S) /\ Len(s) \in Nat /\ Len(t) = Len(s) + 1
        /\ (\A i \in 1..Len(s) : t[i] = s[i]) /\ t[Len(s) + 1] = x
    BY AppendProperties, LenProperties
  <1>2. ASSUME NEW y PROVE Has(t, y) <=> Has(s, y) \/ y = x
    BY <1>1 DEF Has
  <1>3. Distinct(s) /\ ~Has(s, x) => Distinct(t)
    BY <1>1 DEF Distinct, Has
  <1> QED
    BY <1>1, <1>2, <1>3 DEF PushedTo

PoppedTo(S, s, t) ==
  /\ t \in Seq(S) /\ Has(s, Last(s))
  /\ (Distinct(s) => Distinct(t) /\ \A y : Has(t, y) <=> Has(s, y) /\ y # Last(s))

LEMMA Popped ==
  ASSUME NEW S, NEW s \in Seq(S), s # <<>>, NEW t, t = Front(s)
  PROVE  PoppedTo(S, s, t)
  <1>1. Len(s) \in Nat \ {0}
    BY LenProperties, EmptySeq
  <1>2. t \in Seq(S) /\ Len(t) = Len(s) - 1 /\ \A i \in 1..(Len(s) - 1) : t[i] = s[i]
    <2>1. PICK m \in Int : m = Len(s) - 1
      BY <1>1
    <2>2. t = SubSeq(s, 1, m) /\ 1 \in Int
      BY <2>1 DEF Front
    <2>3. \A i \in 1..m : s[i] \in S
      BY <1>1, <2>1, ElementOfSeq
    <2>4. /\ t \in Seq(S) /\ Len(t) = IF 1 <= m THEN m - 1 + 1 ELSE 0
          /\ \A i \in 1..(m - 1 + 1) : t[i] = s[1 + i - 1]
      <3>1. /\ SubSeq(s, 1, m) \in Seq(S) /\ Len(SubSeq(s, 1, m)) = IF 1 <= m THEN m - 1 + 1 ELSE 0
            /\ \A i \in 1..(m - 1 + 1) : SubSeq(s, 1, m)[i] = s[1 + i - 1]
        BY <2>2, <2>3, SubSeqProperties
      <3> QED
        BY <2>2, <3>1, Zenon
    <2>5. \A i \in 1..m : i \in 1..(m - 1 + 1) /\ 1 + i - 1 = i
      BY <2>1
    <2>6. (IF 1 <= m THEN m - 1 + 1 ELSE 0) = m
      BY <1>1, <2>1
    <2>7. \A i \in 1..m : t[i] = s[i]
      BY <2>4, <2>5, Zenon
    <2> QED
      BY <2>1, <2>4, <2>6, <2>7
  <1>3. PICK z : z = Last(s) /\ z = s[Len(s)]
    BY DEF Last
  <1>4. Has(s, z)
    BY <1>1, <1>3 DEF Has
  <1>5. ASSUME Distinct(s) PROVE Distinct(t) /\ \A y : Has(t, y) <=> Has(s, y) /\ y # z
    <2>1. Distinct(t)
      BY <1>1, <1>2, <1>5 DEF Distinct
    <2>2. ASSUME NEW y, Has(t, y) PROVE Has(s, y) /\ y # z
      BY <1>1, <1>2, <1>3, <1>5, <2>2 DEF Has, Distinct
    <2>3. ASSUME NEW y, Has(s, y), y # z PROVE Has(t, y)
      BY <1>1, <1>2, <1>3, <2>3 DEF Has
    <2> QED
      BY <2>1, <2>2, <2>3
  <1> QED
    BY <1>2, <1>3, <1>4, <1>5 DEF PoppedTo

RemovedTo(w, c, v) ==
  /\ v \in Seq(Conts) /\ (Distinct(w) => Distinct(v))
  /\ \A y : Has(v, y) <=> Has(w, y) /\ y # c

LEMMA Removed ==
  ASSUME NEW w \in Seq(Conts), NEW c, NEW v, v = Without(w, {c})
  PROVE  RemovedTo(w, c, v)
  <1>1. PICK D : D = {c}
    OBVIOUS
  <1>2. Filtered(Conts, w, D, v)
    BY <1>1, WithoutProperties
  <1> QED
    BY <1>1, <1>2 DEF Filtered, RemovedTo, Has

-----------------------------------------------------------------------------
(* The steps.  Each one keeps what holds while the run is not over.        *)

(* What dropping waits changes when nothing runs.                          *)
LEMMA BecomesRuns ==
  ASSUME Runs, Idle, NEW s, Dropped(s), Becomes(s),
         UNCHANGED <<n, caller, used, on, stack, orphan, unw, held, result, thrown, defects, got>>,
         pend' \subseteq {"scope", "all"}
  PROVE  Runs'
  <1>1. /\ at' = s.at /\ live' = s.live /\ waits' = s.waits /\ queue' = s.queue
        /\ closed' = s.closed /\ abandoned' = s.abandoned
    BY DEF Becomes
  <1>2. TypeOK'
    <2>1. /\ s.at \in [Conts -> Places] /\ s.live \subseteq Calls
          /\ s.waits \in Seq(Conts) /\ s.queue \in Seq(Tasks)
          /\ s.closed \subseteq Calls /\ s.abandoned \subseteq Calls
      BY DEF Dropped, States
    <2> QED
      BY <1>1, <2>1 DEF Runs, TypeOK, Places, Tasks
  <1>3. Called'
    BY DEF Runs, Called
  <1>4. Stacked(at, stack)'
    <2>1. Stacked(at, stack) /\ stack = <<>> /\ stack' = stack
      BY DEF Runs, Idle
    <2>2. \A c \in Conts : s.at[c] \notin {"run", "perform"}
      BY DEF Dropped
    <2>3. \A c \in Conts : ~Has(stack, c)
      BY <2>1, EmptySeq DEF Has
    <2> QED
      BY <1>1, <2>1, <2>2, <2>3 DEF Stacked
  <1>5. Waiting(at, live, waits, queue, closed, abandoned)'
    <2>1. PICK a, l, w, q, z, b : a = at' /\ l = live' /\ w = waits' /\ q = queue' /\ z = closed'
                                    /\ b = abandoned'
      OBVIOUS
    <2>2. Waiting(a, l, w, q, z, b)
      BY <1>1, <2>1, Zenon DEF Dropped
    <2>3. Waiting(a, l, w, q, z, b)'
      BY <2>2 DEF Waiting, Listed, Awaited, Passed, Inwards, Noted
    <2> QED
      BY <2>1, <2>3, Zenon
  <1>6. at'[Main] # "ended"
    BY <1>1 DEF Dropped
  <1> QED
    BY <1>2, <1>3, <1>4, <1>5, <1>6 DEF Runs

LEMMA NowDropped ==
  ASSUME Runs, Idle
  PROVE  Dropped(Now)
  <1>1. Now \in States
    BY DEF Runs, TypeOK, Now, States, Places, Tasks
  <1>2. Waiting(Now.at, Now.live, Now.waits, Now.queue, Now.closed, Now.abandoned)
    <2>1. /\ Now.at = at /\ Now.live = live /\ Now.waits = waits /\ Now.queue = queue
          /\ Now.closed = closed /\ Now.abandoned = abandoned
      BY DEF Now
    <2> QED
      BY <2>1, Zenon DEF Runs
  <1>3. at[Main] # "ended" /\ \A c \in Conts : at[c] \notin {"run", "perform"}
    <2>1. \A c \in Conts : ~Has(stack, c)
      BY EmptySeq DEF Has, Idle
    <2> QED
      BY <2>1 DEF Runs, Stacked
  <1> QED
    BY <1>1, <1>2, <1>3 DEF Dropped, Now

LEMMA RootInterruptRuns ==
  ASSUME Runs, RootInterrupt
  PROVE  Runs'
  <1>1. PICK s : s = CloseAll
    OBVIOUS
  <1>2. Dropped(s)
    BY <1>1, NowDropped, CloseAllDropped DEF RootInterrupt, Runs
  <1>3. Idle /\ Becomes(s) /\ pend' \subseteq {"scope", "all"}
    BY <1>1 DEF RootInterrupt, Runs, TypeOK
  <1> QED
    BY <1>2, <1>3, BecomesRuns DEF RootInterrupt

LEMMA InterruptRuns ==
  ASSUME Runs, Interrupt
  PROVE  Runs'
  <1>1. PICK s : s = IF held = {} /\ at[Main] = "wait" THEN Interrupts ELSE Now
    OBVIOUS
  <1>2. Idle /\ Becomes(s) /\ pend' \subseteq {"scope", "all"}
    BY <1>1 DEF Interrupt, Runs, TypeOK
  <1>3. Dropped(Now)
    BY <1>2, NowDropped
  <1>4. Dropped(s)
    <2>1. CASE ~(held = {} /\ at[Main] = "wait")
      BY <1>1, <1>3, <2>1
    <2>2. CASE held = {} /\ at[Main] = "wait"
      <3>1. Main \in Conts /\ Now.at[Main] = "wait"
        BY <2>2, SuspendOpsAssumption DEF Now, Main, Conts
      <3>2. PICK u : u = Now
        OBVIOUS
      <3>3. Dropped(u) /\ Dropped(Unwound(u, Main))
        BY <1>3, <3>1, <3>2, UnwoundDropped DEF Runs
      <3>4. Unwound(u, Main) = Throw(Drop(u, Main), Main)
        <4>1. PICK Q, A, L, W, Z, B : Drop(u, Main) =
                [at |-> A, live |-> L, waits |-> W, queue |-> Q, closed |-> Z, abandoned |-> B]
          BY DEF Drop
        <4>2. PICK T, V, R : T = Throw(Drop(u, Main), Main) /\ V = Drop(u, Main)
                          /\ R = Append(Q, Task(Main, "interrupt", Other))
          OBVIOUS
        <4>3. V.queue = Q
          BY ONLY <4>1, <4>2
        <4>4. T = [V EXCEPT !.queue = R]
          BY <4>2, <4>3 DEF Throw
        <4>5. T = [at |-> A, live |-> L, waits |-> W, queue |-> R, closed |-> Z, abandoned |-> B]
          <5>1. V = [at |-> A, live |-> L, waits |-> W, queue |-> Q, closed |-> Z, abandoned |-> B]
            BY <4>1, <4>2, Zenon
          <5> QED
            BY ONLY <4>4, <5>1
        <4>6. Unwound(u, Main) = [T EXCEPT !.closed = Z]
          <5>1. T.closed = Z
            BY ONLY <4>5
          <5> QED
            BY <4>2, <5>1 DEF Unwound
        <4>7. [T EXCEPT !.closed = Z] = T
          BY ONLY <4>5
        <4> QED
          BY <4>2, <4>6, <4>7
      <3> QED
        BY <1>1, <2>2, <3>2, <3>3, <3>4 DEF Interrupts
    <2> QED
      BY <2>1, <2>2
  <1> QED
    BY <1>2, <1>4, BecomesRuns DEF Interrupt

(* A result is passed: a and st are where continuations are, and the       *)
(* stack, when it is.                                                      *)
LEMMA PassRuns ==
  ASSUME NEW a \in [Conts -> Places], NEW st \in Seq(Conts), NEW k \in Calls,
         TypeOK, Called, Stacked(a, st), a[Main] # "ended",
         Listed(a, waits, queue), Awaited(a, live, abandoned),
         Passed(a, live, queue, abandoned), Inwards(queue, closed),
         k <= n, k \notin used, Pass(k, a, st),
         k \in live => a[caller[k]] = at[caller[k]],
         UNCHANGED <<n, caller, on, queue, closed, abandoned>>
  PROVE  /\ used' \subseteq Calls /\ live' \subseteq Calls /\ waits' \in Seq(Conts)
         /\ at' \in [Conts -> Places] /\ stack' \in Seq(Conts) /\ got' \in [Calls -> Nat]
         /\ Stacked(at, stack)' /\ at'[Main] # "ended"
         /\ Listed(at, waits, queue)' /\ Awaited(at, live, abandoned)'
         /\ Passed(at, live, queue, abandoned)' /\ Inwards(queue, closed)'
         /\ \A d \in Conts : a[d] = "ended" => at'[d] = "ended"
  <1>1. /\ used \subseteq Calls /\ live \subseteq Calls /\ caller \in [Calls -> Conts]
        /\ n \in Int /\ got \in [Calls -> Nat] /\ waits \in Seq(Conts)
    BY DEF TypeOK
  <1>2. used' = used \cup {k} /\ used' \subseteq Calls
    BY <1>1 DEF Pass
  <1>3. Called'
    BY DEF Called
  <1>4. CASE Sync(k) \/ k \notin live
    <2>1. at' = a /\ stack' = st /\ live' = live /\ waits' = waits /\ got' = got
      BY <1>4 DEF Pass
    <2>2. Listed(at, waits, queue)'
      BY <2>1 DEF Listed
    <2>3. Awaited(at, live, abandoned)'
      <3>1. ASSUME NEW c \in Conts, a[c] = "wait", on[c] \in Calls PROVE on[c] \in live \ used'
        <4>1. on[c] \in live \ used /\ caller[on[c]] = c
          BY <3>1 DEF Awaited, Called
        <4>2. on[c] # k
          BY <1>4, <3>1, <4>1 DEF Sync
        <4> QED
          BY <1>2, <4>1, <4>2
      <3> QED
        BY <1>2, <2>1, <3>1 DEF Awaited
    <2>4. Passed(at, live, queue, abandoned)'
      BY <1>2, <2>1 DEF Passed
    <2>5. Stacked(at, stack)' /\ Inwards(queue, closed)'
      BY <2>1 DEF Stacked, Inwards
    <2> QED
      BY <1>1, <1>2, <2>1, <2>2, <2>3, <2>4, <2>5
  <1>5. CASE ~(Sync(k) \/ k \notin live)
    <2>1. PICK d \in Conts : d = caller[k]
      BY <1>1
    <2>2. /\ on[d] = k /\ a[d] = "wait" /\ k \in live \ used /\ got[k] = 0
      <3>1. on[d] = k /\ a[d] \in {"perform", "wait"}
        BY <1>5, <2>1 DEF Awaited
      <3>2. got[k] = 0
        BY DEF Passed
      <3> QED
        BY <1>5, <2>1, <3>1, <3>2 DEF Sync
    <2>3. /\ live' = live \ {k} /\ waits' = Without(waits, {d})
          /\ at' = [a EXCEPT ![d] = "run"] /\ stack' = Append(st, d)
          /\ got' = [got EXCEPT ![k] = @ + 1]
      BY <1>5, <2>1 DEF Pass, Take
    <2>4. at' \in [Conts -> Places] /\ at'[d] = "run" /\ \A c \in Conts : c # d => at'[c] = a[c]
      BY <2>3 DEF Places
    <2>5. RemovedTo(waits, d, waits')
      BY <1>1, <2>3, Removed
    <2>6. PushedTo(Conts, st, d, stack')
      BY <2>3, Pushed
    <2>7. got' \in [Calls -> Nat] /\ got'[k] = 1 /\ \A j \in Calls : j # k => got'[j] = got[j]
      BY <1>1, <2>2, <2>3
    <2>8. Stacked(at, stack)'
      <3>1. ~Has(st, d) /\ Distinct(st)
        BY <2>2 DEF Stacked
      <3>2. Distinct(stack')
        BY <2>6, <3>1 DEF PushedTo
      <3>3. \A c \in Conts : at'[c] \in {"run", "perform"} <=> Has(stack', c)
        BY <2>4, <2>6 DEF PushedTo, Stacked
      <3> QED
        BY <3>2, <3>3 DEF Stacked
    <2>9. Listed(at, waits, queue)'
      <3>1. Distinct(waits') /\ \A c \in Conts : at'[c] = "wait" <=> Has(waits', c)
        BY <2>4, <2>5 DEF RemovedTo, Listed
      <3>2. \A c \in Conts : at'[c] = "queued" <=> a[c] = "queued"
        BY <2>2, <2>4
      <3> QED
        BY <3>1, <3>2 DEF Listed
    <2>10. Awaited(at, live, abandoned)'
      <3>1. \A c \in Conts : at'[c] = "new" <=> c > n
        BY <2>2, <2>4 DEF Awaited
      <3>2. ASSUME NEW c \in Conts, at'[c] \in {"perform", "wait"}, on[c] \in Calls
            PROVE  c # d /\ on[c] # k
        BY <2>1, <2>4, <3>2 DEF Called
      <3>3. \A c \in Conts : at'[c] = "perform" => on[c] \in Calls /\ on[c] \in live'
        BY <2>3, <2>4, <3>2 DEF Awaited
      <3>4. \A c \in Conts : at'[c] = "wait" /\ on[c] \in Calls => on[c] \in live' \ used'
        BY <1>2, <2>3, <2>4, <3>2 DEF Awaited
      <3>5. \A j \in live' : j <= n /\ j \notin abandoned
        BY <2>3 DEF Awaited
      <3>6. ASSUME NEW j \in live' \ used'
            PROVE  on[caller[j]] = j /\ at'[caller[j]] \in {"perform", "wait"}
        <4>1. j \in live \ used /\ j # k /\ caller[j] \in Conts
          BY <1>1, <1>2, <2>3
        <4>2. on[caller[j]] = j /\ a[caller[j]] \in {"perform", "wait"}
          BY <4>1 DEF Awaited
        <4> QED
          BY <2>2, <2>4, <4>1, <4>2
      <3>7. \A j \in used' \cup abandoned : j <= n
        BY <1>2 DEF Awaited
      <3> QED
        BY <3>1, <3>3, <3>4, <3>5, <3>6, <3>7 DEF Awaited
    <2>11. Passed(at, live, queue, abandoned)'
      <3>1. \A j \in Calls : got'[j] \in {0, 1}
        BY <2>7 DEF Passed
      <3>2. ASSUME NEW j \in Calls, got'[j] = 1
            PROVE  j \in used' /\ j \notin abandoned /\ ~(at'[caller[j]] = "perform" /\ on[caller[j]] = j)
        <4>1. CASE j = k
          BY <1>2, <2>1, <2>2, <2>4, <4>1 DEF Awaited
        <4>2. CASE j # k
          BY <1>1, <1>2, <2>4, <2>7, <3>2, <4>2 DEF Passed
        <4> QED
          BY <4>1, <4>2
      <3>3. ASSUME NEW i \in 1..Len(queue), queue[i].call \in Calls
            PROVE  /\ got'[queue[i].call] = 0 /\ queue[i].call \in used' \ (abandoned \cup live')
                   /\ caller[queue[i].call] = queue[i].c
        BY <1>2, <2>3, <2>7, <3>3 DEF Passed
      <3> QED
        BY <3>1, <3>2, <3>3 DEF Passed
    <2>12. live' \subseteq Calls /\ waits' \in Seq(Conts) /\ stack' \in Seq(Conts) /\ at'[Main] # "ended"
      <3>1. Main \in Conts
        BY SuspendOpsAssumption DEF Main, Conts
      <3> QED
        BY <1>1, <2>3, <2>4, <2>5, <2>6, <3>1 DEF RemovedTo, PushedTo
    <2>13. Inwards(queue, closed)'
      BY DEF Inwards
    <2>14. \A c \in Conts : a[c] = "ended" => at'[c] = "ended"
      BY <2>2, <2>4
    <2> QED
      BY <1>2, <2>4, <2>7, <2>8, <2>9, <2>10, <2>11, <2>12, <2>13, <2>14
  <1> QED
    BY <1>4, <1>5

(* The continuation c that runs.                                           *)
LEMMA RunningFacts ==
  ASSUME Runs, NEW c, Running(c)
  PROVE  /\ ~Over /\ c \in Conts /\ at[c] = "run" /\ Has(stack, c) /\ stack # <<>> /\ c <= n
         /\ stack \in Seq(Conts) /\ Last(stack) = c
  <1>1. stack \in Seq(Conts) /\ stack # <<>> /\ Last(stack) = c /\ at[c] = "run" /\ ~Over
    BY DEF Runs, TypeOK, Running
  <1>2. Has(stack, c)
    <2>1. PICK t : t = Front(stack)
      OBVIOUS
    <2> QED
      BY <1>1, <2>1, Popped DEF PoppedTo
  <1>3. c \in Conts
    BY <1>1, <1>2, ElementOfSeq DEF Has
  <1>4. c <= n
    BY <1>1, <1>3 DEF Runs, Waiting, Awaited, TypeOK, Conts
  <1> QED
    BY <1>1, <1>2, <1>3, <1>4

LEMMA ResumeRuns ==
  ASSUME Runs, NEW c \in Conts, NEW k \in Calls, Resume(c, k)
  PROVE  Runs'
  <1>1. PICK a, st : a = at /\ st = stack
    OBVIOUS
  <1>2. /\ a \in [Conts -> Places] /\ st \in Seq(Conts) /\ TypeOK /\ Called /\ Stacked(a, st)
        /\ a[Main] # "ended" /\ Listed(a, waits, queue) /\ Awaited(a, live, abandoned)
        /\ Passed(a, live, queue, abandoned) /\ Inwards(queue, closed) /\ Noted(a, closed)
    BY <1>1 DEF Runs, TypeOK, Waiting, Places
  <1>3. /\ k <= n /\ k \notin used /\ Pass(k, a, st) /\ a[caller[k]] = at[caller[k]]
        /\ UNCHANGED <<n, caller, on, queue, closed, abandoned>>
    BY <1>1, <1>2 DEF Resume, Resumable, TypeOK
  <1>4. /\ used' \subseteq Calls /\ live' \subseteq Calls /\ waits' \in Seq(Conts)
        /\ at' \in [Conts -> Places] /\ stack' \in Seq(Conts) /\ got' \in [Calls -> Nat]
        /\ Stacked(at, stack)' /\ at'[Main] # "ended"
        /\ Listed(at, waits, queue)' /\ Awaited(at, live, abandoned)'
        /\ Passed(at, live, queue, abandoned)' /\ Inwards(queue, closed)'
        /\ \A d \in Conts : a[d] = "ended" => at'[d] = "ended"
    BY <1>2, <1>3, PassRuns
  <1>5. TypeOK'
    BY <1>2, <1>4 DEF TypeOK, Resume, Places
  <1>6. Called'
    BY <1>2 DEF Called, Resume
  <1>7. Noted(at, closed)'
    <2>1. \A d \in defects : d \in Conts
      BY <1>2 DEF TypeOK, Calls, Conts
    <2> QED
      BY <1>2, <1>4, <2>1 DEF Noted, Resume
  <1> QED
    BY <1>4, <1>5, <1>6, <1>7 DEF Runs, Waiting

(* The continuation d is queued with the result of k, or with another one. *)
LEMMA QueueRuns ==
  ASSUME Runs, Idle, NEW d \in Conts, NEW k \in Conts, NEW mode \in {"next", "throw"},
         at[d] = "wait", on[d] \in Calls \/ k \in Calls => on[d] = k /\ k \in live \ used,
         used' = used \cup ({k} \cap Calls), live' = live \ {k},
         at' = [at EXCEPT ![d] = "queued"], waits' = Without(waits, {d}),
         queue' = Append(queue, Task(d, mode, k)),
         UNCHANGED <<n, caller, on, stack, closed, orphan, pend, unw, held, result, history>>
  PROVE  Runs'
  <1>1. /\ TypeOK /\ Called /\ Stacked(at, stack)
        /\ at[Main] # "ended" /\ Listed(at, waits, queue) /\ Awaited(at, live, abandoned)
        /\ Passed(at, live, queue, abandoned) /\ Inwards(queue, closed) /\ Noted(at, closed)
    BY DEF Runs, Waiting
  <1>2. /\ used \subseteq Calls /\ live \subseteq Calls /\ caller \in [Calls -> Conts]
        /\ n \in Int /\ got \in [Calls -> Nat] /\ waits \in Seq(Conts) /\ queue \in Seq(Tasks)
        /\ at \in [Conts -> Places] /\ on \in [Conts -> Closing..NCalls]
    BY <1>1 DEF TypeOK, Places, Tasks
  <1>3. at' \in [Conts -> Places] /\ at'[d] = "queued" /\ \A c \in Conts : c # d => at'[c] = at[c]
    BY <1>2 DEF Places
  <1>4. RemovedTo(waits, d, waits')
    BY <1>2, Removed
  <1>5. PICK q, t : q = queue' /\ t = Task(d, mode, k)
    OBVIOUS
  <1>6. t \in Tasks /\ t.c = d /\ t.mode = mode /\ t.call = k
    BY <1>5 DEF Task, Tasks
  <1>7. PushedTo(Tasks, queue, t, q)
    BY <1>2, <1>5, <1>6, Pushed
  <1>8. PICK L \in Nat : /\ L = Len(queue) /\ Len(q) = L + 1 /\ q \in Seq(Tasks)
                         /\ (\A i \in 1..L : q[i] = queue[i]) /\ q[L + 1] = t
    BY <1>7 DEF PushedTo
  <1>9. TypeOK'
    <2>1. used' \subseteq Calls /\ live' \subseteq Calls /\ waits' \in Seq(Conts) /\ queue' \in Seq(Tasks)
      BY <1>2, <1>4, <1>5, <1>8 DEF RemovedTo
    <2> QED
      BY <1>1, <1>3, <2>1 DEF TypeOK, Places, Tasks, history
  <1>10. Called'
    BY <1>1 DEF Called
  <1>11. Stacked(at, stack)'
    BY <1>1, <1>3 DEF Stacked
  <1>12. at'[Main] # "ended"
    <2>1. Main \in Conts
      BY SuspendOpsAssumption DEF Main, Conts
    <2> QED
      BY <1>1, <1>3, <2>1
  <1>13. Listed(at, waits, queue)'
    <2>1. Distinct(waits') /\ \A c \in Conts : at'[c] = "wait" <=> Has(waits', c)
      BY <1>1, <1>3, <1>4 DEF RemovedTo, Listed
    <2>2. \A i \in 1..L : queue[i].c # d
      BY <1>1, <1>8 DEF Listed
    <2>3. \A i, j \in 1..Len(q) : q[i].c = q[j].c => i = j
      <3> SUFFICES ASSUME NEW i \in 1..Len(q), NEW j \in 1..Len(q), q[i].c = q[j].c PROVE i = j
        OBVIOUS
      <3>1. CASE i \in 1..L /\ j \in 1..L
        BY <1>1, <1>8, <3>1 DEF Listed
      <3>2. CASE i = L + 1 /\ j \in 1..L
        BY <1>6, <1>8, <2>2, <3>2
      <3>3. CASE i \in 1..L /\ j = L + 1
        BY <1>6, <1>8, <2>2, <3>3
      <3> QED
        BY <1>8, <3>1, <3>2, <3>3
    <2>4. ASSUME NEW c \in Conts PROVE at'[c] = "queued" <=> \E i \in 1..Len(q) : q[i].c = c
      <3>1. (\E i \in 1..Len(q) : q[i].c = c) <=> c = d \/ \E i \in 1..L : queue[i].c = c
        <4>1. L + 1 \in 1..Len(q) /\ \A i \in 1..Len(q) : i \in 1..L \/ i = L + 1
          BY <1>8
        <4>2. \A i \in 1..L : i \in 1..Len(q) /\ q[i] = queue[i]
          BY <1>8
        <4> QED
          BY <1>6, <1>8, <4>1, <4>2
      <3> QED
        BY <1>1, <1>3, <1>8, <3>1 DEF Listed
    <2>5. Listed(at', waits', q)
      BY ONLY <2>1, <2>3, <2>4 DEF Listed
    <2> QED
      BY <1>5, <2>5, Zenon
  <1>14. Awaited(at, live, abandoned)'
    <2>1. \A c \in Conts : at'[c] = "new" <=> c > n
      BY <1>1, <1>3 DEF Awaited
    <2>2. ASSUME NEW c \in Conts, at'[c] \in {"perform", "wait"}, on[c] \in Calls
          PROVE  c # d /\ on[c] # k
      <3>1. c # d
        BY <1>3, <2>2
      <3>2. on[c] = k => c = d
        BY <1>1, <2>2 DEF Called
      <3> QED
        BY <3>1, <3>2
    <2>3. \A c \in Conts : at'[c] = "perform" => on[c] \in Calls /\ on[c] \in live'
      BY <1>1, <1>3, <2>2 DEF Awaited
    <2>4. \A c \in Conts : at'[c] = "wait" /\ on[c] \in Calls => on[c] \in live' \ used'
      BY <1>1, <1>3, <2>2 DEF Awaited
    <2>5. \A j \in live' : j <= n /\ j \notin abandoned
      BY <1>1 DEF Awaited
    <2>6. ASSUME NEW j \in live' \ used'
          PROVE  on[caller[j]] = j /\ at'[caller[j]] \in {"perform", "wait"}
      <3>1. j \in live \ used /\ j # k /\ caller[j] \in Conts /\ j \in Calls
        BY <1>2
      <3>2. on[caller[j]] = j /\ at[caller[j]] \in {"perform", "wait"}
        BY <1>1, <3>1 DEF Awaited
      <3>3. caller[j] # d
        BY <3>1, <3>2
      <3> QED
        BY <1>3, <3>1, <3>2, <3>3
    <2>7. \A j \in used' \cup abandoned : j <= n
      BY <1>1 DEF Awaited
    <2> QED
      BY <2>1, <2>3, <2>4, <2>5, <2>6, <2>7 DEF Awaited, history
  <1>15. Passed(at, live, queue, abandoned)'
    <2>0. got' = got /\ abandoned' = abandoned
      BY DEF history
    <2>1. \A j \in Calls : got[j] \in {0, 1}
      BY <1>1 DEF Passed
    <2>2. ASSUME NEW j \in Calls, got[j] = 1
          PROVE  j \in used' /\ j \notin abandoned /\ ~(at'[caller[j]] = "perform" /\ on[caller[j]] = j)
      <3>1. j \in used /\ j \notin abandoned /\ ~(at[caller[j]] = "perform" /\ on[caller[j]] = j)
        BY <1>1, <2>2 DEF Passed
      <3>2. caller[j] \in Conts
        BY <1>2
      <3> QED
        BY <1>3, <3>1, <3>2
    <2>3. ASSUME NEW i \in 1..Len(q), q[i].call \in Calls
          PROVE  /\ got[q[i].call] = 0 /\ q[i].call \in used' \ (abandoned \cup live')
                 /\ caller[q[i].call] = q[i].c
      <3>1. CASE i \in 1..L
        <4>1. q[i] = queue[i] /\ i \in 1..Len(queue)
          BY <1>8, <3>1
        <4>2. /\ got[queue[i].call] = 0 /\ queue[i].call \in used \ (abandoned \cup live)
              /\ caller[queue[i].call] = queue[i].c
          BY <1>1, <2>3, <4>1 DEF Passed
        <4> QED
          BY <4>1, <4>2
      <3>2. CASE i = L + 1
        <4>1. q[i].call = k /\ q[i].c = d /\ k \in Calls /\ on[d] = k /\ k \in live \ used
          BY <1>6, <1>8, <2>3, <3>2
        <4>2. caller[k] = d /\ k \notin abandoned /\ got[k] = 0
          BY <1>1, <2>1, <2>2, <4>1 DEF Called, Awaited, Passed
        <4> QED
          BY <4>1, <4>2
      <3> QED
        BY <1>8, <3>1, <3>2
    <2> QED
      BY <1>5, <2>0, <2>1, <2>2, <2>3 DEF Passed
  <1>16. Inwards(queue, closed)'
    <2>1. ASSUME NEW i \in 1..Len(q), q[i].mode = "interrupt", q[i].c \in Calls \ closed
          PROVE  \E j \in 1..Len(q) : j > i /\ q[j].c = caller[q[i].c]
      <3>1. i \in 1..L /\ q[i] = queue[i]
        BY <1>6, <1>8, <2>1
      <3>2. PICK j \in 1..L : j > i /\ queue[j].c = caller[queue[i].c]
        BY <1>1, <1>8, <2>1, <3>1 DEF Inwards
      <3>3. j \in 1..Len(q) /\ q[j] = queue[j]
        BY <1>8
      <3> QED
        BY <3>1, <3>2, <3>3
    <2> QED
      BY <1>5, <2>1 DEF Inwards
  <1>17. Noted(at, closed)'
    <2>1. \A c \in defects : c \in Conts
      BY <1>1 DEF TypeOK, Calls, Conts
    <2> QED
      BY <1>1, <1>3, <2>1 DEF Noted, history
  <1> QED
    BY <1>9, <1>10, <1>11, <1>12, <1>13, <1>14, <1>15, <1>16, <1>17 DEF Runs, Waiting

LEMMA WakeOtherRuns ==
  ASSUME Runs, NEW c \in Conts, NEW mode \in {"next", "throw"}, WakeOther(c, mode)
  PROVE  Runs'
  <1>1. PICK k : k = Other
    OBVIOUS
  <1>2. k \in Conts /\ k \notin Calls /\ on[c] \notin Calls
    BY <1>1, SuspendOpsAssumption DEF Other, Closing, Calls, Conts, WakeOther
  <1>3. used' = used \cup ({k} \cap Calls) /\ live' = live \ {k}
    BY <1>2 DEF WakeOther, Runs, TypeOK
  <1>4. /\ Idle /\ at[c] = "wait" /\ at' = [at EXCEPT ![c] = "queued"]
        /\ waits' = Without(waits, {c}) /\ queue' = Append(queue, Task(c, mode, k))
        /\ UNCHANGED <<n, caller, on, stack, closed, orphan, pend, unw, held, result, history>>
    BY <1>1 DEF WakeOther
  <1> QED
    BY <1>2, <1>3, <1>4, QueueRuns

LEMMA ResumeElsewhereRuns ==
  ASSUME Runs, NEW k \in Calls, ResumeElsewhere(k)
  PROVE  Runs'
  <1>1. CASE k \in live
    <2>1. PICK d \in Conts : d = caller[k]
      BY DEF Runs, TypeOK
    <2>2. on[d] = k /\ at[d] \in {"perform", "wait"} /\ k \in live \ used
      BY <1>1, <2>1 DEF Runs, Waiting, Awaited, ResumeElsewhere, Resumable
    <2>3. at[d] # "perform"
      <3>1. ~Has(stack, d)
        BY EmptySeq DEF Has, Idle, ResumeElsewhere
      <3> QED
        BY <3>1 DEF Runs, Stacked
    <2>4. used' = used \cup ({k} \cap Calls) /\ live' = live \ {k} /\ k \in Conts
      BY <1>1 DEF ResumeElsewhere, Take, Calls, Conts
    <2>5. PICK mode \in {"next", "throw"} : mode = "next"
      OBVIOUS
    <2>6. /\ Idle /\ at' = [at EXCEPT ![d] = "queued"]
          /\ waits' = Without(waits, {d}) /\ queue' = Append(queue, Task(d, mode, k))
          /\ UNCHANGED <<n, caller, on, stack, closed, orphan, pend, unw, held, result, history>>
      BY <1>1, <2>1, <2>5 DEF ResumeElsewhere, Take
    <2>7. at[d] = "wait"
      BY <2>2, <2>3
    <2> QED
      BY <2>2, <2>4, <2>6, <2>7, QueueRuns
  <1>2. CASE k \notin live
    <2>1. PICK a, st : a = at /\ st = stack
      OBVIOUS
    <2>2. /\ a \in [Conts -> Places] /\ st \in Seq(Conts) /\ TypeOK /\ Called /\ Stacked(a, st)
          /\ a[Main] # "ended" /\ Listed(a, waits, queue) /\ Awaited(a, live, abandoned)
          /\ Passed(a, live, queue, abandoned) /\ Inwards(queue, closed) /\ Noted(a, closed)
      BY <2>1 DEF Runs, TypeOK, Waiting, Places
    <2>3. /\ k <= n /\ k \notin used /\ Pass(k, a, st) /\ a[caller[k]] = at[caller[k]]
          /\ UNCHANGED <<n, caller, on, queue, closed, abandoned>>
      BY <1>2, <2>1, <2>2 DEF ResumeElsewhere, Resumable, TypeOK, Pass, history
    <2>4. /\ used' \subseteq Calls /\ Stacked(at, stack)' /\ at'[Main] # "ended"
          /\ Listed(at, waits, queue)' /\ Awaited(at, live, abandoned)'
          /\ Passed(at, live, queue, abandoned)' /\ Inwards(queue, closed)'
      BY <2>2, <2>3, PassRuns
    <2>5. TypeOK' /\ Called'
      BY <1>2, <2>2, <2>4 DEF TypeOK, Called, ResumeElsewhere, history
    <2>6. Noted(at, closed)'
      BY <1>2, <2>1, <2>2 DEF Noted, ResumeElsewhere, history
    <2> QED
      BY <2>4, <2>5, <2>6 DEF Runs, Waiting
  <1> QED
    BY <1>1, <1>2

LEMMA CompleteRuns ==
  ASSUME Runs, NEW c \in Conts, NEW d \in Conts, Complete(c, d)
  PROVE  Runs'
  <1>1. /\ TypeOK /\ Called /\ Stacked(at, stack)
        /\ at[Main] # "ended" /\ Listed(at, waits, queue) /\ Awaited(at, live, abandoned)
        /\ Passed(at, live, queue, abandoned) /\ Inwards(queue, closed) /\ Noted(at, closed)
    BY DEF Runs, Waiting
  <1>2. /\ at[d] = "wait" /\ on[d] \notin Calls /\ waits \in Seq(Conts) /\ stack \in Seq(Conts)
        /\ caller \in [Calls -> Conts] /\ at \in [Conts -> Places] /\ live \subseteq Calls
    BY <1>1 DEF Complete, Other, Calls, TypeOK, Places
  <1>3. at' = [at EXCEPT ![d] = "run"] /\ stack' = Append(stack, d) /\ waits' = Without(waits, {d})
    BY DEF Complete
  <1>4. at' \in [Conts -> Places] /\ at'[d] = "run" /\ \A e \in Conts : e # d => at'[e] = at[e]
    BY <1>2, <1>3 DEF Places
  <1>5. RemovedTo(waits, d, waits')
    BY <1>2, <1>3, Removed
  <1>6. PushedTo(Conts, stack, d, stack')
    BY <1>2, <1>3, Pushed
  <1>7. TypeOK' /\ Called'
    <2>1. waits' \in Seq(Conts) /\ stack' \in Seq(Conts)
      BY <1>5, <1>6 DEF RemovedTo, PushedTo
    <2> QED
      BY <1>1, <1>4, <2>1 DEF TypeOK, Called, Complete, Places, history
  <1>8. Stacked(at, stack)'
    <2>1. ~Has(stack, d) /\ Distinct(stack)
      BY <1>1, <1>2 DEF Stacked
    <2>2. Distinct(stack')
      BY <1>6, <2>1 DEF PushedTo
    <2>3. \A e \in Conts : at'[e] \in {"run", "perform"} <=> Has(stack', e)
      BY <1>1, <1>4, <1>6 DEF PushedTo, Stacked
    <2> QED
      BY <2>2, <2>3 DEF Stacked
  <1>9. Listed(at, waits, queue)'
    <2>1. Distinct(waits') /\ \A e \in Conts : at'[e] = "wait" <=> Has(waits', e)
      BY <1>1, <1>4, <1>5 DEF RemovedTo, Listed
    <2>2. \A e \in Conts : at'[e] = "queued" <=> at[e] = "queued"
      BY <1>2, <1>4
    <2>3. queue' = queue
      BY DEF Complete
    <2> QED
      BY <1>1, <2>1, <2>2, <2>3 DEF Listed
  <1>10. Awaited(at, live, abandoned)'
    <2>1. UNCHANGED <<n, caller, used, live, on, abandoned>>
      BY DEF Complete, history
    <2>2. \A k \in live \ used : caller[k] \in Conts
      BY <1>2
    <2> QED
      BY <1>1, <1>2, <1>4, <2>1, <2>2 DEF Awaited
  <1>11. Passed(at, live, queue, abandoned)'
    <2>1. UNCHANGED <<n, caller, used, live, on, abandoned, got, queue>>
      BY DEF Complete, history
    <2> QED
      BY <1>1, <1>2, <1>4, <2>1 DEF Passed
  <1>12. Inwards(queue, closed)'
    BY <1>1 DEF Inwards, Complete
  <1>13. Noted(at, closed)'
    <2>1. \A e \in defects : e \in Conts
      BY <1>1 DEF TypeOK, Calls, Conts
    <2> QED
      BY <1>1, <1>2, <1>4, <2>1 DEF Noted, Complete, history
  <1>14. at'[Main] # "ended"
    <2>1. Main \in Conts
      BY SuspendOpsAssumption DEF Main, Conts
    <2> QED
      BY <1>1, <1>4, <2>1
  <1> QED
    BY <1>7, <1>8, <1>9, <1>10, <1>11, <1>12, <1>13, <1>14 DEF Runs, Waiting

(* The first task is run.                                                  *)
LEMMA RunTaskRuns ==
  ASSUME Runs, RunTask
  PROVE  Runs'
  <1>1. /\ TypeOK /\ Called /\ Stacked(at, stack)
        /\ at[Main] # "ended" /\ Listed(at, waits, queue) /\ Awaited(at, live, abandoned)
        /\ Passed(at, live, queue, abandoned) /\ Inwards(queue, closed) /\ Noted(at, closed)
    BY DEF Runs, Waiting
  <1>2. PICK t, q, L, delivers :
          /\ t = Head(queue) /\ q = queue' /\ L = Len(queue)
          /\ delivers = (t.c = Main /\ (t.mode = "interrupt" \/ (t.mode = "next" /\ Interrupting)))
    OBVIOUS
  <1>3. /\ at' = [at EXCEPT ![t.c] = "run"] /\ stack' = <<t.c>>
        /\ IF delivers THEN Deliver ELSE UNCHANGED <<pend, unw>>
        /\ thrown' = IF t.mode = "interrupt" /\ t.c # Main THEN thrown \cup {t.c} ELSE thrown
        /\ got' = IF t.call # Other /\ ~delivers THEN [got EXCEPT ![t.call] = @ + 1] ELSE got
        /\ queue # <<>> /\ stack = <<>> /\ queue' = Tail(queue)
        /\ UNCHANGED <<n, caller, used, live, on, waits, closed, orphan, held, result, abandoned,
                       defects>>
    BY <1>2 DEF RunTask, Idle
  <1>4. /\ queue \in Seq(Tasks) /\ at \in [Conts -> Places] /\ caller \in [Calls -> Conts]
        /\ got \in [Calls -> Nat]
    BY <1>1 DEF TypeOK, Places, Tasks
  <1>5. /\ t \in Tasks /\ t = queue[1] /\ q \in Seq(Tasks) /\ L \in Nat \ {0} /\ Len(q) = L - 1
        /\ \A i \in 1..(L - 1) : q[i] = queue[i + 1]
    BY <1>2, <1>3, <1>4, HeadTailProperties, LenProperties, EmptySeq
  <1>6. t.c \in Conts /\ t.call \in Conts /\ at[t.c] = "queued"
    <2>1. t.c \in Conts /\ t.call \in Conts
      BY <1>5 DEF Tasks
    <2>2. 1 \in 1..Len(queue) /\ queue[1].c = t.c
      BY <1>2, <1>5
    <2> QED
      BY <1>1, <2>1, <2>2 DEF Listed
  <1>7. at' \in [Conts -> Places] /\ at'[t.c] = "run" /\ \A c \in Conts : c # t.c => at'[c] = at[c]
    BY <1>3, <1>4, <1>6 DEF Places
  <1>8. t.call # Other => t.call \in Calls
    BY <1>6 DEF Other, Calls, Conts
  <1>9. /\ t.call \in Calls => /\ got[t.call] = 0 /\ t.call \in used \ (abandoned \cup live)
                               /\ caller[t.call] = t.c
    <2>1. 1 \in 1..Len(queue) /\ queue[1] = t
      BY <1>2, <1>5
    <2> QED
      BY <1>1, <2>1 DEF Passed
  <1>10. /\ got' \in [Calls -> Nat] /\ \A k \in Calls : k # t.call => got'[k] = got[k]
         /\ t.call \in Calls => got'[t.call] \in {0, 1}
    <2>1. CASE t.call # Other /\ ~delivers
      BY <1>3, <1>4, <1>8, <1>9, <2>1
    <2>2. CASE ~(t.call # Other /\ ~delivers)
      BY <1>3, <1>4, <1>9, <2>2
    <2> QED
      BY <2>1, <2>2
  <1>11. TypeOK'
    <2>1. pend' \subseteq {"scope", "all"} /\ unw' \in {"no", "scope", "all"}
      BY <1>1, <1>3 DEF TypeOK, Deliver
    <2>2. thrown' \subseteq Calls
      <3>1. t.c # Main => t.c \in Calls
        BY <1>6 DEF Main, Calls, Conts
      <3> QED
        BY <1>1, <1>3, <3>1 DEF TypeOK
    <2>3. stack' \in Seq(Conts) /\ queue' \in Seq(Tasks)
      BY <1>2, <1>3, <1>5, <1>6
    <2> QED
      BY <1>1, <1>3, <1>7, <1>10, <2>1, <2>2, <2>3 DEF TypeOK, Places, Tasks
  <1>12. Called'
    BY <1>1, <1>3 DEF Called
  <1>13. Stacked(at, stack)'
    <2>1. \A c \in Conts : at[c] \notin {"run", "perform"}
      <3>1. \A c \in Conts : ~Has(stack, c)
        BY <1>3, EmptySeq DEF Has
      <3> QED
        BY <1>1, <3>1 DEF Stacked
    <2>2. Len(stack') = 1 /\ stack'[1] = t.c
      BY <1>3
    <2>3. \A c : Has(stack', c) <=> c = t.c
      BY <2>2 DEF Has
    <2>4. Distinct(stack')
      BY <2>2 DEF Distinct
    <2> QED
      BY <1>7, <2>1, <2>3, <2>4 DEF Stacked
  <1>14. at'[Main] # "ended"
    <2>1. Main \in Conts
      BY SuspendOpsAssumption DEF Main, Conts
    <2> QED
      BY <1>1, <1>7, <2>1
  <1>15. ASSUME NEW i \in 1..Len(q)
         PROVE  i + 1 \in 1..Len(queue) /\ i + 1 # 1 /\ q[i] = queue[i + 1] /\ queue[i + 1].c # t.c
    <2>1. i + 1 \in 1..Len(queue) /\ i + 1 # 1 /\ q[i] = queue[i + 1] /\ 1 \in 1..Len(queue)
      BY <1>2, <1>5
    <2> QED
      BY <1>1, <1>5, <2>1 DEF Listed
  <1>16. ASSUME NEW i \in 1..Len(queue), i # 1 PROVE i - 1 \in 1..Len(q) /\ q[i - 1] = queue[i]
    <2>1. i - 1 \in 1..(L - 1) /\ (i - 1) + 1 = i
      BY <1>2, <1>5, <1>16
    <2> QED
      BY <1>5, <2>1
  <1>17. Listed(at, waits, queue)'
    <2>1. \A c \in Conts : at'[c] = "wait" <=> Has(waits, c)
      BY <1>1, <1>6, <1>7 DEF Listed
    <2>2. \A i, j \in 1..Len(q) : q[i].c = q[j].c => i = j
      <3> SUFFICES ASSUME NEW i \in 1..Len(q), NEW j \in 1..Len(q), q[i].c = q[j].c PROVE i = j
        OBVIOUS
      <3>1. i + 1 = j + 1
        BY <1>1, <1>15 DEF Listed
      <3> QED
        BY <1>5, <3>1
    <2>3. ASSUME NEW c \in Conts, at'[c] = "queued" PROVE \E i \in 1..Len(q) : q[i].c = c
      <3>1. c # t.c /\ at[c] = "queued"
        BY <1>7, <2>3
      <3>2. PICK i \in 1..Len(queue) : queue[i].c = c
        BY <1>1, <3>1 DEF Listed
      <3>3. i # 1
        BY <1>5, <3>1, <3>2
      <3> QED
        BY <1>16, <3>2, <3>3
    <2>4. ASSUME NEW c \in Conts, NEW i \in 1..Len(q), q[i].c = c PROVE at'[c] = "queued"
      <3>1. c # t.c /\ at[c] = "queued"
        BY <1>1, <1>15, <2>4 DEF Listed
      <3> QED
        BY <1>7, <3>1
    <2>5. Listed(at', waits', q)
      <3>1. Distinct(waits) /\ waits' = waits
        BY <1>1, <1>3 DEF Listed
      <3> QED
        BY ONLY <2>1, <2>2, <2>3, <2>4, <3>1 DEF Listed
    <2> QED
      BY <1>2, <2>5, Zenon
  <1>18. Awaited(at, live, abandoned)'
    <2>1. \A k \in live \ used : caller[k] \in Conts
      BY <1>1, <1>4 DEF TypeOK
    <2> QED
      BY <1>1, <1>3, <1>6, <1>7, <2>1 DEF Awaited
  <1>19. Passed(at, live, queue, abandoned)'
    <2>1. \A k \in Calls : got'[k] \in {0, 1}
      BY <1>1, <1>10 DEF Passed
    <2>2. ASSUME NEW k \in Calls, got'[k] = 1
          PROVE  k \in used /\ k \notin abandoned /\ ~(at'[caller[k]] = "perform" /\ on[caller[k]] = k)
      <3>1. CASE k = t.call
        BY <1>7, <1>9, <3>1
      <3>2. CASE k # t.call
        <4>1. k \in used /\ k \notin abandoned /\ ~(at[caller[k]] = "perform" /\ on[caller[k]] = k)
          BY <1>1, <1>10, <2>2, <3>2 DEF Passed
        <4>2. caller[k] \in Conts
          BY <1>4
        <4> QED
          BY <1>7, <4>1, <4>2
      <3> QED
        BY <3>1, <3>2
    <2>3. ASSUME NEW i \in 1..Len(q), q[i].call \in Calls
          PROVE  /\ got'[q[i].call] = 0 /\ q[i].call \in used \ (abandoned \cup live)
                 /\ caller[q[i].call] = q[i].c
      <3>1. /\ got[q[i].call] = 0 /\ q[i].call \in used \ (abandoned \cup live)
            /\ caller[q[i].call] = q[i].c /\ q[i].c # t.c
        BY <1>1, <1>15, <2>3 DEF Passed
      <3>2. q[i].call # t.call
        BY <1>9, <2>3, <3>1
      <3> QED
        BY <1>10, <2>3, <3>1, <3>2
    <2> QED
      BY <1>2, <1>3, <2>1, <2>2, <2>3 DEF Passed
  <1>20. Inwards(queue, closed)'
    <2>1. ASSUME NEW i \in 1..Len(q), q[i].mode = "interrupt", q[i].c \in Calls \ closed
          PROVE  \E j \in 1..Len(q) : j > i /\ q[j].c = caller[q[i].c]
      <3>1. PICK j \in 1..Len(queue) : j > i + 1 /\ queue[j].c = caller[queue[i + 1].c]
        BY <1>1, <1>15, <2>1 DEF Inwards
      <3>2. j # 1 /\ j - 1 > i
        BY <1>5, <3>1
      <3>3. j - 1 \in 1..Len(q) /\ q[j - 1] = queue[j]
        BY <1>16, <3>2
      <3> QED
        BY <1>15, <3>1, <3>2, <3>3
    <2> QED
      BY <1>2, <1>3, <2>1 DEF Inwards
  <1>21. Noted(at, closed)'
    <2>1. \A c \in defects : c \in Conts
      BY <1>1 DEF TypeOK, Calls, Conts
    <2> QED
      BY <1>1, <1>3, <1>6, <1>7, <2>1 DEF Noted
  <1> QED
    BY <1>3, <1>11, <1>12, <1>13, <1>14, <1>17, <1>18, <1>19, <1>20, <1>21 DEF Runs, Waiting

(* A call is made.                                                         *)
LEMMA PerformRuns ==
  ASSUME Runs, NEW c \in Conts, Perform(c)
  PROVE  Runs'
  <1>1. /\ TypeOK /\ Called /\ Stacked(at, stack)
        /\ at[Main] # "ended" /\ Listed(at, waits, queue) /\ Awaited(at, live, abandoned)
        /\ Passed(at, live, queue, abandoned) /\ Inwards(queue, closed) /\ Noted(at, closed)
    BY DEF Runs, Waiting
  <1>2. at[c] = "run" /\ stack \in Seq(Conts) /\ c <= n
    BY RunningFacts DEF Perform
  <1>3. PICK m : m = n + 1
    OBVIOUS
  <1>4. /\ n \in Nat /\ m \in Calls /\ m \in Conts /\ m > n /\ m # c /\ at[m] = "new" /\ c < m
        /\ m # Main /\ n' = m /\ \A d \in Conts : d > m <=> d > n /\ d # m
    <2>1. n \in Nat /\ m \in Calls /\ m > n /\ m # c /\ c < m /\ m \in Conts /\ m # Main /\ n' = m
      BY <1>1, <1>2, <1>3, SuspendOpsAssumption DEF Perform, TypeOK, Calls, Conts, Main
    <2>2. at[m] = "new"
      BY <1>1, <2>1 DEF Awaited
    <2>3. \A d \in Conts : d > m <=> d > n /\ d # m
      BY <1>3, <2>1 DEF Conts
    <2> QED
      BY <2>1, <2>2, <2>3
  <1>5. /\ caller' = [caller EXCEPT ![m] = c] /\ live' = live \cup {m}
        /\ at' = [at EXCEPT ![c] = "perform", ![m] = "run"] /\ on' = [on EXCEPT ![c] = m]
        /\ stack' = Append(stack, m)
        /\ UNCHANGED <<used, waits, queue, closed, orphan, pend, unw, held, result, abandoned,
                       thrown, defects, got>>
    BY <1>3 DEF Perform, history
  <1>6. /\ used \subseteq Calls /\ live \subseteq Calls /\ caller \in [Calls -> Conts]
        /\ at \in [Conts -> Places] /\ on \in [Conts -> Closing..NCalls] /\ queue \in Seq(Tasks)
    BY <1>1 DEF TypeOK, Places, Tasks
  <1>7. /\ at' \in [Conts -> Places] /\ at'[c] = "perform" /\ at'[m] = "run"
        /\ \A d \in Conts : d # c /\ d # m => at'[d] = at[d]
    BY <1>4, <1>5, <1>6 DEF Places
  <1>8. /\ on' \in [Conts -> Closing..NCalls] /\ on'[c] = m /\ \A d \in Conts : d # c => on'[d] = on[d]
    BY <1>4, <1>5, <1>6 DEF Calls, Closing
  <1>9. /\ caller' \in [Calls -> Conts] /\ caller'[m] = c
        /\ \A k \in Calls : k # m => caller'[k] = caller[k]
    BY <1>4, <1>5, <1>6
  <1>10. PushedTo(Conts, stack, m, stack')
    BY <1>2, <1>4, <1>5, Pushed
  <1>11. m \notin used /\ m \notin abandoned /\ m \notin live
    <2>1. ~(m <= n)
      BY <1>4 DEF Calls
    <2> QED
      BY <1>1, <2>1 DEF Awaited
  <1>12. TypeOK'
    <2>1. n' \in 0..NCalls /\ live' \subseteq Calls /\ stack' \in Seq(Conts)
      BY <1>4, <1>5, <1>6, <1>10 DEF Calls, PushedTo
    <2> QED
      BY <1>1, <1>5, <1>7, <1>8, <1>9, <2>1 DEF TypeOK, Places
  <1>13. Called'
    <2> SUFFICES ASSUME NEW d \in Conts, on'[d] \in Calls
                 PROVE  d < on'[d] /\ on'[d] <= m /\ caller'[on'[d]] = d
      BY <1>4 DEF Called
    <2>1. CASE d = c
      BY <1>4, <1>8, <1>9, <2>1 DEF Calls
    <2>2. CASE d # c
      <3>1. d < on[d] /\ on[d] <= n /\ caller[on[d]] = d /\ on'[d] = on[d] /\ on[d] \in Calls
        BY <1>1, <1>8, <2>2 DEF Called
      <3>2. on[d] # m /\ on[d] <= m
        BY <1>3, <1>4, <3>1 DEF Calls
      <3> QED
        BY <1>9, <3>1, <3>2
    <2> QED
      BY <2>1, <2>2
  <1>14. Stacked(at, stack)'
    <2>1. ~Has(stack, m) /\ Distinct(stack)
      BY <1>1, <1>4 DEF Stacked
    <2>2. Distinct(stack')
      BY <1>10, <2>1 DEF PushedTo
    <2>3. \A d \in Conts : at'[d] \in {"run", "perform"} <=> Has(stack', d)
      BY <1>1, <1>2, <1>7, <1>10 DEF PushedTo, Stacked
    <2> QED
      BY <2>2, <2>3 DEF Stacked
  <1>15. at'[Main] # "ended"
    <2>1. Main \in Conts
      BY SuspendOpsAssumption DEF Main, Conts
    <2> QED
      BY <1>1, <1>7, <2>1
  <1>16. Listed(at, waits, queue)'
    <2>1. \A d \in Conts : (at'[d] = "wait" <=> at[d] = "wait") /\ (at'[d] = "queued" <=> at[d] = "queued")
      BY <1>2, <1>4, <1>7
    <2>2. Listed(at, waits, queue) /\ waits' = waits /\ queue' = queue
      BY <1>1, <1>5
    <2>3. Listed(at', waits, queue)
      BY ONLY <2>1, <2>2 DEF Listed
    <2> QED
      BY <2>2, <2>3
  <1>17. Awaited(at, live, abandoned)'
    <2>1. \A d \in Conts : at'[d] = "new" <=> d > m
      BY <1>1, <1>2, <1>4, <1>7 DEF Awaited
    <2>2. \A d \in Conts : at'[d] = "perform" => on'[d] \in Calls /\ on'[d] \in live'
      BY <1>1, <1>4, <1>5, <1>7, <1>8 DEF Awaited
    <2>3. \A d \in Conts : at'[d] = "wait" /\ on'[d] \in Calls => on'[d] \in live' \ used
      BY <1>1, <1>5, <1>7, <1>8 DEF Awaited
    <2>4. \A k \in live' : k <= m /\ k \notin abandoned
      BY <1>1, <1>3, <1>4, <1>5, <1>6, <1>11 DEF Awaited, Calls
    <2>5. ASSUME NEW k \in live' \ used
          PROVE  on'[caller'[k]] = k /\ at'[caller'[k]] \in {"perform", "wait"}
      <3>1. CASE k = m
        BY <1>7, <1>8, <1>9, <3>1
      <3>2. CASE k # m
        <4>1. k \in live \ used /\ caller'[k] = caller[k] /\ caller[k] \in Conts
          BY <1>5, <1>6, <1>9, <3>2
        <4>2. on[caller[k]] = k /\ at[caller[k]] \in {"perform", "wait"}
          BY <1>1, <4>1 DEF Awaited
        <4>3. caller[k] # c /\ caller[k] # m
          BY <1>2, <1>4, <4>2
        <4> QED
          BY <1>7, <1>8, <4>1, <4>2, <4>3
      <3> QED
        BY <3>1, <3>2
    <2>6. \A k \in used \cup abandoned : k <= m
      <3>1. \A k \in used \cup abandoned : k <= n /\ k \in Int
        BY <1>1 DEF Awaited, TypeOK, Calls
      <3> QED
        BY <1>3, <1>4, <3>1
    <2> QED
      BY <1>4, <1>5, <2>1, <2>2, <2>3, <2>4, <2>5, <2>6 DEF Awaited
  <1>18. Passed(at, live, queue, abandoned)'
    <2>1. ASSUME NEW k \in Calls, got[k] = 1
          PROVE  k \in used /\ k \notin abandoned /\ ~(at'[caller'[k]] = "perform" /\ on'[caller'[k]] = k)
      <3>1. k \in used /\ k \notin abandoned /\ ~(at[caller[k]] = "perform" /\ on[caller[k]] = k)
        BY <1>1, <2>1 DEF Passed
      <3>2. k # m /\ caller'[k] = caller[k] /\ caller[k] \in Conts
        BY <1>6, <1>9, <1>11, <3>1
      <3> QED
        BY <1>7, <1>8, <3>1, <3>2
    <2>2. ASSUME NEW i \in 1..Len(queue), queue[i].call \in Calls
          PROVE  /\ got[queue[i].call] = 0 /\ queue[i].call \in used \ (abandoned \cup live')
                 /\ caller'[queue[i].call] = queue[i].c
      <3>1. /\ got[queue[i].call] = 0 /\ queue[i].call \in used \ (abandoned \cup live)
            /\ caller[queue[i].call] = queue[i].c
        BY <1>1, <2>2 DEF Passed
      <3>2. queue[i].call # m
        BY <1>11, <3>1
      <3> QED
        BY <1>5, <1>9, <2>2, <3>1, <3>2
    <2>3. \A k \in Calls : got[k] \in {0, 1}
      BY <1>1 DEF Passed
    <2> QED
      BY <1>5, <2>1, <2>2, <2>3 DEF Passed
  <1>19. Inwards(queue, closed)'
    <2>1. ASSUME NEW i \in 1..Len(queue), queue[i].c \in Calls PROVE caller'[queue[i].c] = caller[queue[i].c]
      <3>1. queue[i].c \in Conts
        BY <2>1 DEF Calls, Conts
      <3>2. at[queue[i].c] = "queued"
        BY <1>1, <3>1 DEF Listed
      <3> QED
        BY <1>4, <1>9, <2>1, <3>2
    <2> QED
      BY <1>1, <1>5, <2>1 DEF Inwards
  <1>20. Noted(at, closed)'
    <2>1. \A d \in defects : d \in Conts
      BY <1>1 DEF TypeOK, Calls, Conts
    <2> QED
      BY <1>1, <1>2, <1>4, <1>5, <1>7, <2>1 DEF Noted
  <1> QED
    BY <1>12, <1>13, <1>14, <1>15, <1>16, <1>17, <1>18, <1>19, <1>20 DEF Runs, Waiting

(* Continuation c waits from now on.                                       *)
LEMMA WaitRuns ==
  ASSUME Runs, NEW c \in Conts, at[c] \in {"run", "perform"}, stack # <<>>, Last(stack) = c,
         at' = [at EXCEPT ![c] = "wait"], stack' = Front(stack), waits' = Append(waits, c),
         on' \in [Conts -> Closing..NCalls], \A d \in Conts : d # c => on'[d] = on[d],
         on'[c] \in Calls => on'[c] = on[c] /\ on[c] \in live \ used,
         at[c] = "perform" => on'[c] = on[c],
         UNCHANGED <<n, caller, used, live, queue, closed, orphan, pend, unw, held, result, history>>
  PROVE  Runs'
  <1>1. /\ TypeOK /\ Called /\ Stacked(at, stack)
        /\ at[Main] # "ended" /\ Listed(at, waits, queue) /\ Awaited(at, live, abandoned)
        /\ Passed(at, live, queue, abandoned) /\ Inwards(queue, closed) /\ Noted(at, closed)
    BY DEF Runs, Waiting
  <1>2. /\ waits \in Seq(Conts) /\ stack \in Seq(Conts) /\ live \subseteq Calls
        /\ caller \in [Calls -> Conts] /\ at \in [Conts -> Places]
    BY <1>1 DEF TypeOK, Places
  <1>3. at' \in [Conts -> Places] /\ at'[c] = "wait" /\ \A d \in Conts : d # c => at'[d] = at[d]
    BY <1>2 DEF Places
  <1>4. PushedTo(Conts, waits, c, waits')
    BY <1>2, Pushed
  <1>5. PoppedTo(Conts, stack, stack')
    BY <1>2, Popped
  <1>6. UNCHANGED <<n, caller, used, live, queue, closed, orphan, abandoned, thrown, defects, got>>
    BY DEF history
  <1>7. TypeOK'
    <2>1. waits' \in Seq(Conts) /\ stack' \in Seq(Conts)
      BY <1>4, <1>5 DEF PushedTo, PoppedTo
    <2> QED
      BY <1>1, <1>3, <1>6, <2>1 DEF TypeOK, Places
  <1>8. Called'
    BY <1>1 DEF Called
  <1>9. Stacked(at, stack)'
    BY <1>1, <1>3, <1>5 DEF PoppedTo, Stacked
  <1>10. at'[Main] # "ended"
    <2>1. Main \in Conts
      BY SuspendOpsAssumption DEF Main, Conts
    <2> QED
      BY <1>1, <1>3, <2>1
  <1>11. Listed(at, waits, queue)'
    <2>1. ~Has(waits, c)
      BY <1>1 DEF Listed
    <2>2. Distinct(waits') /\ \A d \in Conts : at'[d] = "wait" <=> Has(waits', d)
      BY <1>1, <1>3, <1>4, <2>1 DEF PushedTo, Listed
    <2>3. \A d \in Conts : at'[d] = "queued" <=> at[d] = "queued"
      BY <1>3
    <2> QED
      BY <1>1, <2>2, <2>3 DEF Listed
  <1>12. Awaited(at, live, abandoned)'
    <2>1. \A d \in Conts : at'[d] = "new" <=> d > n
      BY <1>1, <1>3 DEF Awaited
    <2>2. \A d \in Conts : at'[d] = "perform" => on'[d] \in Calls /\ on'[d] \in live
      BY <1>1, <1>3 DEF Awaited
    <2>3. \A d \in Conts : at'[d] = "wait" /\ on'[d] \in Calls => on'[d] \in live \ used
      BY <1>1, <1>3 DEF Awaited
    <2>4. ASSUME NEW k \in live \ used
          PROVE  on'[caller[k]] = k /\ at'[caller[k]] \in {"perform", "wait"}
      <3>1. caller[k] \in Conts /\ on[caller[k]] = k /\ at[caller[k]] \in {"perform", "wait"}
        BY <1>1, <1>2 DEF Awaited
      <3> QED
        BY <1>3, <3>1
    <2> QED
      BY <1>1, <1>6, <2>1, <2>2, <2>3, <2>4 DEF Awaited
  <1>13. Passed(at, live, queue, abandoned)'
    <2>1. ASSUME NEW k \in Calls, got[k] = 1
          PROVE  k \in used /\ k \notin abandoned /\ ~(at'[caller[k]] = "perform" /\ on'[caller[k]] = k)
      <3>1. /\ k \in used /\ k \notin abandoned /\ ~(at[caller[k]] = "perform" /\ on[caller[k]] = k)
            /\ caller[k] \in Conts
        BY <1>1, <1>2, <2>1 DEF Passed
      <3> QED
        BY <1>3, <3>1
    <2> QED
      BY <1>1, <1>6, <2>1 DEF Passed
  <1>14. Inwards(queue, closed)'
    BY <1>1, <1>6 DEF Inwards
  <1>15. Noted(at, closed)'
    <2>1. \A d \in defects : d \in Conts
      BY <1>1 DEF TypeOK, Calls, Conts
    <2> QED
      BY <1>1, <1>3, <1>6, <2>1 DEF Noted
  <1> QED
    BY <1>7, <1>8, <1>9, <1>10, <1>11, <1>12, <1>13, <1>14, <1>15 DEF Runs, Waiting

(* A call returns.                                                         *)
LEMMA ReturnsRuns ==
  ASSUME Runs, NEW c \in Conts, Returns(c)
  PROVE  Runs'
  <1>1. /\ TypeOK /\ Called /\ Stacked(at, stack)
        /\ at[Main] # "ended" /\ Listed(at, waits, queue) /\ Awaited(at, live, abandoned)
        /\ Passed(at, live, queue, abandoned) /\ Inwards(queue, closed) /\ Noted(at, closed)
    BY DEF Runs, Waiting
  <1>2. at[c] = "perform" /\ on[c] \in Calls /\ on[c] \in live
    BY <1>1 DEF Returns, Awaited
  <1>3. CASE ~Continues(c)
    <2>1. on[c] \in live \ used /\ on' \in [Conts -> Closing..NCalls]
      BY <1>1, <1>2, <1>3 DEF Continues, Returns, TypeOK
    <2>2. /\ stack # <<>> /\ Last(stack) = c /\ at' = [at EXCEPT ![c] = "wait"]
          /\ stack' = Front(stack) /\ waits' = Append(waits, c)
          /\ UNCHANGED <<n, caller, used, live, on, queue, closed, orphan, pend, unw, held, result, history>>
      BY <1>3 DEF Returns, history
    <2>3. /\ \A d \in Conts : d # c => on'[d] = on[d]
          /\ on'[c] = on[c] /\ at[c] \in {"run", "perform"}
      BY <1>2, <2>2
    <2>4. UNCHANGED <<n, caller, used, live, queue, closed, orphan, pend, unw, held, result, history>>
      BY <2>2
    <2> QED
      BY <2>1, <2>2, <2>3, <2>4, WaitRuns
  <1>4. CASE Continues(c)
    <2>1. PICK k \in Calls : k = on[c]
      BY <1>2
    <2>2. caller[k] = c /\ got[k] = 0 /\ k \in used /\ k \in live /\ k \notin abandoned
      <3>1. caller[k] = c /\ k \in used /\ k \in live /\ k \notin abandoned
        BY <1>1, <1>2, <1>4, <2>1 DEF Called, Continues, Awaited
      <3> QED
        BY <1>1, <1>2, <2>1, <3>1 DEF Passed
    <2>3. /\ at' = [at EXCEPT ![c] = "run"] /\ got' = [got EXCEPT ![k] = @ + 1]
          /\ UNCHANGED <<n, caller, used, live, on, queue, closed, orphan, pend, unw, held, result,
                         abandoned, thrown, defects, stack, waits>>
      BY <1>4, <2>1 DEF Returns
    <2>4. /\ caller \in [Calls -> Conts] /\ at \in [Conts -> Places] /\ got \in [Calls -> Nat]
          /\ live \subseteq Calls
      BY <1>1 DEF TypeOK, Places
    <2>5. at' \in [Conts -> Places] /\ at'[c] = "run" /\ \A d \in Conts : d # c => at'[d] = at[d]
      BY <2>3, <2>4 DEF Places
    <2>6. got' \in [Calls -> Nat] /\ got'[k] = 1 /\ \A j \in Calls : j # k => got'[j] = got[j]
      BY <2>2, <2>3, <2>4
    <2>7. TypeOK' /\ Called'
      BY <1>1, <2>3, <2>5, <2>6 DEF TypeOK, Called, Places
    <2>8. Stacked(at, stack)'
      BY <1>1, <1>2, <2>3, <2>5 DEF Stacked
    <2>9. at'[Main] # "ended"
      <3>1. Main \in Conts
        BY SuspendOpsAssumption DEF Main, Conts
      <3> QED
        BY <1>1, <2>5, <3>1
    <2>10. Listed(at, waits, queue)'
      <3>1. \A d \in Conts : (at'[d] = "wait" <=> at[d] = "wait") /\ (at'[d] = "queued" <=> at[d] = "queued")
        BY <1>2, <2>5
      <3> QED
        BY <1>1, <2>3, <3>1 DEF Listed
    <2>11. Awaited(at, live, abandoned)'
      <3>1. ASSUME NEW j \in live \ used
            PROVE  on[caller[j]] = j /\ at'[caller[j]] \in {"perform", "wait"}
        <4>1. on[caller[j]] = j /\ at[caller[j]] \in {"perform", "wait"} /\ caller[j] \in Conts
          BY <1>1, <2>4 DEF Awaited
        <4>2. caller[j] # c
          BY <2>1, <2>2, <4>1
        <4> QED
          BY <2>5, <4>1, <4>2
      <3> QED
        BY <1>1, <1>2, <2>3, <2>5, <3>1 DEF Awaited
    <2>12. Passed(at, live, queue, abandoned)'
      <3>1. \A j \in Calls : got'[j] \in {0, 1}
        BY <1>1, <2>6 DEF Passed
      <3>2. ASSUME NEW j \in Calls, got'[j] = 1
            PROVE  j \in used /\ j \notin abandoned /\ ~(at'[caller[j]] = "perform" /\ on[caller[j]] = j)
        <4>1. CASE j = k
          BY <2>2, <2>5, <4>1
        <4>2. CASE j # k
          BY <1>1, <2>4, <2>5, <2>6, <3>2, <4>2 DEF Passed
        <4> QED
          BY <4>1, <4>2
      <3>3. ASSUME NEW i \in 1..Len(queue), queue[i].call \in Calls
            PROVE  /\ got'[queue[i].call] = 0 /\ queue[i].call \in used \ (abandoned \cup live)
                   /\ caller[queue[i].call] = queue[i].c
        BY <1>1, <2>2, <2>6, <3>3 DEF Passed
      <3> QED
        BY <2>3, <3>1, <3>2, <3>3 DEF Passed
    <2>13. Inwards(queue, closed)'
      BY <1>1, <2>3 DEF Inwards
    <2>14. Noted(at, closed)'
      <3>1. \A d \in defects : d \in Conts
        BY <1>1 DEF TypeOK, Calls, Conts
      <3> QED
        BY <1>1, <1>2, <2>3, <2>5, <3>1 DEF Noted
    <2> QED
      BY <2>7, <2>8, <2>9, <2>10, <2>11, <2>12, <2>13, <2>14 DEF Runs, Waiting
  <1> QED
    BY <1>3, <1>4

LEMMA SuspendRuns ==
  ASSUME Runs, NEW c \in Conts, NEW o \in {Other, Closing}, Suspend(c, o)
  PROVE  Runs'
  <1>1. at[c] \in {"run", "perform"} /\ at[c] # "perform" /\ stack # <<>> /\ Last(stack) = c
    BY DEF Suspend, Running
  <1>2. /\ at' = [at EXCEPT ![c] = "wait"] /\ stack' = Front(stack) /\ waits' = Append(waits, c)
        /\ UNCHANGED <<n, caller, used, live, queue, closed, orphan, pend, unw, held, result, history>>
    BY DEF Suspend
  <1>3. o \notin Calls /\ o \in Closing..NCalls
    BY SuspendOpsAssumption DEF Other, Closing, Calls
  <1>4. on \in [Conts -> Closing..NCalls] /\ on' = [on EXCEPT ![c] = o]
    BY DEF Runs, TypeOK, Suspend
  <1>5. /\ on' \in [Conts -> Closing..NCalls] /\ on'[c] = o
        /\ \A d \in Conts : d # c => on'[d] = on[d]
    BY <1>3, <1>4
  <1>6. on'[c] \notin Calls
    BY <1>3, <1>5
  <1> QED
    BY <1>1, <1>2, <1>5, <1>6, WaitRuns

(* Only interruptions and holds change.                                    *)
LEMMA FlagsRun ==
  ASSUME Runs, pend' \subseteq {"scope", "all"}, unw' \in {"no", "scope", "all"}, held' \subseteq Conts,
         UNCHANGED <<n, caller, used, live, at, on, stack, waits, queue, closed, orphan, result, history>>
  PROVE  Runs'
  <1>1. UNCHANGED <<n, caller, used, live, at, on, stack, waits, queue, closed, orphan, result,
                    abandoned, thrown, defects, got>>
    BY DEF history
  <1>2. TypeOK' /\ Called' /\ Stacked(at, stack)' /\ at'[Main] # "ended"
    BY <1>1 DEF Runs, TypeOK, Called, Stacked
  <1>3. Listed(at, waits, queue)' /\ Inwards(queue, closed)' /\ Noted(at, closed)'
    BY <1>1 DEF Runs, Waiting, Listed, Inwards, Noted
  <1>4. Awaited(at, live, abandoned)' /\ Passed(at, live, queue, abandoned)'
    BY <1>1 DEF Runs, Waiting, Awaited, Passed
  <1> QED
    BY <1>2, <1>3, <1>4 DEF Runs, Waiting

LEMMA InterruptedRuns ==
  ASSUME Runs, Interrupted
  PROVE  Runs'
  <1>1. pend' \subseteq {"scope", "all"} /\ unw' \in {"no", "scope", "all"} /\ held' \subseteq Conts
    BY DEF Interrupted, Deliver, Runs, TypeOK
  <1> QED
    BY <1>1, FlagsRun DEF Interrupted

LEMMA EndBodyRuns ==
  ASSUME Runs, EndBody
  PROVE  Runs'
  <1>1. pend' \subseteq {"scope", "all"} /\ unw' \in {"no", "scope", "all"} /\ held' \subseteq Conts
    BY DEF EndBody, Runs, TypeOK
  <1> QED
    BY <1>1, FlagsRun DEF EndBody

LEMMA HoldRuns ==
  ASSUME Runs, NEW c \in Conts, Hold(c)
  PROVE  Runs'
  <1>1. pend' \subseteq {"scope", "all"} /\ unw' \in {"no", "scope", "all"} /\ held' \subseteq Conts
    BY DEF Hold, Runs, TypeOK
  <1> QED
    BY <1>1, FlagsRun DEF Hold

-----------------------------------------------------------------------------
(* The ends.                                                               *)

LEMMA EndMainEnds ==
  ASSUME Runs, NEW o \in Outcomes, EndMain(o)
  PROVE  Over' /\ Ends'
  <1>1. /\ TypeOK /\ Stacked(at, stack) /\ Awaited(at, live, abandoned)
        /\ Passed(at, live, queue, abandoned) /\ Noted(at, closed)
    BY DEF Runs, Waiting
  <1>2. stack # <<>> /\ stack \in Seq(Conts) /\ Main \in Conts
    BY RunningFacts DEF EndMain
  <1>3. /\ result' = (IF o = "interrupted" /\ orphan THEN "defect" ELSE o)
        /\ queue' = <<>> /\ waits' = <<>> /\ at' = [at EXCEPT ![Main] = "ended"]
        /\ stack' = Front(stack)
        /\ UNCHANGED <<n, caller, used, live, on, closed, orphan, pend, unw, held, abandoned,
                       thrown, defects, got>>
    BY DEF EndMain, RootEnded, Finish, history
  <1>4. result' \in Outcomes /\ result' # "none" /\ (result' = "interrupted" => ~orphan)
    BY <1>3 DEF Outcomes
  <1>5. PoppedTo(Conts, stack, stack')
    BY <1>2, <1>3, Popped
  <1>6. at \in [Conts -> Places] /\ at' \in [Conts -> Places] /\ \A c \in Conts : at'[c] = "wait" => at[c] = "wait"
    BY <1>1, <1>2, <1>3 DEF TypeOK, Places
  <1>7. TypeOK'
    <2>1. queue' \in Seq(Tasks) /\ waits' \in Seq(Conts) /\ stack' \in Seq(Conts)
      BY <1>3, <1>5, EmptySeq DEF PoppedTo
    <2> QED
      BY <1>1, <1>3, <1>4, <1>6, <2>1 DEF TypeOK, Places, Tasks
  <1>8. Distinct(stack')
    BY <1>1, <1>5 DEF PoppedTo, Stacked
  <1>9. \A k \in Calls : got[k] \in {0, 1} /\ (got[k] = 1 => k \notin abandoned)
    BY <1>1 DEF Passed
  <1>10. \A c \in Conts : at'[c] = "wait" /\ on[c] \in Calls => on[c] \in live \ used
    BY <1>1, <1>6 DEF Awaited
  <1>11. \A k \in closed \cap defects : orphan
    BY <1>1 DEF Noted
  <1> QED
    BY <1>3, <1>4, <1>7, <1>8, <1>9, <1>10, <1>11 DEF Ends, Over

(* An implementation ends: a and st are where continuations are, and the   *)
(* stack, without it.                                                      *)
EndedImpl(k, a, st) ==
  /\ a \in [Conts -> Places] /\ st \in Seq(Conts) /\ Stacked(a, st) /\ a[Main] # "ended"
  /\ Listed(a, waits, queue) /\ Awaited(a, live, abandoned)
  /\ Passed(a, live, queue, abandoned) /\ a[k] = "ended"
  /\ (\A d \in Conts : d # k => a[d] = at[d]) /\ (k \in live \ used => caller[k] # k)

LEMMA EndsImpl ==
  ASSUME Runs, NEW k \in Calls, Running(k), NEW a, a = [at EXCEPT ![k] = "ended"],
         NEW st, st = Front(stack)
  PROVE  EndedImpl(k, a, st)
  <1>1. /\ TypeOK /\ Called /\ Stacked(at, stack)
        /\ at[Main] # "ended" /\ Listed(at, waits, queue) /\ Awaited(at, live, abandoned)
        /\ Passed(at, live, queue, abandoned)
    BY DEF Runs, Waiting
  <1>2. /\ stack # <<>> /\ stack \in Seq(Conts) /\ at[k] = "run" /\ Last(stack) = k /\ k <= n
        /\ k \in Conts
    BY RunningFacts
  <1>3. caller \in [Calls -> Conts] /\ at \in [Conts -> Places] /\ live \subseteq Calls
    BY <1>1 DEF TypeOK, Places
  <1>4. a \in [Conts -> Places] /\ a[k] = "ended" /\ \A d \in Conts : d # k => a[d] = at[d]
    BY <1>2, <1>3 DEF Places
  <1>5. PoppedTo(Conts, stack, st)
    BY <1>2, Popped
  <1>6. st \in Seq(Conts) /\ Stacked(a, st)
    BY <1>1, <1>2, <1>4, <1>5 DEF PoppedTo, Stacked
  <1>7. a[Main] # "ended"
    <2>1. Main \in Conts /\ Main # k
      BY SuspendOpsAssumption DEF Main, Calls, Conts
    <2> QED
      BY <1>1, <1>4, <2>1
  <1>8. Listed(a, waits, queue)
    <2>1. \A d \in Conts : (a[d] = "wait" <=> at[d] = "wait") /\ (a[d] = "queued" <=> at[d] = "queued")
      BY <1>2, <1>4
    <2> QED
      BY <1>1, <2>1 DEF Listed
  <1>9. Awaited(a, live, abandoned)
    <2>1. \A j \in live \ used : caller[j] \in Conts
      BY <1>3
    <2>2. \A d \in Conts : a[d] = "new" <=> d > n
      BY <1>1, <1>2, <1>4 DEF Awaited
    <2> QED
      BY <1>1, <1>2, <1>4, <2>1, <2>2 DEF Awaited
  <1>10. Passed(a, live, queue, abandoned)
    <2>1. \A j \in Calls : caller[j] \in Conts
      BY <1>3
    <2> QED
      BY <1>1, <1>2, <1>4, <2>1 DEF Passed
  <1>11. k \in live \ used => caller[k] # k
    BY <1>1, <1>2 DEF Awaited
  <1> QED
    BY <1>4, <1>6, <1>7, <1>8, <1>9, <1>10, <1>11 DEF EndedImpl

LEMMA EndImplKeeps ==
  ASSUME Runs, NEW k \in Calls, NEW o \in Outcomes, EndImpl(k, o), ~Over
  PROVE  Inv'
  <1>1. PICK a, st : a = [at EXCEPT ![k] = "ended"] /\ st = Front(stack)
    OBVIOUS
  <1>2. /\ a \in [Conts -> Places] /\ st \in Seq(Conts) /\ Stacked(a, st) /\ a[Main] # "ended"
        /\ Listed(a, waits, queue) /\ Awaited(a, live, abandoned)
        /\ Passed(a, live, queue, abandoned) /\ a[k] = "ended"
        /\ (\A d \in Conts : d # k => a[d] = at[d]) /\ (k \in live \ used => caller[k] # k)
    <2>1. Running(k)
      BY DEF EndImpl
    <2>2. EndedImpl(k, a, st)
      BY <1>1, <2>1, EndsImpl
    <2> QED
      BY <2>2 DEF EndedImpl
  <1>3. TypeOK /\ Called /\ Noted(at, closed) /\ Inwards(queue, closed)
    BY DEF Runs, Waiting
  <1>4. /\ defects' = (IF k \in thrown /\ o = "defect" THEN defects \cup {k} ELSE defects)
        /\ defects' \subseteq Calls
        /\ UNCHANGED <<n, caller, on, closed, pend, unw, held, abandoned, thrown>>
    BY <1>3 DEF EndImpl, TypeOK
  <1>5. Called'
    BY <1>3, <1>4 DEF Called
  <1>6. \A d \in defects' : d \in Conts /\ a[d] = "ended"
    <2>1. \A d \in defects' : d \in Conts
      BY <1>4 DEF Calls, Conts
    <2> QED
      BY <1>2, <1>3, <1>4, <2>1 DEF Noted
  <1>7. CASE k \in closed \/ o = "value"
    <2>1. /\ orphan' = (orphan \/ (k \in closed /\ o = "defect")) /\ at' = a /\ stack' = st
          /\ UNCHANGED <<used, live, waits, queue, got, result>>
      BY <1>1, <1>7 DEF EndImpl
    <2>2. TypeOK' /\ Stacked(at, stack)' /\ at'[Main] # "ended"
      <3>1. orphan' \in BOOLEAN
        BY <2>1
      <3> QED
        BY <1>2, <1>3, <1>4, <2>1, <3>1 DEF TypeOK, Places, Stacked
    <2>3. Listed(at, waits, queue)' /\ Inwards(queue, closed)'
      BY <1>2, <1>3, <1>4, <2>1 DEF Listed, Inwards
    <2>4. Awaited(at, live, abandoned)' /\ Passed(at, live, queue, abandoned)'
      BY <1>2, <1>4, <2>1 DEF Awaited, Passed
    <2>5. Noted(at, closed)'
      <3>1. ASSUME NEW d \in closed \cap defects' PROVE orphan'
        <4>1. CASE d \in defects
          <5>1. orphan
            BY <1>3, <3>1, <4>1, Zenon DEF Noted
          <5> QED
            BY <2>1, <5>1, Zenon
        <4>2. CASE d \notin defects
          <5>1. d = k /\ o = "defect" /\ k \in closed
            BY <1>4, <3>1, <4>2
          <5> QED
            BY <2>1, <5>1, Zenon
        <4> QED
          BY <4>1, <4>2
      <3> QED
        BY <1>4, <1>6, <2>1, <3>1 DEF Noted
    <2>6. ~Over'
      BY <2>1 DEF Over
    <2> QED
      BY <1>5, <2>2, <2>3, <2>4, <2>5, <2>6 DEF Inv, Runs, Waiting
  <1>8. CASE k \notin closed /\ o # "value" /\ k \in used
    <2>1. /\ result' = (IF o = "interrupted" THEN o ELSE "defect") /\ queue' = <<>> /\ waits' = <<>>
          /\ at' = a /\ stack' = st /\ UNCHANGED <<used, live, got, orphan>>
      BY <1>1, <1>8 DEF EndImpl, Finish
    <2>2. result' \in Outcomes /\ Over'
      BY <2>1 DEF Outcomes, Over
    <2>3. TypeOK'
      <3>1. queue' \in Seq(Tasks) /\ waits' \in Seq(Conts)
        BY <2>1, EmptySeq
      <3> QED
        BY <1>2, <1>3, <1>4, <2>1, <2>2, <3>1 DEF TypeOK, Places, Tasks
    <2>4. Ends'
      <3>1. Distinct(stack') /\ at'[Main] # "ended"
        BY <1>2, <2>1 DEF Stacked
      <3>2. \A j \in Calls : got[j] \in {0, 1} /\ (got[j] = 1 => j \notin abandoned)
        BY <1>2 DEF Passed
      <3>3. \A c \in Conts : at'[c] = "wait" /\ on[c] \in Calls => on[c] \in live \ used
        BY <1>2, <2>1 DEF Awaited
      <3>4. \A d \in closed \cap defects' : orphan
        BY <1>3, <1>4, <1>8 DEF Noted
      <3> QED
        BY <1>4, <2>1, <2>3, <3>1, <3>2, <3>3, <3>4 DEF Ends
    <2> QED
      BY <2>2, <2>4 DEF Inv
  <1>9. CASE k \notin closed /\ o # "value" /\ k \notin used
    <2>1. Pass(k, a, st) /\ UNCHANGED <<queue, result, orphan>>
      BY <1>1, <1>9 DEF EndImpl
    <2>2. k <= n /\ (k \in live => a[caller[k]] = at[caller[k]])
      <3>1. k <= n
        BY RunningFacts DEF EndImpl
      <3>2. caller[k] \in Conts
        BY <1>3 DEF TypeOK
      <3> QED
        BY <1>2, <1>9, <3>1, <3>2
    <2>3. UNCHANGED <<n, caller, on, queue, closed, abandoned>>
      BY <1>4, <2>1
    <2>4. /\ used' \subseteq Calls /\ live' \subseteq Calls /\ waits' \in Seq(Conts)
          /\ at' \in [Conts -> Places] /\ stack' \in Seq(Conts) /\ got' \in [Calls -> Nat]
          /\ Stacked(at, stack)' /\ at'[Main] # "ended"
          /\ Listed(at, waits, queue)' /\ Awaited(at, live, abandoned)'
          /\ Passed(at, live, queue, abandoned)' /\ Inwards(queue, closed)'
          /\ \A d \in Conts : a[d] = "ended" => at'[d] = "ended"
      BY <1>2, <1>3, <1>9, <2>1, <2>2, <2>3, PassRuns
    <2>5. TypeOK'
      BY <1>3, <1>4, <2>1, <2>4 DEF TypeOK, Places
    <2>6. Noted(at, closed)'
      BY <1>3, <1>4, <1>6, <1>9, <2>1, <2>4 DEF Noted
    <2>7. ~Over'
      BY <2>1 DEF Over
    <2> QED
      BY <1>5, <2>4, <2>5, <2>6, <2>7 DEF Inv, Runs, Waiting
  <1> QED
    BY <1>7, <1>8, <1>9

-----------------------------------------------------------------------------
LEMMA InitInv == Init => Inv
  <1> SUFFICES ASSUME Init PROVE Runs /\ ~Over
    BY DEF Inv
  <1>1. ~Over
    BY DEF Init, Over
  <1>2. Main \in Conts /\ Main \notin Calls /\ Calls \subseteq Conts /\ 0 \in 0..NCalls
        /\ Other \in Closing..NCalls /\ Other \notin Calls
    BY SuspendOpsAssumption DEF Main, Conts, Calls, Other, Closing
  <1>3. /\ at \in [Conts -> Places] /\ at[Main] = "run"
        /\ \A c \in Conts : at[c] = (IF c = Main THEN "run" ELSE "new")
    BY <1>2 DEF Init, Places
  <1>4. /\ stack \in Seq(Conts) /\ waits \in Seq(Conts) /\ queue \in Seq(Tasks)
        /\ Len(waits) = 0 /\ Len(queue) = 0 /\ Len(stack) = 1 /\ stack[1] = Main
    BY <1>2, EmptySeq DEF Init
  <1>5. TypeOK
    BY <1>2, <1>3, <1>4 DEF Init, TypeOK, Places, Tasks
  <1>6. Called
    BY <1>2 DEF Init, Called
  <1>7. Stacked(at, stack)
    BY <1>3, <1>4 DEF Stacked, Distinct, Has
  <1>8. Listed(at, waits, queue) /\ Inwards(queue, closed)
    BY <1>3, <1>4 DEF Listed, Distinct, Has, Inwards
  <1>9. Awaited(at, live, abandoned)
    BY <1>3 DEF Init, Awaited, Main, Conts
  <1>10. Passed(at, live, queue, abandoned)
    BY <1>4 DEF Init, Passed
  <1>11. Noted(at, closed)
    BY DEF Init, Noted
  <1> QED
    BY <1>1, <1>3, <1>5, <1>6, <1>7, <1>8, <1>9, <1>10, <1>11 DEF Runs, Waiting

LEMMA RunsKept ==
  ASSUME Runs, ~Over, Next
  PROVE  Inv'
  <1>1. ASSUME NEW c \in Conts, Code(c) PROVE Runs' /\ ~Over'
    <2>1. ~Over'
      BY <1>1 DEF Code, Perform, Returns, Suspend, Hold, Resume, Complete, Over
    <2>2. CASE Perform(c)
      BY <2>1, <2>2, PerformRuns
    <2>3. CASE Returns(c)
      BY <2>1, <2>3, ReturnsRuns
    <2>4. CASE Suspend(c, Other) \/ Suspend(c, Closing)
      <3>1. PICK o \in {Other, Closing} : Suspend(c, o)
        BY <2>4
      <3> QED
        BY <2>1, <3>1, SuspendRuns
    <2>5. CASE Hold(c)
      BY <2>1, <2>5, HoldRuns
    <2>6. CASE \E k \in Calls : Resume(c, k)
      BY <2>1, <2>6, ResumeRuns
    <2>7. CASE \E d \in Conts : Complete(c, d)
      BY <2>1, <2>7, CompleteRuns
    <2> QED
      BY <1>1, <2>2, <2>3, <2>4, <2>5, <2>6, <2>7 DEF Code
  <1>2. CASE Interrupted
    BY <1>2, InterruptedRuns DEF Inv, Interrupted, Over
  <1>3. CASE EndBody
    BY <1>3, EndBodyRuns DEF Inv, EndBody, Over
  <1>4. CASE RunTask
    BY <1>4, RunTaskRuns DEF Inv, RunTask, Over
  <1>5. CASE Elsewhere
    <2>1. ~Over'
      BY <1>5 DEF Elsewhere, Interrupt, RootInterrupt, ResumeElsewhere, WakeOther, Over
    <2>2. Runs'
      BY <1>5, InterruptRuns, RootInterruptRuns, ResumeElsewhereRuns, WakeOtherRuns DEF Elsewhere
    <2> QED
      BY <2>1, <2>2 DEF Inv
  <1>6. ASSUME NEW o \in Outcomes, EndMain(o) PROVE Inv'
    BY <1>6, EndMainEnds DEF Inv
  <1>7. ASSUME NEW o \in Outcomes, NEW k \in Calls, EndImpl(k, o) PROVE Inv'
    BY <1>7, EndImplKeeps
  <1> QED
    BY <1>1, <1>2, <1>3, <1>4, <1>5, <1>6, <1>7 DEF Next, Done, Inv

LEMMA NextInv == Inv /\ [Next]_vars => Inv'
  <1> SUFFICES ASSUME Inv, [Next]_vars PROVE Inv'
    OBVIOUS
  <1>1. CASE UNCHANGED vars
    <2>1. UNCHANGED <<n, caller, used, live, at, on, stack, waits, queue, closed, orphan, pend, unw,
                      held, result, abandoned, thrown, defects, got>>
      BY <1>1 DEF vars, history
    <2>2. Over' <=> Over
      BY <2>1 DEF Over
    <2>3. CASE Over
      <3>1. Ends'
        BY <2>1, <2>3 DEF Inv, Ends, TypeOK
      <3> QED
        BY <2>2, <2>3, <3>1 DEF Inv
    <2>4. CASE ~Over
      <3>1. Runs /\ pend' \subseteq {"scope", "all"} /\ unw' \in {"no", "scope", "all"} /\ held' \subseteq Conts
        BY <2>1, <2>4 DEF Inv, Runs, TypeOK
      <3>2. UNCHANGED <<n, caller, used, live, at, on, stack, waits, queue, closed, orphan, result, history>>
        BY <2>1 DEF history
      <3>3. Runs'
        BY <3>1, <3>2, FlagsRun
      <3> QED
        BY <2>2, <2>4, <3>3 DEF Inv
    <2> QED
      BY <2>3, <2>4
  <1>2. CASE Next /\ ~Over
    BY <1>2, RunsKept DEF Inv
  <1>3. CASE Next /\ Over
    <2>1. Done
      BY <1>3, Zenon DEF Next, Code, Elsewhere, Perform, Returns, Suspend, Hold, Resume, Complete,
        Interrupted, EndBody, RunTask, Interrupt, RootInterrupt, ResumeElsewhere, WakeOther,
        EndMain, EndImpl, Running, Idle
    <2> QED
      BY <1>1, <2>1 DEF Done
  <1> QED
    BY <1>1, <1>2, <1>3

(* The invariant: while a run is not over, what waits, what is queued and  *)
(* what is on the JavaScript stack are what runtime.mjs keeps lists of,    *)
(* and every call's result is awaited, on its way, given or abandoned.     *)
THEOREM CallsAccountedFor == Spec => []Inv
  <1>1. Init => Inv
    BY InitInv
  <1>2. Inv /\ [Next]_vars => Inv'
    BY NextInv
  <1> QED
    BY <1>1, <1>2, PTL DEF Spec

(* No continuation is entered while it runs, wherever resume, a Deferred   *)
(* or a task continues it from ($performOp, cont, $step).                  *)
THEOREM NoneReentered == Spec => []NoReentry
  <1>1. Inv => NoReentry
    <2> SUFFICES ASSUME Inv PROVE NoReentry
      OBVIOUS
    <2>1. TypeOK /\ Distinct(stack)
      BY DEF Inv, Runs, Ends, Stacked
    <2>2. stack \in Seq(Conts) /\ DOMAIN stack = 1..Len(stack)
      BY <2>1, LenProperties DEF TypeOK
    <2>3. \A i, j \in DOMAIN stack : stack[i] = stack[j] => i = j
      BY <2>1, <2>2 DEF Distinct
    <2>4. \A c : c \in ToSet(stack) <=> Has(stack, c)
      BY <2>2 DEF ToSet, Has
    <2>5. ~Over => \A c \in Conts : at[c] \in {"run", "perform"} <=> c \in ToSet(stack)
      BY <2>4 DEF Inv, Runs, Stacked
    <2> QED
      BY <2>1, <2>3, <2>5 DEF NoReentry
  <1> QED
    BY <1>1, CallsAccountedFor, PTL

(* The caller of an operation gets one result, unless it was dropped, and  *)
(* does not wait for one that was passed already (pass, onDrop).           *)
THEOREM CallersGetOneResult == Spec => []ExactlyOneResult
  <1>1. Inv => ExactlyOneResult
    <2> SUFFICES ASSUME Inv PROVE ExactlyOneResult
      OBVIOUS
    <2>1. \A k \in Calls : got[k] \in {0, 1} /\ (got[k] = 1 => k \notin abandoned)
      BY DEF Inv, Runs, Ends, Waiting, Passed
    <2>2. \A c \in Conts : at[c] = "wait" /\ on[c] \in Calls => on[c] \in live \ used
      BY DEF Inv, Runs, Ends, Waiting, Awaited
    <2> QED
      BY <2>1, <2>2 DEF ExactlyOneResult, OneResult, NoLostResult
  <1> QED
    BY <1>1, CallsAccountedFor, PTL

(* Unwinding a run finds every wait, and implementations are thrown the    *)
(* interruption before their callers are ($drop, $Root#interrupt).         *)
THEOREM UnwindingInOrder == Spec => []UnwindsInOrder
  <1>1. Inv => UnwindsInOrder
    <2> SUFFICES ASSUME Inv PROVE UnwindsInOrder
      OBVIOUS
    <2>1. TypeOK
      BY DEF Inv, Runs, Ends
    <2>2. /\ DOMAIN waits = 1..Len(waits) /\ DOMAIN queue = 1..Len(queue)
          /\ \A i \in 1..Len(waits) : waits[i] \in Conts
      BY <2>1, LenProperties, ElementOfSeq DEF TypeOK
    <2>3. CASE ~Over
      <3>1. Listed(at, waits, queue) /\ Inwards(queue, closed)
        BY <2>3 DEF Inv, Runs, Waiting
      <3>2. \A i, j \in DOMAIN waits : waits[i] = waits[j] => i = j
        BY <2>2, <3>1 DEF Listed, Distinct
      <3>3. ToSet(waits) = {c \in Conts : at[c] = "wait"}
        BY <2>2, <3>1 DEF Listed, Has, ToSet
      <3>4. InsideOut
        BY <2>1, <2>2, <3>1 DEF Inwards, InsideOut, TypeOK
      <3> QED
        BY <3>2, <3>3, <3>4 DEF UnwindsInOrder, WaitsExact
    <2>4. CASE Over
      <3>1. queue = <<>>
        BY <2>4 DEF Inv, Ends
      <3>2. \A i \in DOMAIN queue : FALSE
        BY <2>2, <3>1, EmptySeq
      <3> QED
        BY <2>4, <3>2 DEF UnwindsInOrder, WaitsExact, InsideOut
    <2> QED
      BY <2>3, <2>4
  <1> QED
    BY <1>1, CallsAccountedFor, PTL

(* A defect of an implementation that was closed with the run is not lost  *)
(* when the main continuation ends as interrupted (rootEnded).             *)
THEOREM ClosedDefectsReported == Spec => []ClosedDefectReported
  <1>1. Inv => ClosedDefectReported
    BY DEF Inv, Runs, Ends, ClosedDefectReported, EndedInterrupted, Over
  <1> QED
    BY <1>1, CallsAccountedFor, PTL
=============================================================================
