-------------------- MODULE StructuredConcurrencyProofs --------------------
(***************************************************************************)
(* Proofs about StructuredConcurrency, for any number of fibers and        *)
(* scopes.  The inductive invariant Inv says how fibers and scopes hold on *)
(* to each other: a live child keeps its scope from returning (Alive), a   *)
(* scope that has not returned keeps the fiber of its body from ending     *)
(* (Bodies), and every fiber was forked into a scope opened by an earlier  *)
(* fiber (Ranked).  Failed ties the failures of children and bodies to the *)
(* first failure recorded in the scope.                                    *)
(***************************************************************************)
EXTENDS StructuredConcurrency, TLAPS, WellFoundedInduction

Pending(s) == phase[s] \in {"open", "failed", "closing"}

Alive ==
  \A f \in Fibers : Live(f) /\ f # Main => home[f] \in Scopes /\ Pending(home[f])
Bodies ==
  \A s \in Scopes : Pending(s) => body[s] \in Fibers /\ Live(body[s])
Ranked ==
  /\ Born(Main) /\ home[Main] = None
  /\ \A f \in Fibers : Born(f) /\ f # Main =>
       home[f] \in Scopes /\ body[home[f]] \in Fibers /\ body[home[f]] < f
Opened ==
  /\ \A s \in Scopes : phase[s] = "new" =>
       /\ first[s] = "none" /\ out[s] = "none"
       /\ \A f \in Fibers : ~Child(f, s)
  /\ \A s \in Scopes : BodyRuns(s) => out[s] = "none"
  /\ \A s \in Scopes : phase[s] \in {"closing", "ended"} => out[s] \in Outcomes
Failed ==
  /\ \A s \in Scopes :
       first[s] # "none" <=>
         out[s] \in Failures \/ \E f \in Fibers : Child(f, s) /\ result[f] \in Failures
  /\ \A s \in Scopes : phase[s] = "ended" =>
       ret[s] = IF first[s] = "none" THEN out[s] ELSE first[s]

Inv == TypeOK /\ Alive /\ Bodies /\ Ranked /\ Opened /\ Failed

-----------------------------------------------------------------------------
(* The invariant holds initially.                                          *)
LEMMA InitInv ==
  ASSUME NFibers \in Nat \ {0}, NScopes \in Nat
  PROVE  Init => Inv
<1> SUFFICES ASSUME Init PROVE Inv
  OBVIOUS
<1> USE DEF Init, Fibers, Scopes, Main, None, Outcomes, Failures
<1>1. TypeOK
  BY DEF TypeOK
<1>2. Alive /\ Bodies
  BY DEF Alive, Bodies, Pending, Live
<1>3. Ranked /\ Opened
  BY DEF Ranked, Opened, Born, Child, BodyRuns
<1>4. Failed
  BY DEF Failed, Child, Born
<1> QED
  BY <1>1, <1>2, <1>3, <1>4 DEF Inv

(* What FirstOf and Returned compute.                                      *)
LEMMA FirstOfType ==
  ASSUME TypeOK, NEW s \in Scopes, NEW o \in Outcomes \cup {"none"}
  PROVE  /\ FirstOf(s, o) \in Failures \cup {"none"}
         /\ Returned(s, o) \in Outcomes \cup {"none"}
BY DEF TypeOK, FirstOf, Returned, Outcomes, Failures

(* The types are preserved by every step.                                  *)
LEMMA TypeStep ==
  ASSUME NFibers \in Nat \ {0}, NScopes \in Nat
  PROVE  TypeOK /\ Ranked /\ [Next]_vars => TypeOK'
<1> SUFFICES ASSUME TypeOK, Ranked, [Next]_vars PROVE TypeOK'
  OBVIOUS
<1> USE DEF TypeOK
<1>1. ASSUME NEW f \in Fibers, NEW s \in Scopes, Open(f, s) PROVE TypeOK'
  BY <1>1 DEF Open, Fibers
<1>2. ASSUME NEW c \in Fibers, NEW s \in Scopes, Fork(c, s) PROVE TypeOK'
  BY <1>2 DEF Fork, Scopes
<1>3. ASSUME NEW s \in Scopes, Return(s) PROVE TypeOK'
  <2>1. Returned(s, out[s]) \in Outcomes \cup {"none"}
    BY FirstOfType
  <2> QED
    BY <1>3, <2>1 DEF Return
<1>4. ASSUME NEW s \in Scopes, NEW o \in Outcomes, EndBody(s, o) PROVE TypeOK'
  <2>1. FirstOf(s, o) \in Failures \cup {"none"} /\ Returned(s, o) \in Outcomes \cup {"none"}
    BY FirstOfType
  <2>2. phase' \in [Scopes -> {"new", "open", "failed", "closing", "ended"}]
        /\ ret' \in [Scopes -> Outcomes \cup {"none"}]
    BY <1>4, <2>1 DEF EndBody
  <2> QED
    BY <1>4, <2>1, <2>2 DEF EndBody
<1>5. ASSUME NEW f \in Fibers, NEW o \in Outcomes, EndFiber(f, o) PROVE TypeOK'
  <2>1. CASE f # Main /\ o \in Failures
    <3>1. home[f] \in Scopes
      BY <1>5, <2>1 DEF EndFiber, Live, Ranked, Born
    <3>2. FirstOf(home[f], o) \in Failures \cup {"none"}
      BY <3>1, FirstOfType
    <3> QED
      BY <1>5, <2>1, <3>1, <3>2 DEF EndFiber
  <2>2. CASE ~(f # Main /\ o \in Failures)
    BY <1>5, <2>2 DEF EndFiber
  <2> QED
    BY <2>1, <2>2
<1>6. CASE UNCHANGED vars
  BY <1>6 DEF vars
<1> QED
  BY <1>1, <1>2, <1>3, <1>4, <1>5, <1>6 DEF Next

-----------------------------------------------------------------------------
(* Opening a scope keeps the invariant.                                    *)
LEMMA OpenStep ==
  ASSUME Inv, TypeOK', NEW f \in Fibers, NEW s \in Scopes, Open(f, s)
  PROVE  Inv'
<1> USE DEF Inv, TypeOK, Open
<1>1. Alive'
  BY DEF Alive, Live, Pending
<1>2. Bodies'
  BY DEF Bodies, Live, Pending
<1>3. Ranked'
  BY DEF Ranked, Opened, Born, Child
<1>4. Opened'
  BY DEF Opened, Child, Born, BodyRuns
<1>5. Failed'
  BY DEF Failed, Opened, Child, Born
<1> QED
  BY <1>1, <1>2, <1>3, <1>4, <1>5

(* Forking a fiber keeps the invariant.                                    *)
LEMMA ForkStep ==
  ASSUME Inv, TypeOK', NEW c \in Fibers, NEW s \in Scopes, Fork(c, s)
  PROVE  Inv'
<1> USE DEF Inv, TypeOK, Fork
<1>1. ~Born(c) /\ c # Main
  BY DEF Ranked, Fibers
<1>2. Pending(s) /\ body[s] \in Fibers /\ Live(body[s]) /\ body[s] < c
  <2>1. Pending(s) /\ body[s] \in Fibers /\ Live(body[s])
    BY DEF Bodies, Pending
  <2>2. ~(body[s] >= c)
    BY <2>1 DEF Live, Born
  <2> QED
    BY <2>1, <2>2 DEF Fibers
<1>3. Alive'
  BY <1>1, <1>2 DEF Alive, Live, Pending
<1>4. Bodies'
  BY <1>1, <1>2 DEF Bodies, Live, Pending
<1>5. Ranked'
  BY <1>1, <1>2 DEF Ranked, Born
<1>6. Opened'
  BY <1>1 DEF Opened, Child, Born, BodyRuns
<1>7. Failed'
  BY <1>1 DEF Failed, Child, Born, Failures
<1> QED
  BY <1>3, <1>4, <1>5, <1>6, <1>7

(* The end of a body keeps the invariant.                                  *)
LEMMA EndBodyStep ==
  ASSUME Inv, TypeOK', NEW s \in Scopes, NEW o \in Outcomes, EndBody(s, o)
  PROVE  Inv'
<1> USE DEF Inv, TypeOK, EndBody
<1>1. \/ phase' = [phase EXCEPT ![s] = "closing"] /\ ret' = ret
      \/ /\ \A f \in Fibers : ~LiveChild(f, s)
         /\ phase' = [phase EXCEPT ![s] = "ended"]
         /\ ret' = [ret EXCEPT ![s] = Returned(s, o)]
  OBVIOUS
<1>2. Alive'
  BY <1>1 DEF Alive, Live, Pending, LiveChild
<1>3. Bodies'
  BY <1>1 DEF Bodies, Live, Pending, BodyRuns
<1>4. Ranked'
  BY DEF Ranked, Born
<1>5. Opened'
  BY <1>1 DEF Opened, Child, Born, BodyRuns, Outcomes
<1>6. Failed'
  <2>1. out[s] = "none"
    BY DEF Opened, BodyRuns
  <2>2. /\ \A t \in Scopes : t # s => first'[t] = first[t] /\ out'[t] = out[t]
        /\ first'[s] = FirstOf(s, o) /\ out'[s] = o
    OBVIOUS
  <2>3. \A t \in Scopes : first'[t] # "none" <=>
           out'[t] \in Failures \/ \E f \in Fibers : Child(f, t)' /\ result'[f] \in Failures
    BY <2>1, <2>2 DEF Failed, FirstOf, Child, Born, Failures, Outcomes
  <2>4. \A t \in Scopes : phase'[t] = "ended" =>
           ret'[t] = IF first'[t] = "none" THEN out'[t] ELSE first'[t]
    BY <1>1, <2>2 DEF Failed, Returned, FirstOf
  <2> QED
    BY <2>3, <2>4 DEF Failed
<1> QED
  BY <1>2, <1>3, <1>4, <1>5, <1>6

(* The return of a scope keeps the invariant.                              *)
LEMMA ReturnStep ==
  ASSUME Inv, TypeOK', NEW s \in Scopes, Return(s)
  PROVE  Inv'
<1> USE DEF Inv, TypeOK, Return
<1>1. Alive'
  BY DEF Alive, Live, Pending, LiveChild
<1>2. Bodies'
  BY DEF Bodies, Live, Pending
<1>3. Ranked'
  BY DEF Ranked, Born
<1>4. Opened'
  BY DEF Opened, Child, Born, BodyRuns
<1>5. Failed'
  <2>1. first[s] = "none" => out[s] \notin Failures
    BY DEF Failed
  <2>2. FirstOf(s, out[s]) = first[s]
    BY <2>1 DEF FirstOf
  <2> QED
    BY <2>2 DEF Failed, Returned, Child, Born
<1> QED
  BY <1>1, <1>2, <1>3, <1>4, <1>5

(* The end of a fiber keeps the invariant.                                 *)
LEMMA EndFiberStep ==
  ASSUME NFibers \in Nat \ {0}, NScopes \in Nat,
         Inv, TypeOK', NEW f \in Fibers, NEW o \in Outcomes, EndFiber(f, o)
  PROVE  Inv'
<1> USE DEF Inv, TypeOK, EndFiber, ScopesEnded
<1> DEFINE failing == f # Main /\ o \in Failures
<1>1. /\ result[f] = "none" /\ o # "none" /\ o # "unborn"
      /\ \A g \in Fibers : g # f => result'[g] = result[g]
      /\ result'[f] = o
  BY DEF Live, Outcomes
<1>2. f # Main => home[f] \in Scopes /\ Pending(home[f])
  BY DEF Alive
<1>3. \A s \in Scopes : /\ Pending(s)' <=> Pending(s)
                        /\ phase[s] \in {"new", "closing", "ended"} => phase'[s] = phase[s]
                        /\ phase'[s] # phase[s] => phase'[s] = "failed"
                        /\ phase'[s] \in {"new", "closing", "ended"} => phase'[s] = phase[s]
  BY <1>2 DEF Pending
<1>4. \A g \in Fibers : /\ Born(g)' <=> Born(g)
                        /\ Live(g)' <=> Live(g) /\ g # f
  BY <1>1 DEF Born, Live
<1>5. Alive'
  BY <1>3, <1>4 DEF Alive
<1>6. Bodies'
  BY <1>3, <1>4 DEF Bodies, Pending
<1>7. Ranked'
  BY <1>4 DEF Ranked, Main, Fibers
<1>8. /\ ~failing => first' = first
      /\ failing => /\ \A s \in Scopes : s # home[f] => first'[s] = first[s]
                    /\ first'[home[f]] = FirstOf(home[f], o)
  BY <1>2
<1>9. Opened'
  <2>1. \A s \in Scopes : phase[s] = "new" => first'[s] = first[s]
    BY <1>2, <1>8 DEF Pending
  <2> QED
    BY <1>3, <1>4, <2>1 DEF Opened, Child, BodyRuns
<1>10. Failed'
  <2>1. \A s \in Scopes : \A g \in Fibers : Child(g, s)' <=> Child(g, s)
    BY <1>4 DEF Child
  <2>2. ASSUME NEW s \in Scopes
        PROVE  first'[s] # "none" <=>
                 out'[s] \in Failures \/ \E g \in Fibers : Child(g, s)' /\ result'[g] \in Failures
    <3>1. CASE failing /\ s = home[f]
      <4>1. Child(f, s)
        BY <1>1, <3>1 DEF Child, Born
      <4>2. first'[s] # "none"
        BY <1>2, <1>8, <3>1 DEF FirstOf, Failures
      <4> QED
        BY <1>1, <2>1, <3>1, <4>1, <4>2
    <3>2. CASE ~(failing /\ s = home[f])
      <4>1. first'[s] = first[s]
        BY <1>8, <3>2
      <4>2. Child(f, s) => o \notin Failures
        BY <1>2, <3>2 DEF Child, Ranked, None, Scopes
      <4>3. result[f] \notin Failures
        BY <1>1 DEF Failures
      <4> QED
        BY <1>1, <2>1, <4>1, <4>2, <4>3 DEF Failed
    <3> QED
      BY <3>1, <3>2
  <2>3. \A s \in Scopes : phase'[s] = "ended" => phase[s] = "ended" /\ first'[s] = first[s]
    BY <1>2, <1>3, <1>8 DEF Pending
  <2> QED
    BY <2>2, <2>3 DEF Failed
<1> QED
  BY <1>5, <1>6, <1>7, <1>9, <1>10

(* The invariant is inductive.                                             *)
LEMMA InvStep ==
  ASSUME NFibers \in Nat \ {0}, NScopes \in Nat
  PROVE  Inv /\ [Next]_vars => Inv'
<1> SUFFICES ASSUME Inv, [Next]_vars PROVE Inv'
  OBVIOUS
<1>1. TypeOK'
  BY TypeStep DEF Inv
<1>2. CASE UNCHANGED vars
  BY <1>2 DEF vars, Inv, TypeOK, Alive, Bodies, Ranked, Opened, Failed, Pending,
              Live, Born, Child, BodyRuns
<1>3. CASE Next
  BY <1>1, <1>3, OpenStep, ForkStep, EndBodyStep, ReturnStep, EndFiberStep DEF Next
<1> QED
  BY <1>2, <1>3

-----------------------------------------------------------------------------
(* In every state of the invariant, when main has ended every fiber has:   *)
(* the live fiber with the smallest number would have been forked into a   *)
(* scope that has not returned, whose body runs on a smaller live fiber.   *)
LEMMA InvImpliesNothingOutlivesMain == Inv => NothingOutlivesMain
<1> SUFFICES ASSUME Inv, ~Live(Main), NEW f \in Fibers, Live(f) PROVE FALSE
  BY DEF NothingOutlivesMain
<1> DEFINE T == {g \in Fibers : Live(g)}
<1>1. T \subseteq Nat /\ T # {}
  BY DEF Fibers
<1>2. PICK g \in T : \A h \in T : <<h, g>> \notin OpToRel(<, Nat)
  <2> HIDE DEF T
  <2> QED
    BY ONLY <1>1, WFMin, NatLessThanWellFounded
<1>3. g # Main
  OBVIOUS
<1>4. body[home[g]] \in T /\ body[home[g]] < g
  BY <1>3 DEF Inv, Alive, Bodies, Ranked, Live, Born
<1>5. <<body[home[g]], g>> \in OpToRel(<, Nat)
  BY <1>1, <1>4 DEF OpToRel
<1> QED
  BY <1>2, <1>4, <1>5

(* The type invariant of the scopes holds in every state.                  *)
THEOREM TypeCorrect ==
  ASSUME NFibers \in Nat \ {0}, NScopes \in Nat
  PROVE  Spec => []TypeOK
<1>1. Inv => TypeOK
  BY DEF Inv
<1> QED
  BY InitInv, InvStep, <1>1, PTL DEF Spec

(* A scope that has returned has no live child, for any number of fibers   *)
(* and scopes.                                                             *)
THEOREM ScopesOutliveChildren ==
  ASSUME NFibers \in Nat \ {0}, NScopes \in Nat
  PROVE  Spec => []ScopeOutlivesChildren
<1>1. Inv => ScopeOutlivesChildren
  <2> SUFFICES ASSUME Inv, NEW s \in Scopes, phase[s] = "ended",
                      NEW f \in Fibers, Live(f), home[f] = s
               PROVE  FALSE
    BY DEF ScopeOutlivesChildren, LiveChild
  <2>1. f # Main
    BY DEF Inv, Ranked, None, Scopes
  <2> QED
    BY <2>1 DEF Inv, Alive, Pending
<1> QED
  BY InitInv, InvStep, <1>1, PTL DEF Spec

(* When main has ended, every fiber has ended, at any depth of nesting.    *)
THEOREM MainEndsLast ==
  ASSUME NFibers \in Nat \ {0}, NScopes \in Nat
  PROVE  Spec => []NothingOutlivesMain
BY InitInv, InvStep, InvImpliesNothingOutlivesMain, PTL DEF Spec

(* Lifetimes nest: nothing outlives its scope, nor the run.                *)
THEOREM LifetimesAreNested ==
  ASSUME NFibers \in Nat \ {0}, NScopes \in Nat
  PROVE  Spec => []LifetimesNest
BY ScopesOutliveChildren, MainEndsLast, PTL DEF LifetimesNest

(* A scope returns a failure exactly when its body or a child failed.      *)
THEOREM FailuresReported ==
  ASSUME NFibers \in Nat \ {0}, NScopes \in Nat
  PROVE  Spec => []NoFailureLost
<1>1. Inv => NoFailureLost
  BY DEF Inv, TypeOK, Failed, NoFailureLost, Failures
<1> QED
  BY InitInv, InvStep, <1>1, PTL DEF Spec

=============================================================================
