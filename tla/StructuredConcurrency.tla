----------------------- MODULE StructuredConcurrency -----------------------
(***************************************************************************)
(* What fiber scopes promise, whatever the scheduler: a fiber is forked    *)
(* into a scope, a scope returns only when its body and all of its         *)
(* children have ended, and the first failure among them is its result.    *)
(*                                                                         *)
(* The queue, the waits and the interruptions of the scheduler are not     *)
(* here: a fiber may end with any outcome at any time once the scopes      *)
(* whose bodies it runs have returned.  FiberScheduler implements this.    *)
(***************************************************************************)
EXTENDS Integers

CONSTANTS
  NFibers,   \* fibers are numbered in the order they are created
  NScopes    \* scopes are numbered in the order they are opened

Fibers == 1..NFibers
Scopes == 1..NScopes
Main == 1
None == 0

Outcomes == {"value", "fail", "die", "int"}
Failures == {"fail", "die"}

VARIABLES
  result,    \* how each fiber ended; "unborn" and "none" before that
  home,      \* the scope each fiber was forked into
  body,      \* the fiber that runs the body of each scope
  phase,     \* new, open, failed (no more forks), closing (body ended), ended
  first,     \* the first failure of a scope, or "none"
  out,       \* how the body of a scope ended, or "none"
  ret        \* what a scope returned, or "none"

vars == <<result, home, body, phase, first, out, ret>>

Init ==
  /\ result = [f \in Fibers |-> IF f = Main THEN "none" ELSE "unborn"]
  /\ home = [f \in Fibers |-> None]
  /\ body = [s \in Scopes |-> None]
  /\ phase = [s \in Scopes |-> "new"]
  /\ first = [s \in Scopes |-> "none"]
  /\ out = [s \in Scopes |-> "none"]
  /\ ret = [s \in Scopes |-> "none"]

Live(f) == result[f] = "none"
Born(f) == result[f] # "unborn"
Child(f, s) == Born(f) /\ home[f] = s
LiveChild(f, s) == Live(f) /\ home[f] = s
BodyRuns(s) == phase[s] \in {"open", "failed"}

(* The first failure is kept, later ones change nothing.                   *)
FirstOf(s, o) == IF first[s] = "none" /\ o \in Failures THEN o ELSE first[s]
Returned(s, o) == IF FirstOf(s, o) = "none" THEN o ELSE FirstOf(s, o)

(* A live fiber opens a scope, whose body it runs.                         *)
Open(f, s) ==
  /\ Live(f) /\ phase[s] = "new"
  /\ phase' = [phase EXCEPT ![s] = "open"]
  /\ body' = [body EXCEPT ![s] = f]
  /\ UNCHANGED <<result, home, first, out, ret>>

(* A fiber is forked into a scope that is open.                            *)
Fork(c, s) ==
  /\ phase[s] = "open"
  /\ \A g \in Fibers : g >= c => ~Born(g)
  /\ result' = [result EXCEPT ![c] = "none"]
  /\ home' = [home EXCEPT ![c] = s]
  /\ UNCHANGED <<body, phase, first, out, ret>>

(* The body of a scope ends; the scope returns at once if it has no live   *)
(* children.                                                               *)
EndBody(s, o) ==
  /\ BodyRuns(s)
  /\ \A t \in Scopes : t > s /\ body[t] = body[s] => phase[t] = "ended"
  /\ first' = [first EXCEPT ![s] = FirstOf(s, o)]
  /\ out' = [out EXCEPT ![s] = o]
  /\ IF \E f \in Fibers : LiveChild(f, s)
     THEN phase' = [phase EXCEPT ![s] = "closing"] /\ ret' = ret
     ELSE /\ phase' = [phase EXCEPT ![s] = "ended"]
          /\ ret' = [ret EXCEPT ![s] = Returned(s, o)]
  /\ UNCHANGED <<result, home, body>>

(* A scope whose body ended returns when its last child has ended.         *)
Return(s) ==
  /\ phase[s] = "closing" /\ ~\E f \in Fibers : LiveChild(f, s)
  /\ phase' = [phase EXCEPT ![s] = "ended"]
  /\ ret' = [ret EXCEPT ![s] = Returned(s, out[s])]
  /\ UNCHANGED <<result, home, body, first, out>>

(* The scopes a fiber opened have returned.                                *)
ScopesEnded(f) == \A s \in Scopes : body[s] = f => phase[s] = "ended"

(* A fiber ends once the scopes it opened have returned.  A failure is     *)
(* reported to its scope.                                                  *)
EndFiber(f, o) ==
  /\ Live(f) /\ ScopesEnded(f)
  /\ result' = [result EXCEPT ![f] = o]
  /\ IF f # Main /\ o \in Failures
     THEN /\ first' = [first EXCEPT ![home[f]] = FirstOf(home[f], o)]
          /\ phase' = IF phase[home[f]] = "open" THEN [phase EXCEPT ![home[f]] = "failed"]
                      ELSE phase
     ELSE UNCHANGED <<first, phase>>
  /\ UNCHANGED <<home, body, out, ret>>

Next ==
  \/ \E f \in Fibers, s \in Scopes : Open(f, s) \/ Fork(f, s)
  \/ \E s \in Scopes : Return(s) \/ \E o \in Outcomes : EndBody(s, o)
  \/ \E f \in Fibers, o \in Outcomes : EndFiber(f, o)

Spec == Init /\ [][Next]_vars

-----------------------------------------------------------------------------
(* The type of the state.                                                  *)
TypeOK ==
  /\ result \in [Fibers -> Outcomes \cup {"unborn", "none"}]
  /\ home \in [Fibers -> 0..NScopes]
  /\ body \in [Scopes -> 0..NFibers]
  /\ phase \in [Scopes -> {"new", "open", "failed", "closing", "ended"}]
  /\ first \in [Scopes -> Failures \cup {"none"}]
  /\ out \in [Scopes -> Outcomes \cup {"none"}]
  /\ ret \in [Scopes -> Outcomes \cup {"none"}]

(* A scope that has returned ($Scope#ended) has no live child.             *)
ScopeOutlivesChildren ==
  \A s \in Scopes : phase[s] = "ended" => ~\E f \in Fibers : LiveChild(f, s)

(* When the main fiber has ended, so that the run is over, every fiber     *)
(* that was ever forked has ended, however deep its scope was nested.      *)
NothingOutlivesMain ==
  ~Live(Main) => \A f \in Fibers : ~Live(f)

(* Lifetimes nest: nothing outlives the scope it was forked in ($Scope),   *)
(* nor the run.                                                            *)
LifetimesNest == ScopeOutlivesChildren /\ NothingOutlivesMain

(* A failure of a child or of the body is never swallowed by its scope:    *)
(* a scope returns a failure exactly when one of them failed.              *)
NoFailureLost ==
  \A s \in Scopes : phase[s] = "ended" =>
    (ret[s] \in Failures <=>
       out[s] \in Failures \/ \E f \in Fibers : Child(f, s) /\ result[f] \in Failures)

=============================================================================
