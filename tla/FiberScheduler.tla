--------------------------- MODULE FiberScheduler ---------------------------
(***************************************************************************)
(* The fiber scheduler of the JavaScript runtime: the classes $Root,       *)
(* $Fiber, $Scope and $DeferredCell of runtime.mjs and the operations on   *)
(* them ($scope, $fork, $join, $fiberAwait, $interrupt, $attempt,          *)
(* $deferred, $complete, $deferredAwait, $pause, $await, $hold, $unhold).  *)
(*                                                                         *)
(* One run (main or a test) is a single-threaded scheduler: at most one    *)
(* fiber, cur, is being stepped; the others wait for something or have a   *)
(* task in the queue.  What a fiber executes is an arbitrary program: at   *)
(* each point it may call any operation in Ops, at most MaxOps[f] times,   *)
(* or end the innermost construct it is in.  The constructs it is in are   *)
(* its stack of frames: the body of a scope, a scope waiting for its       *)
(* children, the body of a with, the (suspending) release of a with, and   *)
(* an Exit.attempt.                                                        *)
(*                                                                         *)
(* Only main continuations are modelled: implementations of suspend        *)
(* operations that keep running as continuations of their own are not.     *)
(***************************************************************************)
EXTENDS Integers, Sequences, FiniteSets, SequencesExt

CONSTANTS
  NFibers,     \* fibers 1..NFibers are created in this order; 1 runs main
  NScopes,     \* scopes 1..NScopes are opened in this order
  NDeferreds,  \* deferreds 1..NDeferreds are created in this order
  MaxOps,      \* MaxOps[f]: the number of operations fiber f may call
  MaxDepth,    \* the number of constructs a fiber may be nested in
  HostEvery,   \* $HOST_EVERY: every HostEvery-th yield goes through the host
  Ops          \* the operations the program uses (see OpNames)

Fibers == 1..NFibers
Scopes == 1..NScopes
Deferreds == 1..NDeferreds
Main == 1
None == 0      \* no fiber, no scope; as the target of an interruption: null

OpNames == {"scope", "fork", "with", "attempt", "join", "await", "interrupt",
            "deferred", "complete", "get", "pause", "host", "idle", "fail",
            "die", "raise"}

ASSUME ConstantsAssumption ==
  /\ NFibers \in Nat \ {0}
  /\ NScopes \in Nat
  /\ NDeferreds \in Nat
  /\ MaxOps \in [Fibers -> Nat]
  /\ MaxDepth \in Nat
  /\ HostEvery \in Nat \ {0}
  /\ Ops \subseteq OpNames

VARIABLES
  cur,         \* $current, or None
  flow,        \* what cur is doing: "run", or the outcome being passed outward
  queue,       \* root.queue: tasks waiting to run
  over,        \* root.over
  pauses,      \* root.pauses modulo HostEvery
  waits,       \* root.waits: the waiting fibers, in the order they began
  later,       \* yields handed to the host's event loop ($later)
  calls,       \* host calls (promises) that have not settled
  fib,         \* the $Fiber objects
  scope,       \* the $Scope objects
  deferred,    \* the $DeferredCell objects
  unwound,     \* whether the run has been unwound as stalled
  reported     \* beforeExit was emitted and no host callback ran since

vars == <<cur, flow, queue, over, pauses, waits, later, calls, fib, scope,
          deferred, unwound, reported>>

-----------------------------------------------------------------------------
(* How code ends: with a value, a $Fail, a defect, or $Interrupted.        *)
Outcomes == {"value", "fail", "die", "int"}
NotYet == "none"

Frame(kind, s, out) == [kind |-> kind, s |-> s, out |-> out]
Frames == [kind : {"scope", "closing", "with", "release", "attempt"},
           s : 0..NScopes, out : Outcomes \cup {NotYet}]

(* The wait of a suspended fiber: its number tells waits of the same fiber *)
(* apart, on and of say what it waits for.                                 *)
NoWait == [no |-> 0, on |-> "nothing", of |-> None]
WaitKinds == {"nothing", "pause", "host", "fiber", "deferred", "closing"}

(* What wakes a wait: the `wake` callback of that wait.  verb says how the  *)
(* result of a watched fiber is passed on.                                 *)
Wake(f, no, verb) == [f |-> f, no |-> no, verb |-> verb]
Verbs == {"join", "await", "interrupt", "get", "closing"}

(* A task of the queue: start a fiber, continue a yield, continue a taken  *)
(* continuation with an input, throw an interruption into a dropped one.   *)
Task(kind, f, no, in) == [kind |-> kind, f |-> f, no |-> no, in |-> in]

NewFiber(s) == [born |-> TRUE, scope |-> s, wait |-> NoWait, pending |-> {},
                unwinding |-> FALSE, unwinds |-> {}, holds |-> 0,
                result |-> NotYet, watchers |-> <<>>, ops |-> 0,
                stack |-> <<>>]
UnbornFiber == [NewFiber(None) EXCEPT !.born = FALSE]

NewScope(f, d) == [fiber |-> f, depth |-> d, children |-> {},
                   closed |-> FALSE, bodyDone |-> FALSE, ended |-> FALSE,
                   first |-> NotYet, closer |-> 0, out |-> NotYet, ret |-> NotYet]

Init ==
  /\ cur = None /\ flow = "run"
  /\ queue = <<Task("resume", Main, 0, "run")>>
  /\ over = FALSE /\ pauses = 0
  /\ waits = <<>> /\ later = {} /\ calls = {}
  /\ fib = [f \in Fibers |-> IF f = Main THEN NewFiber(None) ELSE UnbornFiber]
  /\ scope = [s \in Scopes |-> NewScope(None, 0)]
  /\ deferred = [d \in Deferreds |-> [scope |-> None, full |-> FALSE, waiters |-> <<>>]]
  /\ unwound = FALSE /\ reported = FALSE

-----------------------------------------------------------------------------
Live(f) == fib[f].born /\ fib[f].result = NotYet
Waiting(f) == fib[f].wait.no # 0
Failure(o) == o \in {"fail", "die"}

(* $Fiber#interrupting *)
Interrupting(f) ==
  /\ fib[f].holds = 0
  /\ fib[f].pending # {} \/ fib[f].unwinding \/ fib[f].unwinds # {}

(* $Fiber#isUnwinding *)
IsUnwinding(f) == fib[f].unwinding \/ fib[f].unwinds # {}

(* $Fiber#deliver: takes the outermost interruption, pending or unwinding. *)
Outermost(r) ==
  LET targets == r.pending \cup r.unwinds IN
  IF r.unwinding \/ None \in r.pending \/ targets = {} THEN None
  ELSE CHOOSE s \in targets : \A t \in targets : scope[s].depth <= scope[t].depth

Delivered(r) ==
  LET target == Outermost(r) IN
  IF target = None
  THEN [r EXCEPT !.unwinding = TRUE, !.pending = {}, !.unwinds = {}]
  ELSE [r EXCEPT !.pending = @ \ {target}, !.unwinds = @ \cup {target}]

(* $Fiber#interrupt: whether an interruption of f aimed at t (None: the    *)
(* whole fiber, else a scope whose body runs on f) is taken down, and      *)
(* whether it takes effect at once on f's wait.                            *)
Accepts(f, t) ==
  /\ Live(f) /\ ~fib[f].unwinding
  /\ t \notin fib[f].pending
  /\ t = None \/ t \notin fib[f].unwinds

(* Mutant: the holds of the fiber are not looked at.                       *)
DropsHeld(f, t) == Accepts(f, t) /\ Waiting(f)
Drops(f, t) == Accepts(f, t) /\ fib[f].holds = 0 /\ Waiting(f)

(* The fibers of S are interrupted as a whole and, if b is a fiber, b is   *)
(* interrupted with target s.                                              *)
Dropped(S, b, s) ==
  {f \in S : Drops(f, None)} \cup {f \in {b} \cap Fibers : Drops(f, s)}

Interrupted(S, b, s) ==
  [f \in Fibers |->
     [fib[f] EXCEPT
        !.pending = @ \cup (IF f \in S /\ Accepts(f, None) THEN {None} ELSE {})
                      \cup (IF f = b /\ Accepts(f, s) THEN {s} ELSE {}),
        !.wait = IF f \in Dropped(S, b, s) THEN NoWait ELSE @]]

(* A sequence without the elements of a set: Set.delete, which keeps the   *)
(* order of the others.                                                    *)
Without(s, D) ==
  LET rest[i \in 0..Len(s)] ==
        IF i = 0 THEN <<>>
        ELSE IF s[i] \in D THEN rest[i - 1] ELSE Append(rest[i - 1], s[i])
  IN  rest[Len(s)]

(* The tasks that throw into dropped continuations: siblings in the order  *)
(* they were forked, then the body.                                        *)
ThrowTasks(fs) == [i \in 1..Len(fs) |-> Task("throw", fs[i], 0, "int")]
InForkOrder(S) == Without([f \in Fibers |-> f], Fibers \ S)
(* Mutant: the body is dropped without being thrown the interruption.      *)
ThrowsSiblings(S, b, s) == ThrowTasks(InForkOrder({f \in S : Drops(f, None)}))
Throws(S, b, s) ==
  ThrowTasks(InForkOrder({f \in S : Drops(f, None)}))
  \o ThrowTasks(InForkOrder({f \in {b} \cap Fibers : Drops(f, s)}))

(* $drop: what the dropped waits of the fibers in D wait for is aborted.   *)
Aborted(D) ==
  {IF c.f \in D /\ fib[c.f].wait.no = c.no THEN [c EXCEPT !.aborted = TRUE] ELSE c
     : c \in calls}

(* `cont` of $advance: a wake is effective while its wait is live; Woken   *)
(* are the effective ones of ws when the waits of D have been dropped.     *)
Effective(w) == fib[w.f].wait.no = w.no
Woken(ws, D) == Without(ws, {w \in ToSet(ws) : ~Effective(w) \/ w.f \in D})

(* How a waiting fiber continues when the fiber it watches ended with o:   *)
(* the `settled` of $join, of $fiberAwait and of $interrupt.               *)
Settled(verb, o) ==
  IF verb # "join" \/ o = "value" THEN "run"
  ELSE IF o = "int" THEN "die" ELSE "int"

(* `cont`: the effective wakes among ws take their waits and queue a task  *)
(* each.                                                                   *)
Taken(ws) == {w.f : w \in {ws[i] : i \in DOMAIN ws}}
ResumeTasks(ws, o) ==
  [i \in 1..Len(ws) |-> Task("resume", ws[i].f, 0, Settled(ws[i].verb, o))]
Released(F, D) ==
  [f \in Fibers |-> IF f \in D THEN [F[f] EXCEPT !.wait = NoWait] ELSE F[f]]

Top(f) == Last(fib[f].stack)
InFrame(f, kind) == fib[f].stack # <<>> /\ Top(f).kind = kind
Pushed(F, f, frame) == [F EXCEPT ![f].stack = Append(@, frame)]
Popped(F, f) == [F EXCEPT ![f].stack = Front(@)]
Replaced(F, f, frame) == [F EXCEPT ![f].stack = Append(Front(@), frame)]

(* `suspend` of $advance on behalf of f.                                   *)
Suspended(F, f, no, on, of) == [F EXCEPT ![f].wait = [no |-> no, on |-> on, of |-> of]]
Called(F, f) == [F EXCEPT ![f].ops = @ + 1]
NextNo(f) == fib[f].ops + 1
(* The wait of a scope for its children; each scope has at most one.       *)
ClosingNo(f, s) == MaxOps[f] + s

-----------------------------------------------------------------------------
(* What the running fiber may do.  The scheduler is left alone by all of   *)
(* the operations but the ones that say otherwise; Continues: f goes on,    *)
(* or throws, without suspending.                                          *)
Running(f) ==
  cur = f /\ flow = "run" /\ ~over /\ ~InFrame(f, "closing")
CanCall(f, op) == Running(f) /\ op \in Ops /\ fib[f].ops < MaxOps[f]

Stays == UNCHANGED <<cur, over, waits, pauses, later, unwound, reported>>
Continues(f, o) ==
  /\ fib' = Called(fib, f) /\ flow' = o
  /\ UNCHANGED <<queue, calls, scope, deferred>> /\ Stays

(* with: the body of a with whose release may suspend begins.              *)
OpenWith(f) ==
  /\ CanCall(f, "with") /\ Len(fib[f].stack) < MaxDepth
  /\ fib' = Pushed(Called(fib, f), f, Frame("with", None, NotYet))
  /\ UNCHANGED <<flow, queue, calls, scope, deferred>> /\ Stays

(* $attempt: the attempted function begins.                                *)
OpenAttempt(f) ==
  /\ CanCall(f, "attempt") /\ Len(fib[f].stack) < MaxDepth
  /\ fib' = Pushed(Called(fib, f), f, Frame("attempt", None, NotYet))
  /\ UNCHANGED <<flow, queue, calls, scope, deferred>> /\ Stays

(* $scope: the body of a scope begins.  Its depth counts the scope bodies  *)
(* it is in.                                                               *)
ScopeDepth(f) ==
  Cardinality({i \in DOMAIN fib[f].stack : fib[f].stack[i].kind = "scope"})
OpenScope(f, s) ==
  /\ CanCall(f, "scope") /\ Len(fib[f].stack) < MaxDepth
  /\ scope[s].fiber = None /\ \A t \in 1..(s - 1) : scope[t].fiber # None
  /\ fib' = Pushed(Called(fib, f), f, Frame("scope", s, NotYet))
  /\ scope' = [scope EXCEPT ![s] = NewScope(f, ScopeDepth(f))]
  /\ UNCHANGED <<flow, queue, calls, deferred>> /\ Stays

(* $fork, on a scope that still takes forks and on one that does not.      *)
Fork(f, s, c) ==
  /\ CanCall(f, "fork") /\ scope[s].fiber # None /\ ~scope[s].closed
  /\ ~fib[c].born /\ \A g \in 1..(c - 1) : fib[g].born
  /\ fib' = [Called(fib, f) EXCEPT ![c] = NewFiber(s)]
  /\ scope' = [scope EXCEPT ![s].children = @ \cup {c}]
  /\ queue' = Append(queue, Task("begin", c, 0, "run"))
  /\ UNCHANGED <<flow, calls, deferred>> /\ Stays
ForkClosed(f, s) ==
  /\ CanCall(f, "fork") /\ scope[s].closed
  /\ Continues(f, "die")

(* $deferred *)
NewDeferred(f, s, d) ==
  /\ CanCall(f, "deferred") /\ scope[s].fiber # None
  /\ deferred[d].scope = None /\ \A e \in 1..(d - 1) : deferred[e].scope # None
  /\ IF scope[s].closed THEN Continues(f, "die")
     ELSE /\ fib' = Called(fib, f)
          /\ deferred' = [deferred EXCEPT ![d].scope = s]
          /\ UNCHANGED <<flow, queue, calls, scope>> /\ Stays

(* $complete: fills the cell once and wakes every fiber waiting for it.    *)
Complete(f, d) ==
  /\ CanCall(f, "complete") /\ deferred[d].scope # None
  /\ LET woken == Woken(deferred[d].waiters, {}) IN
     IF scope[deferred[d].scope].ended THEN Continues(f, "die")
     ELSE IF deferred[d].full THEN Continues(f, "run")
     ELSE /\ deferred' = [deferred EXCEPT ![d].full = TRUE, ![d].waiters = <<>>]
          /\ fib' = Released(Called(fib, f), Taken(woken))
          /\ waits' = Without(waits, Taken(woken))
          /\ queue' = queue \o ResumeTasks(woken, "value")
          /\ UNCHANGED <<cur, flow, over, pauses, later, calls, scope, unwound, reported>>

(* The innermost construct ends by itself: it returns a value or a $Fail,  *)
(* or throws a defect or (Cause.raise) $Interrupted.  A release fails with *)
(* defects only.                                                           *)
EndWith(f, o) ==
  /\ Running(f)
  /\ o = "fail" => "fail" \in Ops /\ ~InFrame(f, "release")
  /\ o = "die" => "die" \in Ops
  /\ o = "int" => "raise" \in Ops
  /\ flow' = o
  /\ UNCHANGED <<queue, calls, fib, scope, deferred>> /\ Stays

-----------------------------------------------------------------------------
(* Suspension points.  An interruption is delivered there instead of       *)
(* running the request ($advance); a host call has been started by then.   *)
Requests == {"pause", "host", "idle", "join", "await", "interrupt", "get"}
(* Mutant: the request runs without looking for an interruption.           *)
RequestUnchecked(f, op) == CanCall(f, op)
Request(f, op) == CanCall(f, op) /\ ~Interrupting(f)
HostCall(f) == [f |-> f, no |-> NextNo(f), aborted |-> FALSE]

Deliver(f, op) ==
  /\ CanCall(f, op) /\ Interrupting(f)
  /\ fib' = [fib EXCEPT ![f] = Delivered(Called(fib, f)[f])]
  /\ flow' = "int"
  /\ calls' = IF op = "host" THEN calls \cup {HostCall(f)} ELSE calls
  /\ UNCHANGED <<queue, scope, deferred>> /\ Stays

Suspends(f) == cur' = None /\ flow' = "run" /\ waits' = Append(waits, f)

(* $PAUSE: to the end of the queue, or every HostEvery-th time through the *)
(* host's event loop.                                                      *)
Pause(f) ==
  /\ Request(f, "pause") /\ Suspends(f)
  /\ fib' = Suspended(Called(fib, f), f, NextNo(f), "pause", None)
  /\ pauses' = (pauses + 1) % HostEvery
  /\ LET go == Task("go", f, NextNo(f), "run") IN
     IF pauses' = 0 THEN later' = later \cup {go} /\ queue' = queue
     ELSE queue' = Append(queue, go) /\ later' = later
  /\ UNCHANGED <<over, calls, scope, deferred, unwound, reported>>

(* $Await: a promise with host work behind it, or one that nothing will    *)
(* settle.                                                                 *)
Await(f, op) ==
  /\ op \in {"host", "idle"} /\ Request(f, op) /\ Suspends(f)
  /\ fib' = Suspended(Called(fib, f), f, NextNo(f), "host", None)
  /\ calls' = IF op = "host" THEN calls \cup {HostCall(f)} ELSE calls
  /\ UNCHANGED <<queue, over, pauses, later, scope, deferred, unwound, reported>>

(* $Fiber#watch from f on the live fiber h.                                *)
Watch(F, f, h, verb) ==
  [Suspended(Called(F, f), f, NextNo(f), "fiber", h)
     EXCEPT ![h].watchers = Append(@, Wake(f, NextNo(f), verb))]

(* $join and $fiberAwait *)
Join(f, h, verb) ==
  /\ verb \in {"join", "await"} /\ Request(f, verb) /\ fib[h].scope # None
  /\ IF scope[fib[h].scope].ended THEN Continues(f, "die")
     ELSE IF ~Live(h) THEN Continues(f, Settled(verb, fib[h].result))
     ELSE /\ fib' = Watch(fib, f, h, verb) /\ Suspends(f)
          /\ UNCHANGED <<queue, over, pauses, later, calls, scope, deferred, unwound, reported>>

(* $interrupt: of a fiber whose scope ended or that ended, of another      *)
(* fiber, of the running fiber itself.                                     *)
InterruptEnded(f, h) ==
  /\ Request(f, "interrupt") /\ fib[h].scope # None
  /\ scope[fib[h].scope].ended \/ ~Live(h)
  /\ Continues(f, IF scope[fib[h].scope].ended THEN "die" ELSE "run")
InterruptOther(f, h) ==
  /\ Request(f, "interrupt") /\ fib[h].scope # None /\ h # f
  /\ ~scope[fib[h].scope].ended /\ Live(h)
  /\ fib' = Watch(Interrupted({h}, None, None), f, h, "interrupt")
  /\ queue' = queue \o Throws({h}, None, None)
  /\ calls' = Aborted(Dropped({h}, None, None))
  /\ cur' = None /\ flow' = "run"
  /\ waits' = Append(Without(waits, Dropped({h}, None, None)), f)
  /\ UNCHANGED <<over, pauses, later, scope, deferred, unwound, reported>>
InterruptSelf(f) ==
  /\ Request(f, "interrupt") /\ fib[f].scope # None /\ ~scope[fib[f].scope].ended
  /\ LET r == Interrupted({f}, None, None)[f] IN
     IF fib[f].holds = 0
     THEN fib' = [fib EXCEPT ![f] = Delivered([r EXCEPT !.ops = @ + 1])] /\ flow' = "int"
     ELSE fib' = [fib EXCEPT ![f] = [r EXCEPT !.ops = @ + 1]] /\ flow' = "run"
  /\ UNCHANGED <<queue, calls, scope, deferred>> /\ Stays

(* $deferredAwait *)
AwaitDeferred(f, d) ==
  /\ Request(f, "get") /\ deferred[d].scope # None
  /\ IF scope[deferred[d].scope].ended THEN Continues(f, "die")
     ELSE IF deferred[d].full THEN Continues(f, "run")
     ELSE /\ deferred' = [deferred EXCEPT ![d].waiters = Append(@, Wake(f, NextNo(f), "get"))]
          /\ fib' = Suspended(Called(fib, f), f, NextNo(f), "deferred", d)
          /\ Suspends(f)
          /\ UNCHANGED <<queue, over, pauses, later, calls, scope, unwound, reported>>

-----------------------------------------------------------------------------
(* How an outcome passes outward through the constructs of fiber f.        *)
Passing(f, o, kind) == cur = f /\ ~over /\ flow = o /\ o \in Outcomes /\ InFrame(f, kind)

(* Code that calls a construct gets its value or its failure, and may      *)
(* handle the failure; a defect or an interruption goes on.                *)
Below(f) == fib[f].stack[Len(fib[f].stack) - 1]
InRelease(f) == Len(fib[f].stack) > 1 /\ Below(f).kind = "release"
Goes(f, o) ==
  CASE o = "value" -> {"run"}
    [] o = "fail" -> IF InRelease(f) THEN {"run"} ELSE {"run", "fail"}
    [] OTHER -> {o}

(* The body of a with ended with o: its release begins ($hold).            *)
BeginRelease(f, o) ==
  /\ Passing(f, o, "with")
  /\ fib' = [Replaced(fib, f, Frame("release", None, o)) EXCEPT ![f].holds = @ + 1]
  /\ flow' = "run"
  /\ UNCHANGED <<queue, calls, scope, deferred>> /\ Stays

(* The release ended with o ($unhold); $releaseDefect combines it with how *)
(* the body ended.                                                         *)
ReleaseDefect(body, o) == IF o = "value" \/ body = "die" THEN body ELSE o
EndRelease(f, o) ==
  /\ Passing(f, o, "release")
  /\ fib' = [Popped(fib, f) EXCEPT ![f].holds = @ - 1]
  /\ flow' \in Goes(f, ReleaseDefect(Top(f).out, o))
  /\ UNCHANGED <<queue, calls, scope, deferred>> /\ Stays

(* $attemptCaught and $attemptValue *)
EndAttempt(f, o) ==
  /\ Passing(f, o, "attempt")
  /\ fib' = Popped(fib, f)
  /\ flow' = IF o = "int" \/ (o = "die" /\ IsUnwinding(f)) THEN o ELSE "run"
  /\ UNCHANGED <<queue, calls, scope, deferred>> /\ Stays

(* $Scope#failed: the first failure of a scope becomes its result.         *)
(* Mutant: a later failure replaces the first one.                         *)
LastFailure(s, o) == IF Failure(o) THEN o ELSE scope[s].first
FirstFailure(s, o) == IF Failure(o) /\ scope[s].first = NotYet THEN o ELSE scope[s].first
(* Mutant: the result of the body is returned, whatever the children did.  *)
ReturnBody(s, o) == o
Return(s, o) == IF FirstFailure(s, o) # NotYet THEN FirstFailure(s, o) ELSE o

(* Mutant: the scope counts as ended when its body is.                     *)
BodyEndedAll(f, s, o) ==
  LET r == scope[s] IN
  [scope EXCEPT ![s] = [r EXCEPT !.bodyDone = TRUE, !.closed = TRUE, !.ended = TRUE,
                                 !.first = FirstFailure(s, o), !.out = o, !.ret = Return(s, o),
                                 !.closer = IF r.children # {} THEN ClosingNo(f, s) ELSE 0]]

(* $scope: the body ended with o.  The children are interrupted; with      *)
(* children left the fiber waits for them, holding off interruptions, else *)
(* the scope returns.                                                      *)
BodyEnded(f, s, o) ==
  LET r == scope[s] IN
  [scope EXCEPT ![s] = [r EXCEPT !.bodyDone = TRUE, !.closed = TRUE,
                                 !.first = FirstFailure(s, o), !.out = o,
                                 !.closer = IF r.children # {} THEN ClosingNo(f, s) ELSE 0,
                                 !.ended = r.children = {},
                                 !.ret = IF r.children = {} THEN Return(s, o) ELSE r.ret]]
(* Mutant: an interruption of the body that is still pending is kept.      *)
ForgetsUnwinds(F, f, s) == [F EXCEPT ![f].unwinds = @ \ {s}]
Forgets(F, f, s) == [F EXCEPT ![f].pending = @ \ {s}, ![f].unwinds = @ \ {s}]

EndBody(f, o) ==
  /\ Passing(f, o, "scope")
  /\ LET s == Top(f).s
         S == scope[s].children
         D == Dropped(S, None, None)
         F == Forgets(Interrupted(S, None, None), f, s) IN
     /\ scope' = BodyEnded(f, s, o)
     /\ queue' = queue \o Throws(S, None, None)
     /\ calls' = Aborted(D)
     /\ IF S = {}
        THEN /\ fib' = Popped(F, f) /\ flow' \in Goes(f, Return(s, o))
             /\ UNCHANGED <<cur, waits>>
        ELSE /\ fib' = Suspended([Replaced(F, f, Frame("closing", s, NotYet)) EXCEPT ![f].holds = @ + 1],
                                 f, ClosingNo(f, s), "closing", s)
             /\ cur' = None /\ flow' = "run"
             /\ waits' = Append(Without(waits, D), f)
  /\ UNCHANGED <<over, pauses, later, deferred, unwound, reported>>

(* $scope: the last child ended and the scope returns.                     *)
EndScope(f) ==
  /\ cur = f /\ flow = "run" /\ ~over /\ InFrame(f, "closing")
  /\ LET s == Top(f).s IN
     /\ scope' = [scope EXCEPT ![s].ended = TRUE, ![s].ret = Return(s, scope[s].out)]
     /\ fib' = [Popped(fib, f) EXCEPT ![f].holds = @ - 1]
     /\ flow' \in Goes(f, Return(s, scope[s].out))
  /\ UNCHANGED <<queue, calls, deferred>> /\ Stays

-----------------------------------------------------------------------------
(* $Fiber#finish of the main fiber: $Root#rootEnded and $Root#finish.      *)
FinishMain(o) ==
  /\ fib' = [fib EXCEPT ![Main].result = o]
  /\ over' = TRUE
  /\ queue' = <<>> /\ waits' = <<>> /\ calls' = Aborted(Fibers)
  /\ cur' = None /\ flow' = "run"
  /\ UNCHANGED <<pauses, later, scope, deferred, unwound, reported>>

(* $Fiber#finish of a forked fiber: $Scope#childEnded, then the watchers.  *)
(* A first failure interrupts the siblings and the body; the last child    *)
(* wakes a scope that waits for its children.                              *)
(* Mutant: the closer of the scope is not called.                          *)
NoCloserWake(s) == <<>>
CloserWake(s) ==
  IF scope[s].closer # 0 THEN <<Wake(scope[s].fiber, scope[s].closer, "closing")>> ELSE <<>>

ChildEnded(f, s, o) ==
  LET r == scope[s] IN
  [scope EXCEPT ![s] = [r EXCEPT !.children = r.children \ {f},
                                 !.first = FirstFailure(s, o),
                                 !.closed = r.closed \/ Failure(o),
                                 !.closer = IF r.children = {f} THEN 0 ELSE r.closer]]

FinishChild(f, o, q) ==
  LET s == fib[f].scope
      isFirst == Failure(o) /\ scope[s].first = NotYet
      S == IF isFirst THEN scope[s].children \ {f} ELSE {}
      b == IF isFirst /\ ~scope[s].bodyDone THEN scope[s].fiber ELSE None
      D == Dropped(S, b, s)
      closer == IF scope[s].children = {f} THEN CloserWake(s) ELSE <<>>
      woken == Woken(closer \o fib[f].watchers, D)
      F == Released(Interrupted(S, b, s), Taken(woken)) IN
  /\ fib' = [F EXCEPT ![f].result = o, ![f].watchers = <<>>]
  /\ scope' = ChildEnded(f, s, o)
  /\ queue' = q \o Throws(S, b, s) \o ResumeTasks(woken, o)
  /\ waits' = Without(waits, D \cup Taken(woken))
  /\ calls' = Aborted(D)
  /\ cur' = None /\ flow' = "run"
  /\ UNCHANGED <<over, pauses, later, deferred, unwound, reported>>

Finish(f, o) ==
  /\ cur = f /\ ~over /\ flow = o /\ o \in Outcomes /\ fib[f].stack = <<>>
  /\ IF f = Main THEN FinishMain(o) ELSE FinishChild(f, o, queue)

-----------------------------------------------------------------------------
(* $Root#drain: the first task of the queue runs.                          *)
NextTask(kind) == cur = None /\ ~over /\ queue # <<>> /\ Head(queue).kind = kind
Dequeued == UNCHANGED <<over, pauses, later, calls, scope, deferred, unwound, reported>>

(* $Fiber#begin: a fiber interrupted before it began ends at once.         *)
Begin ==
  /\ NextTask("begin")
  /\ LET f == Head(queue).f IN
     IF fib[f].pending # {} THEN FinishChild(f, "int", Tail(queue))
     ELSE /\ cur' = f /\ flow' = "run" /\ queue' = Tail(queue)
          /\ UNCHANGED <<waits, fib>> /\ Dequeued

(* $Fiber#resume: an interruption that arrived in the meantime is          *)
(* delivered instead of the value.                                         *)
Resumes(F, f, in) ==
  /\ cur' = f /\ queue' = Tail(queue)
  /\ IF in = "run" /\ Interrupting(f)
     THEN flow' = "int" /\ fib' = [F EXCEPT ![f] = Delivered(F[f])]
     ELSE flow' = in /\ fib' = F

Resume ==
  /\ NextTask("resume")
  /\ Resumes(fib, Head(queue).f, Head(queue).in)
  /\ UNCHANGED waits /\ Dequeued

(* `go` of a yield: does nothing if the wait was dropped in the meantime.  *)
(* Mutant: a yield continues though its wait was dropped.                  *)
GoDropped ==
  /\ NextTask("go")
  /\ LET f == Head(queue).f IN
     Resumes(Released(fib, {f}), f, "run") /\ waits' = Without(waits, {f})
  /\ Dequeued
Go ==
  /\ NextTask("go")
  /\ LET f == Head(queue).f IN
     IF fib[f].wait.no = Head(queue).no
     THEN Resumes(Released(fib, {f}), f, "run") /\ waits' = Without(waits, {f})
     ELSE queue' = Tail(queue) /\ UNCHANGED <<cur, flow, waits, fib>>
  /\ Dequeued

(* A dropped continuation is thrown the interruption.                      *)
Throw ==
  /\ NextTask("throw")
  /\ LET f == Head(queue).f IN fib' = [fib EXCEPT ![f] = Delivered(@)] /\ cur' = f
  /\ flow' = "int" /\ queue' = Tail(queue)
  /\ UNCHANGED waits /\ Dequeued

-----------------------------------------------------------------------------
(* Host callbacks run when the queue has been drained.                     *)
HostTurn == cur = None /\ ~over /\ queue = <<>>

(* The promise of a host call settles or is rejected.                      *)
Settle(c, in) ==
  /\ HostTurn /\ c \in calls
  /\ calls' = calls \ {c} /\ reported' = FALSE
  /\ IF fib[c.f].wait.no = c.no
     THEN /\ fib' = Released(fib, {c.f}) /\ waits' = Without(waits, {c.f})
          /\ queue' = Append(queue, Task("resume", c.f, 0, in))
     ELSE UNCHANGED <<fib, waits, queue>>
  /\ UNCHANGED <<cur, flow, over, pauses, later, scope, deferred, unwound>>

(* The callback of a yield through the event loop ($later).                *)
Later(go) ==
  /\ HostTurn /\ go \in later
  /\ later' = later \ {go} /\ reported' = FALSE
  /\ queue' = Append(queue, go)
  /\ UNCHANGED <<cur, flow, over, pauses, waits, calls, fib, scope, deferred, unwound>>

(* beforeExit: the loop is empty, and is reported again only once a host   *)
(* callback has run.  $Root#interrupt: every fiber is interrupted and      *)
(* every wait but the ones of closing scopes is dropped, releases included.*)
LoopEmpty == HostTurn /\ calls = {} /\ later = {}

Stalled ==
  /\ LoopEmpty /\ ~reported
  /\ LET D == {f \in Fibers : Waiting(f) /\ fib[f].wait.on # "closing"}
         hit(f) == Live(f) /\ ~fib[f].unwinding IN
     /\ fib' = Released([f \in Fibers |-> IF hit(f) THEN [fib[f] EXCEPT !.pending = @ \cup {None}]
                                           ELSE fib[f]], D)
     /\ queue' = ThrowTasks(Reverse(Without(waits, Fibers \ D)))
     /\ waits' = Without(waits, D)
  /\ unwound' = TRUE /\ reported' = TRUE
  /\ UNCHANGED <<cur, flow, over, pauses, later, calls, scope, deferred>>

(* The process exits: the run is over, or nothing more will happen.        *)
Exited == LoopEmpty /\ reported
Exit == (over \/ Exited) /\ UNCHANGED vars

-----------------------------------------------------------------------------
Calls(f) ==
  \/ OpenWith(f) \/ OpenAttempt(f)
  \/ \E s \in Scopes : OpenScope(f, s) \/ ForkClosed(f, s)
  \/ \E s \in Scopes, c \in Fibers : Fork(f, s, c)
  \/ \E s \in Scopes, d \in Deferreds : NewDeferred(f, s, d)
  \/ \E d \in Deferreds : Complete(f, d) \/ AwaitDeferred(f, d)
  \/ \E op \in Requests : Deliver(f, op) \/ Await(f, op)
  \/ Pause(f)
  \/ \E h \in Fibers : \/ \E verb \in {"join", "await"} : Join(f, h, verb)
                       \/ InterruptEnded(f, h) \/ InterruptOther(f, h)
  \/ InterruptSelf(f)

Ends(f) ==
  \E o \in Outcomes : \/ EndWith(f, o) \/ BeginRelease(f, o) \/ EndRelease(f, o)
                      \/ EndAttempt(f, o) \/ EndBody(f, o) \/ Finish(f, o)

Drain == Begin \/ Resume \/ Go \/ Throw

Host ==
  \/ \E c \in calls : Settle(c, "run") \/ Settle(c, "die")
  \/ \E go \in later : Later(go)
  \/ Stalled

Step == (\E f \in Fibers : Calls(f) \/ Ends(f) \/ EndScope(f)) \/ Drain \/ Host
Next == Step \/ Exit

Spec == Init /\ [][Next]_vars
(* Code between suspension points ends, the queue is drained, and the host *)
(* settles its calls.                                                      *)
FairSpec == Spec /\ WF_vars(Step)

-----------------------------------------------------------------------------
Wakes == [f : Fibers, no : Nat, verb : Verbs]
Tasks == [kind : {"begin", "resume", "go", "throw"}, f : Fibers, no : Nat,
          in : Outcomes \cup {"run"}]

(* The type of the scheduler's state.                                      *)
TypeOK ==
  /\ cur \in Fibers \cup {None} /\ flow \in Outcomes \cup {"run"}
  /\ queue \in Seq(Tasks) /\ later \subseteq Tasks
  /\ over \in BOOLEAN /\ unwound \in BOOLEAN /\ reported \in BOOLEAN
  /\ pauses \in 0..(HostEvery - 1)
  /\ waits \in Seq(Fibers)
  /\ calls \subseteq [f : Fibers, no : Nat, aborted : BOOLEAN]
  /\ \A f \in Fibers :
       fib[f] \in [born : BOOLEAN, scope : 0..NScopes,
                  wait : [no : Nat, on : WaitKinds, of : Nat],
                  pending : SUBSET (Scopes \cup {None}), unwinding : BOOLEAN,
                  unwinds : SUBSET Scopes, holds : Nat,
                  result : Outcomes \cup {NotYet}, watchers : Seq(Wakes),
                  ops : 0..MaxOps[f], stack : Seq(Frames)]
  /\ scope \in [Scopes -> [fiber : 0..NFibers, depth : Nat, children : SUBSET Fibers,
                           closed : BOOLEAN, bodyDone : BOOLEAN, ended : BOOLEAN,
                           first : Outcomes \cup {NotYet}, closer : Nat,
                           out : Outcomes \cup {NotYet}, ret : Outcomes \cup {NotYet}]]
  /\ deferred \in [Deferreds -> [scope : 0..NScopes, full : BOOLEAN, waiters : Seq(Wakes)]]

(* Every waiting fiber will be woken: what it waits for has not happened   *)
(* yet and knows that it waits.  A wait for the result of a fiber, for a   *)
(* deferred or for the children of a scope is registered there, and a      *)
(* yield has its task queued or with the host.                             *)
NoLostWakeup ==
  ~over => \A f \in Fibers :
    LET w == fib[f].wait
        registered(ws) == \E i \in DOMAIN ws : ws[i].f = f /\ ws[i].no = w.no
        yields(ts) == \E t \in ts : t.kind = "go" /\ t.f = f /\ t.no = w.no IN
    CASE w.on = "fiber" -> Live(w.of) /\ registered(fib[w.of].watchers)
      [] w.on = "deferred" -> ~deferred[w.of].full /\ registered(deferred[w.of].waiters)
      [] w.on = "closing" -> scope[w.of].children # {} /\ scope[w.of].closer = w.no
      [] w.on = "pause" -> yields(later \cup {queue[i] : i \in DOMAIN queue})
      [] OTHER -> TRUE

(* A continuation runs once: a fiber that has not ended is the running     *)
(* one, waits in root.waits, or has one task in the queue that begins,     *)
(* resumes or throws into it, and never two of these; a fiber that has     *)
(* ended or was not forked is nowhere.  The state has its type.            *)
OneContinuation ==
  /\ TypeOK
  /\ ~over => \A f \in Fibers :
    LET one(b) == IF b THEN 1 ELSE 0
        tasks == {i \in DOMAIN queue : queue[i].f = f /\ queue[i].kind # "go"}
        waiting == {i \in DOMAIN waits : waits[i] = f} IN
    /\ one(cur = f) + Cardinality(waiting) + Cardinality(tasks) = one(Live(f))
    /\ Waiting(f) <=> waiting # {}

(* No fiber sleeps through an interruption: a fiber that may be            *)
(* interrupted now ($Fiber#interrupting) is not left waiting.              *)
NoSleepThroughInterrupt ==
  \A f \in Fibers : Waiting(f) => ~Interrupting(f)

(* A release, or a scope waiting for its children, is interrupted only     *)
(* when the whole run is unwound as stalled: otherwise the exception is    *)
(* thrown into a fiber only while it holds nothing off, however long ago   *)
(* the interruption was asked for.                                         *)
ReleaseUninterrupted ==
  [][\A f \in Fibers :
       (fib'[f].unwinding /\ ~fib[f].unwinding) \/ ~(fib'[f].unwinds \subseteq fib[f].unwinds)
         => fib[f].holds = 0 \/ unwound]_vars

(* An interruption aimed at the body of a scope does not outlive the body: *)
(* what a fiber has pending or is unwinding is a scope it is in the body   *)
(* of, so the interruption never unwinds code outside that scope.          *)
InterruptStaysInScope ==
  \A f \in Fibers : \A s \in (fib[f].pending \cup fib[f].unwinds) \ {None} :
    \E i \in DOMAIN fib[f].stack : fib[f].stack[i].kind = "scope" /\ fib[f].stack[i].s = s

(* Structured concurrency: the scheduler implements the abstract scopes.   *)
Phase(s) ==
  LET r == scope[s] IN
  IF r.fiber = None THEN "new" ELSE IF r.ended THEN "ended"
  ELSE IF r.bodyDone THEN "closing" ELSE IF r.closed THEN "failed" ELSE "open"
Scoping == INSTANCE StructuredConcurrency WITH
  result <- [f \in Fibers |-> IF fib[f].born THEN fib[f].result ELSE "unborn"],
  home <- [f \in Fibers |-> fib[f].scope],
  body <- [s \in Scopes |-> scope[s].fiber],
  phase <- [s \in Scopes |-> Phase(s)],
  first <- [s \in Scopes |-> scope[s].first],
  out <- [s \in Scopes |-> scope[s].out],
  ret <- [s \in Scopes |-> scope[s].ret]

(* Every step of the scheduler is a step of StructuredConcurrency: scopes  *)
(* return after their children, and report the first failure.              *)
ImplementsScopes == Scoping!Spec

(* So lifetimes nest: a scope that has returned ($Scope#ended) has no live *)
(* child, and when main has ended, so that the run is over, every fiber    *)
(* that was ever forked has ended, however deep its scope was nested.      *)
LifetimesNest == Scoping!LifetimesNest

(* And no failure is swallowed: a scope returns a failure exactly when its *)
(* body or one of the fibers forked into it failed ($Scope#failed).        *)
NoFailureLost == Scoping!NoFailureLost

(* The run ends: every fiber is woken or unwound, and the launcher prints  *)
(* what main came to.                                                      *)
RunEnds == <>over

(* The one way in which it does not: when the loop emptied, the run was    *)
(* unwound, and a release on the way out waits again for something that no *)
(* host callback will bring.  beforeExit is not emitted a second time, so  *)
(* the process exits in the middle of the release ($Root#interrupt).       *)
Abandoned ==
  Exited /\ unwound /\ \E f \in Fibers :
    /\ Waiting(f) /\ fib[f].wait.on # "closing" /\ fib[f].unwinding
    /\ \E i \in DOMAIN fib[f].stack : fib[f].stack[i].kind = "release"

(* Otherwise the run ends, also when its fibers wait for each other, and   *)
(* with releases that are cut short by the unwinding.                      *)
RunEndsOrAbandoned == <>(over \/ Abandoned)

=============================================================================
