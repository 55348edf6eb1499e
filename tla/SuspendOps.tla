----------------------------- MODULE SuspendOps -----------------------------
(***************************************************************************)
(* Operations declared suspend fn in the JavaScript runtime (runtime.mjs): *)
(* how $performOp calls an implementation, how resume, a failure or a      *)
(* defect reaches the caller, and what becomes of implementations and      *)
(* callers that are interrupted.                                           *)
(*                                                                         *)
(* Continuation 0 is the main one of the run's first fiber; continuation k *)
(* is the implementation of the k-th call of an operation, which runs as a *)
(* separate continuation of the same fiber once it suspends.  They nest on *)
(* the JavaScript stack: a call runs its implementation inside it, and a   *)
(* resume runs the caller inside it.  Other fibers and the host act only   *)
(* when the stack is empty.  What a continuation computes is arbitrary.    *)
(***************************************************************************)
EXTENDS Integers, Sequences, SequencesExt

CONSTANT NCalls    \* the number of calls of operations

ASSUME SuspendOpsAssumption == NCalls \in Nat

Main == 0
Calls == 1..NCalls
Conts == 0..NCalls
Other == 0         \* a wait for a promise, another fiber or a Deferred
Closing == -1      \* a scope waits for its children

VARIABLES
  n,          \* the number of calls so far
  caller,     \* the continuation that made each call
  used,       \* calls whose result was passed (used)
  live,       \* calls whose caller's wait is live (wait.live)
  at,         \* where each continuation is
  on,         \* the call a waiting continuation waits for, Other or Closing
  stack,      \* the continuations on the JavaScript stack
  waits,      \* root.waits, oldest first
  queue,      \* the tasks of these continuations in root.queue
  closed,     \* implementations whose end only notes a defect (interrupt)
  orphan,     \* root.orphan is set
  pend,       \* fiber.pending: "scope", "all" (null)
  unw,        \* the interruption being delivered: "no", "scope", "all"
  held,       \* continuations in a release that may suspend (fiber.holds)
  result,     \* what the run ended with, or "none" until it is over
  abandoned,  \* history: calls whose caller was dropped while it waited
  thrown,     \* history: implementations that were thrown $Interrupted
  defects,    \* history: of these, the ones that ended with a defect
  got         \* history: how often a result of a call reached its caller

history == <<abandoned, thrown, defects, got>>
vars == <<n, caller, used, live, at, on, stack, waits, queue, closed, orphan, pend, unw, held,
          result, history>>

Init ==
  /\ n = 0 /\ caller = [k \in Calls |-> Main] /\ used = {} /\ live = {}
  /\ at = [c \in Conts |-> IF c = Main THEN "run" ELSE "new"]
  /\ on = [c \in Conts |-> Other]
  /\ stack = <<Main>> /\ waits = <<>> /\ queue = <<>>
  /\ closed = {} /\ orphan = FALSE /\ pend = {} /\ unw = "no" /\ held = {}
  /\ result = "none"
  /\ abandoned = {} /\ thrown = {} /\ defects = {} /\ got = [k \in Calls |-> 0]

Over == result # "none"
Idle == ~Over /\ stack = <<>>
Running(c) == ~Over /\ stack # <<>> /\ Last(stack) = c /\ at[c] = "run"
Task(c, mode, k) == [c |-> c, mode |-> mode, call |-> k]

(* The implementation of call k has not returned to $performOp yet (sync). *)
Sync(k) == at[caller[k]] = "perform" /\ on[caller[k]] = k

(* interrupting() and deliver() of $Fiber.                                 *)
Interrupting == held = {} /\ (pend # {} \/ unw # "no")
Deliver ==
  /\ unw' = IF unw = "all" \/ "all" \in pend THEN "all" ELSE "scope"
  /\ pend' = {}

(* $advance delivers an interruption only to the main continuation.        *)
MaySuspend(c) == c = Main => ~Interrupting

-----------------------------------------------------------------------------
(* A sequence without the elements of a set: Set.delete, which keeps the   *)
(* order of the others.                                                    *)
Without(s, D) ==
  LET rest[i \in 0..Len(s)] ==
        IF i = 0 THEN <<>>
        ELSE IF s[i] \in D THEN rest[i - 1] ELSE Append(rest[i - 1], s[i])
  IN  rest[Len(s)]

(* Dropping waits.  s holds the variables that change.                     *)
Now == [at |-> at, live |-> live, waits |-> waits, queue |-> queue, closed |-> closed,
        abandoned |-> abandoned]
Becomes(s) ==
  /\ at' = s.at /\ live' = s.live /\ waits' = s.waits /\ queue' = s.queue
  /\ closed' = s.closed /\ abandoned' = s.abandoned

(* The implementations that are unwound with the wait of c, innermost      *)
(* first: the one c waits for, if it waits itself, and so on (onDrop).     *)
Inner(s, c) ==
  LET inner[d \in Conts] ==
        IF /\ s.at[d] = "wait" /\ on[d] \in Calls
           /\ on[d] \notin used /\ on[d] \notin s.closed /\ s.at[on[d]] = "wait"
        THEN Append(inner[on[d]], on[d])
        ELSE <<>>
  IN inner[c]

(* $drop, with onDrop's tasks.                                             *)
Drop(s, c) ==
  LET inner == Inner(s, c)
      dropped == {c} \cup ToSet(inner)
      calls == {on[d] : d \in dropped} \cap Calls
  IN [at |-> [d \in Conts |-> IF d \in dropped THEN "queued" ELSE s.at[d]],
      live |-> s.live \ calls,
      waits |-> Without(s.waits, dropped),
      queue |-> s.queue \o [i \in 1..Len(inner) |-> Task(inner[i], "interrupt", Other)],
      closed |-> s.closed,
      abandoned |-> s.abandoned \cup calls]

(* The task that throws $Interrupted into c.                               *)
Throw(s, c) == [s EXCEPT !.queue = Append(@, Task(c, "interrupt", Other))]

(* Mutant: the caller's task is queued before the implementations'.        *)
InterruptsOuterFirst == Drop(Throw(Now, Main), Main)
Interrupts == Throw(Drop(Now, Main), Main)

(* $Fiber#interrupt of the body of a scope on this fiber, by another one.  *)
Interrupt ==
  /\ Idle /\ unw = "no" /\ "scope" \notin pend
  /\ pend' = pend \cup {"scope"}
  /\ Becomes(IF held = {} /\ at[Main] = "wait" THEN Interrupts ELSE Now)
  /\ UNCHANGED <<n, caller, used, on, stack, orphan, unw, held, result, thrown, defects, got>>

(* $Root#interrupt, when the run stalls: every wait is unwound, the newest *)
(* first, but for scopes that wait for their children; implementations get *)
(* an end that only notes their defects.                                   *)
Close(c, s) ==
  IF s.at[c] # "wait" \/ on[c] = Closing THEN s
  ELSE LET t == Throw(Drop(s, c), c)
       IN [t EXCEPT !.closed = IF c = Main THEN @ ELSE @ \cup {c}]
CloseAll ==
  LET after[i \in 0..Len(waits)] ==
        IF i = 0 THEN Now ELSE Close(waits[Len(waits) + 1 - i], after[i - 1])
  IN  after[Len(waits)]
RootInterrupt ==
  /\ Idle /\ queue = <<>>
  /\ pend' = IF unw = "all" THEN pend ELSE pend \cup {"all"}
  /\ Becomes(CloseAll)
  /\ UNCHANGED <<n, caller, used, on, stack, orphan, unw, held, result, thrown, defects, got>>

-----------------------------------------------------------------------------
(* Results of operations.                                                  *)

(* Mutant: a second resume is passed on.                                   *)
ResumableAgain(k) == k \in 1..n
Resumable(k) == k \in 1..n /\ k \notin used

(* take() of the wait of the caller of k.                                  *)
Take(k) == live' = live \ {k} /\ waits' = Without(waits, {caller[k]})

(* Mutant: the caller is continued though its call has not returned.       *)
PassReenters(k, at1, stack1) ==
  /\ used' = used \cup {k}
  /\ IF k \notin live
     THEN at' = at1 /\ stack' = stack1 /\ UNCHANGED <<live, waits, got>>
     ELSE /\ Take(k)
          /\ at' = [at1 EXCEPT ![caller[k]] = "run"] /\ stack' = Append(stack1, caller[k])
          /\ got' = [got EXCEPT ![k] = @ + 1]
(* pass and cont on this fiber: the caller takes the result when its call  *)
(* returns, or is continued on the spot, unless its wait was dropped.      *)
Pass(k, at1, stack1) ==
  /\ used' = used \cup {k}
  /\ IF Sync(k) \/ k \notin live
     THEN at' = at1 /\ stack' = stack1 /\ UNCHANGED <<live, waits, got>>
     ELSE /\ Take(k)
          /\ at' = [at1 EXCEPT ![caller[k]] = "run"] /\ stack' = Append(stack1, caller[k])
          /\ got' = [got EXCEPT ![k] = @ + 1]

(* A continuation calls resume.                                            *)
Resume(c, k) ==
  /\ Running(c) /\ Resumable(k)
  /\ Pass(k, at, stack)
  /\ UNCHANGED <<n, caller, on, queue, closed, orphan, pend, unw, held, result, abandoned,
                 thrown, defects>>

(* Another fiber or a host callback calls resume: the caller is queued.    *)
ResumeElsewhere(k) ==
  /\ Idle /\ Resumable(k)
  /\ used' = used \cup {k}
  /\ IF k \in live
     THEN /\ Take(k) /\ at' = [at EXCEPT ![caller[k]] = "queued"]
          /\ queue' = Append(queue, Task(caller[k], "next", k))
     ELSE UNCHANGED <<live, waits, at, queue>>
  /\ UNCHANGED <<n, caller, on, stack, closed, orphan, pend, unw, held, result, history>>

(* The promise, fiber or Deferred a continuation waits for is ready.       *)
WakeOther(c, mode) ==
  /\ Idle /\ at[c] = "wait" /\ on[c] \in {Other, Closing}
  /\ at' = [at EXCEPT ![c] = "queued"]
  /\ waits' = Without(waits, {c})
  /\ queue' = Append(queue, Task(c, mode, Other))
  /\ UNCHANGED <<n, caller, used, live, on, stack, closed, orphan, pend, unw, held, result, history>>

(* c completes a Deferred that d, a continuation of its fiber, waits for:  *)
(* d is continued on the spot.                                             *)
Complete(c, d) ==
  /\ Running(c) /\ at[d] = "wait" /\ on[d] = Other
  /\ at' = [at EXCEPT ![d] = "run"] /\ stack' = Append(stack, d)
  /\ waits' = Without(waits, {d})
  /\ UNCHANGED <<n, caller, used, live, on, queue, closed, orphan, pend, unw, held, result, history>>

(* A task of the queue: $step, $Fiber#resume, or an interruption's throw.  *)
RunTask ==
  /\ Idle /\ queue # <<>>
  /\ LET t == Head(queue)
         delivers == t.c = Main /\ (t.mode = "interrupt" \/ (t.mode = "next" /\ Interrupting))
     IN /\ at' = [at EXCEPT ![t.c] = "run"] /\ stack' = <<t.c>>
        /\ IF delivers THEN Deliver ELSE UNCHANGED <<pend, unw>>
        /\ thrown' = IF t.mode = "interrupt" /\ t.c # Main THEN thrown \cup {t.c} ELSE thrown
        /\ got' = IF t.call # Other /\ ~delivers THEN [got EXCEPT ![t.call] = @ + 1] ELSE got
  /\ queue' = Tail(queue)
  /\ UNCHANGED <<n, caller, used, live, on, waits, closed, orphan, held, result, abandoned, defects>>

-----------------------------------------------------------------------------
(* Steps of the continuation on top of the stack.                          *)

(* $performOp calls the implementation.                                    *)
Perform(c) ==
  /\ Running(c) /\ MaySuspend(c) /\ n < NCalls
  /\ n' = n + 1 /\ caller' = [caller EXCEPT ![n + 1] = c] /\ live' = live \cup {n + 1}
  /\ at' = [at EXCEPT ![c] = "perform", ![n + 1] = "run"]
  /\ on' = [on EXCEPT ![c] = n + 1]
  /\ stack' = Append(stack, n + 1)
  /\ UNCHANGED <<used, waits, queue, closed, orphan, pend, unw, held, result, history>>

Continues(c) == on[c] \in used
(* $performOp returns, and the caller goes on with the result or suspends. *)
Returns(c) ==
  /\ ~Over /\ stack # <<>> /\ Last(stack) = c /\ at[c] = "perform"
  /\ IF Continues(c)
     THEN /\ at' = [at EXCEPT ![c] = "run"] /\ got' = [got EXCEPT ![on[c]] = @ + 1]
          /\ UNCHANGED <<stack, waits>>
     ELSE /\ at' = [at EXCEPT ![c] = "wait"] /\ got' = got
          /\ stack' = Front(stack) /\ waits' = Append(waits, c)
  /\ UNCHANGED <<n, caller, used, live, on, queue, closed, orphan, pend, unw, held, result,
                 abandoned, thrown, defects>>

(* It waits for something else.                                            *)
Suspend(c, o) ==
  /\ Running(c) /\ MaySuspend(c)
  /\ o = Other \/ (o = Closing /\ c = Main /\ Main \in held)
  /\ at' = [at EXCEPT ![c] = "wait"] /\ on' = [on EXCEPT ![c] = o]
  /\ stack' = Front(stack) /\ waits' = Append(waits, c)
  /\ UNCHANGED <<n, caller, used, live, queue, closed, orphan, pend, unw, held, result, history>>

(* At a suspension point an interruption is thrown instead.                *)
Interrupted ==
  /\ Running(Main) /\ Interrupting /\ Deliver
  /\ UNCHANGED <<n, caller, used, live, at, on, stack, waits, queue, closed, orphan, held, result,
                 history>>
(* The body of the scope that was to be interrupted ends, in time or not.  *)
EndBody ==
  /\ Running(Main) /\ unw # "all" /\ (unw = "scope" \/ "scope" \in pend)
  /\ unw' = "no" /\ pend' = pend \ {"scope"}
  /\ UNCHANGED <<n, caller, used, live, at, on, stack, waits, queue, closed, orphan, held,
                 result, history>>

(* $hold and $unhold.                                                      *)
Hold(c) ==
  /\ Running(c)
  /\ held' = IF c \in held THEN held \ {c} ELSE held \cup {c}
  /\ UNCHANGED <<n, caller, used, live, at, on, stack, waits, queue, closed, orphan, pend, unw,
                 result, history>>

(* finish: what is queued and waits is forgotten.                          *)
Finish(o) == result' = o /\ queue' = <<>> /\ waits' = <<>>

(* Mutant: the defects of closed implementations are not looked at.        *)
RootEndedPlain(o) == Finish(o)
(* rootEnded *)
RootEnded(o) == Finish(IF o = "interrupted" /\ orphan THEN "defect" ELSE o)

(* The main continuation ends.                                             *)
EndMain(o) ==
  /\ Running(Main) /\ Main \notin held /\ unw # "scope" /\ "scope" \notin pend
  /\ RootEnded(o)
  /\ at' = [at EXCEPT ![Main] = "ended"] /\ stack' = Front(stack)
  /\ UNCHANGED <<n, caller, used, live, on, closed, orphan, pend, unw, held, history>>

(* An implementation ends (settled, or the end $Root#interrupt gave it).   *)
EndImpl(k, o) ==
  /\ Running(k) /\ k \notin held
  /\ LET at1 == [at EXCEPT ![k] = "ended"]
         stack1 == Front(stack)
         settles == k \notin closed /\ o # "value"
     IN \/ /\ ~settles /\ orphan' = (orphan \/ (k \in closed /\ o = "defect"))
           /\ at' = at1 /\ stack' = stack1 /\ UNCHANGED <<used, live, waits, queue, got, result>>
        \/ /\ settles /\ k \in used
           /\ Finish(IF o = "interrupted" THEN o ELSE "defect")
           /\ at' = at1 /\ stack' = stack1 /\ UNCHANGED <<used, live, got, orphan>>
        \/ /\ settles /\ k \notin used
           /\ Pass(k, at1, stack1) /\ UNCHANGED <<queue, result, orphan>>
  /\ defects' = IF k \in thrown /\ o = "defect" THEN defects \cup {k} ELSE defects
  /\ UNCHANGED <<n, caller, on, closed, pend, unw, held, abandoned, thrown>>

Done == Over /\ UNCHANGED vars

Outcomes == {"value", "fail", "defect", "interrupted"}
Code(c) ==
  \/ Perform(c) \/ Returns(c) \/ Suspend(c, Other) \/ Suspend(c, Closing) \/ Hold(c)
  \/ \E k \in Calls : Resume(c, k)
  \/ \E d \in Conts : Complete(c, d)
Elsewhere ==
  \/ Interrupt \/ RootInterrupt
  \/ \E k \in Calls : ResumeElsewhere(k)
  \/ \E c \in Conts : \E mode \in {"next", "throw"} : WakeOther(c, mode)
Next ==
  \/ \E c \in Conts : Code(c)
  \/ Interrupted \/ EndBody \/ RunTask \/ Elsewhere \/ Done
  \/ \E o \in Outcomes : EndMain(o) \/ \E k \in Calls : EndImpl(k, o)
Spec == Init /\ [][Next]_vars

-----------------------------------------------------------------------------
(* The type of the state.                                                  *)
TypeOK ==
  /\ n \in 0..NCalls /\ caller \in [Calls -> Conts]
  /\ used \subseteq Calls /\ live \subseteq Calls /\ closed \subseteq Calls
  /\ at \in [Conts -> {"new", "run", "perform", "wait", "queued", "ended"}]
  /\ on \in [Conts -> Closing..NCalls]
  /\ stack \in Seq(Conts) /\ waits \in Seq(Conts)
  /\ queue \in Seq([c : Conts, mode : {"next", "throw", "interrupt"}, call : Conts])
  /\ orphan \in BOOLEAN /\ pend \subseteq {"scope", "all"} /\ unw \in {"no", "scope", "all"}
  /\ held \subseteq Conts /\ result \in Outcomes \cup {"none"}
  /\ abandoned \subseteq Calls /\ thrown \subseteq Calls /\ defects \subseteq Calls
  /\ got \in [Calls -> Nat]

(* One result reaches the caller of an operation: the value resumed with,  *)
(* a failure or a defect, whichever is first; and none if the caller was   *)
(* interrupted while it waited, however late resume is called.             *)
OneResult ==
  \A k \in Calls : got[k] + (IF k \in abandoned THEN 1 ELSE 0) <= 1

(* No result is lost: a caller does not wait for a call whose result was   *)
(* already passed, in place or later.                                      *)
NoLostResult ==
  \A c \in Conts : at[c] = "wait" /\ on[c] \in Calls => on[c] \notin used /\ on[c] \in live

(* A caller that is not dropped gets its result, and gets it once          *)
(* ($performOp).                                                           *)
ExactlyOneResult == OneResult /\ NoLostResult

(* No generator is entered while it runs: the continuations on the stack   *)
(* are different, and only they run or perform.  The state has its type.   *)
NoReentry ==
  /\ TypeOK
  /\ \A i, j \in DOMAIN stack : stack[i] = stack[j] => i = j
  /\ ~Over => \A c \in Conts : at[c] \in {"run", "perform"} <=> c \in ToSet(stack)

(* Until it is over, the run knows every continuation that waits, once, so *)
(* that unwinding it reaches all of them and none that went on.            *)
WaitsExact == ~Over =>
  /\ \A i, j \in DOMAIN waits : waits[i] = waits[j] => i = j
  /\ ToSet(waits) = {c \in Conts : at[c] = "wait"}

(* Unwinding goes from the inside out: an implementation unwound with its  *)
(* caller is thrown the interruption before the caller is.                 *)
InsideOut ==
  \A i \in DOMAIN queue :
    queue[i].mode = "interrupt" /\ queue[i].c \in abandoned \ (closed \cup thrown)
      => \E j \in DOMAIN queue : j > i /\ queue[j].c = caller[queue[i].c]

(* Unwinding finds every wait, and goes from the inside out ($drop,        *)
(* $Root#interrupt).                                                       *)
UnwindsInOrder == WaitsExact /\ InsideOut

(* The main continuation ended the run as interrupted when it stalled.     *)
EndedInterrupted == result = "interrupted" /\ unw = "all" /\ at[Main] = "ended"

(* A defect raised while an implementation is closed with the run is the   *)
(* run's result when the main continuation ends as interrupted.            *)
ClosedDefectReported ==
  EndedInterrupted => closed \cap defects = {}
=============================================================================
