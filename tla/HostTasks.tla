----------------------------- MODULE HostTasks -----------------------------
(***************************************************************************)
(* The tasks of suspending external functions in the C runtime             *)
(* (emela_runtime.c): the task table and its handles, completions from the *)
(* runtime's thread and from other threads, the locked inbox with its      *)
(* self-pipe, cancellation, and the event loop of em_run.                  *)
(*                                                                         *)
(* Task t is the t-th call of an external function; its record (em_htask)  *)
(* is allocated while its slot holds it.  The host reaches it through its  *)
(* handle, a slot and a generation.  Fibers are abstracted to whether any  *)
(* is runnable: a runnable fiber may call an external function, interrupt  *)
(* a waiting one, or end main.  Yields (later) and TestClock's sleepers    *)
(* are not modelled.                                                       *)
(***************************************************************************)
EXTENDS Integers, Sequences, FiniteSets

CONSTANTS
  NTasks,          \* the number of external calls
  GenCount,        \* 2^EM_GEN_BITS, the number of generations of a slot
  MaxCompletions,  \* how often the host completes one handle
  MaxRuns          \* the number of runs (em_run)

Tasks == 1..NTasks
None == 0

(* No slot comes back to a generation: more generations than calls.        *)
ASSUME HostTasksAssumption ==
  /\ NTasks \in Nat /\ MaxCompletions \in Nat /\ MaxRuns \in Nat
  /\ GenCount \in Nat /\ GenCount > NTasks

VARIABLES
  (* The task table, guarded by em_inbox_lock.                             *)
  issued,      \* the number of tasks made
  slotOf,      \* t->slot, part of t's handle
  genOf,       \* the generation in t's handle
  slotsLen,    \* em_slots_len
  slotTask,    \* em_slots[i].task
  slotGen,     \* em_slots[i].gen
  free,        \* the free slots, oldest first (em_free_head ... em_free_tail)
  (* The flags and lists of the records.                                   *)
  completed, queued, twice, cancelled,
  waiting,     \* t->wait # NULL
  registered,  \* tasks with a timer or a file descriptor in the loop
  retired,     \* em_retired
  (* The inbox of completions from other threads.                          *)
  inbox,       \* em_inbox_head ...
  twiceBox,    \* em_inbox_twice: second completions from other threads
  waking,      \* threads between the unlock and the write of em_wake
  pipe,        \* the self-pipe has a byte
  (* The runtime's thread.                                                 *)
  phase,       \* where em_run and em_loop_turn are
  batch,       \* the taken inbox still to be delivered
  fibers,      \* the job queue is being drained
  calling,     \* the task whose host function is being called (in_place)
  stopping,    \* "stall" or "end" while the waits are being dropped
  over,        \* r->over
  runs,        \* the number of runs begun
  count,       \* the number of completions called through each handle
  raised       \* calls that ended with the "completed twice" defect

table == <<issued, slotOf, genOf, slotsLen, slotTask, slotGen, free>>
thread == <<inbox, twiceBox, waking, pipe>>
vars == <<table, completed, queued, twice, cancelled, waiting, registered,
          retired, thread, phase, batch, fibers, calling, stopping, over, runs,
          count, raised>>

Init ==
  /\ issued = 0 /\ slotsLen = 0 /\ free = <<>>
  /\ slotOf = [t \in Tasks |-> None] /\ genOf = [t \in Tasks |-> 0]
  /\ slotTask = [i \in Tasks |-> None] /\ slotGen = [i \in Tasks |-> 0]
  /\ completed = {} /\ queued = {} /\ twice = {} /\ cancelled = {}
  /\ waiting = {} /\ registered = {} /\ retired = <<>>
  /\ inbox = <<>> /\ twiceBox = {} /\ waking = 0 /\ pipe = FALSE
  /\ phase = "top" /\ batch = <<>> /\ fibers = TRUE /\ calling = None
  /\ stopping = "no" /\ over = FALSE /\ runs = 1
  /\ count = [t \in Tasks |-> 0] /\ raised = {}

Elems(q) == {q[i] : i \in DOMAIN q}
Allocated(t) == t \in 1..issued /\ slotTask[slotOf[t]] = t

(* em_slot_find: the record the handle of t names, or None.                *)
Find(t) == IF slotGen[slotOf[t]] = genOf[t] THEN slotTask[slotOf[t]] ELSE None

(* em_loop_collect: the retired records are freed, and their slots join    *)
(* the free list.                                                          *)
Collect ==
  /\ slotTask' = [i \in Tasks |-> IF slotTask[i] \in Elems(retired) THEN None ELSE slotTask[i]]
  /\ free' = free \o [i \in 1..Len(retired) |-> slotOf[retired[i]]]
  /\ retired' = <<>>
  /\ UNCHANGED <<issued, slotOf, genOf, slotsLen, slotGen>>

-----------------------------------------------------------------------------
(* Completions from another thread (em_complete with here = FALSE): the    *)
(* lock is released before the byte is written.                            *)
CompleteThere(t) ==
  /\ t \in 1..issued /\ count[t] < MaxCompletions
  /\ count' = [count EXCEPT ![t] = @ + 1]
  /\ waking' = waking + 1
  /\ LET r == Find(t) IN
     IF r = None \/ r \in completed
     THEN twiceBox' = twiceBox \cup {t} /\ UNCHANGED <<completed, queued, inbox>>
     ELSE /\ completed' = completed \cup {r} /\ queued' = queued \cup {r}
          /\ inbox' = Append(inbox, r) /\ twiceBox' = twiceBox
  /\ UNCHANGED <<table, twice, cancelled, waiting, registered, retired, pipe, phase,
                 batch, fibers, calling, stopping, over, runs, raised>>

(* em_wake *)
Wake ==
  /\ waking > 0 /\ waking' = waking - 1 /\ pipe' = TRUE
  /\ UNCHANGED <<table, completed, queued, twice, cancelled, waiting, registered, retired,
                 inbox, twiceBox, phase, batch, fibers, calling, stopping, over, runs,
                 count, raised>>

-----------------------------------------------------------------------------
(* em_root_finish: the run is over, and its waits are dropped one by one.  *)
FinishRun == over' = TRUE /\ stopping' = IF over THEN stopping ELSE "end"

(* em_task_deliver: wakes the waiting fiber, leaves the value to           *)
(* em_task_end while the host function is being called, or discards it.    *)
Deliver(r, regs) ==
  /\ registered' = regs \ {r}
  /\ waiting' = IF r = calling THEN waiting ELSE waiting \ {r}
  /\ retired' = IF r = calling THEN retired ELSE <<r>> \o retired
  /\ fibers' = (fibers \/ (r \in waiting /\ r # calling))

(* em_complete on the runtime's thread.  A second completion is remembered *)
(* in place, and otherwise ends the run (em_task_fail_run).  regs are the  *)
(* tasks with registrations by then.                                       *)
CompleteHere(t, regs) ==
  /\ t \in 1..issued /\ count[t] < MaxCompletions
  /\ count' = [count EXCEPT ![t] = @ + 1]
  /\ LET r == Find(t) IN
     IF r = None \/ r \in completed
     THEN /\ IF r # None /\ r = calling
             THEN twice' = twice \cup {r} /\ UNCHANGED <<over, stopping>>
             ELSE FinishRun /\ twice' = twice
          /\ registered' = regs /\ UNCHANGED <<completed, waiting, retired, fibers>>
     ELSE /\ completed' = completed \cup {r} /\ Deliver(r, regs)
          /\ UNCHANGED <<twice, over, stopping>>
  /\ UNCHANGED <<table, queued, cancelled, thread, batch, runs, raised>>

(* em_task_cancel: the host is told.  Its callback does nothing now,       *)
(* completes the task, or completes it though another thread already has.  *)
Cancel(t) ==
  /\ cancelled' = cancelled \cup {t}
  /\ waiting' = waiting \ {t}
  /\ \/ UNCHANGED <<completed, registered, retired, over, stopping, count>>
     \/ /\ count[t] < MaxCompletions /\ count' = [count EXCEPT ![t] = @ + 1]
        /\ IF t \in completed
           THEN FinishRun /\ UNCHANGED <<completed, registered, retired>>
           ELSE /\ completed' = completed \cup {t} /\ registered' = registered \ {t}
                /\ retired' = <<t>> \o retired
                /\ UNCHANGED <<over, stopping>>
  /\ UNCHANGED <<table, queued, twice, thread, batch, runs, raised>>

-----------------------------------------------------------------------------
(* Fibers run: jobs of the queue.                                          *)
FibersRun == fibers /\ calling = None /\ stopping = "no" /\ ~over

(* Mutant: a slot that is used again keeps its generation.                 *)
SameGen(i) == slotGen[i]
NextGen(i) == (slotGen[i] + 1) % GenCount

(* em_task_new with em_slot_take: the oldest free slot, or a new one, and  *)
(* its next generation.                                                    *)
TaskNew ==
  /\ FibersRun /\ issued < NTasks
  /\ LET t == issued + 1
         i == IF free # <<>> THEN Head(free) ELSE slotsLen + 1
         g == NextGen(i) IN
     /\ issued' = t /\ calling' = t
     /\ free' = IF free # <<>> THEN Tail(free) ELSE free
     /\ slotsLen' = IF free # <<>> THEN slotsLen ELSE slotsLen + 1
     /\ slotGen' = [slotGen EXCEPT ![i] = g]
     /\ slotTask' = [slotTask EXCEPT ![i] = t]
     /\ slotOf' = [slotOf EXCEPT ![t] = i] /\ genOf' = [genOf EXCEPT ![t] = g]
  /\ UNCHANGED <<completed, queued, twice, cancelled, waiting, registered, retired, thread,
                 phase, batch, fibers, stopping, over, runs, count, raised>>

(* em_after, em_on_readable, em_on_writable inside the host function: a    *)
(* completed task has nothing left to wait for.                            *)
Register ==
  /\ calling # None /\ stopping = "no"
  /\ calling \notin completed /\ calling \notin registered
  /\ registered' = registered \cup {calling}
  /\ UNCHANGED <<table, completed, queued, twice, cancelled, waiting, retired, thread, phase,
                 batch, fibers, calling, stopping, over, runs, count, raised>>

(* The host function completes a task before it returns.                   *)
CompleteInCall(t) ==
  /\ calling # None /\ stopping = "no"
  /\ CompleteHere(t, registered) /\ UNCHANGED <<phase, calling>>

(* Mutant: a completion by another thread is taken for one in place.       *)
DoneAnywhere == calling \in completed
DoneInPlace == calling \in completed /\ calling \notin queued

(* em_task_end: completed in place, with the run over, or left to wait.    *)
EndDone ==
  /\ calling # None /\ stopping = "no"
  /\ DoneInPlace
  /\ retired' = <<calling>> \o retired
  /\ raised' = IF calling \in twice THEN raised \cup {calling} ELSE raised
  /\ calling' = None
  /\ UNCHANGED <<table, completed, queued, twice, cancelled, waiting, registered, thread, phase,
                 batch, fibers, stopping, over, runs, count>>
EndDead ==
  /\ calling # None /\ stopping = "no"
  /\ ~DoneInPlace /\ over
  /\ Cancel(calling)
  /\ calling' = None
  /\ UNCHANGED <<phase, fibers>>
EndWaits ==
  /\ calling # None /\ stopping = "no"
  /\ ~DoneInPlace /\ ~over
  /\ waiting' = waiting \cup {calling}
  /\ calling' = None
  /\ UNCHANGED <<table, completed, queued, twice, cancelled, registered, retired, thread, phase,
                 batch, fibers, stopping, over, runs, count, raised>>

(* A fiber interrupts one that waits for an external function              *)
(* (em_drop_wait).                                                         *)
Interrupt(t) ==
  /\ FibersRun /\ t \in waiting
  /\ Cancel(t) /\ UNCHANGED <<phase, calling, fibers>>

(* Every fiber waits, or main ended.                                       *)
FibersIdle ==
  /\ fibers /\ calling = None /\ stopping = "no"
  /\ fibers' = FALSE
  /\ \/ UNCHANGED <<over, stopping>>
     \/ ~over /\ FinishRun
  /\ UNCHANGED <<table, completed, queued, twice, cancelled, waiting, registered, retired, thread,
                 phase, batch, calling, runs, count, raised>>

-----------------------------------------------------------------------------
(* Waits are dropped when the run ends, oldest first, and when it is       *)
(* unwound as stalled (em_root_interrupt), newest first; then the fibers   *)
(* unwind.                                                                 *)
DropWait(t) ==
  /\ stopping # "no" /\ t \in waiting
  /\ \A u \in waiting : IF stopping = "end" THEN t <= u ELSE t >= u
  /\ Cancel(t) /\ UNCHANGED <<phase, calling, fibers>>
Stopped ==
  /\ stopping # "no" /\ waiting = {}
  /\ stopping' = "no"
  /\ fibers' = (fibers \/ stopping = "stall")
  /\ UNCHANGED <<table, completed, queued, twice, cancelled, waiting, registered, retired, thread,
                 phase, batch, calling, over, runs, count, raised>>

-----------------------------------------------------------------------------
(* em_run and em_loop_turn, when no fiber is runnable.                     *)
LoopAt(p) == phase = p /\ ~fibers /\ calling = None /\ stopping = "no"
Busy == registered # {} \/ inbox # <<>> \/ twiceBox # {}
Records == <<completed, twice, cancelled, waiting, count, raised, runs>>

(* A turn begins by freeing the retired tasks.                             *)
TurnBegin ==
  /\ LoopAt("top") /\ ~over /\ Busy
  /\ Collect /\ phase' = "poll"
  /\ UNCHANGED <<Records, queued, registered, thread, batch, fibers, calling, stopping, over>>

(* poll returns, and em_loop_inbox empties the self-pipe ...               *)
PollReturns ==
  /\ LoopAt("poll") /\ (pipe \/ registered # {})
  /\ pipe' = FALSE /\ phase' = "drained"
  /\ UNCHANGED <<Records, table, queued, registered, retired, inbox, twiceBox, waking, batch,
                 fibers, calling, stopping, over>>

(* ... before it takes the inbox under the lock; a second completion in it *)
(* ends the run.                                                           *)
TakeInbox ==
  /\ LoopAt("drained")
  /\ batch' = inbox /\ inbox' = <<>> /\ queued' = queued \ Elems(inbox)
  /\ twiceBox' = {} /\ phase' = "deliver"
  /\ IF twiceBox # {} THEN FinishRun ELSE UNCHANGED <<over, stopping>>
  /\ UNCHANGED <<Records, table, registered, retired, waking, pipe, fibers, calling>>

DeliverNext ==
  /\ LoopAt("deliver") /\ batch # <<>>
  /\ Deliver(Head(batch), registered) /\ batch' = Tail(batch)
  /\ UNCHANGED <<table, thread, completed, queued, twice, cancelled, count, raised, runs,
                 phase, calling, stopping, over>>
(* Mutants: the rest of the batch is forgotten; the pipe is emptied only   *)
(* after the inbox was taken.                                              *)
DeliveredEarly ==
  /\ LoopAt("deliver") /\ phase' = "fire"
  /\ UNCHANGED <<Records, table, thread, queued, registered, retired, batch, fibers, calling,
                 stopping, over>>
DeliveredDrains ==
  /\ LoopAt("deliver") /\ batch = <<>> /\ phase' = "fire" /\ pipe' = FALSE
  /\ UNCHANGED <<Records, table, inbox, twiceBox, waking, queued, registered, retired, batch,
                 fibers, calling, stopping, over>>
Delivered ==
  /\ LoopAt("deliver") /\ batch = <<>> /\ phase' = "fire"
  /\ UNCHANGED <<Records, table, thread, queued, registered, retired, batch, fibers, calling,
                 stopping, over>>

(* em_reg_fire: the registration is removed and its callback called; the   *)
(* callback may do nothing, or complete a task.                            *)
Fire(u) ==
  /\ LoopAt("fire") /\ u \in registered
  /\ registered' = registered \ {u}
  /\ UNCHANGED <<Records, table, thread, queued, retired, phase, batch, fibers, calling,
                 stopping, over>>
FireCompletes(u, t) ==
  /\ LoopAt("fire") /\ u \in registered
  /\ CompleteHere(t, registered \ {u})
  /\ UNCHANGED <<phase, calling>>
TurnEnd ==
  /\ LoopAt("fire") /\ phase' = "top"
  /\ UNCHANGED <<Records, table, thread, queued, registered, retired, batch, fibers, calling,
                 stopping, over>>

(* Nothing to wait for: the run is unwound as stalled, and ends unless     *)
(* that gave the loop work.                                                *)
Stall ==
  /\ LoopAt("top") /\ ~over /\ ~Busy
  /\ stopping' = "stall" /\ phase' = "unwound"
  /\ UNCHANGED <<Records, table, thread, queued, registered, retired, batch, fibers, calling, over>>
Unwound ==
  /\ LoopAt("unwound") /\ phase' = "top"
  /\ IF over \/ Busy THEN UNCHANGED <<over, stopping>> ELSE FinishRun
  /\ UNCHANGED <<Records, table, thread, queued, registered, retired, batch, fibers, calling>>

(* em_loop_reset: what is still registered is dropped.                     *)
EndRun ==
  /\ LoopAt("top") /\ over
  /\ registered' = {} /\ Collect /\ phase' = "ended"
  /\ UNCHANGED <<Records, thread, queued, batch, fibers, calling, stopping, over>>
NewRun ==
  /\ phase = "ended" /\ runs < MaxRuns
  /\ runs' = runs + 1 /\ phase' = "top" /\ over' = FALSE /\ fibers' = TRUE
  /\ UNCHANGED <<table, thread, completed, queued, twice, cancelled, waiting, registered, retired,
                 batch, calling, stopping, count, raised>>
Done == phase = "ended" /\ runs = MaxRuns /\ UNCHANGED vars

Loop ==
  \/ TurnBegin \/ PollReturns \/ TakeInbox \/ DeliverNext \/ Delivered
  \/ \E u \in Tasks : Fire(u) \/ \E t \in Tasks : FireCompletes(u, t)
  \/ TurnEnd \/ Stall \/ Unwound \/ EndRun \/ NewRun
Fibers ==
  \/ TaskNew \/ Register \/ EndDone \/ EndDead \/ EndWaits \/ FibersIdle
  \/ \E t \in Tasks : CompleteInCall(t) \/ Interrupt(t)
Stopping == Stopped \/ \E t \in Tasks : DropWait(t)
Runtime == Loop \/ Fibers \/ Stopping

Next == Runtime \/ Wake \/ Done \/ \E t \in Tasks : CompleteThere(t)
Spec == Init /\ [][Next]_vars
(* The runtime's thread goes on, and a thread that completed a task goes   *)
(* on to write to the pipe.                                                *)
FairSpec == Spec /\ WF_vars(Runtime) /\ WF_vars(Wake)

-----------------------------------------------------------------------------
(* The type of the state.                                                  *)
TypeOK ==
  /\ issued \in 0..NTasks /\ slotsLen \in 0..NTasks
  /\ slotOf \in [Tasks -> 0..NTasks] /\ genOf \in [Tasks -> 0..(GenCount - 1)]
  /\ slotTask \in [Tasks -> 0..NTasks] /\ slotGen \in [Tasks -> 0..(GenCount - 1)]
  /\ free \in Seq(Tasks) /\ retired \in Seq(Tasks)
  /\ inbox \in Seq(Tasks) /\ batch \in Seq(Tasks)
  /\ completed \subseteq Tasks /\ queued \subseteq Tasks /\ twice \subseteq Tasks
  /\ cancelled \subseteq Tasks /\ waiting \subseteq Tasks /\ registered \subseteq Tasks
  /\ twiceBox \subseteq Tasks /\ raised \subseteq Tasks
  /\ waking \in Nat /\ pipe \in BOOLEAN /\ fibers \in BOOLEAN /\ over \in BOOLEAN
  /\ calling \in 0..NTasks /\ stopping \in {"no", "stall", "end"}
  /\ phase \in {"top", "poll", "drained", "deliver", "fire", "unwound", "ended"}
  /\ runs \in Nat /\ count \in [Tasks -> Nat]

(* A handle names its own call or nothing, however late it is used: its    *)
(* slot may have been freed and taken by other calls in the meantime, but  *)
(* a completion through it never completes another call's task.            *)
HandleNamesItsTask ==
  \A t \in 1..issued : Find(t) \in {t, None}

(* No record the runtime still points to has been freed: not the tasks in  *)
(* the inbox or the batch taken from it, the ones with registrations, the  *)
(* ones fibers wait for, nor the one whose host function is being called.  *)
NoUseAfterFree ==
  \A t \in Elems(inbox) \cup Elems(batch) \cup registered \cup waiting
         \cup Elems(retired) \cup ({calling} \ {None}) :
    Allocated(t)

(* No record is freed twice, nor freed while its completion is still on    *)
(* its way: a task is retired at most once, and not while it is in the     *)
(* inbox or in the batch, waits or is registered.                          *)
RetiredOnce ==
  /\ \A i, j \in DOMAIN retired : retired[i] = retired[j] => i = j
  /\ \A t \in Elems(retired) :
       t \notin Elems(inbox) \cup Elems(batch) \cup registered \cup waiting /\ t # calling

(* The free list holds every empty slot of the table, once.                *)
FreeListExact ==
  /\ \A i, j \in DOMAIN free : free[i] = free[j] => i = j
  /\ Elems(free) = {i \in 1..slotsLen : slotTask[i] = None}

(* No completion is lost: a task completed while its fiber waits is in the *)
(* inbox or in the batch, so that the fiber will be woken.                 *)
NoLostCompletion ==
  \A t \in waiting \cap completed : t \in Elems(inbox) \cup Elems(batch)

(* The loop never sleeps on a full inbox: what is in it was announced in   *)
(* the self-pipe, or is about to be, or is about to be taken.              *)
NoLostWake ==
  inbox # <<>> \/ twiceBox # {} => pipe \/ waking > 0 \/ phase = "drained"

(* The table of tasks: handles name their own call, and slots are neither  *)
(* lost nor given out twice (em_slot_take, em_slot_find).                  *)
TableRight == HandleNamesItsTask /\ FreeListExact

(* Records are freed once, and after everything that points to them is     *)
(* gone (em_task_retire, em_loop_collect).                                 *)
RecordsSafe == NoUseAfterFree /\ RetiredOnce

(* A completion is neither dropped by the loop nor left lying while it     *)
(* sleeps (em_complete, em_loop_inbox).                                    *)
NothingLost == NoLostCompletion /\ NoLostWake

(* A completion reaches the fiber that waits for it, or the fiber stops    *)
(* waiting because it was interrupted or the run ended.                    *)
CompletionArrives ==
  \A t \in Tasks : (t \in waiting /\ t \in completed) ~> (t \notin waiting)
=============================================================================
