--------------------------- MODULE CRuntimeProofs ---------------------------
(***************************************************************************)
(* Proofs about the C runtime: HostTasks, for any number of calls,         *)
(* completions and runs; then HeapMachine, for any functions that the path *)
(* check of OwnedPaths accepts, on a heap of any size.                     *)
(***************************************************************************)
EXTENDS HostTasks, HeapMachine, OwnedPaths, SequenceTheorems, FiniteSetTheorems,
        WellFoundedInduction, TLAPS

(***************************************************************************)
(* Host tasks.                                                             *)
(***************************************************************************)

InFlight == Elems(inbox) \cup Elems(batch)
PointedTo == InFlight \cup registered \cup waiting \cup Elems(retired) \cup ({calling} \ {None})

(* Everything the runtime points to is a task that was made.               *)
TasksMade ==
  /\ PointedTo \subseteq 1..issued
  /\ slotsLen <= issued

(* A slot's generation is the one of the task in it, and at least the one  *)
(* of every handle that ever named the slot; no two handles are equal.     *)
Slots ==
  /\ \A t \in 1..issued : slotOf[t] \in 1..slotsLen /\ genOf[t] <= slotGen[slotOf[t]]
  /\ \A t, u \in 1..issued : slotOf[t] = slotOf[u] /\ genOf[t] = genOf[u] => t = u
  /\ \A i \in Tasks : slotTask[i] # None =>
       /\ slotTask[i] \in 1..issued
       /\ slotOf[slotTask[i]] = i /\ genOf[slotTask[i]] = slotGen[i]
  /\ \A i \in Tasks : slotGen[i] <= issued

(* Completions are on their way once: a completed task is in the inbox, in *)
(* the batch or retired, in one place, and no longer waits elsewhere.      *)
Lists ==
  /\ Distinct(inbox) /\ Distinct(batch) /\ Distinct(retired)
  /\ Elems(inbox) \cap Elems(batch) = {}
  /\ queued = Elems(inbox)
  /\ InFlight \cup Elems(retired) \subseteq completed
  /\ Elems(retired) \cap (InFlight \cup registered \cup waiting) = {}
  /\ calling \notin Elems(retired) \cup Elems(batch) \cup waiting
  /\ (registered \cup waiting) \cap completed \subseteq InFlight
  /\ phase # "deliver" => batch = <<>>

Kept == \A t \in PointedTo : Allocated(t)

Inv == TypeOK /\ TasksMade /\ Slots /\ Lists /\ Kept /\ FreeListExact

-----------------------------------------------------------------------------
(* Facts about the elements of sequences.                                  *)

(* The elements of an empty sequence.                                      *)
LEMMA ElemsEmpty == Elems(<<>>) = {} /\ Distinct(<<>>)
BY DEF Elems, Distinct

(* A completion joins the end of the inbox (em_complete).                  *)
LEMMA ElemsAppend ==
  ASSUME NEW q \in Seq(Tasks), NEW e \in Tasks
  PROVE  /\ Append(q, e) \in Seq(Tasks)
         /\ Elems(Append(q, e)) = Elems(q) \cup {e}
         /\ Distinct(q) /\ e \notin Elems(q) => Distinct(Append(q, e))
<1> DEFINE a == Append(q, e)
<1>1. /\ a \in Seq(Tasks) /\ DOMAIN a = 1..(Len(q) + 1)
      /\ \A i \in 1..Len(q) : a[i] = q[i]
      /\ a[Len(q) + 1] = e
      /\ DOMAIN q = 1..Len(q) /\ Len(q) \in Nat
  OBVIOUS
<1> HIDE DEF a
<1>2. Elems(a) = Elems(q) \cup {e}
  BY <1>1 DEF Elems
<1>3. Distinct(q) /\ e \notin Elems(q) => Distinct(a)
  BY <1>1 DEF Elems, Distinct
<1> QED  BY <1>1, <1>2, <1>3 DEF a

(* A record joins the front of the retired list (em_task_retire).          *)
LEMMA ElemsCons ==
  ASSUME NEW q \in Seq(Tasks), NEW e \in Tasks
  PROVE  /\ <<e>> \o q \in Seq(Tasks)
         /\ Elems(<<e>> \o q) = Elems(q) \cup {e}
         /\ Distinct(q) /\ e \notin Elems(q) => Distinct(<<e>> \o q)
<1> DEFINE a == <<e>> \o q
<1>1. /\ a \in Seq(Tasks) /\ DOMAIN a = 1..(Len(q) + 1)
      /\ \A i \in 1..Len(q) : a[i + 1] = q[i]
      /\ a[1] = e
      /\ DOMAIN q = 1..Len(q) /\ Len(q) \in Nat
  OBVIOUS
<1> HIDE DEF a
<1>2. \A i \in DOMAIN a : i = 1 \/ (i - 1 \in 1..Len(q) /\ a[i] = q[i - 1])
  BY <1>1
<1>3. Elems(a) = Elems(q) \cup {e}
  BY <1>1, <1>2, SMTT(30) DEF Elems
<1>4. ASSUME Distinct(q), e \notin Elems(q) PROVE Distinct(a)
  BY <1>1, <1>2, <1>4 DEF Elems, Distinct
<1> QED  BY <1>1, <1>3, <1>4 DEF a

(* The first record of a list is taken off it.                             *)
LEMMA ElemsTail ==
  ASSUME NEW q \in Seq(Tasks), q # <<>>
  PROVE  /\ Tail(q) \in Seq(Tasks) /\ Head(q) \in Tasks
         /\ Elems(q) = Elems(Tail(q)) \cup {Head(q)}
         /\ Distinct(q) => Distinct(Tail(q)) /\ Head(q) \notin Elems(Tail(q))
<1> DEFINE a == Tail(q)
<1>1. /\ a \in Seq(Tasks) /\ DOMAIN a = 1..(Len(q) - 1)
      /\ \A i \in 1..(Len(q) - 1) : a[i] = q[i + 1]
      /\ Head(q) = q[1] /\ q[1] \in Tasks
      /\ DOMAIN q = 1..Len(q) /\ Len(q) \in Nat /\ Len(q) > 0
  OBVIOUS
<1> HIDE DEF a
<1>2. \A i \in DOMAIN q : i = 1 \/ (i - 1 \in DOMAIN a /\ q[i] = a[i - 1])
  BY <1>1
<1>3. \A i \in DOMAIN a : i + 1 \in DOMAIN q /\ a[i] = q[i + 1] /\ i + 1 # 1
  BY <1>1
<1>4. Elems(q) = Elems(a) \cup {q[1]}
  <2>1. Elems(q) \subseteq Elems(a) \cup {q[1]}
    BY <1>2 DEF Elems
  <2>2. Elems(a) \cup {q[1]} \subseteq Elems(q)
    <3>1. 1 \in DOMAIN q  BY <1>1
    <3> QED  BY <3>1, <1>3 DEF Elems
  <2> QED  BY <2>1, <2>2
<1>5. ASSUME Distinct(q) PROVE Distinct(a) /\ q[1] \notin Elems(a)
  <2>1. Distinct(a)
    <3> SUFFICES ASSUME NEW i \in DOMAIN a, NEW j \in DOMAIN a, a[i] = a[j]
                 PROVE  i = j
      BY DEF Distinct
    <3>1. i + 1 = j + 1  BY <1>3, <1>5 DEF Distinct
    <3> QED  BY <3>1, <1>1
  <2>2. q[1] \notin Elems(a)
    <3>1. 1 \in DOMAIN q  BY <1>1
    <3> QED  BY <3>1, <1>3, <1>5 DEF Elems, Distinct
  <2> QED  BY <2>1, <2>2
<1> QED  BY <1>1, <1>4, <1>5 DEF a

(* A list joins the end of another one.                                    *)
LEMMA ElemsConcat ==
  ASSUME NEW q \in Seq(Tasks), NEW b \in Seq(Tasks)
  PROVE  /\ Elems(q \o b) = Elems(q) \cup Elems(b)
         /\ Distinct(q) /\ Distinct(b) /\ Elems(q) \cap Elems(b) = {} => Distinct(q \o b)
<1> DEFINE a == q \o b
<1>1. /\ a \in Seq(Tasks) /\ DOMAIN a = 1..(Len(q) + Len(b))
      /\ DOMAIN q = 1..Len(q) /\ Len(q) \in Nat /\ DOMAIN b = 1..Len(b) /\ Len(b) \in Nat
  OBVIOUS
<1>2. /\ \A i \in 1..Len(q) : a[i] = q[i]
      /\ \A i \in 1..Len(b) : a[Len(q) + i] = b[i]
  OBVIOUS
<1> HIDE DEF a
<1>3. \A i \in DOMAIN a : \/ i \in 1..Len(q) /\ a[i] = q[i]
                          \/ i \notin 1..Len(q) /\ i - Len(q) \in 1..Len(b) /\ a[i] = b[i - Len(q)]
  <2> SUFFICES ASSUME NEW i \in DOMAIN a, i \notin 1..Len(q)
               PROVE  i - Len(q) \in 1..Len(b) /\ a[i] = b[i - Len(q)]
    BY <1>2
  <2>1. i \in Int /\ i - Len(q) \in 1..Len(b) /\ Len(q) + (i - Len(q)) = i
    BY <1>1
  <2> QED  BY <2>1, <1>2
<1>4. Elems(a) = Elems(q) \cup Elems(b)
  <2>1. Elems(a) \subseteq Elems(q) \cup Elems(b)
    BY <1>1, <1>3 DEF Elems
  <2>2. Elems(q) \subseteq Elems(a)
    BY <1>1, <1>2 DEF Elems
  <2>3. ASSUME NEW i \in 1..Len(b) PROVE b[i] \in Elems(a)
    <3>1. Len(q) + i \in DOMAIN a /\ a[Len(q) + i] = b[i]
      BY <1>1, <1>2
    <3> QED  BY <3>1 DEF Elems
  <2> QED  BY <1>1, <2>1, <2>2, <2>3 DEF Elems
<1>5. ASSUME Distinct(q), Distinct(b), Elems(q) \cap Elems(b) = {}
      PROVE  Distinct(a)
  <2> SUFFICES ASSUME NEW i \in DOMAIN a, NEW j \in DOMAIN a, a[i] = a[j]
               PROVE  i = j
    BY DEF Distinct
  <2>1. \A k \in DOMAIN a : IF k \in 1..Len(q) THEN a[k] \in Elems(q) ELSE a[k] \in Elems(b)
    BY <1>1, <1>3 DEF Elems
  <2>2. CASE i \in 1..Len(q) /\ j \in 1..Len(q)
    BY <2>2, <1>1, <1>2, <1>5 DEF Distinct
  <2>3. CASE i \notin 1..Len(q) /\ j \notin 1..Len(q)
    <3>1. i - Len(q) = j - Len(q)
      BY <2>3, <1>1, <1>3, <1>5 DEF Distinct
    <3> QED  BY <3>1, <1>1
  <2> QED  BY <1>5, <2>1, <2>2, <2>3
<1> QED  BY <1>4, <1>5 DEF a

-----------------------------------------------------------------------------
(* The invariant holds initially.                                          *)
LEMMA InitInv == Init => Inv
<1> SUFFICES ASSUME Init PROVE Inv
  OBVIOUS
<1> USE HostTasksAssumption, ElemsEmpty
<1>1. TypeOK
  <2>1. 0 \in 0..NTasks /\ 0 \in 0..(GenCount - 1)
    OBVIOUS
  <2>2. /\ slotOf \in [Tasks -> 0..NTasks] /\ genOf \in [Tasks -> 0..(GenCount - 1)]
        /\ slotTask \in [Tasks -> 0..NTasks] /\ slotGen \in [Tasks -> 0..(GenCount - 1)]
        /\ count \in [Tasks -> Nat]
    BY <2>1 DEF Init, None
  <2>3. free \in Seq(Tasks) /\ retired \in Seq(Tasks) /\ inbox \in Seq(Tasks) /\ batch \in Seq(Tasks)
    BY DEF Init
  <2>4. over = FALSE /\ pipe = FALSE /\ fibers = TRUE
    BY DEF Init
  <2>5. over \in BOOLEAN /\ pipe \in BOOLEAN /\ fibers \in BOOLEAN
    BY <2>4
  <2> QED  BY <2>1, <2>2, <2>3, <2>5 DEF Init, TypeOK, None
<1>2. TasksMade /\ Slots /\ Lists /\ Kept
  BY DEF Init, TasksMade, Slots, Lists, Kept, PointedTo, InFlight, None, Tasks
<1>3. FreeListExact
  BY DEF Init, FreeListExact, None
<1> QED  BY <1>1, <1>2, <1>3 DEF Inv

(* The tasks made and the slots of the table are numbers of tasks.         *)
LEMMA Bounds ==
  ASSUME Inv
  PROVE  /\ issued \in Nat /\ slotsLen \in Nat /\ slotsLen <= issued /\ issued <= NTasks
         /\ 1..issued \subseteq Tasks /\ 1..slotsLen \subseteq Tasks
         /\ \A t \in 1..issued : t \in Tasks /\ slotOf[t] \in Tasks /\ slotOf[t] \in 1..slotsLen
<1>1. issued \in 0..NTasks /\ slotsLen \in 0..NTasks /\ slotsLen <= issued
  BY DEF Inv, TypeOK, TasksMade
<1>2. /\ issued \in Nat /\ slotsLen \in Nat /\ issued <= NTasks
      /\ 1..issued \subseteq Tasks /\ 1..slotsLen \subseteq Tasks
  BY <1>1, HostTasksAssumption DEF Tasks
<1>3. \A t \in 1..issued : slotOf[t] \in 1..slotsLen
  BY DEF Inv, Slots
<1> QED  BY <1>1, <1>2, <1>3

(* What a handle finds (em_slot_find): its own task, which is allocated,   *)
(* or nothing.                                                             *)
LEMMA FindsItsTask ==
  ASSUME Inv, NEW t \in 1..issued
  PROVE  Find(t) = None \/ (Find(t) = t /\ Allocated(t) /\ t \in Tasks)
<1>1. slotOf[t] \in Tasks /\ t \in Tasks
  BY HostTasksAssumption DEF Inv, TypeOK, TasksMade, Slots, Tasks
<1> QED  BY <1>1 DEF Inv, Slots, Find, Allocated

(* A step that leaves the task table alone keeps the invariant if the      *)
(* lists stay right and only allocated tasks are pointed to.               *)
LEMMA TableKept ==
  ASSUME Inv, TypeOK', Lists', UNCHANGED table,
         \A t \in PointedTo' : t \in PointedTo \/ Allocated(t)
  PROVE  Inv'
<1>1. \A t \in PointedTo' : Allocated(t)
  BY DEF Inv, Kept
<1>2. Kept'
  BY <1>1 DEF Kept, Allocated, table
<1>3. TasksMade'
  BY <1>1 DEF Inv, TasksMade, Allocated, table
<1>4. Slots' /\ FreeListExact'
  BY DEF Inv, Slots, FreeListExact, table, Elems
<1> QED  BY <1>2, <1>3, <1>4 DEF Inv

lists == <<completed, queued, waiting, registered, retired, inbox, batch, calling>>

(* A step that changes none of the lists.                                  *)
LEMMA ListsKept ==
  ASSUME Inv, TypeOK', UNCHANGED <<table, lists>>, phase' # "deliver" => batch = <<>>
  PROVE  Inv'
<1>1. PointedTo' = PointedTo /\ InFlight' = InFlight
  BY DEF PointedTo, InFlight, Elems, lists
<1>2. Lists'
  BY <1>1 DEF Inv, Lists, lists, Distinct, Elems
<1> QED  BY <1>1, <1>2, TableKept

-----------------------------------------------------------------------------
(* The type invariant is preserved.                                        *)

(* The parts of a step that actions share keep their variables' types.     *)
LEMMA DeliverType ==
  ASSUME Inv, NEW r \in Tasks, NEW regs \in SUBSET Tasks, Deliver(r, regs)
  PROVE  /\ registered' \subseteq Tasks /\ waiting' \subseteq Tasks
         /\ retired' \in Seq(Tasks) /\ fibers' \in BOOLEAN
<1>1. <<r>> \o retired \in Seq(Tasks)
  BY ElemsCons DEF Inv, TypeOK
<1>2. fibers' \in BOOLEAN
  BY DEF Deliver
<1> QED  BY <1>1, <1>2 DEF Inv, TypeOK, Deliver

(* The end of a run (em_root_finish).                                      *)
LEMMA FinishType ==
  ASSUME TypeOK, FinishRun
  PROVE  over' \in BOOLEAN /\ stopping' \in {"no", "stall", "end"}
BY DEF TypeOK, FinishRun

(* em_complete on the runtime's thread.                                    *)
LEMMA HereType ==
  ASSUME Inv, NEW t \in Tasks, NEW regs \in SUBSET Tasks, CompleteHere(t, regs),
         UNCHANGED <<phase, calling>>
  PROVE  TypeOK'
<1> USE DEF CompleteHere, table, thread
<1>1. t \in 1..issued /\ (Find(t) = None \/ Find(t) \in Tasks)
  BY FindsItsTask
<1>2. count' \in [Tasks -> Nat]
  BY DEF Inv, TypeOK
<1>3. CASE Find(t) = None \/ Find(t) \in completed
  <2>1. over' \in BOOLEAN /\ stopping' \in {"no", "stall", "end"}
    BY <1>3, FinishType DEF Inv, TypeOK
  <2>2. twice' \subseteq Tasks
    BY <1>1, <1>3 DEF Inv, TypeOK
  <2> QED  BY <1>2, <1>3, <2>1, <2>2 DEF Inv, TypeOK
<1>4. CASE ~(Find(t) = None \/ Find(t) \in completed)
  <2>1. Find(t) \in Tasks /\ Deliver(Find(t), regs)
    BY <1>1, <1>4
  <2>2. completed' \subseteq Tasks
    BY <1>4, <2>1 DEF Inv, TypeOK
  <2> QED  BY <1>2, <1>4, <2>1, <2>2, DeliverType DEF Inv, TypeOK
<1> QED  BY <1>3, <1>4

(* em_task_cancel.                                                         *)
LEMMA CancelType ==
  ASSUME Inv, NEW t \in Tasks, Cancel(t), phase' = phase, fibers' = fibers,
         calling' \in 0..NTasks
  PROVE  TypeOK'
<1> USE DEF Cancel, table, thread
<1>1. cancelled' \subseteq Tasks /\ waiting' \subseteq Tasks
  BY DEF Inv, TypeOK
<1>2. count' \in [Tasks -> Nat]
  <2>1. count \in [Tasks -> Nat]
    BY DEF Inv, TypeOK
  <2>2. count' = count \/ count' = [count EXCEPT ![t] = @ + 1]
    OBVIOUS
  <2> QED  BY <2>1, <2>2
<1>3. <<t>> \o retired \in Seq(Tasks)
  BY ElemsCons DEF Inv, TypeOK
<1>4. completed' \subseteq Tasks /\ registered' \subseteq Tasks /\ retired' \in Seq(Tasks)
  BY <1>3 DEF Inv, TypeOK
<1>5. over' \in BOOLEAN /\ stopping' \in {"no", "stall", "end"}
  BY FinishType DEF Inv, TypeOK
<1> QED  BY <1>1, <1>2, <1>4, <1>5 DEF Inv, TypeOK

(* em_loop_collect.                                                        *)
LEMMA CollectType ==
  ASSUME Inv, Collect
  PROVE  /\ slotTask' \in [Tasks -> 0..NTasks] /\ free' \in Seq(Tasks) /\ retired' \in Seq(Tasks)
         /\ free' = free \o [i \in 1..Len(retired) |-> slotOf[retired[i]]]
<1>1. \A t \in Elems(retired) : slotOf[t] \in Tasks /\ t \in Tasks
  BY HostTasksAssumption DEF Inv, TasksMade, PointedTo, Slots, TypeOK, Tasks
<1>2. retired \in Seq(Tasks) /\ free \in Seq(Tasks)
  BY DEF Inv, TypeOK
<1>3. [i \in 1..Len(retired) |-> slotOf[retired[i]]] \in Seq(Tasks)
  <2>1. Len(retired) \in Nat /\ \A i \in 1..Len(retired) : retired[i] \in Elems(retired)
    BY <1>2 DEF Elems
  <2> QED  BY <1>1, <2>1
<1>4. free' \in Seq(Tasks)
  BY <1>2, <1>3 DEF Collect
<1>5. slotTask' \in [Tasks -> 0..NTasks]
  BY HostTasksAssumption DEF Inv, TypeOK, Collect, None
<1> QED  BY <1>4, <1>5 DEF Collect

(* Every step keeps the types.                                             *)
LEMMA TypeStep ==
  ASSUME Inv, [Next]_vars
  PROVE  TypeOK'
<1> USE HostTasksAssumption DEF table, thread, Records
<1>a. TypeOK  BY DEF Inv
<1>1. ASSUME NEW t \in Tasks, CompleteThere(t) PROVE TypeOK'
  <2>1. t \in 1..issued /\ (Find(t) = None \/ Find(t) \in Tasks)
    BY <1>1, FindsItsTask DEF CompleteThere
  <2>2. count' \in [Tasks -> Nat] /\ waking' \in Nat
    BY <1>1, <1>a, SMTT(30) DEF CompleteThere, TypeOK
  <2>3. CASE Find(t) = None \/ Find(t) \in completed
    BY <1>1, <1>a, <2>2, <2>3 DEF CompleteThere, TypeOK
  <2>4. CASE ~(Find(t) = None \/ Find(t) \in completed)
    <3>1. inbox' \in Seq(Tasks) /\ completed' \subseteq Tasks /\ queued' \subseteq Tasks
      <4>1. inbox \in Seq(Tasks) /\ Find(t) \in Tasks /\ completed \subseteq Tasks /\ queued \subseteq Tasks
        BY <1>a, <2>1, <2>4 DEF TypeOK
      <4>2. /\ inbox' = Append(inbox, Find(t))
            /\ completed' = completed \cup {Find(t)} /\ queued' = queued \cup {Find(t)}
        BY <1>1, <2>4 DEF CompleteThere
      <4> QED  BY <4>1, <4>2, ElemsAppend
    <3> QED  BY <1>1, <1>a, <2>2, <2>4, <3>1 DEF CompleteThere, TypeOK
  <2> QED  BY <2>3, <2>4
<1>2. ASSUME Wake PROVE TypeOK'
  BY <1>2, <1>a DEF Wake, TypeOK
<1>3. ASSUME TaskNew PROVE TypeOK'
  <2> DEFINE i == IF free # <<>> THEN Head(free) ELSE slotsLen + 1
  <2>1. issued + 1 \in Tasks /\ slotsLen <= issued
    BY <1>3, <1>a DEF TaskNew, TypeOK, Tasks, Inv, TasksMade
  <2>2. i \in Tasks /\ free' \in Seq(Tasks) /\ slotsLen' \in 0..NTasks
    <3>1. /\ free \in Seq(Tasks) /\ slotsLen \in 0..NTasks /\ issued \in 0..NTasks
          /\ free' = (IF free # <<>> THEN Tail(free) ELSE free)
          /\ slotsLen' = (IF free # <<>> THEN slotsLen ELSE slotsLen + 1)
      BY <1>3, <1>a DEF TaskNew, TypeOK
    <3>2. slotsLen + 1 \in Tasks
      BY <2>1, <3>1 DEF Tasks
    <3>3. CASE free # <<>>
      <4>1. Head(free) \in Tasks /\ Tail(free) \in Seq(Tasks)
        BY <3>1, <3>3, ElemsTail
      <4> QED  BY <4>1, <3>1, <3>3
    <3>4. CASE free = <<>>
      BY <3>1, <3>2, <3>4 DEF Tasks
    <3> QED  BY <3>3, <3>4
  <2>3. NextGen(i) \in 0..(GenCount - 1)
    <3>1. slotGen[i] \in Nat
      BY <1>a, <2>2 DEF TypeOK
    <3> QED  BY <3>1 DEF NextGen
  <2> HIDE DEF i
  <2>4. /\ slotGen' = [slotGen EXCEPT ![i] = NextGen(i)]
        /\ slotTask' = [slotTask EXCEPT ![i] = issued + 1]
        /\ slotOf' = [slotOf EXCEPT ![issued + 1] = i]
        /\ genOf' = [genOf EXCEPT ![issued + 1] = NextGen(i)]
        /\ issued' = issued + 1 /\ calling' = issued + 1
    BY <1>3 DEF TaskNew, i
  <2>5. /\ slotGen' \in [Tasks -> 0..(GenCount - 1)] /\ genOf' \in [Tasks -> 0..(GenCount - 1)]
        /\ slotTask' \in [Tasks -> 0..NTasks] /\ slotOf' \in [Tasks -> 0..NTasks]
        /\ issued' \in 0..NTasks /\ calling' \in 0..NTasks
    <3>1. issued + 1 \in 0..NTasks /\ i \in 0..NTasks
      BY <2>1, <2>2 DEF Tasks
    <3>2. /\ slotGen \in [Tasks -> 0..(GenCount - 1)] /\ genOf \in [Tasks -> 0..(GenCount - 1)]
          /\ slotTask \in [Tasks -> 0..NTasks] /\ slotOf \in [Tasks -> 0..NTasks]
      BY <1>a DEF TypeOK
    <3> QED  BY <2>1, <2>2, <2>3, <2>4, <3>1, <3>2
  <2> QED  BY <1>3, <1>a, <2>2, <2>5 DEF TaskNew, TypeOK
<1>4. ASSUME Register PROVE TypeOK'
  <2>1. calling \in Tasks
    BY <1>4, <1>a DEF Register, TypeOK, Tasks, None
  <2>2. registered' \subseteq Tasks
    BY <1>4, <1>a, <2>1 DEF Register, TypeOK
  <2> QED  BY <1>4, <1>a, <2>2 DEF Register, TypeOK
<1>5. ASSUME NEW t \in Tasks, CompleteInCall(t) PROVE TypeOK'
  BY <1>5, <1>a, HereType DEF CompleteInCall, TypeOK
<1>6. ASSUME EndDone PROVE TypeOK'
  <2>1. calling \in Tasks
    BY <1>6, <1>a DEF EndDone, TypeOK, Tasks, None
  <2>2. retired' \in Seq(Tasks) /\ raised' \subseteq Tasks /\ calling' \in 0..NTasks
    BY <1>6, <1>a, <2>1, ElemsCons DEF EndDone, TypeOK, None
  <2> QED  BY <1>6, <1>a, <2>2 DEF EndDone, TypeOK
<1>7. ASSUME EndDead PROVE TypeOK'
  <2>1. calling \in Tasks /\ calling' \in 0..NTasks
    BY <1>7, <1>a DEF EndDead, TypeOK, Tasks, None
  <2> QED  BY <1>7, <2>1, CancelType DEF EndDead
<1>8. ASSUME EndWaits PROVE TypeOK'
  <2>1. waiting' \subseteq Tasks /\ calling' \in 0..NTasks
    BY <1>8, <1>a DEF EndWaits, TypeOK, Tasks, None
  <2> QED  BY <1>8, <1>a, <2>1 DEF EndWaits, TypeOK
<1>9. ASSUME NEW t \in Tasks, Interrupt(t) \/ DropWait(t) PROVE TypeOK'
  BY <1>9, <1>a, CancelType DEF Interrupt, DropWait, TypeOK
<1>10. ASSUME FibersIdle \/ Stopped \/ Unwound PROVE TypeOK'
  <2>1. over' \in BOOLEAN /\ stopping' \in {"no", "stall", "end"}
    BY <1>10, <1>a, FinishType DEF FibersIdle, Stopped, Unwound, TypeOK
  <2>2. fibers' \in BOOLEAN
    BY <1>10, <1>a DEF FibersIdle, Stopped, Unwound, TypeOK
  <2> QED  BY <1>10, <1>a, <2>1, <2>2 DEF FibersIdle, Stopped, Unwound, TypeOK
<1>11. ASSUME TurnBegin \/ EndRun PROVE TypeOK'
  <2>1. Collect
    BY <1>11 DEF TurnBegin, EndRun
  <2>2. /\ slotTask' \in [Tasks -> 0..NTasks] /\ free' \in Seq(Tasks) /\ retired' \in Seq(Tasks)
        /\ UNCHANGED <<issued, slotOf, genOf, slotsLen, slotGen>>
    BY <2>1, CollectType DEF Collect
  <2> QED  BY <1>11, <1>a, <2>2 DEF TurnBegin, EndRun, TypeOK
<1>12. ASSUME PollReturns \/ Delivered \/ TurnEnd \/ Stall \/ NewRun PROVE TypeOK'
  <2>1. over' \in BOOLEAN /\ fibers' \in BOOLEAN /\ pipe' \in BOOLEAN
    BY <1>12, <1>a DEF PollReturns, Delivered, TurnEnd, Stall, NewRun, TypeOK
  <2>2. CASE PollReturns
    BY <2>1, <2>2, <1>a DEF PollReturns, TypeOK
  <2>3. CASE Delivered \/ TurnEnd
    BY <2>1, <2>3, <1>a DEF Delivered, TurnEnd, TypeOK
  <2>4. CASE Stall \/ NewRun
    BY <2>1, <2>4, <1>a, SMTT(30) DEF Stall, NewRun, TypeOK
  <2> QED  BY <1>12, <2>2, <2>3, <2>4
<1>13. ASSUME TakeInbox PROVE TypeOK'
  <2>1. over' \in BOOLEAN /\ stopping' \in {"no", "stall", "end"}
    BY <1>13, <1>a, FinishType DEF TakeInbox, TypeOK
  <2>2. queued' \subseteq Tasks /\ twiceBox' \subseteq Tasks
    BY <1>13, <1>a DEF TakeInbox, TypeOK
  <2>3. inbox' \in Seq(Tasks) /\ batch' \in Seq(Tasks)
    BY <1>13, <1>a DEF TakeInbox, TypeOK
  <2> QED  BY <1>13, <1>a, <2>1, <2>2, <2>3 DEF TakeInbox, TypeOK
<1>14. ASSUME DeliverNext PROVE TypeOK'
  <2>1. Head(batch) \in Tasks /\ Tail(batch) \in Seq(Tasks)
    BY <1>14, <1>a, ElemsTail DEF DeliverNext, TypeOK
  <2>2. /\ registered' \subseteq Tasks /\ waiting' \subseteq Tasks
        /\ retired' \in Seq(Tasks) /\ fibers' \in BOOLEAN
    BY <1>14, <1>a, <2>1, DeliverType DEF DeliverNext, TypeOK
  <2> QED  BY <1>14, <1>a, <2>1, <2>2 DEF DeliverNext, TypeOK
<1>15. ASSUME NEW u \in Tasks, Fire(u) PROVE TypeOK'
  BY <1>15, <1>a DEF Fire, TypeOK
<1>16. ASSUME NEW u \in Tasks, NEW t \in Tasks, FireCompletes(u, t) PROVE TypeOK'
  <2>1. registered \ {u} \in SUBSET Tasks
    BY <1>a DEF TypeOK
  <2> QED  BY <1>16, <2>1, HereType DEF FireCompletes
<1>17. CASE UNCHANGED vars
  BY <1>17, <1>a DEF vars, TypeOK
<1>18. Done => UNCHANGED vars
  BY DEF Done
<1> QED
  BY <1>1, <1>2, <1>3, <1>4, <1>5, <1>6, <1>7, <1>8, <1>9, <1>10, <1>11, <1>12, <1>13, <1>14,
     <1>15, <1>16, <1>17, <1>18 DEF Next, Runtime, Loop, Fibers, Stopping

-----------------------------------------------------------------------------
(* Steps that change the lists but not the task table.                     *)

(* The tasks pointed to are tasks.                                         *)
LEMMA HeldTasks ==
  ASSUME Inv
  PROVE  /\ Elems(inbox) \cup Elems(batch) \cup Elems(retired) \cup waiting \cup registered \subseteq Tasks
         /\ None \notin Tasks
<1>1. 1..issued \subseteq Tasks
  BY HostTasksAssumption DEF Inv, TypeOK, Tasks
<1>2. PointedTo \subseteq Tasks
  BY <1>1 DEF Inv, TasksMade
<1> QED  BY <1>2 DEF PointedTo, InFlight, Tasks, None

(* A task that is not completed is retired, with its registrations and its *)
(* wait (em_task_deliver on the runtime's thread, and em_task_cancel).     *)
LEMMA RetireStep ==
  ASSUME Inv, TypeOK', UNCHANGED <<table, queued, inbox, batch, phase>>,
         NEW r \in Tasks, r \notin completed, Allocated(r),
         completed' = completed \cup {r}, retired' = <<r>> \o retired,
         registered' \subseteq registered \ {r}, waiting' \subseteq waiting \ {r},
         calling' = None \/ (calling' = calling /\ calling # r)
  PROVE  Inv'
<1>1. /\ Elems(inbox)' = Elems(inbox) /\ Elems(batch)' = Elems(batch)
      /\ Distinct(inbox)' = Distinct(inbox) /\ Distinct(batch)' = Distinct(batch)
  BY DEF Elems, Distinct
<1>2. r \notin Elems(retired) /\ r \notin Elems(inbox) /\ r \notin Elems(batch)
  BY DEF Inv, Lists, InFlight
<1>3. Elems(retired)' = Elems(retired) \cup {r} /\ Distinct(retired)'
  <2>1. /\ Elems(retired)' = Elems(<<r>> \o retired)
        /\ Distinct(retired)' = Distinct(<<r>> \o retired)
    BY DEF Elems, Distinct
  <2>2. retired \in Seq(Tasks) /\ Distinct(retired)
    BY DEF Inv, TypeOK, Lists
  <2> QED  BY <1>2, <2>1, <2>2, ElemsCons
<1>4. calling' \notin (Elems(retired) \cup Elems(batch) \cup waiting)'
  BY <1>1, <1>3, HeldTasks DEF Inv, Lists
<1>5. Lists'
  BY <1>1, <1>2, <1>3, <1>4 DEF Inv, Lists, InFlight
<1>6. \A t \in PointedTo' : t \in PointedTo \/ t = r
  BY <1>1, <1>3 DEF PointedTo, InFlight
<1> QED  BY <1>5, <1>6, TableKept

(* em_complete on the runtime's thread.                                    *)
LEMMA HereStep ==
  ASSUME Inv, TypeOK', NEW t \in Tasks, NEW regs \in SUBSET registered,
         CompleteHere(t, regs), UNCHANGED <<phase, calling>>
  PROVE  Inv'
<1> USE DEF CompleteHere, thread
<1>1. UNCHANGED <<table, queued, inbox, batch>>
  OBVIOUS
<1>2. /\ Elems(inbox)' = Elems(inbox) /\ Elems(batch)' = Elems(batch)
      /\ Distinct(inbox)' = Distinct(inbox) /\ Distinct(batch)' = Distinct(batch)
  BY <1>1 DEF Elems, Distinct
<1>3. Find(t) = None \/ (Find(t) = t /\ Allocated(t))
  BY FindsItsTask
<1>4. CASE Find(t) = None \/ Find(t) \in completed
  <2>1. UNCHANGED <<completed, waiting, retired>> /\ registered' = regs
    BY <1>4
  <2>2. Elems(retired)' = Elems(retired) /\ Distinct(retired)' = Distinct(retired)
    BY <2>1 DEF Elems, Distinct
  <2>3. Lists'
    BY <1>1, <1>2, <2>1, <2>2 DEF Inv, Lists, InFlight
  <2>4. PointedTo' \subseteq PointedTo
    BY <1>2, <2>1, <2>2 DEF PointedTo, InFlight
  <2> QED  BY <1>1, <2>3, <2>4, TableKept
<1>5. CASE ~(Find(t) = None \/ Find(t) \in completed)
  <2>1. Find(t) = t /\ Allocated(t) /\ t \notin completed
    BY <1>3, <1>5
  <2>2. completed' = completed \cup {t} /\ Deliver(t, regs)
    BY <1>5, <2>1
  <2>3. CASE t # calling
    <3>1. retired' = <<t>> \o retired /\ waiting' = waiting \ {t} /\ registered' = regs \ {t}
      BY <2>2, <2>3 DEF Deliver
    <3> QED  BY <1>1, <2>1, <2>2, <2>3, <3>1, RetireStep
  <2>4. CASE t = calling
    <3>1. retired' = retired /\ waiting' = waiting /\ registered' = regs \ {t}
      BY <2>2, <2>4 DEF Deliver
    <3>2. Elems(retired)' = Elems(retired) /\ Distinct(retired)' = Distinct(retired)
      BY <3>1 DEF Elems, Distinct
    <3>3. Lists'
      BY <1>1, <1>2, <2>2, <2>4, <3>1, <3>2 DEF Inv, Lists, InFlight
    <3>4. PointedTo' \subseteq PointedTo
      BY <1>2, <3>1, <3>2 DEF PointedTo, InFlight
    <3> QED  BY <1>1, <3>3, <3>4, TableKept
  <2> QED  BY <2>3, <2>4
<1> QED  BY <1>4, <1>5

(* em_task_cancel of a waiting task, or of the one being called as its     *)
(* call ends.                                                              *)
LEMMA CancelStep ==
  ASSUME Inv, TypeOK', NEW t \in Tasks, Cancel(t), phase' = phase,
         \/ t \in waiting /\ calling' = calling
         \/ t = calling /\ calling' = None
  PROVE  Inv'
<1> USE DEF Cancel, thread
<1>1. UNCHANGED <<table, queued, inbox, batch>>
  OBVIOUS
<1>2. /\ Elems(inbox)' = Elems(inbox) /\ Elems(batch)' = Elems(batch)
      /\ Distinct(inbox)' = Distinct(inbox) /\ Distinct(batch)' = Distinct(batch)
  BY <1>1 DEF Elems, Distinct
<1>3. waiting' = waiting \ {t}
  OBVIOUS
<1>4. calling' = None \/ (calling' = calling /\ calling # t)
  BY DEF Inv, Lists
<1>5. CASE UNCHANGED <<completed, registered, retired>>
  <2>1. Elems(retired)' = Elems(retired) /\ Distinct(retired)' = Distinct(retired)
    BY <1>5 DEF Elems, Distinct
  <2>2. calling' \notin (Elems(retired) \cup Elems(batch) \cup waiting)'
    BY <1>2, <1>3, <1>4, <2>1, HeldTasks DEF Inv, Lists
  <2>3. Lists'
    BY <1>1, <1>2, <1>3, <1>5, <2>1, <2>2 DEF Inv, Lists, InFlight
  <2>4. PointedTo' \subseteq PointedTo
    BY <1>2, <1>3, <1>4, <1>5, <2>1 DEF PointedTo, InFlight
  <2> QED  BY <1>1, <2>3, <2>4, TableKept
<1>6. CASE t \notin completed /\ completed' = completed \cup {t}
           /\ registered' = registered \ {t} /\ retired' = <<t>> \o retired
  <2>1. Allocated(t)
    BY DEF Inv, Kept, PointedTo, None, Tasks
  <2> QED  BY <1>1, <1>3, <1>4, <1>6, <2>1, RetireStep
<1> QED  BY <1>5, <1>6

(* A completion by another thread.                                         *)
LEMMA ThereStep ==
  ASSUME Inv, TypeOK', NEW t \in Tasks, CompleteThere(t)
  PROVE  Inv'
<1> USE DEF CompleteThere
<1>1. UNCHANGED <<table, waiting, registered, retired, batch, calling, phase>>
  OBVIOUS
<1>2. Find(t) = None \/ (Find(t) = t /\ Allocated(t))
  BY FindsItsTask
<1>3. CASE Find(t) = None \/ Find(t) \in completed
  BY <1>1, <1>3, ListsKept DEF lists, Inv, Lists
<1>4. CASE ~(Find(t) = None \/ Find(t) \in completed)
  <2>1. /\ Allocated(t) /\ t \notin completed
        /\ completed' = completed \cup {t} /\ queued' = queued \cup {t}
        /\ inbox' = Append(inbox, t)
    BY <1>2, <1>4
  <2>2. t \notin Elems(retired) /\ t \notin Elems(inbox) /\ t \notin Elems(batch)
    BY <2>1 DEF Inv, Lists, InFlight
  <2>3. Elems(inbox)' = Elems(inbox) \cup {t} /\ Distinct(inbox)'
    <3>1. /\ Elems(inbox)' = Elems(Append(inbox, t))
          /\ Distinct(inbox)' = Distinct(Append(inbox, t))
      BY <2>1 DEF Elems, Distinct
    <3>2. inbox \in Seq(Tasks) /\ Distinct(inbox)
      BY DEF Inv, TypeOK, Lists
    <3> QED  BY <2>2, <3>1, <3>2, ElemsAppend
  <2>4. /\ Elems(retired)' = Elems(retired) /\ Elems(batch)' = Elems(batch)
        /\ Distinct(retired)' = Distinct(retired) /\ Distinct(batch)' = Distinct(batch)
    BY <1>1 DEF Elems, Distinct
  <2>5. Lists'
    BY <1>1, <2>1, <2>2, <2>3, <2>4 DEF Inv, Lists, InFlight
  <2>6. \A u \in PointedTo' : u \in PointedTo \/ u = t
    BY <1>1, <2>3, <2>4 DEF PointedTo, InFlight
  <2> QED  BY <1>1, <2>1, <2>5, <2>6, TableKept
<1> QED  BY <1>3, <1>4

(* The host function registers a wait, or a registration fires.            *)
LEMMA RegisterStep ==
  ASSUME Inv, TypeOK', Register \/ \E u \in Tasks : Fire(u)
  PROVE  Inv'
<1>1. /\ UNCHANGED <<table, completed, queued, waiting, retired, inbox, batch, calling, phase>>
      /\ \/ registered' \subseteq registered
         \/ calling # None /\ calling \notin completed /\ registered' = registered \cup {calling}
  BY DEF Register, Fire, Records, thread
<1>2. /\ Elems(inbox)' = Elems(inbox) /\ Elems(batch)' = Elems(batch)
      /\ Elems(retired)' = Elems(retired) /\ Distinct(retired)' = Distinct(retired)
      /\ Distinct(inbox)' = Distinct(inbox) /\ Distinct(batch)' = Distinct(batch)
  BY <1>1 DEF Elems, Distinct
<1>3. Lists'
  BY <1>1, <1>2 DEF Inv, Lists, InFlight
<1>4. PointedTo' \subseteq PointedTo
  BY <1>1, <1>2 DEF PointedTo, InFlight
<1> QED  BY <1>1, <1>3, <1>4, TableKept

(* em_task_end of a task completed in place: it is neither on its way      *)
(* through the inbox nor registered any more.                              *)
LEMMA DoneStep ==
  ASSUME Inv, TypeOK', EndDone
  PROVE  Inv'
<1>1. /\ UNCHANGED <<table, completed, queued, waiting, registered, inbox, batch, phase>>
      /\ retired' = <<calling>> \o retired /\ calling' = None
      /\ calling # None /\ calling \in completed /\ calling \notin queued
  BY DEF EndDone, DoneInPlace, thread
<1>2. /\ Elems(inbox)' = Elems(inbox) /\ Elems(batch)' = Elems(batch)
      /\ Distinct(inbox)' = Distinct(inbox) /\ Distinct(batch)' = Distinct(batch)
  BY <1>1 DEF Elems, Distinct
<1>3. calling \notin Elems(retired) \cup InFlight \cup registered \cup waiting
  BY <1>1 DEF Inv, Lists, InFlight
<1>4. calling \in Tasks
  BY <1>1, HostTasksAssumption DEF Inv, TypeOK, Tasks, None
<1>5. Elems(retired)' = Elems(retired) \cup {calling} /\ Distinct(retired)'
  <2>1. /\ Elems(retired)' = Elems(<<calling>> \o retired)
        /\ Distinct(retired)' = Distinct(<<calling>> \o retired)
    BY <1>1 DEF Elems, Distinct
  <2>2. retired \in Seq(Tasks) /\ Distinct(retired)
    BY DEF Inv, TypeOK, Lists
  <2> QED  BY <1>3, <1>4, <2>1, <2>2, ElemsCons
<1>6. Lists'
  BY <1>1, <1>2, <1>3, <1>4, <1>5, HeldTasks DEF Inv, Lists, InFlight
<1>7. PointedTo' \subseteq PointedTo
  BY <1>1, <1>2, <1>5 DEF PointedTo, InFlight
<1> QED  BY <1>1, <1>6, <1>7, TableKept

(* em_task_end of a task that was not completed in place: the fiber waits. *)
LEMMA WaitsStep ==
  ASSUME Inv, TypeOK', EndWaits
  PROVE  Inv'
<1>1. /\ UNCHANGED <<table, completed, queued, registered, retired, inbox, batch, phase>>
      /\ waiting' = waiting \cup {calling} /\ calling' = None
      /\ calling # None /\ (calling \in completed => calling \in queued)
  BY DEF EndWaits, DoneInPlace, thread
<1>2. /\ Elems(inbox)' = Elems(inbox) /\ Elems(batch)' = Elems(batch)
      /\ Elems(retired)' = Elems(retired) /\ Distinct(retired)' = Distinct(retired)
      /\ Distinct(inbox)' = Distinct(inbox) /\ Distinct(batch)' = Distinct(batch)
  BY <1>1 DEF Elems, Distinct
<1>3. Lists'
  BY <1>1, <1>2, HeldTasks DEF Inv, Lists, InFlight
<1>4. PointedTo' \subseteq PointedTo
  BY <1>1, <1>2 DEF PointedTo, InFlight
<1> QED  BY <1>1, <1>3, <1>4, TableKept

(* em_loop_inbox takes the inbox ...                                       *)
LEMMA TakeStep ==
  ASSUME Inv, TypeOK', TakeInbox
  PROVE  Inv'
<1>1. /\ UNCHANGED <<table, completed, waiting, registered, retired, calling>>
      /\ batch = <<>> /\ batch' = inbox /\ inbox' = <<>> /\ queued' = queued \ Elems(inbox)
      /\ calling = None /\ phase' = "deliver"
  BY DEF TakeInbox, Records, LoopAt, Inv, Lists
<1>2. /\ Elems(inbox)' = {} /\ Elems(batch)' = Elems(inbox) /\ Elems(batch) = {}
      /\ Elems(retired)' = Elems(retired) /\ Distinct(retired)' = Distinct(retired)
      /\ Distinct(inbox)' /\ Distinct(batch)' = Distinct(inbox)
  BY <1>1 DEF Elems, Distinct
<1>3. Lists'
  BY <1>1, <1>2, HeldTasks DEF Inv, Lists, InFlight
<1>4. PointedTo' \subseteq PointedTo
  BY <1>1, <1>2 DEF PointedTo, InFlight
<1> QED  BY <1>1, <1>3, <1>4, TableKept

(* ... and delivers the tasks in it one by one.                            *)
LEMMA DeliverStep ==
  ASSUME Inv, TypeOK', DeliverNext
  PROVE  Inv'
<1> DEFINE r == Head(batch)
<1>1. /\ UNCHANGED <<table, completed, queued, inbox, calling, phase>>
      /\ batch # <<>> /\ batch' = Tail(batch) /\ calling = None /\ Deliver(r, registered)
  BY DEF DeliverNext, LoopAt, thread
<1>2. /\ r \in Tasks /\ Elems(batch) = Elems(Tail(batch)) \cup {r}
      /\ Distinct(Tail(batch)) /\ r \notin Elems(Tail(batch))
  BY <1>1, ElemsTail DEF Inv, TypeOK, Lists
<1> HIDE DEF r
<1>3. /\ Elems(batch)' = Elems(Tail(batch)) /\ Distinct(batch)'
      /\ Elems(inbox)' = Elems(inbox) /\ Distinct(inbox)' = Distinct(inbox)
  BY <1>1, <1>2 DEF Elems, Distinct
<1>4. retired' = <<r>> \o retired /\ waiting' = waiting \ {r} /\ registered' = registered \ {r}
  BY <1>1, <1>2, HeldTasks DEF Deliver
<1>5. r \notin Elems(retired) /\ r \notin Elems(inbox) /\ r \in completed
  BY <1>2 DEF Inv, Lists, InFlight
<1>6. Elems(retired)' = Elems(retired) \cup {r} /\ Distinct(retired)'
  <2>1. /\ Elems(retired)' = Elems(<<r>> \o retired)
        /\ Distinct(retired)' = Distinct(<<r>> \o retired)
    BY <1>4 DEF Elems, Distinct
  <2>2. retired \in Seq(Tasks) /\ Distinct(retired)
    BY DEF Inv, TypeOK, Lists
  <2> QED  BY <1>2, <1>5, <2>1, <2>2, ElemsCons
<1>7. phase = "deliver"
  BY DEF DeliverNext, LoopAt
<1>8. Lists'
  BY <1>1, <1>2, <1>3, <1>4, <1>5, <1>6, <1>7, HeldTasks DEF Inv, Lists, InFlight
<1>9. PointedTo' \subseteq PointedTo
  BY <1>1, <1>2, <1>3, <1>4, <1>6 DEF PointedTo, InFlight
<1> QED  BY <1>1, <1>8, <1>9, TableKept

-----------------------------------------------------------------------------
(* Steps that change the task table.                                       *)

(* em_loop_collect frees exactly the retired records: nothing else that is *)
(* pointed to, and each slot joins the free list once.                     *)
LEMMA CollectStep ==
  ASSUME Inv, TypeOK', Collect, registered' \subseteq registered,
         UNCHANGED <<completed, queued, waiting, inbox, batch, calling>>,
         phase' # "deliver" => batch = <<>>
  PROVE  Inv'
<1> DEFINE R == Elems(retired)
<1>1. /\ Elems(inbox)' = Elems(inbox) /\ Elems(batch)' = Elems(batch)
      /\ Elems(retired)' = {} /\ Distinct(retired)'
      /\ Distinct(inbox)' = Distinct(inbox) /\ Distinct(batch)' = Distinct(batch)
  BY DEF Elems, Distinct, Collect
<1>2. Lists'
  BY <1>1 DEF Inv, Lists, InFlight
<1>3. PointedTo' \subseteq PointedTo \ R
  BY <1>1, HeldTasks DEF PointedTo, InFlight, Inv, Lists
<1>4. /\ UNCHANGED <<issued, slotOf, genOf, slotsLen, slotGen>>
      /\ \A i \in Tasks : slotTask'[i] = IF slotTask[i] \in R THEN None ELSE slotTask[i]
  BY DEF Collect
<1>5. \A t \in 1..issued : t \in Tasks /\ slotOf[t] \in Tasks /\ slotOf[t] \in 1..slotsLen
  BY Bounds
<1>6. \A t \in PointedTo : t \in 1..issued /\ slotTask[slotOf[t]] = t
  BY DEF Inv, TasksMade, Kept, Allocated
<1>7. TasksMade'
  BY <1>3, <1>4 DEF Inv, TasksMade
<1>8. Kept'
  BY <1>3, <1>4, <1>5, <1>6 DEF Kept, Allocated
<1>9. Slots'
  BY <1>4 DEF Inv, Slots
<1>10. FreeListExact'
  <2> DEFINE b == [i \in 1..Len(retired) |-> slotOf[retired[i]]]
             S == {slotOf[t] : t \in R}
  <2>1. free' = free \o b
    BY DEF Collect
  <2>2. free \in Seq(Tasks) /\ retired \in Seq(Tasks) /\ Distinct(free) /\ Distinct(retired)
        /\ Elems(free) = {i \in 1..slotsLen : slotTask[i] = None}
    BY DEF Inv, TypeOK, FreeListExact, Lists, Distinct
  <2>3. \A t \in R : /\ t \in 1..issued /\ t # None /\ slotTask[slotOf[t]] = t
                     /\ slotOf[t] \in Tasks /\ slotOf[t] \in 1..slotsLen
    BY <1>5, <1>6 DEF PointedTo, None
  <2>4. Elems(free') = Elems(free) \cup S /\ Distinct(free')
    <3>1. Len(retired) \in Nat /\ DOMAIN retired = 1..Len(retired)
          /\ \A i \in 1..Len(retired) : retired[i] \in R
      BY <2>2 DEF Elems
    <3>2. b \in Seq(Tasks)
      BY <2>3, <3>1
    <3>3. DOMAIN b = 1..Len(retired) /\ \A i \in 1..Len(retired) : b[i] = slotOf[retired[i]]
      OBVIOUS
    <3> HIDE DEF b
    <3>4. Elems(b) = S
      BY <3>1, <3>3 DEF Elems
    <3>5. Distinct(b)
      <4>1. \A t, u \in R : slotOf[t] = slotOf[u] => t = u
        BY <2>3
      <4> QED  BY <2>2, <3>1, <3>3, <4>1 DEF Distinct
    <3>6. Elems(free) \cap S = {}
      BY <2>2, <2>3
    <3> QED  BY <2>1, <2>2, <3>2, <3>4, <3>5, <3>6, ElemsConcat
  <2>5. \A i \in 1..slotsLen : i \in Tasks
    BY Bounds
  <2>6. \A i \in Tasks : slotTask[i] \in R => slotOf[slotTask[i]] = i
    BY HeldTasks DEF Inv, Slots
  <2>7. {i \in 1..slotsLen : slotTask'[i] = None} = Elems(free) \cup S
    BY <1>4, <2>2, <2>3, <2>5, <2>6
  <2> QED  BY <1>4, <2>4, <2>7 DEF FreeListExact, Elems, Distinct
<1> QED  BY <1>2, <1>7, <1>8, <1>9, <1>10 DEF Inv

(* em_task_new: the slot taken is empty, and its next generation is one no *)
(* handle of that slot has had.                                            *)
LEMMA NewStep ==
  ASSUME Inv, TypeOK', TaskNew
  PROVE  Inv'
<1> DEFINE t == issued + 1
           i == IF free # <<>> THEN Head(free) ELSE slotsLen + 1
           g == slotGen[i] + 1
<1>1. /\ UNCHANGED <<completed, queued, waiting, registered, retired, inbox, batch, phase>>
      /\ calling = None /\ calling' = t /\ issued' = t /\ issued \in Nat /\ t \in Tasks
  BY HostTasksAssumption DEF TaskNew, FibersRun, thread, Inv, TypeOK, Tasks
<1>2. /\ free # <<>> =>
           /\ Elems(free) = Elems(Tail(free)) \cup {Head(free)}
           /\ Distinct(Tail(free)) /\ Head(free) \notin Elems(Tail(free))
           /\ free' = Tail(free) /\ slotsLen' = slotsLen
      /\ free = <<>> => free' = free /\ slotsLen' = slotsLen + 1
  <2>1. free \in Seq(Tasks) /\ Distinct(free)
    BY DEF Inv, TypeOK, FreeListExact, Distinct
  <2> QED  BY <2>1, ElemsTail DEF TaskNew
<1>3. /\ i \in Tasks /\ slotTask[i] = None /\ i \in 1..slotsLen' /\ slotsLen' \in Nat
      /\ slotsLen \in Nat /\ slotsLen <= slotsLen' /\ slotsLen' <= t
      /\ \A u \in 1..issued : slotOf[u] \in 1..slotsLen
  <2>1. slotsLen \in Nat /\ slotsLen <= issued /\ \A u \in 1..issued : slotOf[u] \in 1..slotsLen
    BY Bounds
  <2>2. CASE free # <<>>
    <3>1. i \in Elems(free) /\ i = Head(free)
      BY <1>2, <2>2
    <3>2. i \in 1..slotsLen /\ slotTask[i] = None
      BY <3>1 DEF Inv, FreeListExact
    <3>3. i \in Tasks /\ slotsLen' = slotsLen /\ slotsLen <= t
      BY <1>1, <1>2, <2>1, <2>2, <3>2, Bounds
    <3> QED  BY <2>1, <3>2, <3>3
  <2>3. CASE free = <<>>
    <3>1. i = slotsLen + 1 /\ slotsLen' = slotsLen + 1 /\ i \in Tasks
      <4>1. issued + 1 <= NTasks
        BY <1>1 DEF Tasks
      <4>2. slotsLen + 1 \in Tasks
        BY <1>1, <2>1, <4>1, HostTasksAssumption DEF Tasks
      <4> QED  BY <1>2, <2>3, <4>2
    <3>2. slotTask[i] = None
      <4>1. ASSUME slotTask[i] # None PROVE FALSE
        <5>1. slotTask[i] \in 1..issued /\ slotOf[slotTask[i]] = i
          BY <3>1, <4>1 DEF Inv, Slots
        <5> QED  BY <5>1, <2>1, <3>1
      <4> QED  BY <4>1
    <3>3. i \in 1..slotsLen' /\ slotsLen' \in Nat /\ slotsLen <= slotsLen' /\ slotsLen' <= t
      BY <1>1, <2>1, <3>1
    <3> QED  BY <2>1, <3>1, <3>2, <3>3
  <2> QED  BY <2>2, <2>3
<1>4. /\ NextGen(i) = g /\ g \in Nat /\ slotGen[i] \in Nat /\ g <= t
  <2>1. slotGen[i] \in Nat /\ slotGen[i] <= issued
    BY <1>3, SMTT(30) DEF Inv, TypeOK, Slots
  <2>2. g \in 0..(GenCount - 1) /\ g \in Nat /\ g <= t
    BY <1>1, <2>1, HostTasksAssumption DEF Tasks
  <2> HIDE DEF g
  <2>3. g % GenCount = g
    BY <2>2, HostTasksAssumption
  <2>4. NextGen(i) = g % GenCount
    BY DEF NextGen, g
  <2> QED  BY <2>1, <2>2, <2>3, <2>4
<1>5. /\ slotGen' = [slotGen EXCEPT ![i] = g] /\ slotTask' = [slotTask EXCEPT ![i] = t]
      /\ slotOf' = [slotOf EXCEPT ![t] = i] /\ genOf' = [genOf EXCEPT ![t] = g]
  BY <1>4 DEF TaskNew
<1> HIDE DEF i, g
<1>6. /\ \A u \in 1..issued : u \in Tasks /\ u # t /\ slotOf'[u] = slotOf[u] /\ genOf'[u] = genOf[u]
      /\ slotOf'[t] = i /\ genOf'[t] = g
      /\ \A k \in Tasks : k # i => slotGen'[k] = slotGen[k] /\ slotTask'[k] = slotTask[k]
      /\ slotGen'[i] = g /\ slotTask'[i] = t
      /\ 1..issued' = 1..issued \cup {t}
  <2>1. /\ slotOf \in [Tasks -> 0..NTasks] /\ genOf \in [Tasks -> 0..(GenCount - 1)]
        /\ slotTask \in [Tasks -> 0..NTasks] /\ slotGen \in [Tasks -> 0..(GenCount - 1)]
    BY DEF Inv, TypeOK
  <2>2. /\ \A u \in 1..issued : u \in Tasks /\ u # t
        /\ 1..issued' = 1..issued \cup {t}
    BY <1>1, Bounds
  <2> HIDE DEF t
  <2>3. \A u \in Tasks : u # t => slotOf'[u] = slotOf[u] /\ genOf'[u] = genOf[u]
    BY <1>5, <2>1
  <2>4. slotOf'[t] = i /\ genOf'[t] = g /\ slotGen'[i] = g /\ slotTask'[i] = t
    BY <1>1, <1>3, <1>5, <2>1
  <2>5. \A k \in Tasks : k # i => slotGen'[k] = slotGen[k] /\ slotTask'[k] = slotTask[k]
    BY <1>5, <2>1
  <2> QED  BY <2>2, <2>3, <2>4, <2>5
<1>7. /\ Elems(inbox)' = Elems(inbox) /\ Elems(batch)' = Elems(batch)
      /\ Elems(retired)' = Elems(retired) /\ Distinct(retired)' = Distinct(retired)
      /\ Distinct(inbox)' = Distinct(inbox) /\ Distinct(batch)' = Distinct(batch)
  BY <1>1 DEF Elems, Distinct
<1>8. PointedTo' = PointedTo \cup {t} /\ PointedTo \subseteq 1..issued /\ t \notin 1..issued
  BY <1>1, <1>7, HeldTasks DEF PointedTo, InFlight, Inv, TasksMade
<1>9. Lists'
  BY <1>1, <1>7, <1>8 DEF Inv, Lists, InFlight, PointedTo
<1>10. TasksMade'
  BY <1>3, <1>1, <1>6, <1>8 DEF Inv, TasksMade
<1>11. Slots'
  <2>1. \A u \in 1..issued : slotOf[u] \in Tasks /\ genOf[u] <= slotGen[slotOf[u]]
                             /\ genOf[u] \in Nat /\ slotGen[slotOf[u]] \in Nat
    <3>1. /\ genOf \in [Tasks -> 0..(GenCount - 1)] /\ slotGen \in [Tasks -> 0..(GenCount - 1)]
          /\ \A u \in 1..issued : genOf[u] <= slotGen[slotOf[u]]
      BY DEF Inv, TypeOK, Slots
    <3>2. \A u \in 1..issued : u \in Tasks /\ slotOf[u] \in Tasks
      BY Bounds
    <3> QED  BY <3>1, <3>2
  <2>2. \A u \in 1..issued' : slotOf'[u] \in 1..slotsLen' /\ genOf'[u] <= slotGen'[slotOf'[u]]
    <3> SUFFICES ASSUME NEW u \in 1..issued
                 PROVE  slotOf[u] \in 1..slotsLen' /\ genOf[u] <= slotGen'[slotOf[u]]
      BY <1>3, <1>4, <1>6
    <3>1. CASE slotOf[u] = i
      BY <1>3, <1>4, <1>6, <2>1, <3>1 DEF g
    <3>2. CASE slotOf[u] # i
      BY <1>3, <1>6, <2>1, <3>2
    <3> QED  BY <3>1, <3>2
  <2>3. \A u \in 1..issued : ~(slotOf[u] = i /\ genOf[u] = g)
    BY <1>4, <2>1 DEF g
  <2>4. \A u, v \in 1..issued' : slotOf'[u] = slotOf'[v] /\ genOf'[u] = genOf'[v] => u = v
    BY <1>6, <2>3 DEF Inv, Slots
  <2>5. \A k \in Tasks : slotTask'[k] # None =>
           slotTask'[k] \in 1..issued' /\ slotOf'[slotTask'[k]] = k /\ genOf'[slotTask'[k]] = slotGen'[k]
    BY <1>6 DEF Inv, Slots
  <2>6. \A k \in Tasks : slotGen'[k] <= issued'
    <3> SUFFICES ASSUME NEW k \in Tasks PROVE slotGen'[k] <= t
      BY <1>1
    <3>1. slotGen[k] <= issued /\ slotGen[k] \in Nat
      BY DEF Inv, TypeOK, Slots
    <3> QED  BY <1>1, <1>4, <1>6, <3>1
  <2> QED  BY <2>2, <2>4, <2>5, <2>6 DEF Slots
<1>12. Kept'
  <2>1. \A u \in PointedTo : slotTask[slotOf[u]] = u /\ slotOf[u] \in Tasks /\ slotOf[u] # i
    <3>1. \A u \in PointedTo : u \in 1..issued /\ slotTask[slotOf[u]] = u /\ u # None
      BY <1>8 DEF Inv, Kept, Allocated, None
    <3>2. \A u \in 1..issued : slotOf[u] \in Tasks
      BY Bounds
    <3> QED  BY <1>3, <3>1, <3>2
  <2> QED  BY <1>6, <1>8, <2>1 DEF Kept, Allocated
<1>13. FreeListExact'
  <2>1. Elems(free) = {k \in 1..slotsLen : slotTask[k] = None} /\ t # None
    BY <1>1 DEF Inv, FreeListExact, Tasks, None
  <2>2. \A k \in 1..slotsLen' : k \in Tasks
    <3>1. t <= NTasks /\ t \in Nat /\ slotsLen' <= t /\ slotsLen' \in Nat
      BY <1>1, <1>3 DEF Tasks
    <3> QED  BY <3>1, HostTasksAssumption DEF Tasks
  <2>3. CASE free # <<>>
    <3>1. i = Head(free) /\ Elems(Tail(free)) = Elems(free) \ {i}
      BY <1>2, <2>3 DEF i
    <3>2. {k \in 1..slotsLen' : slotTask'[k] = None} = Elems(Tail(free))
      BY <1>2, <1>6, <2>1, <2>2, <2>3, <3>1
    <3> QED  BY <1>2, <2>3, <3>2 DEF FreeListExact, Elems, Distinct
  <2>4. CASE free = <<>>
    <3>1. i = slotsLen + 1 /\ Elems(free) = {}
      BY <2>4, ElemsEmpty DEF i
    <3>2. 1..slotsLen' = 1..slotsLen \cup {i}
      BY <1>2, <1>3, <2>4, <3>1
    <3>3. {k \in 1..slotsLen' : slotTask'[k] = None} = {}
      BY <1>6, <2>1, <2>2, <3>1, <3>2
    <3>4. free' = <<>>
      BY <1>2, <2>4
    <3> QED  BY <3>3, <3>4, ElemsEmpty DEF FreeListExact, Elems, Distinct
  <2> QED  BY <2>3, <2>4
<1> QED  BY <1>9, <1>10, <1>11, <1>12, <1>13 DEF Inv

-----------------------------------------------------------------------------
(* Every step keeps the invariant.                                         *)
LEMMA InvStep ==
  ASSUME Inv, [Next]_vars
  PROVE  Inv'
<1>1. TypeOK'
  BY TypeStep
<1>2. ASSUME NEW t \in Tasks, CompleteThere(t) PROVE Inv'
  BY <1>1, <1>2, ThereStep
<1>3. ASSUME NEW t \in Tasks, CompleteInCall(t) PROVE Inv'
  BY <1>1, <1>3, HereStep DEF CompleteInCall
<1>4. ASSUME NEW u \in Tasks, NEW t \in Tasks, FireCompletes(u, t) PROVE Inv'
  <2>1. CompleteHere(t, registered \ {u}) /\ UNCHANGED <<phase, calling>>
    BY <1>4 DEF FireCompletes
  <2>2. registered \ {u} \in SUBSET registered
    OBVIOUS
  <2> QED  BY <1>1, <2>1, <2>2, HereStep
<1>5. ASSUME EndDead PROVE Inv'
  <2>1. calling \in Tasks
    BY <1>5, HostTasksAssumption DEF EndDead, Inv, TypeOK, Tasks, None
  <2> QED  BY <1>1, <1>5, <2>1, CancelStep DEF EndDead
<1>6. ASSUME NEW t \in Tasks, Interrupt(t) \/ DropWait(t) PROVE Inv'
  BY <1>1, <1>6, CancelStep DEF Interrupt, DropWait
<1>7. ASSUME Register \/ \E u \in Tasks : Fire(u) PROVE Inv'
  BY <1>1, <1>7, RegisterStep
<1>8. ASSUME TurnBegin \/ EndRun PROVE Inv'
  <2>1. /\ Collect /\ registered' \subseteq registered
        /\ UNCHANGED <<completed, queued, waiting, inbox, batch, calling>>
    BY <1>8 DEF TurnBegin, EndRun, Records, thread
  <2>2. batch = <<>>
    BY <1>8 DEF TurnBegin, EndRun, LoopAt, Inv, Lists
  <2> QED  BY <1>1, <2>1, <2>2, CollectStep
<1>9. ASSUME Wake \/ FibersIdle \/ Stopped \/ UNCHANGED vars PROVE Inv'
  <2>1. UNCHANGED <<table, lists, phase>>
    BY <1>9 DEF Wake, FibersIdle, Stopped, vars, lists, thread
  <2>2. phase' # "deliver" => batch = <<>>
    BY <2>1 DEF Inv, Lists
  <2> QED  BY <1>1, <2>1, <2>2, ListsKept
<1>10. ASSUME PollReturns \/ Delivered \/ TurnEnd \/ Stall \/ Unwound \/ NewRun PROVE Inv'
  <2>1. UNCHANGED <<table, lists>>
    BY <1>10 DEF PollReturns, Delivered, TurnEnd, Stall, Unwound, NewRun, lists, thread, Records
  <2>2. batch = <<>>
    BY <1>10 DEF PollReturns, Delivered, TurnEnd, Stall, Unwound, NewRun, LoopAt, Inv, Lists
  <2> QED  BY <1>1, <2>1, <2>2, ListsKept
<1>11. Done => UNCHANGED vars
  BY DEF Done
<1>12. TaskNew => Inv'
  BY <1>1, NewStep
<1>13. EndDone => Inv'
  BY <1>1, DoneStep
<1>14. EndWaits => Inv'
  BY <1>1, WaitsStep
<1>15. TakeInbox => Inv'
  BY <1>1, TakeStep
<1>16. DeliverNext => Inv'
  BY <1>1, DeliverStep
<1> QED
  BY <1>2, <1>3, <1>4, <1>5, <1>6, <1>7, <1>8, <1>9, <1>10, <1>11, <1>12, <1>13, <1>14, <1>15,
     <1>16 DEF Next, Runtime, Loop, Fibers, Stopping

(* The inductive invariant holds in every behaviour of the runtime.        *)
THEOREM InvHolds == Spec => []Inv
<1>1. Inv /\ [Next]_vars => Inv'
  BY InvStep
<1> QED  BY <1>1, InitInv, PTL DEF Spec

(* The state keeps its type, whatever the host does.                       *)
THEOREM HostTypeCorrect == Spec => []TypeOK
<1>1. Inv => TypeOK
  BY DEF Inv
<1> QED  BY <1>1, InvHolds, PTL

(* A handle (em_slot_find) names its own call's task or nothing, for any   *)
(* number of calls below the number of generations, however often its slot *)
(* was taken again in the meantime.                                        *)
THEOREM HandlesAreSafe == Spec => []HandleNamesItsTask
<1>1. Inv => HandleNamesItsTask
  BY FindsItsTask DEF HandleNamesItsTask
<1> QED  BY <1>1, InvHolds, PTL

(* The records in the inbox, in the batch, with registrations, waited for  *)
(* and being called are allocated: em_loop_collect frees none of them.     *)
THEOREM RecordsStayAllocated == Spec => []NoUseAfterFree
<1>1. Inv => NoUseAfterFree
  BY DEF Inv, Kept, PointedTo, InFlight, NoUseAfterFree
<1> QED  BY <1>1, InvHolds, PTL

(* A record is retired once, and only when nothing else in the runtime     *)
(* points to it (em_task_retire).                                          *)
THEOREM RecordsRetiredOnce == Spec => []RetiredOnce
<1>1. Inv => RetiredOnce
  BY DEF Inv, Lists, InFlight, Distinct, RetiredOnce
<1> QED  BY <1>1, InvHolds, PTL

(* The free list holds every empty slot of the table, and no slot twice.   *)
THEOREM FreeListIsExact == Spec => []FreeListExact
<1>1. Inv => FreeListExact
  BY DEF Inv
<1> QED  BY <1>1, InvHolds, PTL

(* A completion that raced the call's end, a cancellation or a turn of the *)
(* loop is still on its way to the fiber that waits for it.                *)
THEOREM CompletionsAreKept == Spec => []NoLostCompletion
<1>1. Inv => NoLostCompletion
  BY DEF Inv, Lists, InFlight, NoLostCompletion
<1> QED  BY <1>1, InvHolds, PTL

(* The loop does not poll on an inbox nobody will announce: the self-pipe  *)
(* is emptied before the inbox is taken (em_loop_inbox), and a thread      *)
(* writes to it after it filled the inbox (em_wake).                       *)
THEOREM WakesAreKept == Spec => []NoLostWake
<1>1. Init => NoLostWake
  BY DEF Init, NoLostWake
<1>2. ASSUME TypeOK, NoLostWake, [Next]_vars PROVE NoLostWake'
  <2> USE DEF NoLostWake
  <2>1. ASSUME NEW t \in Tasks, CompleteThere(t) PROVE NoLostWake'
    <3>1. waking' > 0
      BY <1>2, <2>1 DEF CompleteThere, TypeOK
    <3> QED  BY <3>1
  <2>2. Wake \/ PollReturns \/ TakeInbox => NoLostWake'
    BY DEF Wake, PollReturns, TakeInbox
  <2>3. ASSUME UNCHANGED thread, phase = "drained" => phase' = "drained" PROVE NoLostWake'
    BY <1>2, <2>3 DEF thread
  <2>4. CASE Loop
    <3>1. ASSUME NEW u \in Tasks, NEW t \in Tasks, FireCompletes(u, t) PROVE NoLostWake'
      BY <2>3, <3>1 DEF FireCompletes, CompleteHere
    <3>2. ASSUME NEW u \in Tasks, Fire(u) PROVE NoLostWake'
      BY <2>3, <3>2 DEF Fire
    <3>3. TurnBegin \/ Delivered \/ TurnEnd \/ Stall \/ Unwound \/ EndRun => NoLostWake'
      BY <2>3 DEF TurnBegin, Delivered, TurnEnd, Stall, Unwound, EndRun, LoopAt
    <3>4. DeliverNext \/ NewRun => NoLostWake'
      BY <2>3 DEF DeliverNext, NewRun
    <3> QED  BY <2>2, <2>4, <3>1, <3>2, <3>3, <3>4 DEF Loop
  <2>5. CASE Fibers
    <3>1. TaskNew \/ Register \/ EndDone \/ EndWaits \/ FibersIdle => NoLostWake'
      BY <2>3 DEF TaskNew, Register, EndDone, EndWaits, FibersIdle
    <3>2. ASSUME NEW t \in Tasks, CompleteInCall(t) \/ Interrupt(t) PROVE NoLostWake'
      BY <2>3, <3>2 DEF CompleteInCall, Interrupt, CompleteHere, Cancel
    <3>3. EndDead => NoLostWake'
      BY <2>3 DEF EndDead, Cancel
    <3> QED  BY <2>5, <3>1, <3>2, <3>3 DEF Fibers
  <2>6. CASE Stopping
    BY <2>3, <2>6 DEF Stopping, Stopped, DropWait, Cancel
  <2>7. Done \/ UNCHANGED vars => NoLostWake'
    BY <2>3 DEF Done, vars
  <2> QED  BY <1>2, <2>1, <2>2, <2>4, <2>5, <2>6, <2>7 DEF Next, Runtime
<1> QED  BY <1>1, <1>2, HostTypeCorrect, PTL DEF Spec


(* The table of tasks is right, however often slots are taken again        *)
(* (em_slot_take, em_slot_find).                                           *)
THEOREM TableIsRight == Spec => []TableRight
BY HandlesAreSafe, FreeListIsExact, PTL DEF TableRight

(* Records are freed once, and after everything that points to them is     *)
(* gone, whichever thread completes them and when.                         *)
THEOREM RecordsAreSafe == Spec => []RecordsSafe
BY RecordsStayAllocated, RecordsRetiredOnce, PTL DEF RecordsSafe

(* A completion is neither dropped by the loop nor left lying in the inbox *)
(* while it sleeps.                                                        *)
THEOREM NothingIsLost == Spec => []NothingLost
BY CompletionsAreKept, WakesAreKept, PTL DEF NothingLost

(***************************************************************************)
(* The heap machine.                                                       *)
(*                                                                         *)
(* First the counting: the references to an object are a family of finite  *)
(* sets, so that a step that moves one reference moves one element.  Sound *)
(* says that each count is that of the references from objects, from the   *)
(* variables, as a point of OwnedPaths counts them, and from elsewhere:    *)
(* the caller, the pending defect and what is in hand.  Fits ties a state  *)
(* to a point, Mid a state within a let; there is a lemma for each step of *)
(* the machine, and the invariant is that the run is at a place of a set   *)
(* that Accepts holds of, and fits its point.                              *)
(***************************************************************************)

-----------------------------------------------------------------------------
(* Induction.                                                              *)

(* What holds of 0, and of every number whose predecessor it holds of.     *)
LEMMA StepByStep ==
  ASSUME NEW N \in Nat, NEW T, 0 \in T, \A i \in 1..N : i - 1 \in T => i \in T
  PROVE  0..N \subseteq T
<1> DEFINE B == (0..N) \ T
<1> SUFFICES ASSUME B # {} PROVE FALSE
  OBVIOUS
<1>1. B \subseteq Nat
  OBVIOUS
<1>2. PICK x \in B : \A y \in B : <<y, x>> \notin OpToRel(<, Nat)
  <2> HIDE DEF B
  <2> QED
    BY ONLY B # {}, <1>1, NatLessThanWellFounded, WFMin
<1>3. x \in 1..N /\ x - 1 \in 0..N
  OBVIOUS
<1>4. x - 1 \in B
  BY <1>3
<1>5. <<x - 1, x>> \in OpToRel(<, Nat)
  BY <1>3 DEF OpToRel
<1> QED
  BY <1>2, <1>4, <1>5

-----------------------------------------------------------------------------
(* Counting: how often something occurs in a sequence.                     *)

(* A part of a finite set is finite.                                       *)
LEMMA FiniteParts ==
  ASSUME NEW S, IsFiniteSet(S), NEW T, T \subseteq S
  PROVE  IsFiniteSet(T) /\ Cardinality(T) \in Nat /\ Cardinality(T) <= Cardinality(S)
<1>1. IsFiniteSet(T) /\ Cardinality(T) <= Cardinality(S)
  BY FS_Subset
<1> QED
  BY <1>1, FS_CardinalityType

(* The size of a disjoint union.                                           *)
LEMMA DisjointSum ==
  ASSUME NEW S, IsFiniteSet(S), NEW T, IsFiniteSet(T), S \cap T = {}
  PROVE  IsFiniteSet(S \cup T) /\ Cardinality(S \cup T) = Cardinality(S) + Cardinality(T)
<1>1. Cardinality(S \cup T) = Cardinality(S) + Cardinality(T) - Cardinality(S \cap T)
  BY FS_Union
<1>2. IsFiniteSet(S \cup T)
  BY FS_Union
<1>3. Cardinality(S \cap T) = 0
  BY FS_EmptySet
<1>4. Cardinality(S) \in Nat /\ Cardinality(T) \in Nat
  BY FS_CardinalityType
<1> QED
  BY <1>1, <1>2, <1>3, <1>4

(* The positions at which something occurs.                                *)
At(o, s) == {i \in DOMAIN s : s[i] = o}

(* An element occurs finitely often in a sequence.                         *)
LEMMA OccursNat ==
  ASSUME NEW U, NEW s \in Seq(U), NEW o
  PROVE  IsFiniteSet(At(o, s)) /\ Occurs(o, s) = Cardinality(At(o, s)) /\ Occurs(o, s) \in Nat
<1>1. DOMAIN s = 1..Len(s) /\ Len(s) \in Nat
  OBVIOUS
<1>2. IsFiniteSet(1..Len(s))
  BY <1>1, FS_Interval
<1>3. At(o, s) \subseteq 1..Len(s)
  BY <1>1 DEF At
<1>4. IsFiniteSet(At(o, s)) /\ Cardinality(At(o, s)) \in Nat
  BY <1>2, <1>3, FiniteParts
<1>5. Occurs(o, s) = Cardinality(At(o, s))
  BY DEF Occurs, At
<1> QED
  BY <1>4, <1>5

(* It occurs if it is at some position.                                    *)
LEMMA OccursIn ==
  ASSUME NEW U, NEW s \in Seq(U), NEW o
  PROVE  Occurs(o, s) = 0 <=> \A i \in DOMAIN s : s[i] # o
<1>1. Cardinality(At(o, s)) = 0 <=> At(o, s) = {}
  BY OccursNat, FS_EmptySet
<1> QED
  BY <1>1, OccursNat DEF At

(* Nothing occurs in the empty sequence.                                   *)
LEMMA OccursNone ==
  ASSUME NEW o PROVE Occurs(o, <<>>) = 0
<1>1. {i \in DOMAIN <<>> : <<>>[i] = o} = {}
  OBVIOUS
<1> QED
  BY <1>1, FS_EmptySet DEF Occurs

(* What occurs in a sequence of one.                                       *)
LEMMA OccursOne ==
  ASSUME NEW o, NEW x PROVE Occurs(o, <<x>>) = IF x = o THEN 1 ELSE 0
<1> DEFINE P == {i \in DOMAIN <<x>> : <<x>>[i] = o}
<1>1. P = IF x = o THEN {1} ELSE {}
  OBVIOUS
<1>2. Occurs(o, <<x>>) = Cardinality(P)
  BY DEF Occurs
<1> HIDE DEF P
<1> QED
  BY <1>1, <1>2, FS_EmptySet, FS_Singleton

(* Without the last, and without the first.                                *)
LEMMA OccursAppend ==
  ASSUME NEW U, NEW s \in Seq(U), NEW x \in U, NEW o
  PROVE  Occurs(o, Append(s, x)) = Occurs(o, s) + Occurs(o, <<x>>)
<1> DEFINE t == Append(s, x)
           n == Len(s) + 1
<1>1. t \in Seq(U) /\ Len(s) \in Nat /\ DOMAIN t = 1..n /\ DOMAIN s = 1..Len(s) /\ t[n] = x
      /\ \A i \in 1..Len(s) : t[i] = s[i]
  OBVIOUS
<1> HIDE DEF t
<1>2. At(o, t) = IF x = o THEN At(o, s) \cup {n} ELSE At(o, s)
  BY <1>1 DEF At
<1>3. n \notin At(o, s)
  BY <1>1 DEF At
<1>4. Cardinality(At(o, t)) = Cardinality(At(o, s)) + (IF x = o THEN 1 ELSE 0)
  BY <1>2, <1>3, OccursNat, FS_AddElement
<1>5. Occurs(o, t) = Cardinality(At(o, t))
  BY <1>1, OccursNat
<1> QED
  BY <1>4, <1>5, OccursNat, OccursOne DEF t

(* The first element, and the others.                                      *)
LEMMA OccursTail ==
  ASSUME NEW U, NEW s \in Seq(U), s # <<>>, NEW o
  PROVE  Occurs(o, s) = Occurs(o, <<Head(s)>>) + Occurs(o, Tail(s))
<1> DEFINE t == Tail(s)
           H == {i \in {1} : s[1] = o}
           R == {i \in DOMAIN s : i # 1 /\ s[i] = o}
           f == [i \in At(o, t) |-> i + 1]
<1>1. t \in Seq(U) /\ Len(s) \in Nat /\ Len(s) >= 1 /\ DOMAIN t = 1..(Len(s) - 1) /\ DOMAIN s = 1..Len(s)
      /\ Head(s) = s[1] /\ \A i \in 1..(Len(s) - 1) : t[i] = s[i + 1]
  OBVIOUS
<1> HIDE DEF t
<1>2. f \in Bijection(At(o, t), R)
  <2>1. \A i \in At(o, t) : i + 1 \in R
    BY <1>1 DEF At
  <2>2. \A j \in R : j - 1 \in At(o, t) /\ (j - 1) + 1 = j
    BY <1>1 DEF At
  <2>3. \A i, j \in At(o, t) : f[i] = f[j] => i = j
    BY <1>1 DEF At
  <2>4. f \in [At(o, t) -> R]
    BY <2>1
  <2>5. \A j \in R : \E i \in At(o, t) : f[i] = j
    BY <2>2
  <2> HIDE DEF f, R
  <2> QED
    BY <2>3, <2>4, <2>5 DEF Bijection, Injection, Surjection, IsInjective
<1>3. IsFiniteSet(R) /\ Cardinality(R) = Cardinality(At(o, t))
  <2>1. ExistsBijection(At(o, t), R)
    BY <1>2 DEF ExistsBijection
  <2>2. IsFiniteSet(At(o, t))
    BY <1>1, OccursNat
  <2> QED
    BY <2>1, <2>2, FS_Bijection
<1>4. H = (IF s[1] = o THEN {1} ELSE {}) /\ H \cap R = {} /\ H \cup R = At(o, s)
  BY <1>1 DEF At
<1> HIDE DEF H, R, f
<1>5. IsFiniteSet(H) /\ Cardinality(H) = IF s[1] = o THEN 1 ELSE 0
  BY <1>4, FS_EmptySet, FS_Singleton
<1>6. Cardinality(At(o, s)) = Cardinality(H) + Cardinality(R)
  BY <1>3, <1>4, <1>5, DisjointSum
<1>7. Occurs(o, t) = Cardinality(At(o, t)) /\ Occurs(o, s) = Cardinality(At(o, s))
  BY <1>1, OccursNat
<1> QED
  BY <1>1, <1>3, <1>5, <1>6, <1>7, OccursOne DEF t

(* What occurs in a sequence of two.                                       *)
LEMMA OccursTwo ==
  ASSUME NEW o, NEW x, NEW y
  PROVE  Occurs(o, <<x, y>>) = Occurs(o, <<x>>) + Occurs(o, <<y>>)
<1> DEFINE s == <<x, y>>
<1>0. s \in Seq({x, y}) /\ s # <<>> /\ Head(s) = x
  OBVIOUS
<1>1. Tail(s) = <<y>>
  OBVIOUS
<1> HIDE DEF s
<1>2. Occurs(o, s) = Occurs(o, <<Head(s)>>) + Occurs(o, Tail(s))
  BY ONLY <1>0, OccursTail
<1> QED
  BY <1>0, <1>1, <1>2 DEF s

-----------------------------------------------------------------------------
(* Counting in families of sets, one for each index.                       *)

Pairs(I, F) == UNION {{n} \X F[n] : n \in I}
Total(I, F) == Cardinality(Pairs(I, F))

(* The pairs of an index and an element of its set.                        *)
LEMMA PairIn ==
  ASSUME NEW I, NEW F, NEW x
  PROVE  x \in Pairs(I, F) <=> \E n \in I : \E k \in F[n] : x = <<n, k>>
  BY DEF Pairs

(* A finite family of finite sets has finitely many elements.              *)
LEMMA TotalNat ==
  ASSUME NEW I, IsFiniteSet(I), NEW F, \A n \in I : IsFiniteSet(F[n])
  PROVE  IsFiniteSet(Pairs(I, F)) /\ Total(I, F) \in Nat
<1> DEFINE f == [n \in I |-> {n} \X F[n]]
           S == {{n} \X F[n] : n \in I}
<1>1. IsFiniteSet(S)
  <2>1. f \in Surjection(I, S)
    BY DEF Surjection
  <2> HIDE DEF f, S
  <2> QED
    BY <2>1, FS_Surjection
<1>2. \A x \in S : IsFiniteSet(x)
  <2> SUFFICES ASSUME NEW n \in I PROVE IsFiniteSet({n} \X F[n])
    OBVIOUS
  <2>1. IsFiniteSet({n}) /\ IsFiniteSet(F[n])
    BY FS_Singleton
  <2> QED
    BY <2>1, FS_Product
<1>3. IsFiniteSet(UNION S)
  <2> HIDE DEF S
  <2> QED
    BY <1>1, <1>2, FS_UNION
<1>4. IsFiniteSet(Pairs(I, F))
  BY <1>3 DEF Pairs
<1> QED
  BY <1>4, FS_CardinalityType DEF Total

(* The elements of one set.                                                *)
LEMMA OneRow ==
  ASSUME NEW n, NEW S, IsFiniteSet(S)
  PROVE  IsFiniteSet({n} \X S) /\ Cardinality({n} \X S) = Cardinality(S)
<1>1. IsFiniteSet({n}) /\ Cardinality({n}) = 1
  BY FS_Singleton
<1>2. IsFiniteSet({n} \X S) /\ Cardinality({n} \X S) = Cardinality({n}) * Cardinality(S)
  BY <1>1, FS_Product
<1>3. Cardinality(S) \in Nat
  BY FS_CardinalityType
<1> QED
  BY <1>1, <1>2, <1>3

(* One index apart.                                                        *)
LEMMA TotalSplit ==
  ASSUME NEW I, IsFiniteSet(I), NEW F, \A n \in I : IsFiniteSet(F[n]), NEW p \in I
  PROVE  Total(I, F) = Total(I \ {p}, F) + Cardinality(F[p])
<1> DEFINE A == Pairs(I \ {p}, F)
           B == {p} \X F[p]
<1>1. Pairs(I, F) = A \cup B
  BY DEF Pairs
<1>2. A \cap B = {}
  BY DEF Pairs
<1>3. IsFiniteSet(A)
  <2>1. IsFiniteSet(I \ {p})
    BY FS_Subset
  <2> QED
    BY <2>1, TotalNat
<1>4. IsFiniteSet(B) /\ Cardinality(B) = Cardinality(F[p])
  BY OneRow
<1> HIDE DEF A, B
<1>5. Cardinality(A \cup B) = Cardinality(A) + Cardinality(B)
  BY <1>2, <1>3, <1>4, DisjointSum
<1> QED
  BY <1>1, <1>4, <1>5 DEF Total, A

(* Equal families have as many elements.                                   *)
LEMMA TotalSame ==
  ASSUME NEW I, NEW F, NEW G, \A n \in I : F[n] = G[n]
  PROVE  Total(I, F) = Total(I, G)
<1>1. Pairs(I, F) = Pairs(I, G)
  BY DEF Pairs
<1> QED
  BY <1>1 DEF Total

(* Families that differ at one index differ by its elements.               *)
LEMMA TotalChange ==
  ASSUME NEW I, IsFiniteSet(I), NEW F, \A n \in I : IsFiniteSet(F[n]),
         NEW G, \A n \in I : IsFiniteSet(G[n]), NEW p \in I, \A n \in I \ {p} : F[n] = G[n]
  PROVE  Total(I, F) + Cardinality(G[p]) = Total(I, G) + Cardinality(F[p])
<1>1. Total(I \ {p}, F) = Total(I \ {p}, G)
  BY TotalSame
<1>2. Total(I, F) = Total(I \ {p}, F) + Cardinality(F[p])
  BY TotalSplit
<1>3. Total(I, G) = Total(I \ {p}, G) + Cardinality(G[p])
  BY TotalSplit
<1>4. IsFiniteSet(I \ {p})
  BY FS_Subset
<1>5. Total(I \ {p}, G) \in Nat
  BY <1>4, TotalNat
<1>6. Cardinality(F[p]) \in Nat /\ Cardinality(G[p]) \in Nat
  BY FS_CardinalityType
<1> QED
  BY <1>1, <1>2, <1>3, <1>5, <1>6

(* A family without elements is one of empty sets.                         *)
LEMMA TotalZero ==
  ASSUME NEW I, IsFiniteSet(I), NEW F, \A n \in I : IsFiniteSet(F[n])
  PROVE  Total(I, F) = 0 <=> \A n \in I : F[n] = {}
<1>1. Total(I, F) = 0 <=> Pairs(I, F) = {}
  BY TotalNat, FS_EmptySet DEF Total
<1>2. ASSUME NEW n \in I, F[n] # {} PROVE Pairs(I, F) # {}
  <2>1. PICK k \in F[n] : TRUE
    BY <1>2
  <2>2. <<n, k>> \in Pairs(I, F)
    BY PairIn
  <2> QED
    BY <2>2
<1>3. ASSUME \A n \in I : F[n] = {} PROVE Pairs(I, F) = {}
  BY <1>3, PairIn
<1> QED
  BY <1>1, <1>2, <1>3

-----------------------------------------------------------------------------
(* The heap.                                                               *)

Values == Objects \cup {Static}
Heaps == [Objects -> [count : Nat, refs : Seq(Values)]]

(* There are finitely many objects, and Static is none.                    *)
LEMMA ObjectsFinite ==
  IsFiniteSet(Objects) /\ Objects \subseteq Nat /\ Cardinality(Objects) = MaxObjects /\ 0 \notin Objects
<1>1. IsFiniteSet(1..MaxObjects) /\ Cardinality(1..MaxObjects) = MaxObjects
  BY MachineAssumption, FS_Interval
<1> QED
  BY <1>1, MachineAssumption DEF Objects

RefsTo(h, o) == [n \in Objects |-> At(o, h[n].refs)]

(* The references to an object are a family: those of each object.         *)
LEMMA InRefsTotal ==
  ASSUME NEW h \in Heaps, NEW o
  PROVE  /\ \A n \in Objects : RefsTo(h, o)[n] = At(o, h[n].refs) /\ IsFiniteSet(RefsTo(h, o)[n])
         /\ InRefs(h, o) = Total(Objects, RefsTo(h, o)) /\ InRefs(h, o) \in Nat
<1>1. \A n \in Objects : RefsTo(h, o)[n] = At(o, h[n].refs) /\ IsFiniteSet(RefsTo(h, o)[n])
  <2> SUFFICES ASSUME NEW n \in Objects PROVE RefsTo(h, o)[n] = At(o, h[n].refs) /\ IsFiniteSet(RefsTo(h, o)[n])
    OBVIOUS
  <2>1. h[n].refs \in Seq(Values)
    BY DEF Heaps
  <2>2. IsFiniteSet(At(o, h[n].refs))
    BY <2>1, OccursNat
  <2> QED
    BY <2>2 DEF RefsTo
<1>2. \A n \in Objects : {n} \X {i \in DOMAIN h[n].refs : h[n].refs[i] = o} = {n} \X RefsTo(h, o)[n]
  BY <1>1 DEF At
<1> DEFINE f == [n \in Objects |-> {n} \X {i \in DOMAIN h[n].refs : h[n].refs[i] = o}]
           g == [n \in Objects |-> {n} \X RefsTo(h, o)[n]]
<1>3. UNION {{n} \X {i \in DOMAIN h[n].refs : h[n].refs[i] = o} : n \in Objects} = Pairs(Objects, RefsTo(h, o))
  <2>1. \A n \in Objects : f[n] = g[n]
    BY <1>2
  <2>2. {{n} \X {i \in DOMAIN h[n].refs : h[n].refs[i] = o} : n \in Objects} = {f[n] : n \in Objects}
    OBVIOUS
  <2>3. {{n} \X RefsTo(h, o)[n] : n \in Objects} = {g[n] : n \in Objects}
    OBVIOUS
  <2> HIDE DEF f, g
  <2>4. {f[n] : n \in Objects} = {g[n] : n \in Objects}
    BY <2>1
  <2> QED
    BY <2>2, <2>3, <2>4 DEF Pairs
<1>4. InRefs(h, o) = Total(Objects, RefsTo(h, o))
  BY <1>3, Zenon DEF InRefs, Total
<1> QED
  BY <1>1, <1>4, TotalNat, ObjectsFinite

(* One object refers to others.                                            *)
LEMMA InRefsChange ==
  ASSUME NEW g \in Heaps, NEW h \in Heaps, NEW p \in Objects,
         \A n \in Objects \ {p} : g[n].refs = h[n].refs, NEW o
  PROVE  InRefs(g, o) + Occurs(o, h[p].refs) = InRefs(h, o) + Occurs(o, g[p].refs)
<1>1. \A n \in Objects : RefsTo(g, o)[n] = At(o, g[n].refs) /\ IsFiniteSet(RefsTo(g, o)[n])
  BY InRefsTotal
<1>2. \A n \in Objects : RefsTo(h, o)[n] = At(o, h[n].refs) /\ IsFiniteSet(RefsTo(h, o)[n])
  BY InRefsTotal
<1> DEFINE F == RefsTo(g, o)
           G == RefsTo(h, o)
<1>3. \A n \in Objects : IsFiniteSet(F[n])
  BY <1>1
<1>4. \A n \in Objects : IsFiniteSet(G[n])
  BY <1>2
<1>5. \A n \in Objects \ {p} : F[n] = G[n]
  BY <1>1, <1>2
<1>6. h[p].refs \in Seq(Values) /\ g[p].refs \in Seq(Values)
  BY DEF Heaps
<1>7. Cardinality(F[p]) = Occurs(o, g[p].refs) /\ Cardinality(G[p]) = Occurs(o, h[p].refs)
  BY <1>1, <1>2, <1>6, OccursNat
<1> HIDE DEF F, G
<1>8. Total(Objects, F) + Cardinality(G[p]) = Total(Objects, G) + Cardinality(F[p])
  <2>1. IsFiniteSet(Objects) /\ p \in Objects
    BY ObjectsFinite
  <2> QED
    BY ONLY <1>3, <1>4, <1>5, <2>1, TotalChange
<1>9. InRefs(g, o) = Total(Objects, F) /\ InRefs(h, o) = Total(Objects, G)
  BY InRefsTotal DEF F, G
<1> QED
  BY <1>7, <1>8, <1>9

(* The references to an object depend on the refs alone.                   *)
LEMMA InRefsSame ==
  ASSUME NEW g \in Heaps, NEW h \in Heaps, \A n \in Objects : g[n].refs = h[n].refs, NEW o
  PROVE  InRefs(g, o) = InRefs(h, o)
<1>1. \A n \in Objects : RefsTo(g, o)[n] = RefsTo(h, o)[n]
  BY InRefsTotal
<1>2. Total(Objects, RefsTo(g, o)) = Total(Objects, RefsTo(h, o))
  BY <1>1, TotalSame
<1> QED
  BY <1>2, InRefsTotal

(* Each count is that of the references from objects and X others; and     *)
(* what is not counted any more was freed.                                 *)
Counted(h, X) == h \in Heaps /\ \A o \in Objects : h[o].count = InRefs(h, o) + X[o]
Freed(h) == \A o \in Objects : h[o].count = 0 => h[o].refs = <<>>
Exact(h, X) == Counted(h, X) /\ Freed(h)
Weights == [Objects -> Nat]

(* What an object of a heap is.                                            *)
LEMMA HeapOf ==
  ASSUME NEW h \in Heaps, NEW o \in Objects
  PROVE  h[o].count \in Nat /\ h[o].refs \in Seq(Values) /\ h[o] \in [count : Nat, refs : Seq(Values)]
  BY DEF Heaps

(* Counts lowered for references that are given up stay right.             *)
LEMMA LowerExact ==
  ASSUME NEW h, NEW X \in Weights, NEW Y \in Weights, NEW os \in Seq(Values), Counted(h, X),
         \A o \in Objects : X[o] = Y[o] + Occurs(o, os)
  PROVE  /\ Counted(Lowered(h, os), Y)
         /\ \A o \in Objects : Lowered(h, os)[o].refs = h[o].refs
<1> DEFINE g == Lowered(h, os)
<1>1. h \in Heaps
  BY DEF Counted
<1>2. ASSUME NEW o \in Objects
      PROVE  g[o].refs = h[o].refs /\ g[o].count = InRefs(h, o) + Y[o] /\ g[o] \in [count : Nat, refs : Seq(Values)]
  <2>1. h[o] \in [count : Nat, refs : Seq(Values)] /\ h[o].count \in Nat
    BY <1>1, HeapOf
  <2>2. Occurs(o, os) \in Nat /\ InRefs(h, o) \in Nat /\ Y[o] \in Nat
    BY <1>1, OccursNat, InRefsTotal DEF Weights
  <2>3. h[o].count = InRefs(h, o) + Y[o] + Occurs(o, os)
    BY <2>2 DEF Counted
  <2>4. g[o] = [h[o] EXCEPT !.count = IF Occurs(o, os) < @ THEN @ - Occurs(o, os) ELSE 0]
    BY DEF Lowered
  <2>5. g[o] = [h[o] EXCEPT !.count = InRefs(h, o) + Y[o]]
    BY <2>1, <2>2, <2>3, <2>4
  <2> QED
    BY <2>1, <2>2, <2>5
<1>3. g \in Heaps
  <2>1. g = [o \in Objects |-> g[o]]
    BY DEF Lowered
  <2> HIDE DEF g
  <2> QED
    BY <1>2, <2>1 DEF Heaps
<1> HIDE DEF g
<1>4. \A o \in Objects : InRefs(g, o) = InRefs(h, o)
  BY <1>1, <1>2, <1>3, InRefsSame
<1>5. Counted(g, Y)
  BY <1>2, <1>3, <1>4 DEF Counted
<1> QED
  BY <1>2, <1>5 DEF g

(* Other references of one object.                                         *)
LEMMA RefsExact ==
  ASSUME NEW h, NEW X \in Weights, NEW Y \in Weights, Counted(h, X), NEW p \in Objects, NEW g \in Heaps,
         \A o \in Objects : g[o].count = h[o].count,
         \A o \in Objects \ {p} : g[o].refs = h[o].refs,
         \A o \in Objects : Y[o] + Occurs(o, g[p].refs) = X[o] + Occurs(o, h[p].refs)
  PROVE  Counted(g, Y)
<1>1. h \in Heaps
  BY DEF Counted
<1>2. ASSUME NEW o \in Objects PROVE g[o].count = InRefs(g, o) + Y[o]
  <2>1. InRefs(g, o) + Occurs(o, h[p].refs) = InRefs(h, o) + Occurs(o, g[p].refs)
    BY <1>1, InRefsChange
  <2>2. g[p].refs \in Seq(Values) /\ h[p].refs \in Seq(Values)
    BY <1>1, HeapOf
  <2>3. Occurs(o, g[p].refs) \in Nat /\ Occurs(o, h[p].refs) \in Nat
    BY <2>2, OccursNat
  <2>4. InRefs(g, o) \in Nat /\ InRefs(h, o) \in Nat /\ X[o] \in Nat /\ Y[o] \in Nat
    BY <1>1, InRefsTotal DEF Weights
  <2>5. g[o].count = InRefs(h, o) + X[o]
    BY DEF Counted
  <2>6. Y[o] + Occurs(o, g[p].refs) = X[o] + Occurs(o, h[p].refs)
    OBVIOUS
  <2> QED
    BY <2>1, <2>3, <2>4, <2>5, <2>6
<1> QED
  BY <1>2 DEF Counted

(* The objects with references, which em_free gives up one by one.         *)
Referring(h) == {o \in Objects : h[o].refs # <<>>}

(* em_free of one object: the counts stay right, and one object less       *)
(* refers to others.                                                       *)
LEMMA FreeStep ==
  ASSUME NEW h, NEW X \in Weights, Counted(h, X), Dying(h) # {}
  PROVE  /\ Counted(FreeNext(h), X)
         /\ \A o \in Objects : FreeNext(h)[o].refs \in {h[o].refs, <<>>}
         /\ \E p \in Referring(h) : Referring(FreeNext(h)) = Referring(h) \ {p}
<1> DEFINE p == CHOOSE o \in Dying(h) : TRUE
           g == [h EXCEPT ![p] = Free]
           os == h[p].refs
           Z == [o \in Objects |-> X[o] + Occurs(o, os)]
<1>1. p \in Dying(h)
  OBVIOUS
<1>2. FreeNext(h) = Lowered(g, os)
  BY DEF FreeNext
<1> HIDE DEF p
<1>3. p \in Objects /\ h[p].count = 0 /\ h[p].refs # <<>> /\ h \in Heaps /\ os \in Seq(Values)
  BY <1>1, HeapOf DEF Dying, Counted
<1>4. g \in Heaps /\ g[p].refs = <<>>
  <2>1. Free \in [count : Nat, refs : Seq(Values)]
    BY DEF Free
  <2> QED
    BY <1>3, <2>1 DEF Heaps, Free
<1>5. \A o \in Objects \ {p} : g[o] = h[o]
  BY <1>3 DEF Heaps
<1>6. \A o \in Objects : g[o].count = h[o].count
  BY <1>3, <1>5 DEF Heaps, Free
<1> HIDE DEF g, os
<1>7. Z \in Weights
  <2>1. \A o \in Objects : X[o] \in Nat /\ Occurs(o, os) \in Nat
    BY <1>3, OccursNat DEF Weights
  <2> QED
    BY <2>1 DEF Weights
<1>8. \A o \in Objects : Z[o] = X[o] + Occurs(o, os)
  OBVIOUS
<1> HIDE DEF Z
<1>9. Counted(g, Z)
  <2>1. \A o \in Objects : Z[o] + Occurs(o, g[p].refs) = X[o] + Occurs(o, h[p].refs)
    <3>1. \A o \in Objects : Occurs(o, g[p].refs) = 0 /\ Z[o] \in Nat
      BY <1>4, <1>7, OccursNone DEF Weights
    <3> QED
      BY <1>8, <3>1 DEF os
  <2>2. \A o \in Objects \ {p} : g[o].refs = h[o].refs
    BY <1>5
  <2> QED
    BY <1>3, <1>4, <1>6, <1>7, <2>1, <2>2, RefsExact
<1>10. Counted(Lowered(g, os), X) /\ \A o \in Objects : Lowered(g, os)[o].refs = g[o].refs
  BY <1>3, <1>7, <1>8, <1>9, LowerExact
<1>11. \A o \in Objects : FreeNext(h)[o].refs = IF o = p THEN <<>> ELSE h[o].refs
  BY <1>2, <1>4, <1>5, <1>10
<1>12. Referring(FreeNext(h)) = Referring(h) \ {p}
  BY <1>11 DEF Referring
<1> QED
  BY <1>2, <1>3, <1>10, <1>11, <1>12 DEF Referring

(* em_free, step by step.                                                  *)
Steps(f, h, os) == f[0] = Lowered(h, os) /\ \A n \in 1..MaxObjects : f[n] = FreeNext(f[n - 1])

(* Dropped is what the steps of em_free come to.                           *)
LEMMA StepsExist ==
  ASSUME NEW h, NEW os
  PROVE  \E f : Steps(f, h, os) /\ Dropped(h, os) = f[MaxObjects]
<1> DEFINE a == Lowered(h, os)
           N == MaxObjects
           R(f, m) == f = [n \in 0..m |-> f[n]] /\ f[0] = a /\ \A n \in 1..m : f[n] = FreeNext(f[n - 1])
           T == {m \in 0..N : \E f : R(f, m)}
<1>0. N \in Nat
  BY MachineAssumption
<1>9. Dropped(h, os) = (CHOOSE g : g = [n \in 0..N |-> IF n = 0 THEN a ELSE FreeNext(g[n - 1])])[N]
  BY DEF Dropped
<1> HIDE DEF a, N
<1>1. 0 \in T
  <2> DEFINE f == [n \in 0..0 |-> a]
  <2>1. R(f, 0)
    OBVIOUS
  <2> HIDE DEF f
  <2> QED
    BY <1>0, <2>1
<1>2. ASSUME NEW m \in 1..N, m - 1 \in T PROVE m \in T
  <2>1. PICK f : R(f, m - 1)
    BY <1>2
  <2> DEFINE g == [n \in 0..m |-> IF n = m THEN FreeNext(f[m - 1]) ELSE f[n]]
  <2>2. g = [n \in 0..m |-> g[n]] /\ g[0] = a
    BY <1>0, <2>1
  <2>3. ASSUME NEW n \in 1..m PROVE g[n] = FreeNext(g[n - 1])
    <3>1. CASE n = m
      BY <1>0, <3>1
    <3>2. CASE n # m
      <4>1. g[n] = f[n] /\ g[n - 1] = f[n - 1] /\ n \in 1..(m - 1)
        BY <1>0, <3>2
      <4> HIDE DEF g
      <4> QED
        BY <2>1, <4>1
    <3> QED
      BY <3>1, <3>2
  <2> HIDE DEF g
  <2>4. R(g, m)
    BY <2>2, <2>3
  <2>5. m \in 0..N
    BY <1>0
  <2> HIDE DEF R
  <2> QED
    BY <2>4, <2>5
<1>3. 0..N \subseteq T
  <2> HIDE DEF T
  <2> QED
    BY <1>0, <1>1, <1>2, StepByStep
<1>4. PICK f : R(f, N)
  BY <1>0, <1>3
<1>5. f = [n \in 0..N |-> IF n = 0 THEN a ELSE FreeNext(f[n - 1])]
  <2>1. \A n \in 0..N : f[n] = IF n = 0 THEN a ELSE FreeNext(f[n - 1])
    <3> SUFFICES ASSUME NEW n \in 0..N PROVE f[n] = IF n = 0 THEN a ELSE FreeNext(f[n - 1])
      OBVIOUS
    <3>1. n = 0 \/ n \in 1..N
      BY <1>0
    <3>2. CASE n = 0
      BY <1>4, <3>2
    <3>3. CASE n \in 1..N
      <4>1. n # 0
        BY <1>0, <3>3
      <4> QED
        BY <1>4, <3>3, <4>1, Zenon
    <3> QED
      BY <3>1, <3>2, <3>3
  <2> QED
    BY <1>4, <2>1, Zenon
<1> DEFINE d == CHOOSE g : g = [n \in 0..N |-> IF n = 0 THEN a ELSE FreeNext(g[n - 1])]
<1>6. d = [n \in 0..N |-> IF n = 0 THEN a ELSE FreeNext(d[n - 1])]
  BY <1>5, Zenon
<1>10. Dropped(h, os) = d[N]
  BY <1>9
<1> HIDE DEF d
<1>7. \A n \in 0..N : d[n] = IF n = 0 THEN a ELSE FreeNext(d[n - 1])
  BY <1>6, Zenon
<1>8. Steps(d, h, os)
  BY <1>0, <1>7 DEF Steps, a, N
<1> QED
  BY <1>8, <1>10 DEF N

(* em_drop of references that are there.                                   *)
LEMMA DropExact ==
  ASSUME NEW h, NEW X \in Weights, NEW Y \in Weights, NEW os \in Seq(Values), Counted(h, X),
         \A o \in Objects : X[o] = Y[o] + Occurs(o, os)
  PROVE  /\ Exact(Dropped(h, os), Y)
         /\ \A o \in Objects : Dropped(h, os)[o].refs \in {h[o].refs, <<>>}
<1>1. PICK f : Steps(f, h, os) /\ Dropped(h, os) = f[MaxObjects]
  BY StepsExist
<1> DEFINE Good(n) == /\ Counted(f[n], Y)
                      /\ \A o \in Objects : f[n][o].refs \in {h[o].refs, <<>>}
                      /\ Dying(f[n]) = {} \/ Cardinality(Referring(f[n])) <= MaxObjects - n
           T == {n \in 0..MaxObjects : Good(n)}
<1>2. MaxObjects \in Nat /\ IsFiniteSet(Objects) /\ Cardinality(Objects) = MaxObjects
  BY MachineAssumption, ObjectsFinite
<1>3. 0 \in T
  <2>1. Counted(f[0], Y) /\ \A o \in Objects : f[0][o].refs = h[o].refs
    <3>1. f[0] = Lowered(h, os)
      BY <1>1 DEF Steps
    <3> QED
      BY <3>1, LowerExact
  <2>2. Referring(f[0]) \subseteq Objects
    BY DEF Referring
  <2>3. Cardinality(Referring(f[0])) <= MaxObjects
    BY <1>2, <2>2, FiniteParts
  <2>4. Cardinality(Referring(f[0])) \in Nat
    BY <1>2, <2>2, FiniteParts
  <2>5. Cardinality(Referring(f[0])) <= MaxObjects - 0
    BY <1>2, <2>3, <2>4
  <2> QED
    BY <1>2, <2>1, <2>5
<1>4. ASSUME NEW n \in 1..MaxObjects, n - 1 \in T PROVE n \in T
  <2> DEFINE m == n - 1
  <2>1. Good(m) /\ m \in 0..MaxObjects
    BY <1>4
  <2>2. f[n] = FreeNext(f[m])
    BY <1>1 DEF Steps
  <2>3. n \in 0..MaxObjects
    BY <1>2
  <2>4. CASE Dying(f[m]) = {}
    <3>1. f[n] = f[m]
      BY <2>2, <2>4 DEF FreeNext
    <3> QED
      BY <2>1, <2>3, <2>4, <3>1
  <2>5. CASE Dying(f[m]) # {}
    <3>1. /\ Counted(f[n], Y) /\ \A o \in Objects : f[n][o].refs \in {f[m][o].refs, <<>>}
          /\ \E p \in Referring(f[m]) : Referring(f[n]) = Referring(f[m]) \ {p}
      BY <2>1, <2>2, <2>5, FreeStep
    <3>2. PICK p \in Referring(f[m]) : Referring(f[n]) = Referring(f[m]) \ {p}
      BY <3>1
    <3>3. IsFiniteSet(Referring(f[m]))
      <4>1. Referring(f[m]) \subseteq Objects
        BY DEF Referring
      <4> QED
        BY <1>2, <4>1, FS_Subset
    <3>4. Cardinality(Referring(f[n])) = Cardinality(Referring(f[m])) - 1
      BY <3>2, <3>3, FS_RemoveElement
    <3>5. Cardinality(Referring(f[m])) \in Nat
      BY <3>3, FS_CardinalityType
    <3>6. Cardinality(Referring(f[m])) <= MaxObjects - m
      BY <2>1, <2>5
    <3>7. Cardinality(Referring(f[n])) <= MaxObjects - n
      BY <1>2, <3>4, <3>5, <3>6
    <3>8. \A o \in Objects : f[n][o].refs \in {h[o].refs, <<>>}
      BY <2>1, <3>1
    <3> QED
      BY <2>3, <3>1, <3>7, <3>8
  <2> QED
    BY <2>4, <2>5
<1>5. 0..MaxObjects \subseteq T
  <2> HIDE DEF T
  <2> QED
    BY <1>2, <1>3, <1>4, StepByStep
<1> DEFINE g == f[MaxObjects]
<1>6. Good(MaxObjects)
  <2>1. MaxObjects \in T
    <3> HIDE DEF T
    <3> QED
      BY <1>2, <1>5
  <2> HIDE DEF Good
  <2> QED
    BY <2>1
<1>7. Dying(g) = {}
  <2>1. CASE Cardinality(Referring(g)) <= MaxObjects - MaxObjects
    <3>1. Referring(g) \subseteq Objects
      BY DEF Referring
    <3>2. IsFiniteSet(Referring(g)) /\ Cardinality(Referring(g)) \in Nat
      BY <1>2, <3>1, FiniteParts
    <3>3. Cardinality(Referring(g)) = 0
      BY <1>2, <2>1, <3>2
    <3>4. Referring(g) = {}
      BY <3>2, <3>3, FS_EmptySet
    <3> QED
      BY <3>4 DEF Dying, Referring
  <2> QED
    BY <1>6, <2>1
<1>8. Freed(g)
  BY <1>7 DEF Dying, Freed
<1> QED
  BY <1>1, <1>6, <1>8 DEF Exact

(* em_alloc of an object that is not counted.                              *)
LEMMA MakeExact ==
  ASSUME NEW h, NEW X \in Weights, NEW Y \in Weights, Exact(h, X), NEW p \in Objects, h[p].count = 0,
         NEW rs \in Seq(Values),
         \A o \in Objects : Y[o] + Occurs(o, rs) = X[o] + Occurs(o, <<p>>)
  PROVE  Exact([h EXCEPT ![p] = Object(rs)], Y)
<1> DEFINE g == [h EXCEPT ![p] = Object(rs)]
<1>1. h \in Heaps /\ h[p].refs = <<>>
  BY DEF Exact, Counted, Freed
<1>2. /\ g \in Heaps /\ g[p].refs = rs /\ g[p].count = 1
      /\ \A o \in Objects \ {p} : g[o] = h[o]
  <2>1. Object(rs) \in [count : Nat, refs : Seq(Values)]
    BY DEF Object
  <2> QED
    BY <1>1, <2>1 DEF Heaps, Object
<1> HIDE DEF g
<1>3. ASSUME NEW o \in Objects PROVE g[o].count = InRefs(g, o) + Y[o]
  <2>1. InRefs(g, o) + Occurs(o, h[p].refs) = InRefs(h, o) + Occurs(o, g[p].refs)
    BY <1>1, <1>2, InRefsChange
  <2>2. Occurs(o, h[p].refs) = 0
    BY <1>1, OccursNone
  <2>3. Occurs(o, rs) \in Nat /\ InRefs(g, o) \in Nat /\ InRefs(h, o) \in Nat /\ X[o] \in Nat /\ Y[o] \in Nat
    BY <1>1, <1>2, OccursNat, InRefsTotal DEF Weights
  <2>4. h[o].count = InRefs(h, o) + X[o]
    BY DEF Exact, Counted
  <2>5. g[o].count = h[o].count + (IF p = o THEN 1 ELSE 0)
    BY <1>1, <1>2, HeapOf
  <2>6. Occurs(o, <<p>>) = IF p = o THEN 1 ELSE 0
    BY OccursOne
  <2>7. Y[o] + Occurs(o, rs) = X[o] + Occurs(o, <<p>>)
    OBVIOUS
  <2>8. InRefs(g, o) = InRefs(h, o) + Occurs(o, rs)
    BY <1>2, <2>1, <2>2, <2>3
  <2> QED
    BY <2>3, <2>4, <2>5, <2>6, <2>7, <2>8, SMTT(30)
<1>4. Freed(g)
  BY <1>2 DEF Freed, Exact
<1> QED
  BY <1>2, <1>3, <1>4 DEF Exact, Counted, g

(* What something refers to is there.                                      *)
LEMMA ReferredLive ==
  ASSUME NEW h, NEW X \in Weights, Counted(h, X), NEW o \in Objects, X[o] # 0
  PROVE  h[o].count > 0
<1>1. h \in Heaps /\ h[o].count = InRefs(h, o) + X[o]
  BY DEF Counted
<1>2. InRefs(h, o) \in Nat /\ X[o] \in Nat
  BY <1>1, InRefsTotal DEF Weights
<1> QED
  BY <1>1, <1>2

(* A part of an object is there.                                           *)
LEMMA PartLive ==
  ASSUME NEW h, NEW X \in Weights, Counted(h, X), NEW p \in Objects, h[p].refs # <<>>
  PROVE  Head(h[p].refs) \in Values /\ Live(h, Head(h[p].refs))
<1> DEFINE s == h[p].refs
           o == Head(s)
<1>1. h \in Heaps /\ s \in Seq(Values)
  BY HeapOf DEF Counted
<1>2. o \in Values /\ 1 \in DOMAIN s /\ s[1] = o
  BY <1>1
<1>3. ASSUME o \in Objects PROVE h[o].count > 0
  <2>1. 1 \in RefsTo(h, o)[p]
    BY <1>1, <1>2, InRefsTotal DEF At
  <2>2. InRefs(h, o) # 0
    <3>1. \A n \in Objects : IsFiniteSet(RefsTo(h, o)[n])
      BY <1>1, InRefsTotal
    <3>2. Total(Objects, RefsTo(h, o)) # 0
      BY <2>1, <3>1, ObjectsFinite, TotalZero
    <3> QED
      BY <1>1, <3>2, InRefsTotal
  <2>3. h[o].count = InRefs(h, o) + X[o] /\ InRefs(h, o) \in Nat /\ X[o] \in Nat
    BY <1>1, <1>3, InRefsTotal DEF Weights, Counted
  <2> QED
    BY <2>2, <2>3
<1> QED
  BY <1>2, <1>3 DEF Live, Values

(* em_dup of an object that is there.                                      *)
LEMMA DupExact ==
  ASSUME NEW h, NEW X \in Weights, NEW Y \in Weights, Exact(h, X), NEW p \in Values, Live(h, p),
         \A o \in Objects : Y[o] = X[o] + Occurs(o, <<p>>)
  PROVE  Exact(Duped(h, p), Y) /\ \A o \in Objects : Duped(h, p)[o].refs = h[o].refs
<1> DEFINE g == Duped(h, p)
<1>1. h \in Heaps
  BY DEF Exact, Counted
<1>2. /\ g \in Heaps
      /\ \A o \in Objects : g[o].refs = h[o].refs /\ g[o].count = h[o].count + IF p = o THEN 1 ELSE 0
  <2>1. CASE p \in Objects
    <3>1. g = [h EXCEPT ![p].count = @ + 1]
      BY <2>1 DEF Duped
    <3>2. h[p].count + 1 \in Nat
      BY <1>1, <2>1, HeapOf
    <3> QED
      BY <1>1, <2>1, <3>1, <3>2, SMTT(30) DEF Heaps
  <2>2. CASE p \notin Objects
    <3>1. g = h
      BY <2>2 DEF Duped
    <3>2. \A o \in Objects : h[o].count \in Nat
      BY <1>1, HeapOf
    <3> QED
      BY <1>1, <2>2, <3>1, <3>2
  <2> QED
    BY <2>1, <2>2
<1> HIDE DEF g
<1>3. ASSUME NEW o \in Objects PROVE g[o].count = InRefs(g, o) + Y[o]
  <2>1. InRefs(g, o) = InRefs(h, o)
    BY <1>1, <1>2, InRefsSame
  <2>2. h[o].count = InRefs(h, o) + X[o] /\ InRefs(h, o) \in Nat /\ X[o] \in Nat
    BY <1>1, InRefsTotal DEF Exact, Counted, Weights
  <2>3. Y[o] = X[o] + IF p = o THEN 1 ELSE 0
    BY OccursOne
  <2> QED
    BY <1>2, <2>1, <2>2, <2>3
<1>4. Freed(g)
  <2> SUFFICES ASSUME NEW o \in Objects, g[o].count = 0 PROVE g[o].refs = <<>>
    BY DEF Freed
  <2>1. h[o].count \in Nat
    BY <1>1, HeapOf
  <2>2. h[o].count = 0
    BY <1>2, <2>1
  <2> QED
    BY <1>2, <2>2 DEF Exact, Freed
<1> QED
  BY <1>2, <1>3, <1>4 DEF Exact, Counted, g

(* em_array_set in place: the part is dropped and another one put there.   *)
LEMMA SetExact ==
  ASSUME NEW h, NEW X \in Weights, Exact(h, X), NEW a \in Objects, X[a] # 0,
         NEW x \in Values, x \in Objects => X[x] # 0
  PROVE  Exact([Duped(Dropped([h EXCEPT ![a].refs = <<>>], h[a].refs), x) EXCEPT ![a].refs = <<x>>], X)
<1> DEFINE g == [h EXCEPT ![a].refs = <<>>]
           os == h[a].refs
           e == Dropped(g, os)
           d == Duped(e, x)
           k == [d EXCEPT ![a].refs = <<x>>]
           Z == [o \in Objects |-> X[o] + Occurs(o, os)]
           D == [o \in Objects |-> X[o] + Occurs(o, <<x>>)]
<1>1. h \in Heaps /\ os \in Seq(Values) /\ <<x>> \in Seq(Values) /\ <<>> \in Seq(Values)
  BY HeapOf DEF Exact, Counted
<1>2. Z \in Weights /\ D \in Weights
  <2>1. \A o \in Objects : X[o] \in Nat /\ Occurs(o, os) \in Nat /\ Occurs(o, <<x>>) \in Nat
    BY <1>1, OccursNat DEF Weights
  <2> QED
    BY <2>1 DEF Weights
<1>3. \A o \in Objects : Z[o] = X[o] + Occurs(o, os) /\ D[o] = X[o] + Occurs(o, <<x>>)
  OBVIOUS
<1> HIDE DEF Z, D
<1>4. /\ g \in Heaps /\ g[a].refs = <<>> /\ \A o \in Objects : g[o].count = h[o].count
      /\ \A o \in Objects \ {a} : g[o].refs = h[o].refs
  BY <1>1 DEF Heaps
<1> HIDE DEF g
<1>5. Counted(g, Z)
  <2>1. \A o \in Objects : Z[o] + Occurs(o, g[a].refs) = X[o] + Occurs(o, h[a].refs)
    <3>1. \A o \in Objects : Occurs(o, g[a].refs) = 0 /\ Z[o] \in Nat
      BY <1>2, <1>4, OccursNone DEF Weights
    <3> QED
      BY <1>3, <3>1
  <2>2. Counted(h, X)
    BY DEF Exact
  <2> QED
    BY <1>2, <1>4, <2>1, <2>2, RefsExact
<1> HIDE DEF os
<1>6. Exact(e, X) /\ \A o \in Objects : e[o].refs \in {g[o].refs, <<>>}
  BY <1>1, <1>2, <1>3, <1>5, DropExact
<1> HIDE DEF e
<1>7. Live(e, x)
  BY <1>6, ReferredLive DEF Live, Values, Exact
<1>8. Exact(d, D) /\ \A o \in Objects : d[o].refs = e[o].refs
  BY <1>2, <1>3, <1>6, <1>7, DupExact
<1> HIDE DEF d
<1>9. d \in Heaps /\ d[a].refs = <<>>
  BY <1>4, <1>6, <1>8 DEF Exact, Counted
<1>10. /\ k \in Heaps /\ k[a].refs = <<x>> /\ \A o \in Objects : k[o].count = d[o].count
       /\ \A o \in Objects \ {a} : k[o].refs = d[o].refs
  BY <1>1, <1>9 DEF Heaps
<1> HIDE DEF k
<1>11. Counted(k, X)
  <2>1. \A o \in Objects : X[o] + Occurs(o, k[a].refs) = D[o] + Occurs(o, d[a].refs)
    <3>1. \A o \in Objects : Occurs(o, d[a].refs) = 0 /\ D[o] \in Nat
      BY <1>2, <1>9, OccursNone DEF Weights
    <3> QED
      BY <1>3, <1>10, <3>1
  <2>2. Counted(d, D)
    BY <1>8 DEF Exact
  <2> QED
    BY <1>2, <1>10, <2>1, <2>2, RefsExact
<1>12. Freed(k)
  <2>1. k[a].count > 0
    BY <1>11, ReferredLive
  <2>2. \A o \in Objects \ {a} : k[o].count = 0 => k[o].refs = <<>>
    BY <1>8, <1>10 DEF Exact, Freed
  <2>3. k[a].count # 0
    BY <2>1
  <2> QED
    BY <2>2, <2>3 DEF Freed
<1>13. Exact(k, X)
  BY <1>11, <1>12 DEF Exact
<1> QED
  BY <1>13 DEF k, d, e, os, g

-----------------------------------------------------------------------------
(* The references of variables.                                            *)

Envs == [Variables -> Objects \cup {Static, Unbound}]
Tokens == [Variables -> Nat]
OwnedBy(own, e, o) == [v \in Variables |-> IF e[v] = o THEN 1..own[v] ELSE {}]
VarRefs(own, e, o) == Total(Variables, OwnedBy(own, e, o))
ValuesOf(e, args) == [i \in DOMAIN args |-> e[args[i]]]

(* There are finitely many variables.                                      *)
LEMMA VariablesFinite == IsFiniteSet(Variables)
<1>1. IsFiniteSet(1..MaxName)
  BY CodeAssumption, FS_Interval
<1>2. IsFiniteSet({Err})
  BY FS_Singleton
<1>3. IsFiniteSet(Stashes)
  <2>1. -(2 + MaxDepth) \in Int /\ -2 \in Int
    BY CodeAssumption
  <2> QED
    BY <2>1, FS_Interval DEF Stashes
<1>4. IsFiniteSet(1..MaxName \cup {Err})
  BY <1>1, <1>2, FS_Union
<1> QED
  BY <1>3, <1>4, FS_Union DEF Variables

(* The references of variables to an object are a family: those of each    *)
(* variable.                                                               *)
LEMMA VarTotal ==
  ASSUME NEW own \in Tokens, NEW e, NEW o
  PROVE  /\ \A v \in Variables : /\ IsFiniteSet(OwnedBy(own, e, o)[v])
                                 /\ Cardinality(OwnedBy(own, e, o)[v]) = IF e[v] = o THEN own[v] ELSE 0
                                 /\ OwnedBy(own, e, o)[v] = IF e[v] = o THEN 1..own[v] ELSE {}
         /\ VarRefs(own, e, o) \in Nat
<1>1. ASSUME NEW v \in Variables
      PROVE  /\ IsFiniteSet(OwnedBy(own, e, o)[v])
             /\ Cardinality(OwnedBy(own, e, o)[v]) = IF e[v] = o THEN own[v] ELSE 0
             /\ OwnedBy(own, e, o)[v] = IF e[v] = o THEN 1..own[v] ELSE {}
  <2>1. own[v] \in Nat
    BY DEF Tokens
  <2>2. IsFiniteSet(1..own[v]) /\ Cardinality(1..own[v]) = own[v]
    BY <2>1, FS_Interval
  <2>3. OwnedBy(own, e, o)[v] = IF e[v] = o THEN 1..own[v] ELSE {}
    BY DEF OwnedBy
  <2> QED
    BY <2>2, <2>3, FS_EmptySet
<1> QED
  BY <1>1, VariablesFinite, TotalNat DEF VarRefs

(* One variable, and what it owns, is another.                             *)
LEMMA VarChange ==
  ASSUME NEW own \in Tokens, NEW e, NEW own2 \in Tokens, NEW e2, NEW x \in Variables, NEW o,
         \A v \in Variables \ {x} : own2[v] = own[v] /\ e2[v] = e[v]
  PROVE  VarRefs(own, e, o) + (IF e2[x] = o THEN own2[x] ELSE 0)
           = VarRefs(own2, e2, o) + (IF e[x] = o THEN own[x] ELSE 0)
<1> DEFINE F == OwnedBy(own, e, o)
           G == OwnedBy(own2, e2, o)
<1>1. /\ \A v \in Variables : IsFiniteSet(F[v])
      /\ \A v \in Variables : Cardinality(F[v]) = IF e[v] = o THEN own[v] ELSE 0
  BY VarTotal
<1>2. /\ \A v \in Variables : IsFiniteSet(G[v])
      /\ \A v \in Variables : Cardinality(G[v]) = IF e2[v] = o THEN own2[v] ELSE 0
  BY VarTotal
<1>3. \A v \in Variables \ {x} : F[v] = G[v]
  BY DEF OwnedBy
<1> HIDE DEF F, G
<1>4. IsFiniteSet(Variables) /\ x \in Variables
  BY VariablesFinite
<1>5. Total(Variables, F) + Cardinality(G[x]) = Total(Variables, G) + Cardinality(F[x])
  BY ONLY <1>1, <1>2, <1>3, <1>4, TotalChange
<1> QED
  BY <1>1, <1>2, <1>5 DEF VarRefs, F, G

(* Only the values of variables that own references matter.                *)
LEMMA VarSame ==
  ASSUME NEW own \in Tokens, NEW e, NEW e2, NEW o,
         \A v \in Variables : own[v] # 0 => e2[v] = e[v]
  PROVE  VarRefs(own, e2, o) = VarRefs(own, e, o)
<1>1. ASSUME NEW v \in Variables PROVE OwnedBy(own, e2, o)[v] = OwnedBy(own, e, o)[v]
  <2>1. CASE own[v] # 0
    BY <2>1 DEF OwnedBy
  <2>2. CASE own[v] = 0
    <3>1. 1..own[v] = {}
      BY <2>2
    <3> QED
      BY <3>1, VarTotal
  <2> QED
    BY <2>1, <2>2
<1> QED
  BY <1>1, TotalSame DEF VarRefs

(* No variable that owns a reference has the object.                       *)
LEMMA VarZero ==
  ASSUME NEW own \in Tokens, NEW e, NEW o
  PROVE  VarRefs(own, e, o) = 0 <=> \A v \in Variables : e[v] = o => own[v] = 0
<1>1. \A v \in Variables : IsFiniteSet(OwnedBy(own, e, o)[v])
  BY VarTotal
<1>2. VarRefs(own, e, o) = 0 <=> \A v \in Variables : OwnedBy(own, e, o)[v] = {}
  BY <1>1, VariablesFinite, TotalZero DEF VarRefs
<1>3. ASSUME NEW v \in Variables
      PROVE  OwnedBy(own, e, o)[v] = {} <=> (e[v] = o => own[v] = 0)
  <2>1. own[v] \in Nat
    BY DEF Tokens
  <2>2. 1..own[v] = {} <=> own[v] = 0
    BY <2>1
  <2>3. OwnedBy(own, e, o)[v] = IF e[v] = o THEN 1..own[v] ELSE {}
    BY DEF OwnedBy
  <2> HIDE DEF Tokens
  <2>4. CASE e[v] = o
    BY <2>2, <2>3, <2>4
  <2>5. CASE e[v] # o
    BY <2>3, <2>5
  <2> QED
    BY <2>4, <2>5
<1> QED
  BY <1>2, <1>3

(* References are taken from variables.                                    *)
LEMMA VarTake ==
  ASSUME NEW e, NEW own \in Tokens, NEW args \in Seq(Variables), Enough(Taken(own, args)), NEW o
  PROVE  /\ Taken(own, args) \in Tokens
         /\ VarRefs(own, e, o) = VarRefs(Taken(own, args), e, o) + Occurs(o, ValuesOf(e, args))
<1> DEFINE Good(s) == /\ Taken(own, s) \in Tokens
                      /\ VarRefs(own, e, o) = VarRefs(Taken(own, s), e, o) + Occurs(o, ValuesOf(e, s))
           T == {n \in 0..Len(args) : \A s \in Seq(Variables) : Len(s) = n /\ Enough(Taken(own, s)) => Good(s)}
<1>1. Len(args) \in Nat
  OBVIOUS
<1>2. ASSUME NEW s \in Seq(Variables), s = <<>> PROVE Good(s)
  <2>1. \A v \in Variables : Occurs(v, s) = 0 /\ own[v] \in Nat
    BY <1>2, OccursNone DEF Tokens
  <2>2. Taken(own, s) = [v \in Variables |-> own[v]]
    <3>1. \A v \in Variables : own[v] - Occurs(v, s) = own[v]
      BY <2>1
    <3> QED
      BY <3>1 DEF Taken
  <2>3. Taken(own, s) = own
    BY <2>2 DEF Tokens
  <2>4. ValuesOf(e, s) = <<>>
    BY <1>2 DEF ValuesOf
  <2>5. Occurs(o, ValuesOf(e, s)) = 0 /\ VarRefs(own, e, o) \in Nat
    BY <2>4, OccursNone, VarTotal
  <2> QED
    BY <2>3, <2>5
<1>3. 0 \in T
  <2>1. \A s \in Seq(Variables) : Len(s) = 0 => s = <<>>
    OBVIOUS
  <2> HIDE DEF Good
  <2> QED
    BY <1>1, <1>2, <2>1
<1>4. ASSUME NEW n \in 1..Len(args), n - 1 \in T PROVE n \in T
  <2> SUFFICES ASSUME NEW s \in Seq(Variables), Len(s) = n, Enough(Taken(own, s)) PROVE Good(s)
    <3> HIDE DEF Good
    <3> QED
      BY <1>1
  <2>1. PICK r \in Seq(Variables), x \in Variables : s = Append(r, x)
    <3>1. s # <<>>
      BY <1>1
    <3> QED
      BY <3>1, SequenceEmptyOrAppend
  <2>2. Len(r) = n - 1
    BY <2>1
  <2>3. \A v \in Variables : /\ Occurs(v, s) = Occurs(v, r) + Occurs(v, <<x>>) /\ Occurs(v, r) \in Nat
                             /\ Occurs(v, <<x>>) = (IF x = v THEN 1 ELSE 0) /\ own[v] \in Nat
    BY <2>1, OccursAppend, OccursNat, OccursOne DEF Tokens
  <2>4. /\ \A v \in Variables : Taken(own, r)[v] = own[v] - Occurs(v, r)
        /\ \A v \in Variables : Taken(own, s)[v] = own[v] - Occurs(v, s)
    BY DEF Taken
  <2>17. ASSUME NEW v \in Variables
         PROVE  /\ Taken(own, s)[v] = Taken(own, r)[v] - (IF x = v THEN 1 ELSE 0) /\ Taken(own, s)[v] >= 0
                /\ Taken(own, r)[v] \in Nat /\ Taken(own, s)[v] \in Nat
    <3>1. Taken(own, r)[v] = own[v] - Occurs(v, r) /\ Taken(own, s)[v] = own[v] - Occurs(v, s)
      BY <2>4
    <3>2. Occurs(v, s) = Occurs(v, r) + (IF x = v THEN 1 ELSE 0) /\ Occurs(v, r) \in Nat /\ own[v] \in Nat
      BY <2>3
    <3>3. Taken(own, s)[v] >= 0
      BY DEF Enough
    <3> QED
      BY <3>1, <3>2, <3>3
  <2>5. \A v \in Variables : Taken(own, s)[v] = Taken(own, r)[v] - (IF x = v THEN 1 ELSE 0) /\ Taken(own, s)[v] >= 0
    BY <2>17
  <2>6. \A v \in Variables : Taken(own, r)[v] \in Nat /\ Taken(own, s)[v] \in Nat
    BY <2>17
  <2>7. Enough(Taken(own, r)) /\ Taken(own, s) \in Tokens
    <3>1. Taken(own, s) = [v \in Variables |-> Taken(own, s)[v]]
      BY DEF Taken
    <3> QED
      BY <2>6, <3>1 DEF Enough, Tokens
  <2>8. Good(r)
    <3> HIDE DEF Good
    <3> QED
      BY <1>4, <2>2, <2>7
  <2> DEFINE a == Taken(own, r)
             b == Taken(own, s)
  <2>9. a \in Tokens /\ b \in Tokens /\ a[x] - 1 = b[x] /\ a[x] \in Nat /\ b[x] \in Nat
        /\ \A v \in Variables \ {x} : b[v] = a[v] /\ e[v] = e[v]
    BY <2>5, <2>6, <2>7, <2>8
  <2> HIDE DEF a, b
  <2>10. VarRefs(a, e, o) + (IF e[x] = o THEN b[x] ELSE 0) = VarRefs(b, e, o) + (IF e[x] = o THEN a[x] ELSE 0)
    BY <2>9, VarChange
  <2>11. VarRefs(a, e, o) = VarRefs(b, e, o) + (IF e[x] = o THEN 1 ELSE 0)
    <3>1. VarRefs(a, e, o) \in Nat /\ VarRefs(b, e, o) \in Nat
      BY <2>9, VarTotal
    <3> QED
      BY <2>9, <2>10, <3>1, SMTT(30)
  <2>12. Occurs(o, ValuesOf(e, s)) = Occurs(o, ValuesOf(e, r)) + (IF e[x] = o THEN 1 ELSE 0)
    <3> DEFINE U == {e[v] : v \in Variables}
    <3>1. ValuesOf(e, r) \in Seq(U) /\ e[x] \in U
      BY DEF ValuesOf
    <3>2. ValuesOf(e, s) = Append(ValuesOf(e, r), e[x])
      BY <2>1 DEF ValuesOf
    <3> HIDE DEF U
    <3>3. Occurs(o, Append(ValuesOf(e, r), e[x])) = Occurs(o, ValuesOf(e, r)) + Occurs(o, <<e[x]>>)
      BY <3>1, OccursAppend
    <3> QED
      BY <3>2, <3>3, OccursOne
  <2>13. Occurs(o, ValuesOf(e, r)) \in Nat
    <3> DEFINE U == {e[v] : v \in Variables}
    <3>1. ValuesOf(e, r) \in Seq(U)
      BY DEF ValuesOf
    <3> QED
      BY <3>1, OccursNat
  <2>14. VarRefs(a, e, o) \in Nat /\ VarRefs(b, e, o) \in Nat
    BY <2>9, VarTotal
  <2>15. VarRefs(own, e, o) = VarRefs(a, e, o) + Occurs(o, ValuesOf(e, r))
    BY <2>8 DEF a
  <2>16. VarRefs(own, e, o) = VarRefs(b, e, o) + Occurs(o, ValuesOf(e, s))
    BY <2>11, <2>12, <2>13, <2>14, <2>15
  <2> QED
    BY <2>7, <2>16 DEF b
<1>5. 0..Len(args) \subseteq T
  <2> HIDE DEF T
  <2> QED
    BY <1>1, <1>3, <1>4, StepByStep
<1>6. Len(args) \in T
  <2> HIDE DEF T
  <2> QED
    BY <1>1, <1>5
<1>7. Good(args)
  <2> HIDE DEF Good
  <2> QED
    BY <1>6
<1> QED
  BY <1>7

(* The values of the variables that were given one, and of the others.     *)
LEMMA BoundOf ==
  ASSUME NEW e, NEW vs \in Seq(Variables), Distinct(vs), NEW os
  PROVE  /\ \A i \in DOMAIN vs : Bind(e, vs, os)[vs[i]] = os[i]
         /\ \A v \in Variables \ Range(vs) : Bind(e, vs, os)[v] = e[v]
<1>1. ASSUME NEW i \in DOMAIN vs PROVE Bind(e, vs, os)[vs[i]] = os[i]
  <2>1. vs[i] \in Variables /\ vs[i] \in Range(vs)
    BY DEF Range
  <2>2. (CHOOSE j \in DOMAIN vs : vs[j] = vs[i]) = i
    BY DEF Distinct
  <2> QED
    BY <2>1, <2>2 DEF Bind
<1> QED
  BY <1>1 DEF Bind

(* Variables that are given values have values.                            *)
LEMMA BindType ==
  ASSUME NEW e \in Envs, NEW vs \in Seq(Variables), Distinct(vs), NEW os \in Seq(Objects \cup {Static, Unbound}), Len(os) = Len(vs)
  PROVE  Bind(e, vs, os) \in Envs
<1>0. /\ \A i \in DOMAIN vs : Bind(e, vs, os)[vs[i]] = os[i]
      /\ \A v \in Variables \ Range(vs) : Bind(e, vs, os)[v] = e[v]
  BY BoundOf
<1>1. Bind(e, vs, os) = [v \in Variables |-> Bind(e, vs, os)[v]]
  BY DEF Bind
<1>2. ASSUME NEW v \in Variables PROVE Bind(e, vs, os)[v] \in Objects \cup {Static, Unbound}
  <2>1. CASE v \in Range(vs)
    <3>1. PICK i \in DOMAIN vs : v = vs[i]
      BY <2>1 DEF Range
    <3>2. i \in DOMAIN os /\ os[i] \in Objects \cup {Static, Unbound}
      OBVIOUS
    <3>3. Bind(e, vs, os)[vs[i]] = os[i]
      BY <1>0
    <3> QED
      BY <3>1, <3>2, <3>3
  <2>2. CASE v \notin Range(vs)
    BY <2>2, BoundOf DEF Envs
  <2> QED
    BY <2>1, <2>2
<1> QED
  BY <1>1, <1>2 DEF Envs

(* No variable is given a value.                                           *)
LEMMA BindNone ==
  ASSUME NEW e \in Envs, NEW os
  PROVE  Bind(e, <<>>, os) = e
<1>1. Range(<<>>) = {}
  BY DEF Range
<1> QED
  BY <1>1 DEF Bind, Envs

(* References are given to variables without any.                          *)
LEMMA VarBind ==
  ASSUME NEW own \in Tokens, NEW e, NEW vs \in Seq(Variables), Distinct(vs),
         \A v \in Range(vs) : own[v] = 0, NEW U, NEW os \in Seq(U), Len(os) = Len(vs), NEW o
  PROVE  /\ Defined(own, Range(vs), 1) \in Tokens
         /\ VarRefs(Defined(own, Range(vs), 1), Bind(e, vs, os), o) = VarRefs(own, e, o) + Occurs(o, os)
<1> DEFINE b == Defined(own, Range(vs), 1)
           e2 == Bind(e, vs, os)
           A == Pairs(Variables, OwnedBy(own, e, o))
           B == Pairs(Variables, OwnedBy(b, e2, o))
           W == {w \in Range(vs) : e2[w] = o}
           C == {<<w, 1>> : w \in W}
           f == [i \in At(o, os) |-> <<vs[i], 1>>]
<1>1. Range(vs) \subseteq Variables
  BY DEF Range
<1>2. /\ \A v \in Variables : b[v] = (IF v \in Range(vs) THEN 1 ELSE own[v]) /\ b[v] \in Nat
      /\ b \in Tokens
  BY DEF Defined, Tokens
<1>3. /\ \A i \in DOMAIN vs : e2[vs[i]] = os[i]
      /\ \A v \in Variables \ Range(vs) : e2[v] = e[v]
  BY BoundOf
<1> HIDE DEF b, e2
<1>4. ASSUME NEW v \in Variables
      PROVE  /\ v \notin Range(vs) => OwnedBy(b, e2, o)[v] = OwnedBy(own, e, o)[v]
             /\ v \in Range(vs) => OwnedBy(own, e, o)[v] = {}
             /\ v \in W => OwnedBy(b, e2, o)[v] = {1}
             /\ v \in Range(vs) \ W => OwnedBy(b, e2, o)[v] = {}
  <2>1. v \notin Range(vs) => OwnedBy(b, e2, o)[v] = OwnedBy(own, e, o)[v]
    BY <1>2, <1>3 DEF OwnedBy
  <2>2. v \in Range(vs) => OwnedBy(own, e, o)[v] = {}
    <3>1. v \in Range(vs) => 1..own[v] = {}
      OBVIOUS
    <3> QED
      BY <3>1 DEF OwnedBy
  <2>3. v \in W => OwnedBy(b, e2, o)[v] = {1}
    <3>1. v \in W => 1..b[v] = {1} /\ e2[v] = o
      BY <1>2
    <3> QED
      BY <3>1 DEF OwnedBy
  <2>4. v \in Range(vs) \ W => OwnedBy(b, e2, o)[v] = {}
    BY DEF OwnedBy
  <2> QED
    BY <2>1, <2>2, <2>3, <2>4
<1>5. B = A \cup C
  <2>1. ASSUME NEW x \in B PROVE x \in A \cup C
    <3>0. PICK v \in Variables : \E k \in OwnedBy(b, e2, o)[v] : x = <<v, k>>
      BY PairIn
    <3>1. PICK k \in OwnedBy(b, e2, o)[v] : x = <<v, k>>
      BY <3>0
    <3>2. CASE v \notin Range(vs)
      <4>1. k \in OwnedBy(own, e, o)[v]
        BY <1>4, <3>1, <3>2
      <4>2. x \in A
        BY <3>1, <4>1, PairIn
      <4> QED
        BY <4>2
    <3>3. CASE v \in Range(vs)
      <4>1. v \in W /\ k = 1
        <5> HIDE DEF W
        <5> QED
          BY <1>4, <3>1, <3>3
      <4> HIDE DEF W
      <4> QED
        BY <3>1, <4>1
    <3> QED
      BY <3>2, <3>3
  <2>2. ASSUME NEW x \in A PROVE x \in B
    <3>0. PICK v \in Variables : \E k \in OwnedBy(own, e, o)[v] : x = <<v, k>>
      BY PairIn
    <3>1. PICK k \in OwnedBy(own, e, o)[v] : x = <<v, k>>
      BY <3>0
    <3>2. v \notin Range(vs)
      BY <1>4, <3>1
    <3>3. k \in OwnedBy(b, e2, o)[v]
      BY <1>4, <3>1, <3>2
    <3> QED
      BY <3>1, <3>3, PairIn
  <2>3. ASSUME NEW w \in W PROVE <<w, 1>> \in B
    <3>1. w \in Variables
      BY <1>1
    <3>2. 1 \in OwnedBy(b, e2, o)[w]
      <4> HIDE DEF W
      <4> QED
        BY <1>4, <3>1
    <3> QED
      BY <3>1, <3>2, PairIn
  <2> HIDE DEF A, B, W
  <2> QED
    BY <2>1, <2>2, <2>3
<1>6. A \cap C = {}
  <2> SUFFICES ASSUME NEW w \in W, <<w, 1>> \in A PROVE FALSE
    OBVIOUS
  <2>0. PICK v \in Variables : \E k \in OwnedBy(own, e, o)[v] : <<w, 1>> = <<v, k>>
    BY PairIn
  <2>1. PICK k \in OwnedBy(own, e, o)[v] : <<w, 1>> = <<v, k>>
    BY <2>0
  <2>2. w = v /\ w \in Range(vs)
    BY <2>1
  <2> QED
    BY <1>4, <2>1, <2>2
<1>7. IsFiniteSet(C) /\ Cardinality(C) = Occurs(o, os)
  <2>1. DOMAIN os = DOMAIN vs
    OBVIOUS
  <2>2. \A i \in At(o, os) : vs[i] \in W
    BY <1>3, <2>1 DEF At, Range
  <2>3. \A w \in W : \E i \in At(o, os) : vs[i] = w
    BY <1>3, <2>1 DEF At, Range
  <2>4. \A i, j \in At(o, os) : vs[i] = vs[j] => i = j
    BY <2>1 DEF At, Distinct
  <2> HIDE DEF W
  <2>5. f \in [At(o, os) -> C] /\ \A i, j \in At(o, os) : f[i] = f[j] => i = j
    BY <2>2, <2>4
  <2>6. \A c \in C : \E i \in At(o, os) : f[i] = c
    BY <2>3
  <2> HIDE DEF f, C
  <2>7. f \in Bijection(At(o, os), C)
    BY <2>5, <2>6 DEF Bijection, Injection, Surjection, IsInjective
  <2>8. ExistsBijection(At(o, os), C)
    BY <2>7 DEF ExistsBijection
  <2>9. IsFiniteSet(At(o, os)) /\ Occurs(o, os) = Cardinality(At(o, os))
    BY OccursNat
  <2> QED
    BY <2>8, <2>9, FS_Bijection
<1>8. IsFiniteSet(A)
  <2>1. \A v \in Variables : IsFiniteSet(OwnedBy(own, e, o)[v])
    BY VarTotal
  <2> QED
    BY <2>1, TotalNat, VariablesFinite
<1> HIDE DEF C
<1>9. Cardinality(A \cup C) = Cardinality(A) + Cardinality(C)
  <2> HIDE DEF A
  <2> QED
    BY <1>6, <1>7, <1>8, DisjointSum
<1> QED
  BY <1>2, <1>5, <1>7, <1>9 DEF VarRefs, Total, A, B, b, e2

-----------------------------------------------------------------------------
(* All the references there are: of objects, of variables and G others.    *)

Held(own, e, G) == [o \in Objects |-> VarRefs(own, e, o) + G[o]]
Sound(own, e, h, G) ==
  /\ own \in Tokens /\ e \in Envs /\ G \in Weights /\ Exact(h, Held(own, e, G))
  /\ \A v \in Variables : own[v] # 0 => e[v] # Unbound
Plus(G, os) == [o \in Objects |-> G[o] + Occurs(o, os)]

(* References in hand are counted besides the others.                      *)
LEMMA PlusType ==
  ASSUME NEW G \in Weights, NEW U, NEW os \in Seq(U)
  PROVE  Plus(G, os) \in Weights /\ \A o \in Objects : Plus(G, os)[o] = G[o] + Occurs(o, os)
<1>1. \A o \in Objects : G[o] \in Nat /\ Occurs(o, os) \in Nat
  BY OccursNat DEF Weights
<1> QED
  BY <1>1 DEF Plus, Weights

(* All the references to an object that are not of objects.                *)
LEMMA HeldType ==
  ASSUME NEW own \in Tokens, NEW e, NEW G \in Weights
  PROVE  /\ Held(own, e, G) \in Weights
         /\ \A o \in Objects : Held(own, e, G)[o] = VarRefs(own, e, o) + G[o]
<1>1. \A o \in Objects : G[o] \in Nat /\ VarRefs(own, e, o) \in Nat
  BY VarTotal DEF Weights
<1> QED
  BY <1>1 DEF Held, Weights

(* Nothing and static data in hand are no references.                      *)
LEMMA PlusNone ==
  ASSUME NEW G \in Weights
  PROVE  Plus(G, <<>>) = G /\ Plus(G, <<Static>>) = G
<1>1. \A o \in Objects : Occurs(o, <<>>) = 0 /\ Occurs(o, <<Static>>) = 0 /\ G[o] \in Nat
  BY OccursNone, OccursOne, ObjectsFinite DEF Weights, Static
<1>2. \A o \in Objects : G[o] + Occurs(o, <<>>) = G[o] /\ G[o] + Occurs(o, <<Static>>) = G[o]
  BY <1>1
<1>3. G = [o \in Objects |-> G[o]]
  BY DEF Weights
<1> QED
  BY <1>2, <1>3 DEF Plus

(* The order in which references come to hand does not matter.             *)
LEMMA PlusSwap ==
  ASSUME NEW G \in Weights, NEW U, NEW s \in Seq(U), NEW V, NEW t \in Seq(V)
  PROVE  Plus(Plus(G, s), t) = Plus(Plus(G, t), s)
<1>1. \A o \in Objects : G[o] \in Nat /\ Occurs(o, s) \in Nat /\ Occurs(o, t) \in Nat
  BY OccursNat DEF Weights
<1>2. \A o \in Objects : (G[o] + Occurs(o, s)) + Occurs(o, t) = (G[o] + Occurs(o, t)) + Occurs(o, s)
  BY <1>1
<1> QED
  BY <1>2 DEF Plus

(* The first reference in hand, and the others.                            *)
LEMMA PlusTail ==
  ASSUME NEW G \in Weights, NEW U, NEW s \in Seq(U), s # <<>>
  PROVE  Plus(G, s) = Plus(Plus(G, <<Head(s)>>), Tail(s))
<1>1. ASSUME NEW o \in Objects
      PROVE  G[o] + Occurs(o, s) = (G[o] + Occurs(o, <<Head(s)>>)) + Occurs(o, Tail(s))
  <2>1. Occurs(o, s) = Occurs(o, <<Head(s)>>) + Occurs(o, Tail(s))
    BY OccursTail
  <2>2. Head(s) \in U /\ Tail(s) \in Seq(U)
    OBVIOUS
  <2>5. Occurs(o, Tail(s)) \in Nat
    BY <2>2, OccursNat
  <2>6. Occurs(o, <<Head(s)>>) \in Nat
    BY OccursOne
  <2>3. Occurs(o, <<Head(s)>>) \in Nat /\ Occurs(o, Tail(s)) \in Nat
    BY <2>5, <2>6
  <2>4. G[o] \in Nat
    BY DEF Weights
  <2> QED
    BY <2>1, <2>3, <2>4
<1> QED
  BY <1>1 DEF Plus

(* Two references in hand.                                                 *)
LEMMA PlusTwo ==
  ASSUME NEW G \in Weights, NEW x, NEW y
  PROVE  Plus(G, <<x, y>>) = Plus(Plus(G, <<x>>), <<y>>)
<1>1. ASSUME NEW o \in Objects
      PROVE  G[o] + Occurs(o, <<x, y>>) = (G[o] + Occurs(o, <<x>>)) + Occurs(o, <<y>>)
  <2>1. Occurs(o, <<x, y>>) = Occurs(o, <<x>>) + Occurs(o, <<y>>)
    BY OccursTwo
  <2>2. Occurs(o, <<x>>) \in Nat /\ Occurs(o, <<y>>) \in Nat /\ G[o] \in Nat
    BY OccursOne DEF Weights
  <2> QED
    BY <2>1, <2>2
<1> QED
  BY <1>1 DEF Plus

(* What is referred to is there.                                           *)
LEMMA SoundLive ==
  ASSUME NEW own, NEW e, NEW h, NEW G, Sound(own, e, h, G)
  PROVE  /\ \A o \in Objects : G[o] # 0 => h[o].count > 0
         /\ \A v \in Variables : own[v] # 0 => e[v] \in Values /\ Live(h, e[v])
<1>1. own \in Tokens /\ G \in Weights /\ Counted(h, Held(own, e, G)) /\ e \in Envs
  BY DEF Sound, Exact
<1>2. Held(own, e, G) \in Weights
  BY <1>1, HeldType
<1>3. ASSUME NEW o \in Objects, G[o] # 0 \/ VarRefs(own, e, o) # 0 PROVE h[o].count > 0
  <2>1. Held(own, e, G)[o] = VarRefs(own, e, o) + G[o] /\ VarRefs(own, e, o) \in Nat /\ G[o] \in Nat
    BY <1>1, HeldType, VarTotal DEF Weights
  <2>2. Held(own, e, G)[o] # 0
    BY <1>3, <2>1
  <2> QED
    BY <1>1, <1>2, <2>2, ReferredLive
<1>4. ASSUME NEW v \in Variables, own[v] # 0 PROVE e[v] \in Values /\ Live(h, e[v])
  <2>1. e[v] \in Values
    BY <1>1, <1>4 DEF Sound, Envs, Values
  <2>2. VarRefs(own, e, e[v]) # 0
    BY <1>1, <1>4, VarZero
  <2> QED
    BY <1>3, <2>1, <2>2 DEF Live, Values
<1> QED
  BY <1>3, <1>4

(* References go from variables into the hand.                             *)
LEMMA SoundTake ==
  ASSUME NEW own, NEW e, NEW h, NEW G, Sound(own, e, h, G), NEW args \in Seq(Variables), Enough(Taken(own, args))
  PROVE  /\ ValuesOf(e, args) \in Seq(Values)
         /\ Sound(Taken(own, args), e, h, Plus(G, ValuesOf(e, args)))
<1> DEFINE a == Taken(own, args)
           os == ValuesOf(e, args)
<1>1. own \in Tokens /\ e \in Envs /\ G \in Weights /\ Exact(h, Held(own, e, G))
  BY DEF Sound
<1>2. \A v \in Variables : own[v] \in Nat /\ Occurs(v, args) \in Nat /\ a[v] = own[v] - Occurs(v, args) /\ a[v] >= 0
  BY <1>1, OccursNat DEF Tokens, Taken, Enough
<1>3. os \in Seq(Values)
  <2>1. ASSUME NEW i \in DOMAIN args PROVE e[args[i]] \in Values
    <3>1. args[i] \in Variables
      OBVIOUS
    <3>2. Occurs(args[i], args) # 0
      BY OccursIn
    <3>3. own[args[i]] # 0
      BY <1>2, <3>1, <3>2
    <3> QED
      BY <1>1, <3>1, <3>3 DEF Sound, Envs, Values
  <2> QED
    BY <2>1 DEF ValuesOf
<1>4. a \in Tokens
  BY <1>1, VarTake
<1>5. Plus(G, os) \in Weights /\ \A o \in Objects : Plus(G, os)[o] = G[o] + Occurs(o, os)
  BY <1>1, <1>3, PlusType
<1>6. Held(a, e, Plus(G, os)) = Held(own, e, G)
  <2>1. ASSUME NEW o \in Objects PROVE VarRefs(own, e, o) + G[o] = VarRefs(a, e, o) + Plus(G, os)[o]
    <3>1. VarRefs(own, e, o) = VarRefs(a, e, o) + Occurs(o, os)
      BY <1>1, VarTake
    <3>2. VarRefs(a, e, o) \in Nat /\ Occurs(o, os) \in Nat /\ G[o] \in Nat
      BY <1>1, <1>3, <1>4, VarTotal, OccursNat DEF Weights
    <3> QED
      BY <1>5, <3>1, <3>2
  <2> HIDE DEF a, os
  <2> QED
    BY <2>1 DEF Held
<1>7. \A v \in Variables : a[v] # 0 => e[v] # Unbound
  <2> SUFFICES ASSUME NEW v \in Variables, a[v] # 0 PROVE e[v] # Unbound
    OBVIOUS
  <2>1. own[v] # 0
    BY <1>2
  <2> QED
    BY <2>1 DEF Sound
<1> QED
  BY <1>1, <1>3, <1>4, <1>5, <1>6, <1>7 DEF Sound

(* References in hand go to variables that own none.                       *)
LEMMA SoundBind ==
  ASSUME NEW own, NEW e, NEW h, NEW G \in Weights, NEW os \in Seq(Values), Sound(own, e, h, Plus(G, os)),
         NEW vs \in Seq(Variables), Distinct(vs), \A v \in Range(vs) : own[v] = 0, Len(os) = Len(vs)
  PROVE  Sound(Defined(own, Range(vs), 1), Bind(e, vs, os), h, G)
<1> DEFINE b == Defined(own, Range(vs), 1)
           e2 == Bind(e, vs, os)
<1>1. own \in Tokens /\ e \in Envs /\ Exact(h, Held(own, e, Plus(G, os)))
  BY DEF Sound
<1>2. os \in Seq(Objects \cup {Static, Unbound})
  BY DEF Values
<1>3. e2 \in Envs
  BY <1>1, <1>2, BindType
<1>4. b \in Tokens /\ \A o \in Objects : VarRefs(b, e2, o) = VarRefs(own, e, o) + Occurs(o, os)
  BY <1>1, VarBind
<1>5. Held(b, e2, G) = Held(own, e, Plus(G, os))
  <2>1. ASSUME NEW o \in Objects PROVE VarRefs(b, e2, o) + G[o] = VarRefs(own, e, o) + Plus(G, os)[o]
    <3>1. VarRefs(own, e, o) \in Nat /\ Occurs(o, os) \in Nat /\ G[o] \in Nat
      BY <1>1, VarTotal, OccursNat DEF Weights
    <3>2. Plus(G, os)[o] = G[o] + Occurs(o, os)
      BY PlusType
    <3> QED
      BY <1>4, <3>1, <3>2
  <2> HIDE DEF b, e2
  <2> QED
    BY <2>1 DEF Held
<1>6. ASSUME NEW v \in Variables, b[v] # 0 PROVE e2[v] # Unbound
  <2>0. /\ \A i \in DOMAIN vs : e2[vs[i]] = os[i]
        /\ \A w \in Variables \ Range(vs) : e2[w] = e[w]
    BY BoundOf, SMTT(30)
  <2>1. CASE v \in Range(vs)
    <3>1. PICK i \in DOMAIN vs : v = vs[i]
      BY <2>1 DEF Range
    <3>2. i \in DOMAIN os /\ os[i] \in Values
      OBVIOUS
    <3>3. os[i] # Unbound
      BY <3>2, ObjectsFinite DEF Values, Static, Unbound
    <3> QED
      BY <2>0, <3>1, <3>3
  <2>2. CASE v \notin Range(vs)
    <3>1. own[v] # 0
      BY <1>6, <2>2 DEF Defined
    <3> QED
      BY <2>0, <2>2, <3>1 DEF Sound
  <2> QED
    BY <2>1, <2>2
<1> QED
  BY <1>1, <1>3, <1>4, <1>5, <1>6 DEF Sound

(* What owns nothing may have any value.                                   *)
LEMMA SoundEnv ==
  ASSUME NEW own, NEW e, NEW h, NEW G, Sound(own, e, h, G), NEW e2 \in Envs,
         \A v \in Variables : own[v] # 0 => e2[v] = e[v]
  PROVE  Sound(own, e2, h, G)
<1>1. own \in Tokens /\ e \in Envs /\ Exact(h, Held(own, e, G)) /\ G \in Weights
  BY DEF Sound
<1>2. \A o \in Objects : VarRefs(own, e2, o) = VarRefs(own, e, o)
  BY <1>1, VarSame
<1>3. Held(own, e2, G) = Held(own, e, G)
  BY <1>2 DEF Held
<1> QED
  BY <1>1, <1>3 DEF Sound

(* References in hand are dropped (em_drop).                               *)
LEMMA SoundDrop ==
  ASSUME NEW own, NEW e, NEW h, NEW G \in Weights, NEW os \in Seq(Values), Sound(own, e, h, Plus(G, os))
  PROVE  Sound(own, e, Dropped(h, os), G)
<1>1. own \in Tokens /\ e \in Envs /\ Counted(h, Held(own, e, Plus(G, os))) /\ Plus(G, os) \in Weights
  BY DEF Sound, Exact
<1>2. Held(own, e, Plus(G, os)) \in Weights /\ Held(own, e, G) \in Weights
  BY <1>1, HeldType
<1>3. ASSUME NEW o \in Objects PROVE Held(own, e, Plus(G, os))[o] = Held(own, e, G)[o] + Occurs(o, os)
  <2>1. /\ Held(own, e, Plus(G, os))[o] = VarRefs(own, e, o) + Plus(G, os)[o]
        /\ Held(own, e, G)[o] = VarRefs(own, e, o) + G[o]
    BY <1>1, HeldType
  <2>2. Plus(G, os)[o] = G[o] + Occurs(o, os)
    BY PlusType
  <2>3. VarRefs(own, e, o) \in Nat /\ Occurs(o, os) \in Nat /\ G[o] \in Nat
    BY <1>1, VarTotal, OccursNat DEF Weights
  <2> QED
    BY <2>1, <2>2, <2>3
<1>4. Exact(Dropped(h, os), Held(own, e, G))
  BY <1>1, <1>2, <1>3, DropExact
<1> QED
  BY <1>1, <1>4 DEF Sound

(* References in hand go into a new object, which is in hand (em_alloc).   *)
LEMMA SoundMake ==
  ASSUME NEW own, NEW e, NEW h, NEW G \in Weights, NEW rs \in Seq(Values), Sound(own, e, h, Plus(G, rs)),
         NEW p \in Objects, h[p].count = 0
  PROVE  Sound(own, e, [h EXCEPT ![p] = Object(rs)], Plus(G, <<p>>))
<1>0. <<p>> \in Seq(Values)
  BY DEF Values
<1>1. own \in Tokens /\ e \in Envs /\ Exact(h, Held(own, e, Plus(G, rs))) /\ Plus(G, rs) \in Weights
  BY DEF Sound
<1>2. Plus(G, <<p>>) \in Weights
  BY <1>0, PlusType
<1>3. Held(own, e, Plus(G, rs)) \in Weights /\ Held(own, e, Plus(G, <<p>>)) \in Weights
  BY <1>1, <1>2, HeldType
<1>4. ASSUME NEW o \in Objects
      PROVE  Held(own, e, Plus(G, <<p>>))[o] + Occurs(o, rs) = Held(own, e, Plus(G, rs))[o] + Occurs(o, <<p>>)
  <2>1. /\ Held(own, e, Plus(G, rs))[o] = VarRefs(own, e, o) + Plus(G, rs)[o]
        /\ Held(own, e, Plus(G, <<p>>))[o] = VarRefs(own, e, o) + Plus(G, <<p>>)[o]
    BY <1>1, <1>2, HeldType
  <2>2. Plus(G, rs)[o] = G[o] + Occurs(o, rs) /\ Plus(G, <<p>>)[o] = G[o] + Occurs(o, <<p>>)
    BY <1>0, PlusType
  <2>3. VarRefs(own, e, o) \in Nat /\ Occurs(o, rs) \in Nat /\ Occurs(o, <<p>>) \in Nat /\ G[o] \in Nat
    BY <1>0, <1>1, VarTotal, OccursNat DEF Weights
  <2> QED
    BY <2>1, <2>2, <2>3
<1>5. Exact([h EXCEPT ![p] = Object(rs)], Held(own, e, Plus(G, <<p>>)))
  BY <1>1, <1>3, <1>4, MakeExact
<1> QED
  BY <1>1, <1>2, <1>5 DEF Sound

(* A reference to what is there comes to hand (em_dup).                    *)
LEMMA SoundDup ==
  ASSUME NEW own, NEW e, NEW h, NEW G, Sound(own, e, h, G), NEW p \in Values, Live(h, p)
  PROVE  Sound(own, e, Duped(h, p), Plus(G, <<p>>))
<1>0. <<p>> \in Seq(Values)
  OBVIOUS
<1>1. own \in Tokens /\ e \in Envs /\ Exact(h, Held(own, e, G)) /\ G \in Weights
  BY DEF Sound
<1>2. Plus(G, <<p>>) \in Weights
  BY <1>0, <1>1, PlusType
<1>3. Held(own, e, G) \in Weights /\ Held(own, e, Plus(G, <<p>>)) \in Weights
  BY <1>1, <1>2, HeldType
<1>4. ASSUME NEW o \in Objects
      PROVE  Held(own, e, Plus(G, <<p>>))[o] = Held(own, e, G)[o] + Occurs(o, <<p>>)
  <2>1. /\ Held(own, e, G)[o] = VarRefs(own, e, o) + G[o]
        /\ Held(own, e, Plus(G, <<p>>))[o] = VarRefs(own, e, o) + Plus(G, <<p>>)[o]
    BY <1>1, <1>2, HeldType
  <2>2. Plus(G, <<p>>)[o] = G[o] + Occurs(o, <<p>>)
    BY <1>0, <1>1, PlusType
  <2>3. VarRefs(own, e, o) \in Nat /\ Occurs(o, <<p>>) \in Nat /\ G[o] \in Nat
    BY <1>0, <1>1, VarTotal, OccursNat DEF Weights
  <2> QED
    BY <2>1, <2>2, <2>3
<1>5. Exact(Duped(h, p), Held(own, e, Plus(G, <<p>>)))
  BY <1>1, <1>3, <1>4, DupExact
<1> QED
  BY <1>1, <1>2, <1>5 DEF Sound

(* Array.set of an array that is in hand, in place.                        *)
LEMMA SoundSet ==
  ASSUME NEW own, NEW e, NEW h, NEW G, Sound(own, e, h, G), NEW a \in Objects, G[a] # 0,
         NEW x \in Values, x \in Objects => Held(own, e, G)[x] # 0
  PROVE  Sound(own, e, [Duped(Dropped([h EXCEPT ![a].refs = <<>>], h[a].refs), x) EXCEPT ![a].refs = <<x>>], G)
<1>1. own \in Tokens /\ e \in Envs /\ Exact(h, Held(own, e, G)) /\ G \in Weights
  BY DEF Sound
<1>2. Held(own, e, G) \in Weights /\ Held(own, e, G)[a] = VarRefs(own, e, a) + G[a]
  BY <1>1, HeldType
<1>3. Held(own, e, G)[a] # 0
  <2>1. VarRefs(own, e, a) \in Nat /\ G[a] \in Nat
    BY <1>1, VarTotal DEF Weights
  <2> QED
    BY <1>2, <2>1
<1>4. Exact([Duped(Dropped([h EXCEPT ![a].refs = <<>>], h[a].refs), x) EXCEPT ![a].refs = <<x>>], Held(own, e, G))
  BY <1>1, <1>2, <1>3, SetExact
<1> QED
  BY <1>1, <1>4 DEF Sound

(* An object that only what is in hand refers to, once.                    *)
One(o) == <<o>>
NoneOwned(own, e, a) == \A v \in Variables : e[v] = a => own[v] = 0

(* An array whose count is 1 and that is in hand is in no variable that    *)
(* owns it.                                                                *)
LEMMA SoundAlone ==
  ASSUME NEW own, NEW e, NEW h, NEW G \in Weights, NEW a \in Objects, Sound(own, e, h, Plus(G, One(a))), h[a].count = 1
  PROVE  G[a] = 0 /\ NoneOwned(own, e, a)
<1>0. <<a>> \in Seq(Values)
  BY DEF Values
<1>1. own \in Tokens /\ Counted(h, Held(own, e, Plus(G, <<a>>))) /\ Plus(G, <<a>>) \in Weights /\ h \in Heaps
  BY DEF Sound, Exact, Counted, One
<1>2. /\ h[a].count = InRefs(h, a) + Held(own, e, Plus(G, <<a>>))[a]
      /\ Held(own, e, Plus(G, <<a>>))[a] = VarRefs(own, e, a) + Plus(G, <<a>>)[a]
      /\ Plus(G, <<a>>)[a] = G[a] + Occurs(a, <<a>>)
  BY <1>0, <1>1, HeldType, PlusType DEF Counted
<1>3. Occurs(a, <<a>>) = 1
  BY OccursOne
<1>4. InRefs(h, a) \in Nat /\ VarRefs(own, e, a) \in Nat /\ G[a] \in Nat
  BY <1>1, InRefsTotal, VarTotal DEF Weights
<1>5. G[a] = 0 /\ VarRefs(own, e, a) = 0
  BY <1>2, <1>3, <1>4
<1> QED
  BY <1>1, <1>5, VarZero DEF NoneOwned

-----------------------------------------------------------------------------
(* What the points of the paths say of a run.                              *)

Lends(c) == [o \in Objects |-> Cardinality({o} \cap c)]
Base(c, x) == Plus(Lends(c), <<x>>)

(* The handlers that are open, and whether the last was released.          *)
Handlers(open, done, hold, e, hd, rel, n) ==
  /\ hd \in Seq(Objects) /\ Len(hd) = Len(open) /\ \A i \in DOMAIN open : hd[i] = e[open[i]]
  /\ done => hd # <<>>
  /\ rel = IF done THEN {Last(hd)} ELSE {}
  /\ n = hold

(* The defects there are: those that were taken, the outermost last, and   *)
(* the pending one.  Outside of the first one there are only interruptions.*)
Outer(y, u) == y # Nil /\ (u = Nil \/ u < y)
Chain(U, g, gr) ==
  /\ gr \in {NoDefect, Interruption, FirstDefect}
  /\ gr = NoDefect <=> U = {}
  /\ gr = Interruption => \A u \in U : g[u] = Interruption
  /\ gr = FirstDefect => \E u \in U : g[u] = FirstDefect /\ \A y \in U : Outer(y, u) => g[y] = Interruption
There(own, pend) == {d \in Stashes : own[d] # 0} \cup (IF pend THEN {Nil} ELSE {})
Grading == [Stashes \cup {Nil} -> NoDefect..LaterDefect]
Defects(own, pend, e, x, g, gr) ==
  /\ g \in Grading /\ pend = (x # Static)
  /\ \A d \in Stashes : own[d] # 0 => e[d] \in Objects
  /\ Chain(There(own, pend), g, gr)

Lent(e, c) == e[Env] = EnvObject /\ EnvObject \in c

Fits(p, e, h, c, x, n, g, hd, rel, gr) ==
  /\ p \in Points /\ c \subseteq {ParamObject, EnvObject} /\ x \in Values
  /\ Sound(p.own, e, h, Base(c, x))
  /\ p.lent => Lent(e, c)
  /\ p.fresh # Nil => e[p.fresh] \in Values /\ Live(h, e[p.fresh])
  /\ Handlers(p.open, p.done, p.hold, e, hd, rel, n)
  /\ Defects(p.own, p.pend, e, x, g, gr)

(* A let whose operands were taken, and are in hand.                       *)
Mid(p, s, given, e, h, c, x, n, g, hd, rel, gr) ==
  LET v == s.value
      q == Spent(p, s)
  IN  /\ c \subseteq {ParamObject, EnvObject} /\ x \in Values
      /\ given \in Seq(Values) /\ Len(given) = Len(Consumed(v))
      /\ v.op = "release" => given = <<Last(hd)>>
      /\ Sound(q.own, e, h, Plus(Base(c, x), given))
      /\ q.lent => Lent(e, c)
      /\ \A b \in Range(Borrowed(v)) : q.own[b] # 0 \/ (b = Env /\ Lent(e, c))
      /\ Handlers(p.open, p.done, p.hold, e, hd, rel, n)
      /\ v.op # "resume" => Defects(q.own, p.pend, e, x, g, gr)

-----------------------------------------------------------------------------
(* The names of variables are apart.                                       *)
LEMMA NamesApart ==
  /\ Nil \notin Variables /\ Err \in Variables /\ Env \in Variables /\ Param \in Variables
  /\ Stashes \subseteq Variables /\ Nil \notin Stashes /\ Env \notin Stashes /\ Param \notin Stashes
  /\ Err \notin Stashes /\ Stashes \subseteq Int /\ Err # Env /\ Param # Env
  BY CodeAssumption DEF Nil, Variables, Err, Env, Param, Stashes

(* The objects of the caller, and what is none.                            *)
LEMMA ObjectsNamed ==
  /\ ParamObject \in Objects /\ EnvObject \in Objects /\ Static \notin Objects /\ Unbound \notin Values
  /\ 2 \in Objects /\ 4 \in Objects
  BY MachineAssumption DEF ParamObject, EnvObject, Static, Unbound, Objects, Values

(* What a point consists of.                                               *)
LEMMA PointOf ==
  ASSUME NEW p \in Points
  PROVE  /\ p.own \in Tokens /\ p.fresh \in Variables \cup {Nil} /\ p.lent \in BOOLEAN /\ p.pend \in BOOLEAN
         /\ p.open \in Seq(Variables) /\ p.done \in BOOLEAN /\ p.hold \in Nat
  BY DEF Points, Tokens

(* What the caller has references to.                                      *)
LEMMA LendsType ==
  ASSUME NEW c, c \subseteq {ParamObject, EnvObject}
  PROVE  /\ Lends(c) \in Weights
         /\ \A o \in Objects : Lends(c)[o] = IF o \in c THEN 1 ELSE 0
<1>1. ASSUME NEW o \in Objects PROVE Cardinality({o} \cap c) = IF o \in c THEN 1 ELSE 0
  <2>1. CASE o \in c
    <3>1. {o} \cap c = {o}
      BY <2>1
    <3> QED
      BY <2>1, <3>1, FS_Singleton
  <2>2. CASE o \notin c
    <3>1. {o} \cap c = {}
      BY <2>2
    <3> QED
      BY <2>2, <3>1, FS_EmptySet
  <2> QED
    BY <2>1, <2>2
<1> QED
  BY <1>1 DEF Lends, Weights

(* The references of the caller and of the pending defect.                 *)
LEMMA BaseType ==
  ASSUME NEW c, c \subseteq {ParamObject, EnvObject}, NEW x \in Values
  PROVE  /\ Base(c, x) \in Weights /\ Base(c, Static) = Lends(c) /\ Base(c, x) = Plus(Lends(c), <<x>>)
         /\ \A o \in c : Base(c, x)[o] # 0
         /\ x \in Objects => Base(c, x)[x] # 0
<1>1. Lends(c) \in Weights /\ \A o \in Objects : Lends(c)[o] = IF o \in c THEN 1 ELSE 0
  BY LendsType
<1>2. <<x>> \in Seq(Values)
  OBVIOUS
<1>3. Base(c, x) \in Weights /\ \A o \in Objects : Base(c, x)[o] = Lends(c)[o] + Occurs(o, <<x>>)
  BY <1>1, <1>2, PlusType DEF Base
<1>4. \A o \in Objects : Occurs(o, <<x>>) = IF x = o THEN 1 ELSE 0
  BY OccursOne
<1>5. c \subseteq Objects
  BY ObjectsNamed
<1>6. Base(c, Static) = Lends(c)
  BY <1>1, PlusNone DEF Base
<1>7. \A o \in c : Base(c, x)[o] # 0
  BY <1>1, <1>3, <1>4, <1>5
<1>8. x \in Objects => Base(c, x)[x] # 0
  BY <1>1, <1>3, <1>4
<1> QED
  BY <1>3, <1>6, <1>7, <1>8 DEF Base

(* Without the environment, that the caller lets go.                       *)
LEMMA LetGo ==
  ASSUME NEW c, c \subseteq {ParamObject, EnvObject}, EnvObject \in c
  PROVE  Lends(c) = Plus(Lends(c \ {EnvObject}), <<EnvObject>>)
<1>1. Lends(c) \in Weights /\ \A o \in Objects : Lends(c)[o] = IF o \in c THEN 1 ELSE 0
  BY LendsType
<1> DEFINE d == c \ {EnvObject}
<1>2. Lends(d) \in Weights /\ \A o \in Objects : Lends(d)[o] = IF o \in d THEN 1 ELSE 0
  <2>1. d \subseteq {ParamObject, EnvObject}
    OBVIOUS
  <2> HIDE DEF d
  <2> QED
    BY <2>1, LendsType
<1>3. ASSUME NEW o \in Objects PROVE Lends(c)[o] = Lends(d)[o] + Occurs(o, <<EnvObject>>)
  BY <1>1, <1>2, OccursOne
<1>4. Lends(c) = [o \in Objects |-> Lends(c)[o]]
  BY DEF Lends
<1> HIDE DEF d
<1> QED
  BY <1>3, <1>4 DEF Plus, d

-----------------------------------------------------------------------------
(* The points after a step.                                                *)

(* The point after references were taken from variables.                   *)
LEMMA GivesIs ==
  ASSUME NEW p \in Points, NEW args
  PROVE  LET q == Gives(p, args) IN
         /\ q.own = Taken(p.own, args) /\ q.fresh = Nil /\ q.lent = p.lent /\ q.pend = p.pend
         /\ q.open = p.open /\ q.done = p.done /\ q.hold = p.hold
  BY DEF Gives, Points

(* The point after values moved from variables to variables.               *)
LEMMA MovedIs ==
  ASSUME NEW p \in Points, NEW args, NEW vs
  PROVE  LET q == Moved(p, args, vs) IN
         /\ q.own = Defined(Taken(p.own, args), Range(vs), 1) /\ q.fresh = Nil /\ q.lent = p.lent /\ q.pend = p.pend
         /\ q.open = p.open /\ q.done = p.done /\ q.hold = p.hold
  BY DEF Gives, Points, Moved, Binds

(* The point while a let runs.                                             *)
LEMMA SpentIs ==
  ASSUME NEW p \in Points, NEW s
  PROVE  LET q == Spent(p, s) IN
         /\ q.own = Taken(p.own, Consumed(s.value)) /\ q.fresh = Nil /\ q.lent = (p.lent /\ s.saved = <<>>)
         /\ q.pend = p.pend /\ q.open = p.open /\ q.done = p.done /\ q.hold = p.hold
  BY DEF Gives, Points, Spent

(* The point at which a landing begins.                                    *)
LEMMA LandingIs ==
  ASSUME NEW p \in Points, NEW s
  PROVE  LET q == AtLanding(p, s) IN
         /\ q.own = Spent(p, s).own /\ q.fresh = Nil /\ q.lent = Spent(p, s).lent
         /\ q.pend = p.pend /\ q.open = p.open /\ q.done = (p.done \/ s.value.op = "release") /\ q.hold = p.hold
  BY DEF Gives, Points, Spent, AtLanding

(* The point of a failure landing.                                         *)
LEMMA FailedIs ==
  ASSUME NEW p \in Points, NEW s
  PROVE  LET q == Binds(AtLanding(p, s), <<Err>>, 1) IN
         /\ q.own = Defined(Spent(p, s).own, Range(<<Err>>), 1) /\ q.fresh = Nil /\ q.lent = Spent(p, s).lent
         /\ q.pend = p.pend /\ q.open = p.open /\ q.done = (p.done \/ s.value.op = "release") /\ q.hold = p.hold
  BY DEF Gives, Points, Spent, AtLanding, Binds

(* The point of a defect landing.                                          *)
LEMMA RaisedIs ==
  ASSUME NEW p \in Points, NEW s
  PROVE  LET q == [AtLanding(p, s) EXCEPT !.pend = TRUE] IN
         /\ q.own = Spent(p, s).own /\ q.fresh = Nil /\ q.lent = Spent(p, s).lent
         /\ q.pend = TRUE /\ q.open = p.open /\ q.done = (p.done \/ s.value.op = "release") /\ q.hold = p.hold
  BY DEF Gives, Points, Spent, AtLanding

(* The point after a let.                                                  *)
LEMMA AfterIs ==
  ASSUME NEW p \in Points, NEW s
  PROVE  LET q == After(p, s)
             op == s.value.op
         IN
         /\ q.own = Defined(Spent(p, s).own, Range(Dest(s)), IF IsView(s.value) THEN 0 ELSE 1)
         /\ q.fresh = (IF op = "view" THEN s.dst ELSE Nil) /\ q.lent = Spent(p, s).lent
         /\ q.pend = (IF op = "take" THEN FALSE ELSE IF op \in {"raise", "resume"} THEN TRUE ELSE p.pend)
         /\ q.open = (IF op = "retire" THEN Front(p.open)
                      ELSE IF op = "acquire" THEN Append(p.open, s.dst) ELSE p.open)
         /\ q.done = (IF op = "retire" THEN FALSE ELSE IF op = "release" THEN TRUE ELSE p.done)
         /\ q.hold = (IF op = "hold" THEN p.hold + 1 ELSE IF op = "unhold" THEN p.hold - 1 ELSE p.hold)
<1> DEFINE q0 == Spent(p, s)
           k == IF IsView(s.value) THEN 0 ELSE 1
           b == Binds(q0, Dest(s), k)
           R(a) == [own : {a}, fresh : Variables \cup {Nil}, lent : BOOLEAN, pend : BOOLEAN,
                 open : Seq(Variables), done : BOOLEAN, hold : Nat]
<1>0. q0 \in R(Taken(p.own, Consumed(s.value))) /\ q0.pend = p.pend /\ q0.open = p.open /\ q0.done = p.done /\ q0.hold = p.hold
  BY DEF Spent, Gives, Points
<1> HIDE DEF q0
<1>1. /\ b.own = Defined(q0.own, Range(Dest(s)), k)
      /\ b.fresh = Nil /\ b.lent = q0.lent /\ b.pend = p.pend /\ b.open = p.open /\ b.done = p.done
      /\ b.hold = p.hold /\ b \in R(Defined(q0.own, Range(Dest(s)), k))
  <2> HIDE DEF k
  <2> QED
    BY <1>0 DEF Binds
<1>2. After(p, s) = CASE s.value.op = "view" -> [b EXCEPT !.fresh = s.dst]
        [] s.value.op = "hold" -> [b EXCEPT !.hold = @ + 1]
        [] s.value.op = "unhold" -> [b EXCEPT !.hold = @ - 1]
        [] s.value.op = "retire" -> [b EXCEPT !.open = Front(@), !.done = FALSE]
        [] s.value.op = "acquire" -> [b EXCEPT !.open = Append(@, s.dst)]
        [] s.value.op = "release" -> [b EXCEPT !.done = TRUE]
        [] s.value.op = "take" -> [b EXCEPT !.pend = FALSE]
        [] s.value.op \in {"raise", "resume"} -> [b EXCEPT !.pend = TRUE]
        [] OTHER -> b
  BY DEF After, q0
<1> HIDE DEF b
<1> QED
  BY <1>1, <1>2 DEF q0, k

-----------------------------------------------------------------------------
(* Defects are raised, taken and resumed.                                  *)

(* The grades of defects are apart.                                        *)
LEMMA GradesApart ==
  /\ NoDefect # Interruption /\ NoDefect # FirstDefect /\ Interruption # FirstDefect
  /\ LaterDefect # Interruption /\ LaterDefect # FirstDefect
  /\ {NoDefect, Interruption, FirstDefect, LaterDefect} \subseteq NoDefect..LaterDefect
  BY DEF NoDefect, Interruption, FirstDefect, LaterDefect

(* A defect is raised inside of those that were taken.                     *)
LEMMA ChainRaise ==
  ASSUME NEW U, U \subseteq Stashes, NEW g \in Grading, NEW gr, Chain(U, g, gr),
         NEW k \in {Interruption, IF gr = FirstDefect THEN LaterDefect ELSE FirstDefect}
  PROVE  /\ Chain(U \cup {Nil}, [g EXCEPT ![Nil] = k], IF gr = FirstDefect THEN gr ELSE k)
         /\ [g EXCEPT ![Nil] = k] \in Grading
<1> DEFINE g2 == [g EXCEPT ![Nil] = k]
<1>1. Nil \notin Stashes
  BY NamesApart
<1>2. g2[Nil] = k /\ \A u \in U : g2[u] = g[u]
  BY <1>1 DEF Grading
<1>3. g2 \in Grading
  BY GradesApart DEF Grading
<1> HIDE DEF g2
<1>4. CASE gr = FirstDefect
  <2>1. PICK u \in U : g[u] = FirstDefect /\ \A y \in U : Outer(y, u) => g[y] = Interruption
    BY <1>4 DEF Chain
  <2>2. \A y \in U \cup {Nil} : Outer(y, u) => g2[y] = Interruption
    BY <1>2, <2>1 DEF Outer
  <2>3. Chain(U \cup {Nil}, g2, gr)
    BY <1>2, <1>4, <2>1, <2>2, GradesApart DEF Chain
  <2> QED
    BY <1>3, <1>4, <2>3 DEF g2
<1>5. CASE gr # FirstDefect
  <2>1. \A u \in U : g[u] = Interruption
    BY <1>5, GradesApart DEF Chain
  <2>2. CASE k = Interruption
    <3>1. Chain(U \cup {Nil}, g2, k)
      BY <1>2, <2>1, <2>2, GradesApart DEF Chain
    <3> QED
      BY <1>3, <1>5, <3>1 DEF g2
  <2>3. CASE k = FirstDefect
    <3>1. \A y \in U \cup {Nil} : Outer(y, Nil) => g2[y] = Interruption
      BY <1>2, <2>1 DEF Outer
    <3>2. Chain(U \cup {Nil}, g2, k)
      BY <1>2, <2>3, <3>1, GradesApart DEF Chain
    <3> QED
      BY <1>3, <1>5, <3>2 DEF g2
  <2> QED
    BY <1>5, <2>2, <2>3
<1> QED
  BY <1>4, <1>5

(* The pending defect is taken, inside of those that were taken before.    *)
LEMMA ChainTake ==
  ASSUME NEW U, U \subseteq Stashes, NEW g \in Grading, NEW gr, Chain(U \cup {Nil}, g, gr),
         NEW d \in Stashes, \A u \in U : d < u
  PROVE  /\ Chain(U \cup {d}, [g EXCEPT ![d] = g[Nil], ![Nil] = NoDefect], gr)
         /\ [g EXCEPT ![d] = g[Nil], ![Nil] = NoDefect] \in Grading
<1> DEFINE g2 == [g EXCEPT ![d] = g[Nil], ![Nil] = NoDefect]
<1>1. Nil \notin Stashes /\ Stashes \subseteq Int
  BY NamesApart
<1>2. d \notin U
  BY <1>1
<1>3. g2[d] = g[Nil] /\ \A u \in U : g2[u] = g[u]
  BY <1>1, <1>2 DEF Grading
<1>4. g2 \in Grading
  BY GradesApart DEF Grading
<1> HIDE DEF g2
<1>5. gr = Interruption => \A u \in U \cup {d} : g2[u] = Interruption
  BY <1>3 DEF Chain
<1>6. ASSUME gr = FirstDefect
      PROVE  \E u \in U \cup {d} : g2[u] = FirstDefect /\ \A y \in U \cup {d} : Outer(y, u) => g2[y] = Interruption
  <2>1. PICK u \in U \cup {Nil} : g[u] = FirstDefect /\ \A y \in U \cup {Nil} : Outer(y, u) => g[y] = Interruption
    BY <1>6 DEF Chain
  <2>2. CASE u = Nil
    <3>1. \A y \in U : Outer(y, u)
      BY <1>1, <2>2 DEF Outer
    <3>2. ~Outer(d, d)
      BY <1>1 DEF Outer
    <3>3. \A y \in U \cup {d} : Outer(y, d) => g2[y] = Interruption
      BY <1>3, <2>1, <3>1, <3>2
    <3> QED
      BY <1>3, <2>1, <2>2, <3>3
  <2>3. CASE u \in U
    <3>1. ~Outer(d, u)
      BY <1>1, <2>3 DEF Outer
    <3>2. \A y \in U \cup {d} : Outer(y, u) => g2[y] = Interruption
      BY <1>3, <2>1, <3>1
    <3> QED
      BY <1>3, <2>1, <2>3, <3>2
  <2> QED
    BY <2>2, <2>3
<1>7. Chain(U \cup {d}, g2, gr)
  BY <1>5, <1>6 DEF Chain
<1> QED
  BY <1>4, <1>7 DEF g2

(* The innermost defect is pending again, alone or with one of a cleanup.  *)
LEMMA ChainResume ==
  ASSUME NEW U, U \subseteq Stashes, NEW g \in Grading, NEW gr, NEW d \in Stashes, \A u \in U : d < u,
         \/ Chain(U \cup {d}, g, gr)
         \/ Chain(U \cup {d, Nil}, g, gr) /\ g[d] # Interruption
  PROVE  Chain(U \cup {Nil}, [g EXCEPT ![Nil] = g[d]], gr) /\ [g EXCEPT ![Nil] = g[d]] \in Grading
<1> DEFINE g2 == [g EXCEPT ![Nil] = g[d]]
<1>1. Nil \notin Stashes /\ Stashes \subseteq Int
  BY NamesApart
<1>3. g2[Nil] = g[d] /\ \A u \in U : g2[u] = g[u]
  BY <1>1 DEF Grading
<1>4. g2 \in Grading
  BY DEF Grading
<1> HIDE DEF g2
<1>5. gr \in {NoDefect, Interruption, FirstDefect} /\ gr # NoDefect
  BY DEF Chain
<1>6. gr = Interruption => \A u \in U \cup {Nil} : g2[u] = Interruption
  BY <1>3 DEF Chain
<1>7. ASSUME gr = FirstDefect
      PROVE  \E u \in U \cup {Nil} : g2[u] = FirstDefect /\ \A y \in U \cup {Nil} : Outer(y, u) => g2[y] = Interruption
  <2>1. PICK u \in U \cup {d} : g[u] = FirstDefect /\ \A y \in U \cup {d} : Outer(y, u) => g[y] = Interruption
    <3>1. CASE Chain(U \cup {d}, g, gr)
      BY <1>7, <3>1 DEF Chain
    <3>2. CASE Chain(U \cup {d, Nil}, g, gr) /\ g[d] # Interruption
      <4>1. PICK u \in U \cup {d, Nil} :
              g[u] = FirstDefect /\ \A y \in U \cup {d, Nil} : Outer(y, u) => g[y] = Interruption
        BY <1>7, <3>2 DEF Chain
      <4>2. u # Nil
        <5>1. Outer(d, Nil)
          BY <1>1 DEF Outer
        <5> QED
          BY <3>2, <4>1, <5>1
      <4> QED
        BY <4>1, <4>2
    <3> QED
      BY <3>1, <3>2
  <2>2. CASE u = d
    <3>1. \A y \in U : Outer(y, d)
      BY <1>1 DEF Outer
    <3>2. ~Outer(Nil, Nil)
      BY DEF Outer
    <3>3. \A y \in U \cup {Nil} : Outer(y, Nil) => g2[y] = Interruption
      BY <1>3, <2>1, <2>2, <3>1, <3>2
    <3> QED
      BY <1>3, <2>1, <2>2, <3>3
  <2>3. CASE u \in U
    <3>1. ~Outer(Nil, u)
      BY DEF Outer
    <3>2. \A y \in U \cup {Nil} : Outer(y, u) => g2[y] = Interruption
      BY <1>3, <2>1, <3>1
    <3> QED
      BY <1>3, <2>1, <2>3, <3>2
  <2> QED
    BY <2>2, <2>3
<1>8. Chain(U \cup {Nil}, g2, gr)
  BY <1>5, <1>6, <1>7 DEF Chain
<1> QED
  BY <1>4, <1>8 DEF g2

(* An interruption gives way to the pending defect.                        *)
LEMMA ChainYield ==
  ASSUME NEW U, U \subseteq Stashes, NEW g \in Grading, NEW gr, NEW d \in Stashes,
         Chain(U \cup {d, Nil}, g, gr), g[d] = Interruption
  PROVE  Chain(U \cup {Nil}, [g EXCEPT ![Nil] = g[Nil]], gr) /\ [g EXCEPT ![Nil] = g[Nil]] \in Grading
<1>1. [g EXCEPT ![Nil] = g[Nil]] = g
  BY DEF Grading
<1>2. gr \in {NoDefect, Interruption, FirstDefect} /\ gr # NoDefect
  BY DEF Chain
<1>3. gr = Interruption => \A u \in U \cup {Nil} : g[u] = Interruption
  BY DEF Chain
<1>4. ASSUME gr = FirstDefect
      PROVE  \E u \in U \cup {Nil} : g[u] = FirstDefect /\ \A y \in U \cup {Nil} : Outer(y, u) => g[y] = Interruption
  <2>1. PICK u \in U \cup {d, Nil} :
          g[u] = FirstDefect /\ \A y \in U \cup {d, Nil} : Outer(y, u) => g[y] = Interruption
    BY <1>4 DEF Chain
  <2>2. u # d
    BY <2>1, GradesApart
  <2> QED
    BY <2>1, <2>2
<1>5. Chain(U \cup {Nil}, g, gr)
  BY <1>2, <1>3, <1>4 DEF Chain
<1> QED
  BY <1>1, <1>5

-----------------------------------------------------------------------------
(* What a step leaves alone.                                               *)

(* The handlers depend on the variables that are open alone.               *)
LEMMA HandlersKept ==
  ASSUME NEW open, NEW done, NEW hold, NEW e, NEW hd, NEW rel, NEW n,
         Handlers(open, done, hold, e, hd, rel, n), NEW e2, \A v \in Range(open) : e2[v] = e[v]
  PROVE  Handlers(open, done, hold, e2, hd, rel, n)
<1>1. \A i \in DOMAIN open : open[i] \in Range(open)
  BY DEF Range
<1> QED
  BY <1>1 DEF Handlers

(* The defects depend on the stashes alone.                                *)
LEMMA DefectsKept ==
  ASSUME NEW own, NEW pend, NEW e, NEW x, NEW g, NEW gr, Defects(own, pend, e, x, g, gr), NEW own2, NEW e2,
         \A d \in Stashes : own2[d] = own[d] /\ (own[d] # 0 => e2[d] = e[d])
  PROVE  Defects(own2, pend, e2, x, g, gr)
<1>1. There(own2, pend) = There(own, pend)
  BY DEF There
<1> QED
  BY <1>1 DEF Defects

(* What no stash is among.                                                 *)
LEMMA NamedApart ==
  ASSUME NEW vs, Named(vs)
  PROVE  /\ vs \in Seq(Variables) /\ Range(vs) \subseteq Variables /\ Range(vs) \cap Stashes = {}
         /\ \A d \in Stashes : Occurs(d, vs) = 0
<1>1. vs \in Seq(Variables \ Stashes)
  BY DEF Named
<1>2. \A i \in DOMAIN vs : vs[i] \in Variables \ Stashes
  BY <1>1
<1>3. \A d \in Stashes : Occurs(d, vs) = 0
  BY <1>1, <1>2, OccursIn
<1> QED
  BY <1>1, <1>2, <1>3 DEF Range

-----------------------------------------------------------------------------
(* What may be read is there.                                              *)

(* What a variable owns, or the environment that the caller lends, is      *)
(* there.                                                                  *)
LEMMA Readable ==
  ASSUME NEW own, NEW e, NEW h, NEW G, Sound(own, e, h, G), NEW b \in Variables, NEW c,
         own[b] # 0 \/ (b = Env /\ Lent(e, c) /\ G[EnvObject] # 0)
  PROVE  e[b] \in Values /\ Live(h, e[b]) /\ (e[b] \in Objects => Held(own, e, G)[e[b]] # 0)
<1>1. own \in Tokens /\ G \in Weights
  BY DEF Sound
<1>2. \A o \in Objects : /\ Held(own, e, G)[o] = VarRefs(own, e, o) + G[o]
                         /\ VarRefs(own, e, o) \in Nat /\ G[o] \in Nat
  BY <1>1, HeldType, VarTotal DEF Weights
<1>3. CASE own[b] # 0
  <2>1. e[b] \in Values /\ Live(h, e[b])
    BY <1>3, SoundLive
  <2>2. VarRefs(own, e, e[b]) # 0
    BY <1>1, <1>3, VarZero
  <2> QED
    BY <1>2, <2>1, <2>2
<1>4. CASE b = Env /\ Lent(e, c) /\ G[EnvObject] # 0
  <2>1. e[b] = EnvObject /\ EnvObject \in Objects
    BY <1>4, ObjectsNamed DEF Lent
  <2>2. h[EnvObject].count > 0
    BY <1>4, <2>1, SoundLive
  <2> QED
    BY <1>2, <1>4, <2>1, <2>2 DEF Values, Live
<1> QED
  BY <1>3, <1>4

(* The caller's references stay with others in hand.                       *)
LEMMA BaseIn ==
  ASSUME NEW c, c \subseteq {ParamObject, EnvObject}, NEW x \in Values, NEW os \in Seq(Values)
  PROVE  /\ Plus(Base(c, x), os) \in Weights /\ \A o \in c : Plus(Base(c, x), os)[o] # 0
         /\ \A i \in DOMAIN os : os[i] \in Objects => Plus(Base(c, x), os)[os[i]] # 0
<1>1. Base(c, x) \in Weights /\ \A o \in c : Base(c, x)[o] # 0
  BY BaseType
<1>2. Plus(Base(c, x), os) \in Weights /\ \A o \in Objects : Plus(Base(c, x), os)[o] = Base(c, x)[o] + Occurs(o, os)
  BY <1>1, PlusType
<1>3. c \subseteq Objects
  BY ObjectsNamed
<1>4. ASSUME NEW o \in Objects, Base(c, x)[o] # 0 \/ Occurs(o, os) # 0 PROVE Plus(Base(c, x), os)[o] # 0
  <2>1. Base(c, x)[o] \in Nat /\ Occurs(o, os) \in Nat
    BY <1>1, OccursNat DEF Weights
  <2> QED
    BY <1>2, <1>4, <2>1
<1>5. \A i \in DOMAIN os : Occurs(os[i], os) # 0
  BY OccursIn
<1> QED
  BY <1>1, <1>2, <1>3, <1>4, <1>5

-----------------------------------------------------------------------------
(* Values move to variables: into a branch, block or loop, or out of one.  *)

(* Values that move to variables that own none keep the run as its point   *)
(* says.                                                                   *)
LEMMA FitsMoved ==
  ASSUME NEW p, NEW e, NEW h, NEW c, NEW x, NEW n, NEW g, NEW hd, NEW rel, NEW gr,
         Fits(p, e, h, c, x, n, g, hd, rel, gr), NEW args, NEW vs, Moves(p, args, vs),
         Moved(p, args, vs) \in Points, \A v \in Range(p.open) : Moved(p, args, vs).own[v] >= 1
  PROVE  Fits(Moved(p, args, vs), Bind(e, vs, ValuesOf(e, args)), h, c, x, n, g, hd, rel, gr)
<1> DEFINE q == Moved(p, args, vs)
           a == Taken(p.own, args)
           os == ValuesOf(e, args)
           e2 == Bind(e, vs, os)
<1>1. /\ p \in Points /\ c \subseteq {ParamObject, EnvObject} /\ x \in Values /\ Sound(p.own, e, h, Base(c, x))
      /\ p.lent => Lent(e, c)
      /\ Handlers(p.open, p.done, p.hold, e, hd, rel, n) /\ Defects(p.own, p.pend, e, x, g, gr)
  BY DEF Fits
<1>2. /\ q.own = Defined(a, Range(vs), 1) /\ q.fresh = Nil /\ q.lent = p.lent /\ q.pend = p.pend
      /\ q.open = p.open /\ q.done = p.done /\ q.hold = p.hold
  BY <1>1, MovedIs
<1>3. Gives(p, args).own = a /\ Gives(p, args).open = p.open
  BY <1>1, GivesIs
<1>4. /\ Named(args) /\ Named(vs) /\ Len(args) = Len(vs) /\ Enough(a)
      /\ vs \in Seq(Variables \ {Env}) /\ Distinct(vs)
      /\ \A v \in Range(vs) : a[v] = 0 /\ v \notin Range(p.open)
  BY <1>3 DEF Moves, CanBind
<1>5. /\ args \in Seq(Variables) /\ vs \in Seq(Variables) /\ Range(vs) \subseteq Variables
      /\ Range(vs) \cap Stashes = {} /\ \A d \in Stashes : Occurs(d, args) = 0
  BY <1>4, NamedApart
<1>6. os \in Seq(Values) /\ Sound(a, e, h, Plus(Base(c, x), os))
  BY <1>1, <1>4, <1>5, SoundTake
<1>7. Len(os) = Len(vs)
  BY <1>4, <1>5 DEF ValuesOf
<1>8. Base(c, x) \in Weights
  BY <1>1, BaseType
<1> HIDE DEF a, os, q
<1>9. Sound(Defined(a, Range(vs), 1), e2, h, Base(c, x))
  BY <1>4, <1>5, <1>6, <1>7, <1>8, SoundBind
<1>10. \A v \in Variables \ Range(vs) : e2[v] = e[v]
  BY <1>4, <1>5, BoundOf
<1>11. Env \notin Range(vs) /\ Env \in Variables /\ Stashes \subseteq Variables
  BY <1>4, NamesApart DEF Range
<1> HIDE DEF e2
<1>12. p.lent => Lent(e2, c)
  BY <1>1, <1>10, <1>11 DEF Lent
<1>13. Handlers(p.open, p.done, p.hold, e2, hd, rel, n)
  <2>1. \A v \in Range(p.open) : v \in Variables /\ v \notin Range(vs)
    <3>1. p.open \in Seq(Variables)
      BY <1>1, PointOf
    <3>2. Range(p.open) \subseteq Variables
      BY <3>1 DEF Range
    <3> QED
      BY <1>4, <3>2
  <2>2. \A v \in Range(p.open) : e2[v] = e[v]
    BY <1>10, <2>1
  <2> QED
    BY <1>1, <2>2, HandlersKept
<1>14. Defects(q.own, p.pend, e2, x, g, gr)
  <2>1. ASSUME NEW d \in Stashes PROVE q.own[d] = p.own[d] /\ e2[d] = e[d]
    <3>1. d \in Variables /\ d \notin Range(vs)
      BY <1>5, <1>11
    <3>2. q.own[d] = a[d]
      BY <1>2, <3>1 DEF Defined
    <3>3. a[d] = p.own[d] - Occurs(d, args) /\ Occurs(d, args) = 0
      BY <1>5, <3>1 DEF a, Taken
    <3>4. p.own[d] \in Nat
      BY <1>1, <3>1, PointOf DEF Tokens
    <3> QED
      BY <1>10, <3>1, <3>2, <3>3, <3>4
  <2> QED
    BY <1>1, <2>1, DefectsKept
<1> QED
  BY <1>1, <1>2, <1>9, <1>12, <1>13, <1>14 DEF Fits, q, e2, os

(* The way out: every variable is spent.                                   *)
LEMMA ExitExact ==
  ASSUME NEW p, NEW e, NEW h, NEW c, NEW x, NEW n, NEW g, NEW hd, NEW rel, NEW gr,
         Fits(p, e, h, c, x, n, g, hd, rel, gr), NEW args, Named(args), Len(args) <= 1,
         \A v \in Variables : Taken(p.own, args)[v] = 0
  PROVE  LET r == IF args = <<>> THEN Static ELSE e[Head(args)] IN
         r \in Values /\ Exact(h, Plus(Base(c, x), <<r>>))
<1> DEFINE a == Taken(p.own, args)
           os == ValuesOf(e, args)
           r == IF args = <<>> THEN Static ELSE e[Head(args)]
<1>1. /\ p \in Points /\ c \subseteq {ParamObject, EnvObject} /\ x \in Values /\ Sound(p.own, e, h, Base(c, x))
  BY DEF Fits
<1>2. args \in Seq(Variables)
  BY NamedApart
<1>3. Enough(a)
  BY DEF Enough
<1>4. os \in Seq(Values) /\ Sound(a, e, h, Plus(Base(c, x), os))
  BY <1>1, <1>2, <1>3, SoundTake
<1>5. Base(c, x) \in Weights
  BY <1>1, BaseType
<1>6. r \in Values /\ Plus(Base(c, x), os) = Plus(Base(c, x), <<r>>)
  <2>1. CASE args = <<>>
    <3>1. os = <<>> /\ r = Static
      BY <2>1 DEF ValuesOf
    <3> QED
      BY <1>5, <3>1, PlusNone DEF Values
  <2>2. CASE args # <<>>
    <3>4. Len(args) \in Nat /\ Len(args) # 0 /\ Head(args) = args[1] /\ DOMAIN args = 1..Len(args)
      BY <1>2, <2>2
    <3>1. Len(args) = 1 /\ Head(args) = args[1] /\ DOMAIN args = 1..1
      BY <3>4
    <3>2. os = <<e[args[1]]>>
      BY <3>1 DEF ValuesOf
    <3>3. r = e[args[1]]
      BY <2>2, <3>1
    <3> QED
      BY <1>4, <3>2, <3>3
  <2> QED
    BY <2>1, <2>2
<1>7. Held(a, e, Plus(Base(c, x), <<r>>)) = Plus(Base(c, x), <<r>>)
  <2> DEFINE W == Plus(Base(c, x), <<r>>)
  <2>1. W \in Weights /\ a \in Tokens
    BY <1>4, <1>6 DEF Sound
  <2> HIDE DEF W, a
  <2>2. \A o \in Objects : VarRefs(a, e, o) = 0
    BY <2>1, VarZero DEF a
  <2>3. \A o \in Objects : VarRefs(a, e, o) + W[o] = W[o]
    BY <2>1, <2>2 DEF Weights
  <2>4. Held(a, e, W) = [o \in Objects |-> W[o]]
    BY <2>3 DEF Held
  <2>5. Held(a, e, W) = W
    BY <2>1, <2>4 DEF Weights
  <2> QED
    BY <2>5 DEF W
<1> QED
  BY <1>4, <1>6, <1>7 DEF Sound

-----------------------------------------------------------------------------
(* A let.                                                                  *)

(* The open handlers are owned while it runs.                              *)
OpenOwned(p, s) == \A v \in Range(p.open) : v \in Variables /\ Spent(p, s).own[v] # 0

(* A let does not consume a handler that stays open.                       *)
LEMMA OpenSpent ==
  ASSUME NEW p \in Points, NEW s, LetRight(p, s), \A v \in Range(p.open) : p.own[v] >= 1,
         After(p, s) \in Points, \A v \in Range(After(p, s).open) : After(p, s).own[v] >= 1
  PROVE  OpenOwned(p, s)
<1> DEFINE q == Spent(p, s)
           op == s.value.op
           k == IF IsView(s.value) THEN 0 ELSE 1
<1>1. p.open \in Seq(Variables) /\ p.own \in Tokens
  BY PointOf
<1>2. Range(p.open) \subseteq Variables
  BY <1>1 DEF Range
<1>3. CanBind(q, Dest(s)) /\ ValueRight(p, s) /\ q.open = p.open /\ q.own = Taken(p.own, Consumed(s.value))
  BY SpentIs DEF LetRight
<1>4. CASE op = "retire"
  <2>1. Consumed(s.value) = <<>>
    BY <1>4 DEF Consumed, Calls
  <2>2. \A v \in Variables : q.own[v] = p.own[v] - 0
    BY <1>3, <2>1, OccursNone DEF Taken
  <2>3. \A v \in Variables : p.own[v] \in Nat
    BY <1>1 DEF Tokens
  <2>4. ASSUME NEW v \in Range(p.open) PROVE q.own[v] # 0
    <3>1. v \in Variables /\ p.own[v] >= 1
      BY <1>2
    <3> QED
      BY <2>2, <2>3, <3>1
  <2> QED
    BY <1>2, <2>4 DEF OpenOwned
<1>5. CASE op # "retire"
  <2>1. Range(p.open) \subseteq Range(After(p, s).open)
    <3>1. After(p, s).open = IF op = "acquire" THEN Append(p.open, s.dst) ELSE p.open
      BY <1>5, AfterIs
    <3>2. CASE op = "acquire"
      <4>1. After(p, s).open = Append(p.open, s.dst)
        BY <3>1, <3>2
      <4>2. \A i \in DOMAIN p.open : i \in DOMAIN Append(p.open, s.dst) /\ Append(p.open, s.dst)[i] = p.open[i]
        BY <1>1
      <4> QED
        BY <4>1, <4>2 DEF Range
    <3>3. CASE op # "acquire"
      BY <3>1, <3>3
    <3> QED
      BY <3>2, <3>3
  <2>2. ASSUME NEW v \in Range(p.open) PROVE q.own[v] # 0
    <3>1. v \in Variables /\ v \notin Range(Dest(s)) /\ After(p, s).own[v] >= 1
      BY <1>2, <1>3, <2>1 DEF CanBind
    <3>2. After(p, s).own = Defined(q.own, Range(Dest(s)), k)
      BY AfterIs
    <3>3. After(p, s).own[v] = q.own[v]
      BY <3>1, <3>2 DEF Defined
    <3> QED
      BY <3>1, <3>3
  <2> QED
    BY <1>2, <2>2 DEF OpenOwned
<1> QED
  BY <1>4, <1>5

(* Its operands are taken.                                                 *)
LEMMA MidAtOnce ==
  ASSUME NEW p, NEW e, NEW h, NEW c, NEW x, NEW n, NEW g, NEW hd, NEW rel, NEW gr,
         Fits(p, e, h, c, x, n, g, hd, rel, gr), NEW s, LetRight(p, s)
  PROVE  Mid(p, s, ValuesOf(e, Consumed(s.value)), e, h, c, x, n, g, hd, rel, gr)
<1> DEFINE v == s.value
           q == Spent(p, s)
           os == ValuesOf(e, Consumed(v))
<1>1. /\ p \in Points /\ c \subseteq {ParamObject, EnvObject} /\ x \in Values /\ Sound(p.own, e, h, Base(c, x))
      /\ p.lent => Lent(e, c)
      /\ Handlers(p.open, p.done, p.hold, e, hd, rel, n) /\ Defects(p.own, p.pend, e, x, g, gr)
  BY DEF Fits
<1>2. q.own = Taken(p.own, Consumed(v)) /\ q.lent = (p.lent /\ s.saved = <<>>)
  BY <1>1, SpentIs
<1>3. /\ Consumed(v) \in Seq(Variables) /\ (v.op # "resume" => Named(Consumed(v))) /\ Enough(q.own)
      /\ \A b \in Range(Borrowed(v)) : MayRead(Gives(p, Consumed(v)), b)
      /\ ValueRight(p, s)
  BY DEF LetRight
<1>4. os \in Seq(Values) /\ Sound(q.own, e, h, Plus(Base(c, x), os))
  BY <1>1, <1>2, <1>3, SoundTake
<1>5. Len(os) = Len(Consumed(v))
  BY <1>3 DEF ValuesOf
<1>6. ASSUME v.op = "release" PROVE os = <<Last(hd)>>
  <2>1. v.args = <<Last(p.open)>> /\ p.open # <<>>
    BY <1>3, <1>6 DEF ValueRight
  <2>2. Consumed(v) = v.args
    BY <1>6 DEF Consumed, Calls
  <2>3. p.open \in Seq(Variables)
    BY <1>1, PointOf
  <2>4. Last(p.open) = p.open[Len(p.open)] /\ Len(p.open) \in DOMAIN p.open
    BY <2>1, <2>3 DEF Last
  <2>5. Last(hd) = hd[Len(hd)] /\ Len(hd) = Len(p.open) /\ hd[Len(p.open)] = e[p.open[Len(p.open)]]
    BY <1>1, <2>4 DEF Last, Handlers
  <2>6. os = <<e[Last(p.open)]>>
    BY <2>1, <2>2 DEF ValuesOf
  <2> QED
    BY <2>4, <2>5, <2>6
<1>7. \A b \in Range(Borrowed(v)) : q.own[b] # 0 \/ (b = Env /\ Lent(e, c))
  <2> SUFFICES ASSUME NEW b \in Range(Borrowed(v)) PROVE q.own[b] # 0 \/ (b = Env /\ Lent(e, c))
    OBVIOUS
  <2>1. MayRead(Gives(p, Consumed(v)), b)
    BY <1>3
  <2>2. Gives(p, Consumed(v)).own = q.own /\ Gives(p, Consumed(v)).lent = p.lent
    BY <1>1, <1>2, GivesIs
  <2>3. q.own[b] >= 1 \/ (b = Env /\ p.lent)
    BY <2>1, <2>2 DEF MayRead
  <2> QED
    BY <1>1, <2>3
<1>8. ASSUME v.op # "resume" PROVE Defects(q.own, p.pend, e, x, g, gr)
  <2>1. \A d \in Stashes : d \in Variables /\ Occurs(d, Consumed(v)) = 0
    BY <1>3, <1>8, NamedApart, NamesApart
  <2>2. \A d \in Variables : p.own[d] \in Nat /\ q.own[d] = p.own[d] - Occurs(d, Consumed(v))
    BY <1>1, <1>2, PointOf DEF Tokens, Taken
  <2>3. \A d \in Stashes : q.own[d] = p.own[d]
    <3> SUFFICES ASSUME NEW d \in Stashes PROVE q.own[d] = p.own[d]
      OBVIOUS
    <3>1. p.own[d] \in Nat /\ q.own[d] = p.own[d] - 0
      BY <2>1, <2>2
    <3> QED
      BY <3>1
  <2> QED
    BY <1>1, <2>3, DefectsKept
<1> HIDE DEF q, v, os
<1> QED
  BY <1>1, <1>2, <1>4, <1>5, <1>6, <1>7, <1>8 DEF Mid, q, v, os

(* What stays as it was when some variables are given new values.          *)
Keeps(p, s, vs, e, e2, c) ==
  \A v \in Variables \ Range(vs) : Spent(p, s).own[v] # 0 \/ (v = Env /\ Lent(e, c)) => e2[v] = e[v]

(* The handlers and the environment stay, if what is owned stays.          *)
LEMMA Steady ==
  ASSUME NEW p \in Points, NEW s, NEW given, NEW e, NEW h, NEW c, NEW x, NEW n, NEW g, NEW hd, NEW rel, NEW gr,
         Mid(p, s, given, e, h, c, x, n, g, hd, rel, gr), OpenOwned(p, s),
         NEW vs, CanBind(Spent(p, s), vs), NEW e2, Keeps(p, s, vs, e, e2, c)
  PROVE  Handlers(p.open, p.done, p.hold, e2, hd, rel, n) /\ (Spent(p, s).lent => Lent(e2, c))
<1> DEFINE q == Spent(p, s)
<1>1. /\ q.lent => Lent(e, c)
      /\ Handlers(p.open, p.done, p.hold, e, hd, rel, n)
  BY DEF Mid
<1>2. q.open = p.open
  BY SpentIs
<1>3. vs \in Seq(Variables \ {Env}) /\ \A v \in Range(vs) : v \notin Range(p.open)
  BY <1>2 DEF CanBind
<1>4. Env \notin Range(vs) /\ Env \in Variables
  BY <1>3, NamesApart DEF Range
<1>5. Handlers(p.open, p.done, p.hold, e2, hd, rel, n)
  <2>1. \A v \in Range(p.open) : e2[v] = e[v]
    BY <1>3 DEF OpenOwned, Keeps
  <2> QED
    BY <1>1, <2>1, HandlersKept
<1>6. q.lent => Lent(e2, c)
  BY <1>1, <1>4 DEF Lent, Keeps
<1> QED
  BY <1>5, <1>6

(* The defects stay, if what is owned stays.                               *)
LEMMA SteadyDefects ==
  ASSUME NEW p \in Points, NEW s, NEW given, NEW e, NEW h, NEW c, NEW x, NEW n, NEW g, NEW hd, NEW rel, NEW gr,
         Mid(p, s, given, e, h, c, x, n, g, hd, rel, gr), s.value.op # "resume",
         NEW vs, Named(vs), NEW e2, Keeps(p, s, vs, e, e2, c), NEW k
  PROVE  Defects(Defined(Spent(p, s).own, Range(vs), k), p.pend, e2, x, g, gr)
<1> DEFINE q == Spent(p, s)
           own2 == Defined(q.own, Range(vs), k)
<1>1. Defects(q.own, p.pend, e, x, g, gr)
  BY DEF Mid
<1>2. \A d \in Stashes : d \in Variables /\ d \notin Range(vs)
  BY NamedApart, NamesApart
<1>3. \A d \in Stashes : own2[d] = q.own[d] /\ (q.own[d] # 0 => e2[d] = e[d])
  BY <1>2 DEF Keeps, Defined
<1> HIDE DEF q, own2
<1>4. Defects(own2, p.pend, e2, x, g, gr)
  BY <1>1, <1>3, DefectsKept
<1> QED
  BY <1>4 DEF q, own2

-----------------------------------------------------------------------------
(* The suspension edge.                                                    *)

(* The caller lets the environment go (em_drop).                           *)
LEMMA DropLent ==
  ASSUME NEW own, NEW e, NEW h, NEW c, c \subseteq {ParamObject, EnvObject}, EnvObject \in c, NEW x \in Values,
         NEW os \in Seq(Values), Sound(own, e, h, Plus(Base(c, x), os))
  PROVE  Sound(own, e, Dropped(h, <<EnvObject>>), Plus(Base(c \ {EnvObject}, x), os))
<1> DEFINE L == Lends(c \ {EnvObject})
           E == <<EnvObject>>
<1>1. L \in Weights
  BY LendsType
<1>2. Lends(c) = Plus(L, E)
  BY LetGo
<1>3. E \in Seq(Values) /\ <<x>> \in Seq(Values)
  BY ObjectsNamed DEF Values
<1> HIDE DEF L, E
<1>4. Plus(L, <<x>>) \in Weights
  BY <1>1, <1>3, PlusType
<1>5. Plus(Plus(L, E), <<x>>) = Plus(Plus(L, <<x>>), E)
  BY <1>1, <1>3, PlusSwap
<1>6. Plus(Plus(Plus(L, <<x>>), E), os) = Plus(Plus(Plus(L, <<x>>), os), E)
  BY <1>3, <1>4, PlusSwap
<1>7. Plus(Plus(L, <<x>>), os) \in Weights
  BY <1>4, PlusType
<1>8. Sound(own, e, h, Plus(Plus(Plus(L, <<x>>), os), E))
  BY <1>2, <1>5, <1>6 DEF Base
<1>9. Sound(own, e, Dropped(h, E), Plus(Plus(L, <<x>>), os))
  BY <1>3, <1>7, <1>8, SoundDrop
<1> QED
  BY <1>9 DEF Base, L, E

(* A suspended let has all it needs in its frame and in flight.            *)
LEMMA MidSuspended ==
  ASSUME NEW p \in Points, NEW s, NEW given, NEW e, NEW h, NEW c, NEW x, NEW n, NEW g, NEW hd, NEW rel, NEW gr,
         Mid(p, s, given, e, h, c, x, n, g, hd, rel, gr), OpenOwned(p, s), LetRight(p, s), s.saved # <<>>,
         NEW h2, NEW c2,
         \/ h2 = h /\ c2 = c
         \/ EnvObject \in c /\ c2 = c \ {EnvObject} /\ h2 = Dropped(h, <<EnvObject>>)
  PROVE  Mid(p, s, given, [v \in Variables |-> IF v \in Head(s.saved) THEN e[v] ELSE Unbound],
             h2, c2, x, n, g, hd, rel, gr)
<1> DEFINE q == Spent(p, s)
           saved == Head(s.saved)
           e2 == [v \in Variables |-> IF v \in saved THEN e[v] ELSE Unbound]
<1>1. /\ c \subseteq {ParamObject, EnvObject} /\ x \in Values
      /\ given \in Seq(Values) /\ Len(given) = Len(Consumed(s.value))
      /\ s.value.op = "release" => given = <<Last(hd)>>
      /\ Sound(q.own, e, h, Plus(Base(c, x), given))
      /\ Handlers(p.open, p.done, p.hold, e, hd, rel, n)
      /\ s.value.op # "resume" => Defects(q.own, p.pend, e, x, g, gr)
  BY DEF Mid
<1>2. /\ \A v \in Variables : q.own[v] = IF v \in saved THEN 1 ELSE 0
      /\ Range(Borrowed(s.value)) \subseteq saved /\ saved \subseteq Variables
  BY DEF LetRight, SavedRight
<1>3. \A v \in Variables : q.own[v] # 0 => e2[v] = e[v]
  BY <1>2
<1>4. e2 \in Envs
  BY <1>1 DEF Envs, Sound
<1>5. ~q.lent
  BY SpentIs
<1> HIDE DEF e2, q, saved
<1>6. Sound(q.own, e, h2, Plus(Base(c2, x), given)) /\ c2 \subseteq {ParamObject, EnvObject}
  BY <1>1, DropLent
<1>7. Sound(q.own, e2, h2, Plus(Base(c2, x), given))
  BY <1>3, <1>4, <1>6, SoundEnv
<1>8. \A b \in Range(Borrowed(s.value)) : q.own[b] # 0
  BY <1>2
<1>9. Handlers(p.open, p.done, p.hold, e2, hd, rel, n)
  <2>1. \A v \in Range(p.open) : e2[v] = e[v]
    BY <1>3 DEF OpenOwned, q
  <2> QED
    BY <1>1, <2>1, HandlersKept
<1>10. s.value.op # "resume" => Defects(q.own, p.pend, e2, x, g, gr)
  <2>1. \A d \in Stashes : q.own[d] # 0 => e2[d] = e[d]
    BY <1>3, NamesApart
  <2> QED
    BY <1>1, <2>1, DefectsKept
<1> QED
  BY <1>1, <1>5, <1>6, <1>7, <1>8, <1>9, <1>10 DEF Mid, q, e2, saved

-----------------------------------------------------------------------------
(* What comes back.                                                        *)

(* A new object is one that was not counted.                               *)
LEMMA MadeIs ==
  ASSUME NEW h \in Heaps, NEW rs, NEW r \in Made(h, rs)
  PROVE  \E o \in Objects : h[o].count = 0 /\ r.heap = [h EXCEPT ![o] = Object(rs)] /\ r.object = o
<1>1. PICK o \in Fresh(h) : r = [heap |-> [h EXCEPT ![o] = Object(rs)], object |-> o]
  BY DEF Made
<1>2. o \in Objects /\ ~(h[o].count > 0)
  BY <1>1 DEF Fresh
<1>3. h[o].count = 0
  BY <1>2, HeapOf
<1> QED
  BY <1>1, <1>2, <1>3

(* What is in hand goes into a new object, which is in hand.               *)
LEMMA SoundMade ==
  ASSUME NEW own, NEW e, NEW h, NEW G \in Weights, NEW rs \in Seq(Values), Sound(own, e, h, Plus(G, rs)),
         NEW r \in Made(h, rs)
  PROVE  r.object \in Objects /\ Sound(own, e, r.heap, Plus(G, <<r.object>>))
<1>1. h \in Heaps
  BY DEF Sound, Exact, Counted
<1>2. PICK o \in Objects : h[o].count = 0 /\ r.heap = [h EXCEPT ![o] = Object(rs)] /\ r.object = o
  BY <1>1, MadeIs
<1>3. Sound(own, e, [h EXCEPT ![o] = Object(rs)], Plus(G, <<o>>))
  BY <1>2, SoundMake
<1> QED
  BY <1>2, <1>3

(* With what was in hand given up.                                         *)
LEMMA SoundReplaced ==
  ASSUME NEW own, NEW e, NEW h, NEW G \in Weights, NEW os \in Seq(Values), Sound(own, e, h, Plus(G, os)),
         NEW r \in Made(Dropped(h, os), <<>>)
  PROVE  r.object \in Objects /\ Sound(own, e, r.heap, Plus(G, <<r.object>>))
<1>1. Sound(own, e, Dropped(h, os), G)
  BY SoundDrop
<1>2. Plus(G, <<>>) = G /\ <<>> \in Seq(Values)
  BY PlusNone
<1>3. Sound(own, e, Dropped(h, os), Plus(G, <<>>))
  BY <1>1, <1>2
<1> QED
  BY <1>2, <1>3, SoundMade

(* What is in the second of two sequences is in both together.             *)
LEMMA InSecond ==
  ASSUME NEW U, NEW s \in Seq(U), NEW t \in Seq(U), NEW i \in DOMAIN t
  PROVE  t[i] \in Range(s \o t)
<1>1. /\ Len(s) \in Nat /\ Len(t) \in Nat /\ i \in 1..Len(t)
      /\ s \o t \in Seq(U) /\ Len(s \o t) = Len(s) + Len(t)
  OBVIOUS
<1> DEFINE j == Len(s) + i
<1>2. j \in 1..(Len(s) + Len(t)) /\ j > Len(s) /\ j - Len(s) = i
  BY <1>1
<1>3. (s \o t)[j] = t[j - Len(s)]
  BY <1>1, <1>2, ConcatProperties
<1>4. j \in DOMAIN (s \o t)
  BY <1>1, <1>2
<1> QED
  BY <1>2, <1>3, <1>4 DEF Range

(* em_array_set, in place or on a copy, leaves the array in hand.          *)
LEMMA ArraySetSound ==
  ASSUME NEW own, NEW G \in Weights, NEW a \in Objects, Sound(own, env, heap, Plus(G, <<a>>)),
         NEW x \in Values, x \in Objects => Held(own, env, G)[x] # 0, NEW r \in ArraySet(a, x)
  PROVE  r.object \in Objects /\ Sound(own, env, r.heap, Plus(G, <<r.object>>))
<1>0. <<a>> \in Seq(Values) /\ <<x>> \in Seq(Values)
  BY DEF Values
<1>1. own \in Tokens
  BY DEF Sound
<1>2. Plus(G, <<a>>) \in Weights /\ \A o \in Objects : Plus(G, <<a>>)[o] = G[o] + Occurs(o, <<a>>)
  BY <1>0, PlusType
<1>3. CASE heap[a].count = 1
  <2> DEFINE k == [Duped(Dropped([heap EXCEPT ![a].refs = <<>>], heap[a].refs), x) EXCEPT ![a].refs = <<x>>]
  <2>0. r \in {[heap |-> k, object |-> a]}
    BY <1>3 DEF ArraySet
  <2>5. r.heap = k /\ r.object = a
    <3> HIDE DEF k
    <3> QED
      BY <2>0
  <2>1. r.heap = [Duped(Dropped([heap EXCEPT ![a].refs = <<>>], heap[a].refs), x) EXCEPT ![a].refs = <<x>>]
        /\ r.object = a
    BY <2>5
  <2> HIDE DEF k
  <2>2. Plus(G, <<a>>)[a] # 0
    <3>1. Occurs(a, <<a>>) = 1 /\ G[a] \in Nat
      BY OccursOne DEF Weights
    <3> QED
      BY <1>2, <3>1
  <2>3. x \in Objects => Held(own, env, Plus(G, <<a>>))[x] # 0
    <3> SUFFICES ASSUME x \in Objects PROVE Held(own, env, Plus(G, <<a>>))[x] # 0
      OBVIOUS
    <3>1. /\ Held(own, env, Plus(G, <<a>>))[x] = VarRefs(own, env, x) + (G[x] + Occurs(x, <<a>>))
          /\ Held(own, env, G)[x] = VarRefs(own, env, x) + G[x]
      BY <1>1, <1>2, HeldType
    <3>2. VarRefs(own, env, x) \in Nat /\ G[x] \in Nat /\ Occurs(x, <<a>>) \in Nat
      BY <1>0, <1>1, VarTotal, OccursNat DEF Weights
    <3>3. Held(own, env, G)[x] # 0
      OBVIOUS
    <3> QED
      BY <3>1, <3>2, <3>3
  <2> HIDE DEF Values
  <2>4. Sound(own, env, [Duped(Dropped([heap EXCEPT ![a].refs = <<>>], heap[a].refs), x) EXCEPT ![a].refs = <<x>>], Plus(G, <<a>>))
    BY <2>2, <2>3, SoundSet
  <2> QED
    BY <2>1, <2>4
<1>4. CASE heap[a].count # 1
  <2> DEFINE h1 == Dropped(heap, <<a>>)
             h2 == Duped(h1, x)
  <2>1. r \in Made(h2, <<x>>)
    BY <1>4 DEF ArraySet
  <2>2. Sound(own, env, h1, G)
    BY <1>0, SoundDrop
  <2> HIDE DEF h1
  <2>3. Live(h1, x)
    <3>1. Counted(h1, Held(own, env, G)) /\ Held(own, env, G) \in Weights
      BY <1>1, <2>2, HeldType DEF Sound, Exact
    <3> QED
      BY <3>1, ReferredLive DEF Live, Values
  <2>4. Sound(own, env, h2, Plus(G, <<x>>))
    BY <2>2, <2>3, SoundDup
  <2> HIDE DEF h2
  <2> QED
    BY <1>0, <2>1, <2>4, SoundMade
<1> QED
  BY <1>3, <1>4

(* The heap then has the references of what comes back.                    *)
LEMMA OutcomeSound ==
  ASSUME NEW p \in Points, NEW s, LetRight(p, s),
         Mid(p, s, Given, env, heap, caller, pending, holds, grade, held, released, gravest),
         MayDefect(s.value) \/ s.value.op = "pure", NEW r \in Outcomes(s.value, s.dst)
  PROVE  /\ r.object \in Values /\ (s.value.op = "acquire" => r.object \in Objects)
         /\ s.dst = Nil => r.object = Static
         /\ Sound(Spent(p, s).own, env, r.heap, Plus(Base(caller, pending), <<r.object>>))
<1> DEFINE v == s.value
           own == Spent(p, s).own
           B == Base(caller, pending)
<1>1. /\ caller \subseteq {ParamObject, EnvObject} /\ pending \in Values
      /\ Given \in Seq(Values) /\ Len(Given) = Len(Consumed(v))
      /\ Sound(own, env, heap, Plus(B, Given))
      /\ \A b \in Range(Borrowed(v)) : own[b] # 0 \/ (b = Env /\ Lent(env, caller))
  BY DEF Mid
<1>2. ValueRight(p, s) /\ Named(Borrowed(v)) /\ v.on \in Seq(Variables) /\ v.args \in Seq(Variables)
  BY DEF LetRight
<1>3. B \in Weights /\ \A o \in caller : B[o] # 0
  BY <1>1, BaseType
<1>4. Range(Borrowed(v)) \subseteq Variables
  BY <1>2, NamedApart
<1>5. ASSUME NEW b \in Range(Borrowed(v)), NEW h, Sound(own, env, h, B)
      PROVE  env[b] \in Values /\ Live(h, env[b]) /\ (env[b] \in Objects => Held(own, env, B)[env[b]] # 0)
  <2>1. own[b] # 0 \/ (b = Env /\ Lent(env, caller) /\ B[EnvObject] # 0)
    BY <1>1, <1>3 DEF Lent
  <2> HIDE DEF own, B
  <2> QED
    BY <1>4, <1>5, <2>1, Readable
<1>6. B = Plus(B, <<Static>>) /\ Static \notin Objects
  BY <1>3, PlusNone, ObjectsNamed
<1> HIDE DEF own, B
<1>7. CASE v.op = "set"
  <2>1. s.dst # Nil /\ Len(v.args) = 2
    BY <1>2, <1>7 DEF ValueRight
  <2>2. Consumed(v) = <<Head(v.args)>> /\ Borrowed(v) = v.on \o Tail(v.args)
    BY <1>7 DEF Consumed, Borrowed, Calls
  <2>3. Len(Given) = 1
    BY <1>1, <2>2
  <2>4. PICK a \in Objects : a = Head(Given) /\ r \in ArraySet(a, env[v.args[2]])
    BY <1>7 DEF Outcomes
  <2>5. Given = <<a>>
    BY <1>1, <2>3, <2>4
  <2>6. v.args[2] \in Range(Borrowed(v))
    <3>1. Tail(v.args) \in Seq(Variables) /\ Len(Tail(v.args)) = 1 /\ Tail(v.args)[1] = v.args[2]
      BY <1>2, <2>1
    <3>2. 1 \in DOMAIN Tail(v.args)
      BY <3>1
    <3>3. Tail(v.args)[1] \in Range(v.on \o Tail(v.args))
      BY <1>2, <3>1, <3>2, InSecond
    <3> QED
      BY <2>2, <3>1, <3>3
  <2>7. Sound(own, env, Dropped(heap, Given), B)
    BY <1>1, <1>3, SoundDrop
  <2>8. env[v.args[2]] \in Values /\ (env[v.args[2]] \in Objects => Held(own, env, B)[env[v.args[2]]] # 0)
    BY <1>5, <2>6, <2>7
  <2>9. r.object \in Objects /\ Sound(own, env, r.heap, Plus(B, <<r.object>>))
    BY <1>1, <1>3, <2>4, <2>5, <2>8, ArraySetSound
  <2> QED
    BY <2>1, <2>9 DEF Values, own, B
<1>8. CASE v.op # "set" /\ s.dst = Nil
  <2>1. r.heap = Dropped(heap, Given) /\ r.object = Static
    BY <1>8 DEF Outcomes
  <2>2. Sound(own, env, Dropped(heap, Given), B)
    BY <1>1, <1>3, SoundDrop
  <2>3. v.op # "acquire"
    BY <1>2, <1>8 DEF ValueRight
  <2> QED
    BY <1>6, <2>1, <2>2, <2>3 DEF Values, own, B
<1>9. CASE v.op = "extern" /\ s.dst # Nil
  <2>1. Consumed(v) = <<>> /\ Borrowed(v) = v.on \o v.args /\ v.args # <<>>
    BY <1>2, <1>9 DEF Consumed, Borrowed, Calls, ValueRight
  <2>2. Given = <<>>
    BY <1>1, <2>1
  <2>3. Sound(own, env, heap, B)
    BY <1>1, <1>3, <2>2, PlusNone
  <2>4. \/ r \in Made(heap, <<>>)
        \/ r.heap = Duped(heap, env[Head(v.args)]) /\ r.object = env[Head(v.args)]
    BY <1>9 DEF Outcomes
  <2>5. ASSUME r \in Made(heap, <<>>)
        PROVE  r.object \in Objects /\ Sound(own, env, r.heap, Plus(B, <<r.object>>))
    BY <1>1, <1>3, <2>2, <2>5, SoundMade
  <2>6. Head(v.args) \in Range(Borrowed(v))
    <3>1. Head(v.args) = v.args[1] /\ 1 \in DOMAIN v.args
      BY <1>2, <2>1
    <3>2. v.args[1] \in Range(v.on \o v.args)
      BY <1>2, <3>1, InSecond
    <3> QED
      BY <2>1, <3>1, <3>2
  <2>7. env[Head(v.args)] \in Values /\ Live(heap, env[Head(v.args)])
    BY <1>5, <2>3, <2>6
  <2>8. Sound(own, env, Duped(heap, env[Head(v.args)]), Plus(B, <<env[Head(v.args)]>>))
    BY <2>3, <2>7, SoundDup
  <2>9. r.object \in Values /\ Sound(own, env, r.heap, Plus(B, <<r.object>>))
    BY <2>4, <2>5, <2>7, <2>8 DEF Values
  <2> QED
    BY <1>9, <2>9 DEF own, B
<1>10. CASE v.op = "acquire" /\ s.dst # Nil
  <2>1. r \in Made(Dropped(heap, Given), <<>>)
    BY <1>10 DEF Outcomes
  <2>2. r.object \in Objects /\ Sound(own, env, r.heap, Plus(B, <<r.object>>))
    BY <1>1, <1>3, <2>1, SoundReplaced
  <2> QED
    BY <1>10, <2>2 DEF Values, own, B
<1>11. CASE v.op \notin {"set", "extern", "acquire"} /\ s.dst # Nil
  <2>1. \/ r \in Made(heap, Given)
        \/ r \in Made(Dropped(heap, Given), <<>>)
        \/ Given # <<>> /\ r.heap = Dropped(heap, Tail(Given)) /\ r.object = Head(Given)
    BY <1>11 DEF Outcomes
  <2>2. ASSUME r \in Made(heap, Given)
        PROVE  r.object \in Objects /\ Sound(own, env, r.heap, Plus(B, <<r.object>>))
    BY <1>1, <1>3, <2>2, SoundMade
  <2>3. ASSUME r \in Made(Dropped(heap, Given), <<>>)
        PROVE  r.object \in Objects /\ Sound(own, env, r.heap, Plus(B, <<r.object>>))
    BY <1>1, <1>3, <2>3, SoundReplaced
  <2>4. ASSUME Given # <<>>
        PROVE  Head(Given) \in Values /\ Sound(own, env, Dropped(heap, Tail(Given)), Plus(B, <<Head(Given)>>))
    <3>1. Head(Given) \in Values /\ Tail(Given) \in Seq(Values) /\ <<Head(Given)>> \in Seq(Values)
      BY <1>1, <2>4
    <3>2. Plus(B, Given) = Plus(Plus(B, <<Head(Given)>>), Tail(Given))
      BY <1>1, <1>3, <2>4, PlusTail
    <3>3. Plus(B, <<Head(Given)>>) \in Weights
      BY <1>3, <3>1, PlusType
    <3>4. Sound(own, env, heap, Plus(Plus(B, <<Head(Given)>>), Tail(Given)))
      BY <1>1, <3>2
    <3> QED
      BY <3>1, <3>3, <3>4, SoundDrop
  <2>5. r.object \in Values /\ Sound(own, env, r.heap, Plus(B, <<r.object>>))
    BY <2>1, <2>2, <2>3, <2>4 DEF Values
  <2> QED
    BY <1>11, <2>5 DEF own, B
<1> QED
  BY <1>7, <1>8, <1>9, <1>10, <1>11

-----------------------------------------------------------------------------
(* The destination of a let is given what comes back.                      *)

(* The destination of a let, or none.                                      *)
LEMMA DestIs ==
  ASSUME NEW s
  PROVE  /\ s.dst = Nil => Dest(s) = <<>> /\ Range(Dest(s)) = {}
         /\ s.dst # Nil => Dest(s) = <<s.dst>> /\ Range(Dest(s)) = {s.dst}
<1>1. Range(<<>>) = {} /\ Range(<<s.dst>>) = {s.dst}
  BY DEF Range
<1> QED
  BY <1>1 DEF Dest

Elsewhere(e, e2, vs) == \A w \in Variables \ vs : e2[w] = e[w]

(* A reference in hand goes to a variable.                                 *)
LEMMA BindOne ==
  ASSUME NEW own, NEW e, NEW h, NEW G \in Weights, NEW o \in Values,
         Sound(own, e, h, Plus(G, One(o))), NEW v \in Variables, own[v] = 0
  PROVE  /\ Sound(Defined(own, Range(One(v)), 1), Bind(e, One(v), One(o)), h, G)
         /\ Bind(e, One(v), One(o))[v] = o /\ Elsewhere(e, Bind(e, One(v), One(o)), {v})
<1> DEFINE vs == One(v)
           os == One(o)
<1>1. vs \in Seq(Variables) /\ os \in Seq(Values) /\ Len(os) = Len(vs) /\ Range(vs) = {v} /\ 1 \in DOMAIN vs
      /\ vs[1] = v /\ os[1] = o
  BY DEF Range, One
<1>2. Distinct(vs)
  BY DEF Distinct, One
<1>4. \A w \in Range(vs) : own[w] = 0
  BY <1>1
<1> HIDE DEF vs, os
<1>3. /\ \A i \in DOMAIN vs : Bind(e, vs, os)[vs[i]] = os[i]
      /\ \A w \in Variables \ Range(vs) : Bind(e, vs, os)[w] = e[w]
  <2>1. ASSUME NEW i \in DOMAIN vs PROVE Bind(e, vs, os)[vs[i]] = os[i]
    <3>1. (CHOOSE j \in DOMAIN vs : vs[j] = vs[i]) = i
      BY <1>2 DEF Distinct
    <3>2. vs[i] \in Variables /\ vs[i] \in Range(vs)
      BY <1>1 DEF Range
    <3> QED
      BY <3>1, <3>2 DEF Bind
  <2>2. \A w \in Variables \ Range(vs) : Bind(e, vs, os)[w] = e[w]
    BY <1>1, <1>2, BoundOf
  <2> QED
    BY <2>1, <2>2
<1>5. Sound(Defined(own, Range(vs), 1), Bind(e, vs, os), h, G)
  BY <1>1, <1>2, <1>4, SoundBind DEF os
<1> QED
  BY <1>1, <1>3, <1>5 DEF vs, os, Elsewhere

(* A reference in hand goes to the destination, if there is one.           *)
LEMMA BindDest ==
  ASSUME NEW own, NEW e, NEW h, NEW G \in Weights, NEW o \in Values,
         Sound(own, e, h, Plus(G, One(o))), NEW s, \A v \in Range(Dest(s)) : v \in Variables /\ own[v] = 0, s.dst = Nil => o = Static
  PROVE  /\ Sound(Defined(own, Range(Dest(s)), 1), Bind(e, Dest(s), One(o)), h, G)
         /\ s.dst # Nil => Bind(e, Dest(s), One(o))[s.dst] = o
         /\ Elsewhere(e, Bind(e, Dest(s), One(o)), Range(Dest(s)))
<1>1. CASE s.dst = Nil
  <2>1. e \in Envs /\ own \in Tokens
    BY DEF Sound
  <2>2. Bind(e, <<>>, One(o)) = e
    BY <2>1, BindNone DEF One
  <2>3. Defined(own, {}, 1) = own
    BY <2>1 DEF Defined, Tokens
  <2>4. Plus(G, One(o)) = G
    BY <1>1, PlusNone DEF One
  <2> QED
    BY <1>1, <2>2, <2>3, <2>4, DestIs DEF Elsewhere
<1>2. CASE s.dst # Nil
  <2>1. Dest(s) = <<s.dst>> /\ Range(Dest(s)) = {s.dst} /\ s.dst \in Variables /\ own[s.dst] = 0
    BY <1>2, DestIs
  <2> DEFINE d == s.dst
  <2>2. d \in Variables /\ own[d] = 0 /\ d = s.dst
    BY <2>1
  <2> HIDE DEF d
  <2>3. /\ Sound(Defined(own, Range(One(d)), 1), Bind(e, One(d), One(o)), h, G)
        /\ Bind(e, One(d), One(o))[d] = o
        /\ Elsewhere(e, Bind(e, One(d), One(o)), {d})
    BY <2>2, BindOne
  <2>4. One(d) = Dest(s)
    BY <2>1, <2>2 DEF One
  <2> QED
    BY <1>2, <2>1, <2>2, <2>3, <2>4
<1> QED
  BY <1>1, <1>2

(* A release that came back.                                               *)
Back2(s, given, rel) == IF s.value.op = "release" THEN rel \cup Range(given) ELSE rel

(* The release of the last handler came back: it was released.             *)
LEMMA HandlersBack ==
  ASSUME NEW p \in Points, NEW s, LetRight(p, s), NEW given, NEW e, NEW hd, NEW rel, NEW n,
         Handlers(p.open, p.done, p.hold, e, hd, rel, n), s.value.op = "release" => given = <<Last(hd)>>
  PROVE  Handlers(p.open, p.done \/ s.value.op = "release", p.hold, e, hd, Back2(s, given, rel), n)
<1>1. CASE s.value.op = "release"
  <2>1. ~p.done /\ p.open # <<>>
    BY <1>1 DEF LetRight, ValueRight
  <2>2. p.open \in Seq(Variables)
    BY PointOf
  <2>3. Range(given) = {Last(hd)}
    BY <1>1 DEF Range
  <2>4. hd # <<>>
    BY <2>1, <2>2 DEF Handlers
  <2>5. rel = {}
    BY <2>1 DEF Handlers
  <2> QED
    BY <1>1, <2>1, <2>3, <2>4, <2>5 DEF Handlers, Back2
<1>2. CASE s.value.op # "release"
  BY <1>2 DEF Handlers, Back2
<1> QED
  BY <1>1, <1>2

-----------------------------------------------------------------------------
(* A value comes back.                                                     *)

Emptied(v) == [x \in Variables |-> IF InPlace(v) /\ env[x] = Head(Given) THEN Unbound ELSE env[x]]

(* An array changed in place is in no variable that is still used.         *)
LEMMA EmptiedKeeps ==
  ASSUME NEW p \in Points, NEW s, LetRight(p, s),
         Mid(p, s, Given, env, heap, caller, pending, holds, grade, held, released, gravest),
         Outcomes(s.value, s.dst) # {}
  PROVE  /\ Emptied(s.value) \in Envs
         /\ \A v \in Variables : Spent(p, s).own[v] # 0 \/ (v = Env /\ Lent(env, caller)) => Emptied(s.value)[v] = env[v]
<1> DEFINE own == Spent(p, s).own
           B == Base(caller, pending)
<1>1. /\ caller \subseteq {ParamObject, EnvObject} /\ pending \in Values
      /\ Given \in Seq(Values) /\ Len(Given) = Len(Consumed(s.value))
      /\ Sound(own, env, heap, Plus(B, Given))
  BY DEF Mid
<1>2. env \in Envs
  BY <1>1 DEF Sound
<1>3. Emptied(s.value) \in Envs
  BY <1>2 DEF Emptied, Envs
<1>4. CASE ~InPlace(s.value)
  BY <1>3, <1>4 DEF Emptied
<1>5. CASE InPlace(s.value)
  <2>1. s.value.op = "set" /\ heap[Head(Given)].count = 1
    BY <1>5 DEF InPlace
  <2>2. Head(Given) \in Objects
    BY <2>1 DEF Outcomes
  <2>3. Consumed(s.value) = <<Head(s.value.args)>>
    BY <2>1 DEF Consumed, Calls
  <2>4. Given = <<Head(Given)>>
    BY <1>1, <2>3
  <2>5. B \in Weights /\ \A o \in caller : B[o] # 0
    BY <1>1, BaseType
  <2> DEFINE a == Head(Given)
  <2>6. a \in Objects /\ Sound(own, env, heap, Plus(B, <<a>>)) /\ heap[a].count = 1
    BY <1>1, <2>1, <2>2, <2>4
  <2>60. Sound(own, env, heap, Plus(B, One(a)))
    BY <2>6 DEF One
  <2> HIDE DEF own, B, a
  <2>7. B[a] = 0 /\ \A v \in Variables : env[v] = a => own[v] = 0
    <3>1. B[a] = 0 /\ NoneOwned(own, env, a)
      BY <2>5, <2>6, <2>60, SoundAlone
    <3> QED
      BY <3>1 DEF NoneOwned
  <2>8. Lent(env, caller) => env[Env] # a
    BY <2>5, <2>7 DEF Lent
  <2>9. ASSUME NEW v \in Variables, own[v] # 0 \/ (v = Env /\ Lent(env, caller)) PROVE env[v] # a
    BY <2>7, <2>8, <2>9
  <2>10. \A v \in Variables : env[v] # a => Emptied(s.value)[v] = env[v]
    BY DEF Emptied, a
  <2> QED
    BY <1>3, <2>9, <2>10 DEF own
<1> QED
  BY <1>4, <1>5

(* What came back leaves the run as the point after the let says.          *)
LEMMA FitsReturned ==
  ASSUME NEW p \in Points, NEW s, LetRight(p, s),
         Mid(p, s, Given, env, heap, caller, pending, holds, grade, held, released, gravest),
         OpenOwned(p, s), After(p, s) \in Points,
         MayDefect(s.value) \/ s.value.op = "pure", NEW r \in Outcomes(s.value, s.dst)
  PROVE  Fits(After(p, s), Bind(Emptied(s.value), Dest(s), <<r.object>>), r.heap, caller, pending, holds, grade,
              IF s.value.op = "acquire" THEN Append(held, r.object) ELSE held,
              Back2(s, Given, released), gravest)
<1> DEFINE q == Spent(p, s)
           op == s.value.op
           o == r.object
           B == Base(caller, pending)
           e1 == Emptied(s.value)
           e2 == Bind(e1, Dest(s), <<o>>)
           hd2 == IF op = "acquire" THEN Append(held, o) ELSE held
           rel2 == Back2(s, Given, released)
           z == After(p, s)
<1>1. /\ o \in Values /\ (op = "acquire" => o \in Objects) /\ (s.dst = Nil => o = Static)
      /\ Sound(q.own, env, r.heap, Plus(B, <<o>>))
  BY OutcomeSound
<1>2. e1 \in Envs /\ \A v \in Variables : q.own[v] # 0 \/ (v = Env /\ Lent(env, caller)) => e1[v] = env[v]
  BY EmptiedKeeps
<1>3. /\ caller \subseteq {ParamObject, EnvObject} /\ pending \in Values
      /\ op = "release" => Given = <<Last(held)>>
  BY DEF Mid
<1>40. op \notin {"take", "resume", "raise", "view", "retire", "hold", "unhold"}
  BY DEF MayDefect, Calls
<1>41. CanBind(q, Dest(s)) /\ (op # "take" => Named(Dest(s))) /\ ValueRight(p, s)
  BY DEF LetRight
<1>4. CanBind(q, Dest(s)) /\ Named(Dest(s)) /\ op \notin {"take", "resume", "raise", "view", "retire", "hold", "unhold"}
      /\ ValueRight(p, s)
  BY <1>40, <1>41
<1>5. /\ z.own = Defined(q.own, Range(Dest(s)), 1) /\ z.fresh = Nil /\ z.lent = q.lent /\ z.pend = p.pend
      /\ z.open = (IF op = "acquire" THEN Append(p.open, s.dst) ELSE p.open)
      /\ z.done = (p.done \/ op = "release") /\ z.hold = p.hold
  <2>1. p.done \in BOOLEAN /\ p.pend \in BOOLEAN
    BY PointOf
  <2>2. (IF op = "release" THEN TRUE ELSE p.done) = (p.done \/ op = "release")
    BY <2>1
  <2>3. /\ z.own = Defined(q.own, Range(Dest(s)), 1) /\ z.fresh = Nil /\ z.lent = q.lent
        /\ z.open = (IF op = "acquire" THEN Append(p.open, s.dst) ELSE p.open) /\ z.hold = p.hold
    BY <1>4, AfterIs DEF IsView
  <2>4. z.pend = p.pend /\ z.done = (IF op = "release" THEN TRUE ELSE p.done)
    BY <1>4, AfterIs
  <2> HIDE DEF z, q, op
  <2> QED
    BY <2>2, <2>3, <2>4
<1> HIDE DEF q, e1, o, B, z, op
<1>60. Dest(s) \in Seq(Variables \ {Env}) /\ \A v \in Range(Dest(s)) : q.own[v] = 0
  BY <1>4 DEF CanBind
<1>61. Range(Dest(s)) \subseteq Variables \ {Env}
  BY <1>60 DEF Range
<1>6. \A v \in Range(Dest(s)) : v \in Variables /\ q.own[v] = 0
  BY <1>60, <1>61
<1>7. B \in Weights
  BY <1>3, BaseType DEF B
<1>8. Sound(q.own, e1, r.heap, Plus(B, <<o>>))
  BY <1>1, <1>2, SoundEnv
<1> DEFINE own == q.own
           h == r.heap
<1>80. own = q.own /\ h = r.heap /\ One(o) = <<o>> /\ Sound(own, e1, h, Plus(B, One(o)))
       /\ \A v \in Range(Dest(s)) : v \in Variables /\ own[v] = 0
  BY <1>6, <1>8 DEF One
<1> HIDE DEF own, h
<1>81. /\ Sound(Defined(own, Range(Dest(s)), 1), Bind(e1, Dest(s), One(o)), h, B)
       /\ s.dst # Nil => Bind(e1, Dest(s), One(o))[s.dst] = o
       /\ Elsewhere(e1, Bind(e1, Dest(s), One(o)), Range(Dest(s)))
  BY <1>1, <1>7, <1>80, BindDest
<1>9. /\ Sound(Defined(q.own, Range(Dest(s)), 1), e2, r.heap, B)
      /\ s.dst # Nil => e2[s.dst] = o
      /\ \A w \in Variables \ Range(Dest(s)) : e2[w] = e1[w]
  BY <1>80, <1>81 DEF Elsewhere
<1> HIDE DEF e2
<1>10. Keeps(p, s, Dest(s), env, e2, caller)
  BY <1>2, <1>9 DEF Keeps, q
<1>11. Handlers(p.open, p.done, p.hold, e2, held, released, holds) /\ (q.lent => Lent(e2, caller))
  BY <1>4, <1>10, Steady DEF q
<1>12. Defects(Defined(q.own, Range(Dest(s)), 1), p.pend, e2, pending, grade, gravest)
  BY <1>4, <1>10, SteadyDefects DEF q, op
<1>13. Handlers(p.open, p.done \/ op = "release", p.hold, e2, held, rel2, holds)
  BY <1>3, <1>11, HandlersBack DEF op
<1>14. Handlers(z.open, z.done, z.hold, e2, hd2, rel2, holds)
  <2>1. CASE op # "acquire"
    BY <1>5, <1>13, <2>1
  <2>2. CASE op = "acquire"
    <3>1. s.dst # Nil /\ ~p.done
      BY <1>4, <2>2 DEF ValueRight, op
    <3>2. p.open \in Seq(Variables) /\ held \in Seq(Objects) /\ Len(held) = Len(p.open)
          /\ \A i \in DOMAIN p.open : held[i] = e2[p.open[i]]
      BY <1>11, PointOf DEF Handlers
    <3>3. hd2 \in Seq(Objects) /\ Len(hd2) = Len(Append(p.open, s.dst))
      BY <1>1, <2>2, <3>2
    <3>4. ASSUME NEW i \in DOMAIN Append(p.open, s.dst) PROVE hd2[i] = e2[Append(p.open, s.dst)[i]]
      <4>0. Len(p.open) \in Nat /\ i \in 1..(Len(p.open) + 1) /\ hd2 = Append(held, o) /\ o \in Objects
        BY <1>1, <2>2, <3>2
      <4>1. CASE i = Len(p.open) + 1
        <5>1. Append(p.open, s.dst)[i] = s.dst /\ Append(held, o)[i] = o
          BY <3>2, <4>0, <4>1
        <5> QED
          BY <1>9, <3>1, <4>0, <5>1
      <4>2. CASE i # Len(p.open) + 1
        <5>1. i \in 1..Len(p.open) /\ i \in DOMAIN p.open
          BY <3>2, <4>0, <4>2
        <5>2. Append(p.open, s.dst)[i] = p.open[i] /\ Append(held, o)[i] = held[i]
          BY <3>2, <5>1
        <5> QED
          BY <3>2, <4>0, <5>1, <5>2
      <4> QED
        BY <4>1, <4>2
    <3>5. z.done = p.done /\ z.hold = p.hold /\ z.open = Append(p.open, s.dst) /\ rel2 = {} /\ holds = p.hold
      <4>1. p.done \in BOOLEAN
        BY PointOf
      <4>2. (p.done \/ op = "release") = p.done
        BY <2>2, <3>1, <4>1
      <4> HIDE DEF rel2
      <4>3. rel2 = (IF p.done \/ op = "release" THEN {Last(held)} ELSE {}) /\ holds = p.hold
        BY <1>13 DEF Handlers
      <4> QED
        BY <1>5, <2>2, <3>1, <4>2, <4>3
    <3> HIDE DEF hd2, rel2
    <3> QED
      BY <3>1, <3>3, <3>4, <3>5 DEF Handlers
  <2> QED
    BY <2>1, <2>2
<1> HIDE DEF hd2, rel2
<1>15. Fits(z, e2, r.heap, caller, pending, holds, grade, hd2, rel2, gravest)
  BY <1>3, <1>5, <1>9, <1>11, <1>12, <1>14 DEF Fits, B, z
<1> QED
  BY <1>15 DEF z, e2, e1, o, hd2, rel2, op

-----------------------------------------------------------------------------
(* A call fails, or a defect is raised.                                    *)

(* A call that failed leaves the run as the point of its landing says.     *)
LEMMA FitsFailed ==
  ASSUME NEW p \in Points, NEW s, LetRight(p, s), s.value.fail # <<>>,
         Mid(p, s, Given, env, heap, caller, pending, holds, grade, held, released, gravest),
         OpenOwned(p, s), Binds(AtLanding(p, s), <<Err>>, 1) \in Points,
         s.value.op # "resume", NEW r \in Made(Dropped(heap, Given), <<>>)
  PROVE  Fits(Binds(AtLanding(p, s), <<Err>>, 1), Bind(env, <<Err>>, <<r.object>>), r.heap, caller, pending, holds,
              grade, held, Back2(s, Given, released), gravest)
<1> DEFINE q == Spent(p, s)
           op == s.value.op
           o == r.object
           h == r.heap
           own == q.own
           B == Base(caller, pending)
           e2 == Bind(env, One(Err), One(o))
           rel2 == Back2(s, Given, released)
           z == Binds(AtLanding(p, s), <<Err>>, 1)
<1>1. /\ caller \subseteq {ParamObject, EnvObject} /\ pending \in Values /\ Given \in Seq(Values)
      /\ Sound(own, env, heap, Plus(B, Given)) /\ (op = "release" => Given = <<Last(held)>>)
  BY DEF Mid
<1>2. B \in Weights
  BY <1>1, BaseType
<1>3. CanBind(q, <<Err>>)
  BY DEF LetRight
<1>4. /\ z.own = Defined(own, Range(<<Err>>), 1) /\ z.fresh = Nil /\ z.lent = q.lent /\ z.pend = p.pend
      /\ z.open = p.open /\ z.done = (p.done \/ op = "release") /\ z.hold = p.hold
  BY FailedIs
<1>5. own[Err] = 0 /\ Err \in Variables
  <2>1. Err \in Range(<<Err>>)
    BY DEF Range
  <2> QED
    BY <1>3, <2>1, NamesApart DEF CanBind
<1> HIDE DEF B, own
<1>6. o \in Objects /\ Sound(own, env, h, Plus(B, <<o>>))
  BY <1>1, <1>2, SoundReplaced
<1> HIDE DEF o, h
<1>7. Sound(own, env, h, Plus(B, One(o))) /\ o \in Values
  BY <1>6 DEF One, Values
<1>8. /\ Sound(Defined(own, Range(One(Err)), 1), e2, h, B) /\ Elsewhere(env, e2, {Err})
  BY <1>2, <1>5, <1>7, BindOne
<1>9. One(Err) = <<Err>> /\ Range(<<Err>>) = {Err} /\ One(o) = <<o>>
  BY DEF One, Range
<1> HIDE DEF e2, q
<1>10. Keeps(p, s, <<Err>>, env, e2, caller)
  BY <1>8, <1>9 DEF Keeps, Elsewhere
<1> DEFINE vs == <<Err>>
<1>11. CanBind(Spent(p, s), vs) /\ Keeps(p, s, vs, env, e2, caller) /\ Named(vs)
  <2>1. <<Err>> \in Seq(Variables \ Stashes)
    BY NamesApart
  <2> QED
    BY <1>3, <1>10, <2>1 DEF q, Named
<1> HIDE DEF vs
<1>12. Handlers(p.open, p.done, p.hold, e2, held, released, holds) /\ (q.lent => Lent(e2, caller))
  BY <1>11, Steady DEF q
<1>13. Defects(Defined(own, Range(vs), 1), p.pend, e2, pending, grade, gravest)
  BY <1>11, SteadyDefects DEF q, own
<1>14. Handlers(p.open, p.done \/ op = "release", p.hold, e2, held, rel2, holds)
  BY <1>1, <1>12, HandlersBack
<1> HIDE DEF rel2, op, z
<1>15. Fits(z, e2, h, caller, pending, holds, grade, held, rel2, gravest)
  <2>1. z \in Points /\ Sound(z.own, e2, h, Base(caller, pending))
    BY <1>4, <1>8, <1>9 DEF z, B
  <2>2. Defects(z.own, z.pend, e2, pending, grade, gravest)
    BY <1>4, <1>13 DEF vs
  <2> QED
    BY <1>1, <1>4, <1>12, <1>14, <2>1, <2>2 DEF Fits
<1> QED
  BY <1>9, <1>15 DEF z, e2, h, o, rel2

(* A defect is raised where none is pending.                               *)
LEMMA DefectsRaise ==
  ASSUME NEW own, NEW e, NEW x, NEW g, NEW gr, Defects(own, FALSE, e, x, g, gr), NEW o \in Objects,
         NEW k \in {Interruption, IF gr = FirstDefect THEN LaterDefect ELSE FirstDefect},
         NEW g2, g2 = [g EXCEPT ![Nil] = k], NEW gr2, gr2 = IF gr = FirstDefect THEN gr ELSE k
  PROVE  Defects(own, TRUE, e, o, g2, gr2)
<1> DEFINE U == There(own, FALSE)
<1>1. U \subseteq Stashes /\ There(own, TRUE) = U \cup {Nil}
  BY DEF There
<1>2. g \in Grading /\ Chain(U, g, gr) /\ \A d \in Stashes : own[d] # 0 => e[d] \in Objects
  BY <1>1 DEF Defects
<1> HIDE DEF U
<1>3. Chain(U \cup {Nil}, g2, gr2) /\ g2 \in Grading
  BY <1>1, <1>2, ChainRaise
<1>4. o # Static
  BY ObjectsNamed
<1> QED
  BY <1>1, <1>2, <1>3, <1>4 DEF Defects

(* A call that raised leaves the run as the point of its landing says.     *)
LEMMA FitsRaised ==
  ASSUME NEW p \in Points, NEW s, LetRight(p, s), s.defect # <<>>,
         Mid(p, s, Given, env, heap, caller, pending, holds, grade, held, released, gravest),
         [AtLanding(p, s) EXCEPT !.pend = TRUE] \in Points,
         s.value.op # "resume", NEW r \in Made(Dropped(heap, Given), <<>>),
         NEW k \in {Interruption, NewDefect}
  PROVE  Fits([AtLanding(p, s) EXCEPT !.pend = TRUE], env, r.heap, caller, r.object, holds,
              [grade EXCEPT ![Nil] = k], held, Back2(s, Given, released),
              IF gravest = FirstDefect THEN gravest ELSE k)
<1> DEFINE q == Spent(p, s)
           op == s.value.op
           o == r.object
           h == r.heap
           own == q.own
           B == Base(caller, pending)
           rel2 == Back2(s, Given, released)
           g2 == [grade EXCEPT ![Nil] = k]
           gr2 == IF gravest = FirstDefect THEN gravest ELSE k
           z == [AtLanding(p, s) EXCEPT !.pend = TRUE]
<1>1. /\ caller \subseteq {ParamObject, EnvObject} /\ pending \in Values /\ Given \in Seq(Values)
      /\ Sound(own, env, heap, Plus(B, Given)) /\ (op = "release" => Given = <<Last(held)>>)
      /\ q.lent => Lent(env, caller)
      /\ Handlers(p.open, p.done, p.hold, env, held, released, holds)
      /\ Defects(own, p.pend, env, pending, grade, gravest)
  BY DEF Mid
<1>2. ~p.pend
  BY DEF LetRight
<1>3. pending = Static
  BY <1>1, <1>2 DEF Defects
<1>4. /\ z.own = own /\ z.fresh = Nil /\ z.lent = q.lent /\ z.pend = TRUE
      /\ z.open = p.open /\ z.done = (p.done \/ op = "release") /\ z.hold = p.hold
  BY RaisedIs
<1>5. B = Lends(caller) /\ B \in Weights
  BY <1>1, <1>3, BaseType
<1> HIDE DEF B, own
<1>6. o \in Objects /\ Sound(own, env, h, Plus(B, <<o>>))
  BY <1>1, <1>5, SoundReplaced
<1>7. Sound(own, env, h, Base(caller, o)) /\ o \in Values
  BY <1>5, <1>6 DEF Base, Values
<1>8. Handlers(p.open, p.done \/ op = "release", p.hold, env, held, rel2, holds)
  BY <1>1, HandlersBack
<1> HIDE DEF o, h, rel2, z, q
<1>90. p.pend = FALSE
  BY <1>2, PointOf
<1>91. Defects(own, FALSE, env, pending, grade, gravest) /\ g2 = [grade EXCEPT ![Nil] = k]
       /\ gr2 = (IF gravest = FirstDefect THEN gravest ELSE k)
       /\ k \in {Interruption, IF gravest = FirstDefect THEN LaterDefect ELSE FirstDefect}
  BY <1>1, <1>90 DEF NewDefect
<1> HIDE DEF g2, gr2
<1>9. Defects(own, TRUE, env, o, g2, gr2)
  BY ONLY <1>6, <1>91, DefectsRaise
<1>10. Fits(z, env, h, caller, o, holds, g2, held, rel2, gr2)
  BY <1>1, <1>4, <1>7, <1>8, <1>9 DEF Fits, z
<1> QED
  BY <1>10 DEF z, o, h, rel2, g2, gr2

-----------------------------------------------------------------------------
(* Values that neither fail, raise nor wait.                               *)

(* These values consume nothing.                                           *)
LEMMA NothingConsumed ==
  ASSUME NEW s, s.value.op \in {"view", "look", "div", "hold", "unhold", "retire", "raise", "take"}
  PROVE  Consumed(s.value) = <<>>
<1>1. s.value.op \notin Calls \cup {"pure", "make", "resume"} /\ s.value.op # "set"
  BY DEF Calls
<1> QED
  BY <1>1 DEF Consumed

(* No operands have no values.                                             *)
LEMMA NoValues ==
  ASSUME NEW e PROVE ValuesOf(e, <<>>) = <<>>
BY DEF ValuesOf

(* No variable is given references.                                        *)
LEMMA NothingDefined ==
  ASSUME NEW own \in Tokens, NEW k PROVE Defined(own, {}, k) = own
BY DEF Defined, Tokens

(* What holds at such a value, and after it if it has no destination.      *)
LEMMA Settled ==
  ASSUME NEW p, NEW e, NEW h, NEW c, NEW x, NEW n, NEW g, NEW hd, NEW rel, NEW gr,
         Fits(p, e, h, c, x, n, g, hd, rel, gr), NEW s, LetRight(p, s), Consumed(s.value) = <<>>
  PROVE  /\ p \in Points /\ c \subseteq {ParamObject, EnvObject} /\ x \in Values /\ Spent(p, s).own \in Tokens
         /\ Sound(Spent(p, s).own, e, h, Base(c, x))
         /\ Spent(p, s).lent => Lent(e, c)
         /\ Handlers(p.open, p.done, p.hold, e, hd, rel, n)
         /\ Defects(Spent(p, s).own, p.pend, e, x, g, gr)
         /\ Mid(p, s, <<>>, e, h, c, x, n, g, hd, rel, gr)
<1>1. Mid(p, s, ValuesOf(e, Consumed(s.value)), e, h, c, x, n, g, hd, rel, gr)
  BY MidAtOnce
<1>2. Mid(p, s, <<>>, e, h, c, x, n, g, hd, rel, gr)
  BY <1>1, NoValues
<1>3. p \in Points /\ c \subseteq {ParamObject, EnvObject} /\ x \in Values
      /\ Handlers(p.open, p.done, p.hold, e, hd, rel, n) /\ Defects(p.own, p.pend, e, x, g, gr)
  BY DEF Fits
<1>4. Base(c, x) \in Weights
  BY <1>3, BaseType
<1>5. Plus(Base(c, x), <<>>) = Base(c, x)
  BY <1>4, PlusNone
<1>6. Sound(Spent(p, s).own, e, h, Base(c, x)) /\ (Spent(p, s).lent => Lent(e, c))
  BY <1>2, <1>5 DEF Mid
<1>7. Spent(p, s).own = p.own
  <2>1. Spent(p, s).own = Taken(p.own, <<>>)
    BY <1>3, SpentIs
  <2>2. p.own \in Tokens
    BY <1>3, PointOf
  <2>3. Taken(p.own, <<>>) = p.own
    BY <2>2, OccursNone DEF Taken, Tokens
  <2> QED
    BY <2>1, <2>3
<1>8. Spent(p, s).own \in Tokens
  BY <1>6 DEF Sound
<1> QED
  BY <1>2, <1>3, <1>6, <1>7, <1>8

(* What is owned after a let without destination.                          *)
LEMMA SettledAfter ==
  ASSUME NEW p \in Points, NEW s, s.dst = Nil, s.value.op # "view", Spent(p, s).own \in Tokens
  PROVE  After(p, s).own = Spent(p, s).own /\ After(p, s).fresh = Nil /\ After(p, s).lent = Spent(p, s).lent
<1>1. Range(Dest(s)) = {}
  BY DestIs
<1>2. After(p, s).own = Defined(Spent(p, s).own, {}, 1) /\ After(p, s).fresh = Nil /\ After(p, s).lent = Spent(p, s).lent
  BY <1>1, AfterIs DEF IsView
<1> QED
  BY <1>2, NothingDefined

(* A value that is looked at or divided changes nothing.                   *)
LEMMA FitsLook ==
  ASSUME NEW p, NEW e, NEW h, NEW c, NEW x, NEW n, NEW g, NEW hd, NEW rel, NEW gr,
         Fits(p, e, h, c, x, n, g, hd, rel, gr), NEW s, LetRight(p, s), After(p, s) \in Points,
         s.value.op \in {"look", "div"}
  PROVE  Fits(After(p, s), e, h, c, x, n, g, hd, rel, gr)
<1> DEFINE q == Spent(p, s)
           z == After(p, s)
<1>1. s.dst = Nil /\ Consumed(s.value) = <<>>
  BY NothingConsumed DEF LetRight, ValueRight
<1>2. /\ p \in Points /\ c \subseteq {ParamObject, EnvObject} /\ x \in Values /\ q.own \in Tokens
      /\ Sound(q.own, e, h, Base(c, x)) /\ (q.lent => Lent(e, c))
      /\ Handlers(p.open, p.done, p.hold, e, hd, rel, n) /\ Defects(q.own, p.pend, e, x, g, gr)
  BY <1>1, Settled
<1>3. z.own = q.own /\ z.fresh = Nil /\ z.lent = q.lent
  BY <1>1, <1>2, SettledAfter
<1>4. z.pend = p.pend /\ z.open = p.open /\ z.done = p.done /\ z.hold = p.hold
  BY <1>2, AfterIs
<1> HIDE DEF q
<1> QED
  BY <1>2, <1>3, <1>4 DEF Fits

(* em_hold and em_unhold change the holds as the point says.               *)
LEMMA FitsHold ==
  ASSUME NEW p, NEW e, NEW h, NEW c, NEW x, NEW n, NEW g, NEW hd, NEW rel, NEW gr,
         Fits(p, e, h, c, x, n, g, hd, rel, gr), NEW s, LetRight(p, s), After(p, s) \in Points,
         s.value.op \in {"hold", "unhold"}
  PROVE  Fits(After(p, s), e, h, c, x, IF s.value.op = "hold" THEN n + 1 ELSE n - 1, g, hd, rel, gr)
<1> DEFINE q == Spent(p, s)
           z == After(p, s)
           n2 == IF s.value.op = "hold" THEN n + 1 ELSE n - 1
<1>1. s.dst = Nil /\ Consumed(s.value) = <<>>
  BY NothingConsumed DEF LetRight, ValueRight
<1>2. /\ p \in Points /\ c \subseteq {ParamObject, EnvObject} /\ x \in Values /\ q.own \in Tokens
      /\ Sound(q.own, e, h, Base(c, x)) /\ (q.lent => Lent(e, c))
      /\ Handlers(p.open, p.done, p.hold, e, hd, rel, n) /\ Defects(q.own, p.pend, e, x, g, gr)
  BY <1>1, Settled
<1>3. z.own = q.own /\ z.fresh = Nil /\ z.lent = q.lent
  BY <1>1, <1>2, SettledAfter
<1>4. z.pend = p.pend /\ z.open = p.open /\ z.done = p.done
      /\ z.hold = IF s.value.op = "hold" THEN p.hold + 1 ELSE p.hold - 1
  BY <1>2, AfterIs
<1>5. n = p.hold
  BY <1>2 DEF Handlers
<1>6. Handlers(z.open, z.done, z.hold, e, hd, rel, n2)
  BY <1>2, <1>4, <1>5 DEF Handlers
<1> HIDE DEF q, n2
<1>7. Fits(z, e, h, c, x, n2, g, hd, rel, gr)
  BY <1>2, <1>3, <1>4, <1>6 DEF Fits
<1> QED
  BY <1>7 DEF n2

(* A sequence without its last element.                                    *)
LEMMA FrontIs ==
  ASSUME NEW U, NEW t \in Seq(U), t # <<>>
  PROVE  /\ Front(t) \in Seq(U) /\ Len(Front(t)) = Len(t) - 1 /\ \A i \in 1..(Len(t) - 1) : Front(t)[i] = t[i]
         /\ Last(t) = t[Len(t)] /\ Len(t) \in Nat \ {0} /\ DOMAIN t = 1..Len(t) /\ DOMAIN Front(t) = 1..(Len(t) - 1)
<1>1. Len(t) \in Nat \ {0} /\ DOMAIN t = 1..Len(t)
  OBVIOUS
<1>2. Front(t) = SubSeq(t, 1, Len(t) - 1) /\ Last(t) = t[Len(t)]
  BY DEF Front, Last
<1>3. 1 \in 1..Len(t) + 1 /\ Len(t) - 1 \in 0..Len(t) /\ Len(t) - 1 \in Nat
  BY <1>1
<1>4. SubSeq(t, 1, Len(t) - 1) \in Seq(U) /\ Len(SubSeq(t, 1, Len(t) - 1)) = Len(t) - 1
      /\ \A i \in 1..(Len(t) - 1) : SubSeq(t, 1, Len(t) - 1)[i] = t[i]
  BY <1>1
<1> QED
  BY <1>1, <1>2, <1>4

(* em_retire retires the last handler, which is the open one of the point. *)
LEMMA FitsRetire ==
  ASSUME NEW p, NEW e, NEW h, NEW c, NEW x, NEW n, NEW g, NEW hd, NEW rel, NEW gr,
         Fits(p, e, h, c, x, n, g, hd, rel, gr), NEW s, LetRight(p, s), After(p, s) \in Points,
         s.value.op = "retire"
  PROVE  /\ hd # <<>> /\ e[Head(s.value.args)] = Last(hd)
         /\ Fits(After(p, s), e, h, c, x, n, g, Front(hd), rel \ {e[Head(s.value.args)]}, gr)
<1> DEFINE q == Spent(p, s)
           z == After(p, s)
           hd2 == Front(hd)
           rel2 == rel \ {e[Head(s.value.args)]}
<1>1. s.dst = Nil /\ Consumed(s.value) = <<>> /\ p.open # <<>> /\ s.value.args = <<Last(p.open)>>
  BY NothingConsumed DEF LetRight, ValueRight
<1>2. /\ p \in Points /\ c \subseteq {ParamObject, EnvObject} /\ x \in Values /\ q.own \in Tokens
      /\ Sound(q.own, e, h, Base(c, x)) /\ (q.lent => Lent(e, c))
      /\ Handlers(p.open, p.done, p.hold, e, hd, rel, n) /\ Defects(q.own, p.pend, e, x, g, gr)
  BY <1>1, Settled
<1>3. z.own = q.own /\ z.fresh = Nil /\ z.lent = q.lent
  BY <1>1, <1>2, SettledAfter
<1>4. z.pend = p.pend /\ z.open = Front(p.open) /\ z.done = FALSE /\ z.hold = p.hold
  BY <1>2, AfterIs, ZenonT(60)
<1>5. /\ p.open \in Seq(Variables) /\ hd \in Seq(Objects) /\ Len(hd) = Len(p.open)
      /\ \A i \in DOMAIN p.open : hd[i] = e[p.open[i]]
      /\ rel = IF p.done THEN {Last(hd)} ELSE {}
      /\ n = p.hold
  BY <1>2, PointOf DEF Handlers
<1> DEFINE op == p.open
           m == Len(hd)
<1>6. hd # <<>>
  BY <1>1, <1>5
<1> HIDE DEF op
<1>7. op \in Seq(Variables) /\ op # <<>>
  BY <1>1, <1>5 DEF op
<1>8. /\ Front(op) \in Seq(Variables) /\ Len(Front(op)) = Len(op) - 1 /\ \A i \in 1..(Len(op) - 1) : Front(op)[i] = op[i]
      /\ Last(op) = op[Len(op)] /\ Len(op) \in Nat \ {0} /\ DOMAIN op = 1..Len(op) /\ DOMAIN Front(op) = 1..(Len(op) - 1)
  BY <1>7, FrontIs
<1>9. /\ Front(hd) \in Seq(Objects) /\ Len(Front(hd)) = Len(hd) - 1 /\ \A i \in 1..(Len(hd) - 1) : Front(hd)[i] = hd[i]
      /\ Last(hd) = hd[Len(hd)]
  BY <1>5, <1>6, FrontIs
<1>10. Head(s.value.args) = Last(op)
  BY <1>1 DEF op
<1>11. e[Last(op)] = Last(hd)
  BY <1>5, <1>8, <1>9 DEF op
<1>12. rel2 = {}
  BY <1>5, <1>10, <1>11
<1>13. ASSUME NEW i \in DOMAIN Front(op) PROVE hd2[i] = e[Front(op)[i]]
  BY <1>5, <1>8, <1>9, SMTT(30) DEF op
<1>14. Handlers(Front(op), FALSE, p.hold, e, hd2, rel2, n)
  BY <1>5, <1>8, <1>9, <1>12, <1>13 DEF Handlers, op
<1> HIDE DEF q, hd2, rel2
<1>15. Fits(z, e, h, c, x, n, g, hd2, rel2, gr)
  BY <1>2, <1>3, <1>4, <1>14 DEF Fits, op
<1> QED
  BY <1>6, <1>10, <1>11, <1>15 DEF hd2, rel2

(* What is borrowed is there.                                              *)
LEMMA BorrowedLive ==
  ASSUME NEW p \in Points, NEW s, NEW given, NEW e, NEW h, NEW c, NEW x, NEW n, NEW g, NEW hd, NEW rel, NEW gr,
         Mid(p, s, given, e, h, c, x, n, g, hd, rel, gr), LetRight(p, s), NEW b \in Range(Borrowed(s.value))
  PROVE  b \in Variables /\ e[b] \in Values /\ Live(h, e[b])
<1> DEFINE own == Spent(p, s).own
           G == Plus(Base(c, x), given)
<1>1. b \in Variables
  <2>1. Named(Borrowed(s.value))
    BY DEF LetRight
  <2>2. Range(Borrowed(s.value)) \subseteq Variables
    BY <2>1, NamedApart
  <2> QED
    BY <2>2
<1>2. /\ c \subseteq {ParamObject, EnvObject} /\ x \in Values /\ given \in Seq(Values) /\ Sound(own, e, h, G)
      /\ own[b] # 0 \/ (b = Env /\ Lent(e, c))
  BY DEF Mid
<1>3. Lent(e, c) => G[EnvObject] # 0
  BY <1>2, BaseIn DEF Lent
<1> HIDE DEF own, G
<1> QED
  BY <1>1, <1>2, <1>3, Readable

(* em_raise.                                                               *)
RaisedBy(message, h) ==
  IF message = {} THEN Made(h, <<>>) ELSE {[heap |-> Duped(h, o), object |-> o] : o \in message}

MessageOf(e, s) == {e[v] : v \in Range(s.value.args)} \cap Objects
GradeAfter(gr) == IF gr = FirstDefect THEN LaterDefect ELSE FirstDefect
PendingGrade(g, k) == [g EXCEPT ![Nil] = k]
GravestWith(gr, k) == IF gr = FirstDefect THEN gr ELSE k

(* em_raise leaves the run as the point after it says.                     *)
LEMMA FitsRaise ==
  ASSUME NEW p, NEW e, NEW h, NEW c, NEW x, NEW n, NEW g, NEW hd, NEW rel, NEW gr,
         Fits(p, e, h, c, x, n, g, hd, rel, gr), NEW s, LetRight(p, s), After(p, s) \in Points,
         s.value.op = "raise", NEW r, r \in RaisedBy(MessageOf(e, s), h)
  PROVE  Fits(After(p, s), e, r.heap, c, r.object, n, PendingGrade(g, GradeAfter(gr)), hd, rel,
              GravestWith(gr, GradeAfter(gr)))
<1> DEFINE message == {e[v] : v \in Range(s.value.args)} \cap Objects
           k == IF gr = FirstDefect THEN LaterDefect ELSE FirstDefect
           g2 == [g EXCEPT ![Nil] = k]
           gr2 == IF gr = FirstDefect THEN gr ELSE k
<1>0. /\ r \in RaisedBy(message, h) /\ PendingGrade(g, GradeAfter(gr)) = g2
      /\ GravestWith(gr, GradeAfter(gr)) = gr2
  BY DEF MessageOf, GradeAfter, PendingGrade, GravestWith
<1>01. g2 = [g EXCEPT ![Nil] = k] /\ gr2 = IF gr = FirstDefect THEN gr ELSE k
  OBVIOUS
<1>02. k = IF gr = FirstDefect THEN LaterDefect ELSE FirstDefect
  OBVIOUS
<1> HIDE DEF k, g2, gr2
<1> DEFINE q == Spent(p, s)
           own == q.own
           z == After(p, s)
           o == r.object
           B == Base(c, x)
<1>1. s.dst = Nil /\ Consumed(s.value) = <<>> /\ ~p.pend
  BY NothingConsumed DEF LetRight, ValueRight
<1>2. /\ p \in Points /\ c \subseteq {ParamObject, EnvObject} /\ x \in Values /\ own \in Tokens
      /\ Sound(own, e, h, B) /\ (q.lent => Lent(e, c))
      /\ Handlers(p.open, p.done, p.hold, e, hd, rel, n) /\ Defects(own, p.pend, e, x, g, gr)
      /\ Mid(p, s, <<>>, e, h, c, x, n, g, hd, rel, gr)
  BY <1>1, Settled
<1>3. z.own = own /\ z.fresh = Nil /\ z.lent = q.lent
  BY <1>1, <1>2, SettledAfter
<1>4. z.pend = TRUE /\ z.open = p.open /\ z.done = p.done /\ z.hold = p.hold
  BY <1>2, AfterIs, ZenonT(60)
<1>5. p.pend = FALSE /\ x = Static
  BY <1>1, <1>2, PointOf DEF Defects
<1>6. B = Lends(c) /\ B \in Weights /\ Plus(B, <<>>) = B
  BY <1>2, <1>5, BaseType, PlusNone
<1>7. o \in Objects /\ Sound(own, e, r.heap, Plus(B, <<o>>))
  <2>1. CASE message = {}
    <3>1. r \in Made(h, <<>>)
      BY <1>0, <2>1 DEF RaisedBy
    <3> DEFINE rs == <<>>
    <3>2. rs \in Seq(Values) /\ Sound(own, e, h, Plus(B, rs)) /\ r \in Made(h, rs)
      BY <1>2, <1>6, <3>1
    <3> HIDE DEF rs, own, B
    <3> QED
      BY <1>6, <3>2, SoundMade
  <2>2. CASE message # {}
    <3>1. o \in message /\ r.heap = Duped(h, o)
      BY <1>0, <2>2 DEF RaisedBy
    <3>2. PICK v \in Range(s.value.args) : o = e[v]
      BY <3>1
    <3>3. v \in Range(Borrowed(s.value))
      <4>1. Borrowed(s.value) = s.value.on \o s.value.args
        BY DEF Borrowed
      <4>2. s.value.on \in Seq(Variables) /\ s.value.args \in Seq(Variables)
        BY DEF LetRight
      <4>3. PICK i \in DOMAIN s.value.args : v = s.value.args[i]
        BY DEF Range
      <4> QED
        BY <4>1, <4>2, <4>3, InSecond
    <3>4. Live(h, o) /\ o \in Values
      BY <1>2, <3>2, <3>3, BorrowedLive
    <3> HIDE DEF own, B, o
    <3>5. Sound(own, e, Duped(h, o), Plus(B, <<o>>))
      BY <1>2, <3>4, SoundDup
    <3> QED
      BY <3>1, <3>5
  <2> QED
    BY <2>1, <2>2
<1>8. Sound(own, e, r.heap, Base(c, o)) /\ o \in Values
  BY <1>6, <1>7 DEF Base, Values
<1>9. Defects(own, FALSE, e, x, g, gr) /\ k \in {Interruption, IF gr = FirstDefect THEN LaterDefect ELSE FirstDefect}
  BY <1>02, <1>2, <1>5
<1> HIDE DEF own, o, q
<1>10. Defects(own, TRUE, e, o, g2, gr2)
  BY ONLY <1>7, <1>9, DefectsRaise, <1>01
<1>11. Fits(z, e, r.heap, c, o, n, g2, hd, rel, gr2)
  BY <1>2, <1>3, <1>4, <1>8, <1>10 DEF Fits
<1> QED
  BY <1>0, <1>11 DEF o

-----------------------------------------------------------------------------
(* A destination is given a reference, and all else stays.                 *)
LEMMA BoundDest ==
  ASSUME NEW p \in Points, NEW s, NEW given, NEW e, NEW h, NEW c, NEW x, NEW n, NEW g, NEW hd, NEW rel, NEW gr,
         Mid(p, s, given, e, h, c, x, n, g, hd, rel, gr), LetRight(p, s), OpenOwned(p, s),
         s.value.op \notin {"resume", "take"}, NEW h2, NEW o \in Values, s.dst = Nil => o = Static,
         Sound(Spent(p, s).own, e, h2, Plus(Base(c, x), One(o)))
  PROVE  LET e2 == Bind(e, Dest(s), One(o))
             own2 == Defined(Spent(p, s).own, Range(Dest(s)), 1)
         IN  /\ Sound(own2, e2, h2, Base(c, x)) /\ (Spent(p, s).lent => Lent(e2, c))
             /\ Handlers(p.open, p.done, p.hold, e2, hd, rel, n) /\ Defects(own2, p.pend, e2, x, g, gr)
<1> DEFINE e2 == Bind(e, Dest(s), One(o))
           own == Spent(p, s).own
           B == Base(c, x)
           vs == Dest(s)
<1>1. CanBind(Spent(p, s), vs) /\ Named(vs)
  BY DEF LetRight
<1>2. \A v \in Range(vs) : v \in Variables /\ own[v] = 0
  <2>1. vs \in Seq(Variables \ {Env}) /\ \A v \in Range(vs) : own[v] = 0
    BY <1>1 DEF CanBind
  <2>2. Range(vs) \subseteq Variables \ {Env}
    BY <2>1 DEF Range
  <2> QED
    BY <2>1, <2>2
<1>3. c \subseteq {ParamObject, EnvObject} /\ x \in Values
  BY DEF Mid
<1>4. B \in Weights
  BY <1>3, BaseType
<1> HIDE DEF own, B
<1>5. Sound(own, e, h2, Plus(B, One(o)))
  BY DEF own, B
<1>6. Sound(Defined(own, Range(vs), 1), e2, h2, B) /\ Elsewhere(e, e2, Range(vs))
  BY <1>2, <1>4, <1>5, BindDest
<1> HIDE DEF e2, vs
<1>7. Keeps(p, s, vs, e, e2, c)
  BY <1>6 DEF Keeps, Elsewhere
<1>8. Handlers(p.open, p.done, p.hold, e2, hd, rel, n) /\ (Spent(p, s).lent => Lent(e2, c))
  BY <1>1, <1>7, Steady
<1>9. Defects(Defined(own, Range(vs), 1), p.pend, e2, x, g, gr)
  BY <1>1, <1>7, SteadyDefects DEF own
<1> QED
  BY <1>6, <1>8, <1>9 DEF own, B, vs, e2

(* A new object leaves the run as the point after it says.                 *)
LEMMA FitsMake ==
  ASSUME NEW p, NEW e, NEW h, NEW c, NEW x, NEW n, NEW g, NEW hd, NEW rel, NEW gr,
         Fits(p, e, h, c, x, n, g, hd, rel, gr), NEW s, LetRight(p, s), After(p, s) \in Points, OpenOwned(p, s),
         s.value.op = "make", NEW r \in Made(h, ValuesOf(e, s.value.args))
  PROVE  Fits(After(p, s), Bind(e, Dest(s), <<r.object>>), r.heap, c, x, n, g, hd, rel, gr)
<1> DEFINE q == Spent(p, s)
           own == q.own
           z == After(p, s)
           o == r.object
           h2 == r.heap
           B == Base(c, x)
           os == ValuesOf(e, s.value.args)
           e2 == Bind(e, Dest(s), One(o))
           own2 == Defined(own, Range(Dest(s)), 1)
<1>1. s.dst # Nil /\ Consumed(s.value) = s.value.args /\ s.value.op \notin {"resume", "take"}
  BY DEF LetRight, ValueRight, Consumed
<1>2. Mid(p, s, os, e, h, c, x, n, g, hd, rel, gr)
  BY <1>1, MidAtOnce
<1>3. p \in Points
  BY DEF Fits
<1>4. c \subseteq {ParamObject, EnvObject} /\ x \in Values /\ os \in Seq(Values) /\ Sound(own, e, h, Plus(B, os))
  BY <1>2 DEF Mid
<1>5. B \in Weights
  BY <1>4, BaseType
<1> HIDE DEF own, B, os
<1>6. r \in Made(h, os)
  BY DEF os
<1>7. o \in Objects /\ Sound(own, e, h2, Plus(B, <<o>>))
  BY <1>4, <1>5, <1>6, SoundMade
<1> HIDE DEF o, h2
<1>8. o \in Values /\ Sound(Spent(p, s).own, e, h2, Plus(Base(c, x), One(o)))
  BY <1>7 DEF Values, One, own, B
<1>9. /\ Sound(own2, e2, h2, B) /\ (q.lent => Lent(e2, c))
      /\ Handlers(p.open, p.done, p.hold, e2, hd, rel, n) /\ Defects(own2, p.pend, e2, x, g, gr)
  BY <1>1, <1>2, <1>3, <1>8, BoundDest DEF own, B
<1>10. /\ z.own = own2 /\ z.fresh = Nil /\ z.lent = q.lent
       /\ z.pend = p.pend /\ z.open = p.open /\ z.done = p.done /\ z.hold = p.hold
  BY <1>3, AfterIs DEF IsView, own
<1> HIDE DEF q, e2, own2
<1>11. Fits(z, e2, h2, c, x, n, g, hd, rel, gr)
  BY <1>4, <1>9, <1>10 DEF Fits, B
<1> QED
  BY <1>11 DEF e2, h2, o, One

(* A part that is looked at is there until what it is a part of is         *)
(* dropped.                                                                *)
LEMMA FitsView ==
  ASSUME NEW p, NEW e, NEW h, NEW c, NEW x, NEW n, NEW g, NEW hd, NEW rel, NEW gr,
         Fits(p, e, h, c, x, n, g, hd, rel, gr), NEW s, LetRight(p, s), After(p, s) \in Points, OpenOwned(p, s),
         s.value.op = "view", NEW base, base = e[Head(s.value.args)],
         NEW o, o = IF base \in Objects /\ h[base].refs # <<>> THEN Head(h[base].refs) ELSE Static
  PROVE  Fits(After(p, s), Bind(e, Dest(s), <<o>>), h, c, x, n, g, hd, rel, gr)
<1> DEFINE q == Spent(p, s)
           own == q.own
           z == After(p, s)
           B == Base(c, x)
           vs == Dest(s)
           e2 == Bind(e, vs, <<o>>)
<1>1. Consumed(s.value) = <<>> /\ s.value.args # <<>>
  BY NothingConsumed DEF LetRight, ValueRight
<1>2. /\ p \in Points /\ c \subseteq {ParamObject, EnvObject} /\ x \in Values /\ own \in Tokens
      /\ Sound(own, e, h, B) /\ (q.lent => Lent(e, c))
      /\ Handlers(p.open, p.done, p.hold, e, hd, rel, n) /\ Defects(own, p.pend, e, x, g, gr)
      /\ Mid(p, s, <<>>, e, h, c, x, n, g, hd, rel, gr)
  BY <1>1, Settled
<1>3. CanBind(q, vs) /\ Named(vs)
  BY DEF LetRight
<1>4. /\ \A v \in Range(vs) : v \in Variables /\ own[v] = 0
      /\ vs \in Seq(Variables) /\ Distinct(vs)
  <2>1. vs \in Seq(Variables \ {Env}) /\ Distinct(vs) /\ \A v \in Range(vs) : own[v] = 0
    BY <1>3 DEF CanBind
  <2>2. Range(vs) \subseteq Variables \ {Env} /\ vs \in Seq(Variables)
    BY <2>1 DEF Range
  <2> QED
    BY <2>1, <2>2
<1>5. o \in Values /\ Live(h, o)
  <2>1. CASE base \in Objects /\ h[base].refs # <<>>
    <3> DEFINE X == Held(own, e, B)
    <3>1. X \in Weights /\ Counted(h, X)
      BY <1>2, HeldType DEF Sound, Exact
    <3> HIDE DEF X
    <3> QED
      BY <2>1, <3>1, PartLive
  <2>2. CASE ~(base \in Objects /\ h[base].refs # <<>>)
    BY <2>2 DEF Live, Values
  <2> QED
    BY <2>1, <2>2
<1>6. /\ s.dst # Nil => e2[s.dst] = o
      /\ Elsewhere(e, e2, Range(vs)) /\ e2 \in Envs
  <2>0. e \in Envs
    BY <1>2 DEF Sound
  <2>1. CASE s.dst = Nil
    <3>1. e2 = e
      BY <2>0, <2>1, DestIs, BindNone
    <3> QED
      BY <2>0, <2>1, <3>1 DEF Elsewhere
  <2>2. CASE s.dst # Nil
    <3>1. vs = <<s.dst>> /\ Range(vs) = {s.dst}
      BY <2>2, DestIs
    <3> DEFINE os == <<o>>
    <3>2. os \in Seq(Objects \cup {Static, Unbound}) /\ Len(os) = Len(vs) /\ 1 \in DOMAIN vs /\ vs[1] = s.dst /\ os[1] = o
      <4>1. o \in Objects \cup {Static, Unbound}
        BY <1>5 DEF Values
      <4>2. os \in Seq(Objects \cup {Static, Unbound}) /\ Len(os) = 1 /\ os[1] = o
        BY ONLY <4>1
      <4>3. Len(vs) = 1 /\ 1 \in DOMAIN vs /\ vs[1] = s.dst
        BY <3>1
      <4> QED
        BY <4>2, <4>3
    <3> HIDE DEF os, vs
    <3>3. Bind(e, vs, os) \in Envs
      BY <1>4, <2>0, <3>2, BindType
    <3>4. \A v \in Variables \ Range(vs) : Bind(e, vs, os)[v] = e[v]
      BY <1>4, BoundOf
    <3>5. Bind(e, vs, os)[s.dst] = o
      <4>1. s.dst \in Variables /\ s.dst \in Range(vs)
        BY <1>4, <3>1
      <4>2. (CHOOSE i \in DOMAIN vs : vs[i] = s.dst) = 1
        BY <1>4, <3>1, <3>2
      <4> QED
        BY <3>2, <4>1, <4>2 DEF Bind
    <3> QED
      BY <3>3, <3>4, <3>5 DEF Elsewhere, os
  <2> QED
    BY <2>1, <2>2
<1> HIDE DEF e2, vs, own
<1>7. Keeps(p, s, vs, e, e2, c)
  BY <1>6 DEF Keeps, Elsewhere
<1>8. Handlers(p.open, p.done, p.hold, e2, hd, rel, n) /\ (q.lent => Lent(e2, c))
  BY <1>2, <1>3, <1>7, Steady
<1>9. Defects(Defined(own, Range(vs), 0), p.pend, e2, x, g, gr)
  BY <1>2, <1>3, <1>7, SteadyDefects DEF own
<1>10. Sound(own, e2, h, B)
  <2>1. \A v \in Variables : own[v] # 0 => e2[v] = e[v]
    BY <1>4, <1>6 DEF Elsewhere
  <2> QED
    BY <1>2, <1>6, <2>1, SoundEnv
<1>11. Defined(own, Range(vs), 0) = own
  BY <1>2, <1>4 DEF Defined, Tokens
<1>12. /\ z.own = own /\ z.fresh = s.dst /\ z.lent = q.lent
       /\ z.pend = p.pend /\ z.open = p.open /\ z.done = p.done /\ z.hold = p.hold
  BY <1>2, <1>11, AfterIs, ZenonT(60) DEF IsView, own, vs
<1> HIDE DEF q
<1>13. Fits(z, e2, h, c, x, n, g, hd, rel, gr)
  BY <1>2, <1>5, <1>6, <1>8, <1>9, <1>10, <1>11, <1>12 DEF Fits
<1> QED
  BY <1>13 DEF e2, vs

-----------------------------------------------------------------------------
(* em_defect_take.                                                         *)
LEMMA DefectsTake ==
  ASSUME NEW own \in Tokens, NEW e, NEW x \in Values, NEW g, NEW gr, Defects(own, TRUE, e, x, g, gr),
         NEW d \in Stashes, own[d] = 0, \A v \in Stashes : own[v] > 0 => d <= v,
         NEW e2, Elsewhere(e, e2, {d}), e2[d] = x,
         NEW g2, g2 = [g EXCEPT ![d] = g[Nil], ![Nil] = NoDefect]
  PROVE  Defects(Defined(own, {d}, 1), FALSE, e2, Static, g2, gr)
<1> DEFINE U == There(own, FALSE)
           own2 == Defined(own, {d}, 1)
<1>1. U \subseteq Stashes /\ There(own, TRUE) = U \cup {Nil} /\ U = {v \in Stashes : own[v] # 0}
  BY DEF There
<1>2. /\ g \in Grading /\ Chain(U \cup {Nil}, g, gr) /\ x # Static
      /\ \A v \in Stashes : own[v] # 0 => e[v] \in Objects
  BY <1>1 DEF Defects
<1>3. \A v \in Variables : own2[v] = IF v = d THEN 1 ELSE own[v]
  BY DEF Defined
<1>4. Stashes \subseteq Variables /\ Stashes \subseteq Int
  BY NamesApart
<1>5. There(own2, FALSE) = U \cup {d}
  BY <1>1, <1>3, <1>4 DEF There
<1>6. \A u \in U : d < u
  <2> SUFFICES ASSUME NEW u \in U PROVE d < u
    OBVIOUS
  <2>1. u \in Stashes /\ own[u] # 0 /\ own[u] \in Nat
    BY <1>1, <1>4 DEF Tokens
  <2>2. d <= u /\ u # d
    BY <2>1
  <2> QED
    BY <1>4, <2>1, <2>2
<1> HIDE DEF U, own2
<1>7. Chain(U \cup {d}, g2, gr) /\ g2 \in Grading
  BY <1>1, <1>2, <1>6, ChainTake
<1>8. \A v \in Stashes : own2[v] # 0 => e2[v] \in Objects
  BY <1>2, <1>3, <1>4 DEF Elsewhere, Values
<1>9. Defects(own2, FALSE, e2, Static, g2, gr)
  BY <1>5, <1>7, <1>8 DEF Defects
<1> QED
  BY <1>9 DEF own2

(* em_defect_take leaves the run as the point after it says.               *)
LEMMA FitsTake ==
  ASSUME NEW p, NEW e, NEW h, NEW c, NEW x, NEW n, NEW g, NEW hd, NEW rel, NEW gr,
         Fits(p, e, h, c, x, n, g, hd, rel, gr), NEW s, LetRight(p, s), After(p, s) \in Points, OpenOwned(p, s),
         s.value.op = "take", NEW g2, g2 = [g EXCEPT ![s.dst] = g[Nil], ![Nil] = NoDefect]
  PROVE  Fits(After(p, s), Bind(e, Dest(s), <<x>>), h, c, Static, n, g2, hd, rel, gr)
<1> DEFINE q == Spent(p, s)
           own == q.own
           z == After(p, s)
           d == s.dst
           B == Lends(c)
           vs == Dest(s)
           e2 == Bind(e, One(d), One(x))
           own2 == Defined(own, {d}, 1)
<1>1. Consumed(s.value) = <<>> /\ d \in Stashes /\ Innermost(p, d) /\ p.pend
  BY NothingConsumed DEF LetRight, ValueRight
<1>2. /\ p \in Points /\ c \subseteq {ParamObject, EnvObject} /\ x \in Values /\ own \in Tokens
      /\ Sound(own, e, h, Base(c, x)) /\ (q.lent => Lent(e, c))
      /\ Handlers(p.open, p.done, p.hold, e, hd, rel, n) /\ Defects(own, p.pend, e, x, g, gr)
      /\ Mid(p, s, <<>>, e, h, c, x, n, g, hd, rel, gr)
  BY <1>1, Settled
<1>3. d \in Variables /\ d # Nil
  BY <1>1, NamesApart
<1>4. vs = <<d>> /\ Range(vs) = {d} /\ One(d) = <<d>> /\ One(x) = <<x>>
  BY <1>3, DestIs DEF One
<1>5. CanBind(q, vs)
  BY DEF LetRight
<1>6. own[d] = 0
  BY <1>4, <1>5 DEF CanBind
<1>7. own = p.own
  <2>1. p.own \in Tokens
    BY <1>2, PointOf
  <2>2. own = Taken(p.own, <<>>)
    BY <1>1, <1>2, SpentIs
  <2> QED
    BY <2>1, <2>2, OccursNone DEF Taken, Tokens
<1>8. \A v \in Stashes : own[v] > 0 => d <= v
  BY <1>1, <1>7 DEF Innermost
<1>9. B \in Weights /\ Base(c, Static) = B /\ Sound(own, e, h, Plus(B, One(x)))
  BY <1>2, <1>4, LendsType, BaseType
<1>10. p.pend = TRUE
  BY <1>1, <1>2, PointOf
<1> HIDE DEF q, own, vs, B, d
<1>11. Sound(Defined(own, Range(One(d)), 1), e2, h, B) /\ e2[d] = x /\ Elsewhere(e, e2, {d})
  BY <1>2, <1>3, <1>6, <1>9, BindOne, SMTT(30)
<1> HIDE DEF e2
<1>12. Defects(own, TRUE, e, x, g, gr) /\ g2 = [g EXCEPT ![d] = g[Nil], ![Nil] = NoDefect]
  BY <1>2, <1>10 DEF d
<1>13. Defects(own2, FALSE, e2, Static, g2, gr)
  BY ONLY <1>1, <1>2, <1>6, <1>8, <1>11, <1>12, DefectsTake
<1>14. Keeps(p, s, vs, e, e2, c)
  BY <1>4, <1>11 DEF Keeps, Elsewhere
<1>15. Handlers(p.open, p.done, p.hold, e2, hd, rel, n) /\ (q.lent => Lent(e2, c))
  BY <1>2, <1>5, <1>14, Steady DEF q
<1>16. /\ z.own = own2 /\ z.fresh = Nil /\ z.lent = q.lent
       /\ z.pend = FALSE /\ z.open = p.open /\ z.done = p.done /\ z.hold = p.hold
  BY <1>2, <1>4, AfterIs, ZenonT(60) DEF IsView, own, vs, q
<1> HIDE DEF own2
<1>17. Sound(z.own, e2, h, Base(c, Static)) /\ Static \in Values
  BY <1>4, <1>9, <1>11, <1>16 DEF own2, Values
<1>18. Fits(z, e2, h, c, Static, n, g2, hd, rel, gr)
  BY <1>2, <1>13, <1>15, <1>16, <1>17 DEF Fits
<1> QED
  BY <1>4, <1>18 DEF e2, vs

-----------------------------------------------------------------------------
(* em_defect_resume.                                                       *)
InnerOf(own, d) == \A v \in Stashes : own[v] > 0 => d <= v
Regraded(g, y) == [g EXCEPT ![Nil] = g[y]]
GivesWay(y, pend, g, d) ==
  IF y = Nil THEN pend /\ g[d] = Interruption ELSE pend => g[d] # Interruption

(* The innermost defect that was taken is pending again, or gives way.     *)
LEMMA DefectsResume ==
  ASSUME NEW own \in Tokens, NEW pend \in BOOLEAN, NEW e, NEW x, NEW g, NEW gr, Defects(own, pend, e, x, g, gr),
         NEW d \in Stashes, own[d] = 1, InnerOf(own, d),
         NEW own2, own2 = Taken(own, One(d)), NEW y \in {d, Nil}, GivesWay(y, pend, g, d),
         NEW o \in Objects
  PROVE  Defects(own2, TRUE, e, o, Regraded(g, y), gr)
<1> DEFINE U == There(own2, FALSE)
           g2 == [g EXCEPT ![Nil] = g[y]]
<1>1. Stashes \subseteq Variables /\ Stashes \subseteq Int /\ d # Nil
  BY NamesApart
<1>2. own2[d] = 0 /\ \A v \in Variables \ {d} : own2[v] = own[v]
  <2>1. \A v \in Variables : Occurs(v, One(d)) = IF d = v THEN 1 ELSE 0
    BY OccursOne DEF One
  <2> QED
    BY <1>1, <2>1 DEF Taken, Tokens
<1>3. U \subseteq Stashes /\ There(own2, TRUE) = U \cup {Nil} /\ U = {v \in Stashes : own2[v] # 0}
  BY DEF There
<1>4. There(own, pend) = IF pend THEN U \cup {d, Nil} ELSE U \cup {d}
  <2> DEFINE W == {v \in Stashes : own[v] # 0}
  <2> HIDE DEF U
  <2>1. W = U \cup {d}
    <3>1. \A v \in Stashes \ {d} : own2[v] = own[v]
      BY <1>1, <1>2
    <3>2. \A v \in Stashes : v \in U <=> own2[v] # 0
      BY <1>3
    <3>3. \A v \in Stashes : own[v] # 0 <=> v \in U \cup {d}
      BY ONLY <1>2, <3>1, <3>2, own[d] = 1
    <3>4. U \cup {d} \subseteq Stashes
      BY <1>3
    <3> QED
      BY ONLY <3>3, <3>4
  <2>2. There(own, pend) = W \cup (IF pend THEN {Nil} ELSE {})
    BY DEF There
  <2> HIDE DEF W
  <2>3. CASE pend
    BY <2>1, <2>2, <2>3
  <2>4. CASE ~pend
    BY <2>1, <2>2, <2>4
  <2> QED
    BY <2>3, <2>4
<1>5. /\ g \in Grading /\ Chain(There(own, pend), g, gr)
      /\ \A v \in Stashes : own[v] # 0 => e[v] \in Objects
  BY DEF Defects
<1>6. \A u \in U : d < u
  <2> SUFFICES ASSUME NEW u \in U PROVE d < u
    OBVIOUS
  <2>1. u \in Stashes /\ own2[u] # 0 /\ u # d
    BY <1>2, <1>3
  <2>2. own[u] # 0 /\ own[u] \in Nat
    BY <1>1, <1>2, <2>1 DEF Tokens
  <2>3. d <= u
    BY <2>1, <2>2 DEF InnerOf
  <2> QED
    BY <1>1, <2>1, <2>3
<1>7. \A v \in Stashes : own2[v] # 0 => e[v] \in Objects
  BY <1>1, <1>2, <1>5
<1> HIDE DEF U
<1>8. Chain(U \cup {Nil}, g2, gr) /\ g2 \in Grading
  <2>1. CASE y = Nil
    <3>1. Chain(U \cup {d, Nil}, g, gr) /\ g[d] = Interruption
      BY <1>4, <1>5, <2>1 DEF GivesWay
    <3> QED
      BY <1>3, <1>5, <2>1, <3>1, ChainYield
  <2>2. CASE y # Nil
    <3>1. y = d
      BY <2>2
    <3>2. \/ Chain(U \cup {d}, g, gr)
          \/ Chain(U \cup {d, Nil}, g, gr) /\ g[d] # Interruption
      BY <1>4, <1>5, <2>2 DEF GivesWay
    <3> QED
      BY <1>3, <1>5, <1>6, <3>1, <3>2, ChainResume
  <2> QED
    BY <2>1, <2>2
<1>9. o # Static
  BY ObjectsNamed
<1> HIDE DEF g2
<1>10. Defects(own2, TRUE, e, o, g2, gr)
  BY <1>3, <1>7, <1>8, <1>9 DEF Defects
<1> QED
  BY <1>10 DEF g2, Regraded

(* The heap then has the references of the defect that is pending.         *)
LEMMA SoundResumed ==
  ASSUME NEW own, NEW c, c \subseteq {ParamObject, EnvObject}, pending \in Values, NEW d, env[d] \in Objects,
         Sound(own, env, heap, Plus(Base(c, pending), One(env[d]))), NEW r \in Resumed(d)
  PROVE  /\ r.object \in Objects /\ Sound(own, env, r.heap, Base(c, r.object)) /\ r.of \in {d, Nil}
         /\ IF r.of = Nil /\ d # Nil THEN pending # Static /\ grade[d] = Interruption
            ELSE d # Nil /\ pending # Static => grade[d] # Interruption
<1> DEFINE L == Lends(c)
           o == env[d]
           x == pending
<1>1. L \in Weights /\ Base(c, x) = Plus(L, One(x)) /\ \A y : Base(c, y) = Plus(L, One(y))
  BY LendsType, BaseType DEF One, Base
<1>2. One(x) \in Seq(Values) /\ One(o) \in Seq(Values) /\ o \in Values
  BY DEF One, Values
<1>3. Plus(L, One(x)) \in Weights /\ Plus(L, One(o)) \in Weights
  BY <1>1, <1>2, PlusType
<1>4. Sound(own, env, heap, Plus(Plus(L, One(x)), One(o)))
  BY <1>1
<1>5. Plus(Plus(L, One(x)), One(o)) = Plus(Plus(L, One(o)), One(x))
  BY <1>1, <1>2, PlusSwap
<1>6. pending # Static => pending \in Objects
  BY DEF Values
<1>7. CASE pending = Static
  <2>1. r = [heap |-> heap, object |-> o, of |-> d]
    BY <1>7 DEF Resumed
  <2>2. Plus(L, One(x)) = L
    BY <1>1, <1>7, PlusNone DEF One
  <2>3. Sound(own, env, heap, Base(c, o))
    BY <1>1, <1>4, <2>2
  <2> QED
    BY <1>7, <2>1, <2>3
<1>8. CASE pending # Static /\ grade[d] = Interruption
  <2>1. r = [heap |-> Dropped(heap, One(o)), object |-> pending, of |-> Nil]
    BY <1>8 DEF Resumed, One
  <2> HIDE DEF o, x, L
  <2>2. Sound(own, env, Dropped(heap, One(o)), Plus(L, One(x)))
    BY <1>2, <1>3, <1>4, SoundDrop
  <2>3. Sound(own, env, r.heap, Base(c, r.object)) /\ r.object \in Objects /\ r.of = Nil
    BY <1>1, <1>6, <1>8, <2>1, <2>2 DEF x
  <2> QED
    BY <1>8, <2>3
<1>9. CASE pending # Static /\ grade[d] # Interruption /\ grade[Nil] = Interruption
  <2>1. r = [heap |-> Dropped(heap, One(x)), object |-> o, of |-> d]
    BY <1>9 DEF Resumed, One
  <2> HIDE DEF o, x, L
  <2>2. Sound(own, env, Dropped(heap, One(x)), Plus(L, One(o)))
    BY <1>2, <1>3, <1>4, <1>5, SoundDrop
  <2>3. Sound(own, env, r.heap, Base(c, r.object)) /\ r.object \in Objects /\ r.of = d
    BY <1>1, <2>1, <2>2 DEF o
  <2> QED
    BY <1>9, <2>3
<1>10. CASE pending # Static /\ grade[d] # Interruption /\ grade[Nil] # Interruption
  <2>1. PICK note \in Made(heap, <<>>) :
           r = [heap |-> Dropped(note.heap, <<o, x>>), object |-> note.object, of |-> d]
    BY <1>10 DEF Resumed
  <2> DEFINE W == Plus(Plus(L, One(x)), One(o))
             rs == <<>>
             m == note.object
  <2>2. W \in Weights /\ rs \in Seq(Values) /\ Plus(W, rs) = W /\ note \in Made(heap, rs)
    BY <1>2, <1>3, PlusType, PlusNone
  <2>3. Sound(own, env, heap, Plus(W, rs))
    BY <1>4, <2>2
  <2> HIDE DEF W, rs, o, x, L
  <2>4. m \in Objects /\ Sound(own, env, note.heap, Plus(W, <<m>>))
    BY <2>2, <2>3, SoundMade
  <2> HIDE DEF m
  <2>5. One(m) \in Seq(Values) /\ <<o, x>> \in Seq(Values)
    BY <1>2, <2>4 DEF One, Values, x
  <2> DEFINE two == <<o, x>>
  <2>6. Plus(W, One(m)) = Plus(Plus(L, One(m)), two)
    <3>1. W = Plus(L, two)
      <4>1. Plus(L, <<o, x>>) = Plus(Plus(L, <<o>>), <<x>>)
        BY <1>1, PlusTwo
      <4> QED
        BY <1>5, <4>1 DEF W, One
    <3> HIDE DEF two
    <3>2. two \in Seq(Values)
      BY <2>5 DEF two
    <3> QED
      BY <1>1, <2>5, <3>1, <3>2, PlusSwap
  <2>7. Plus(L, One(m)) \in Weights
    BY <1>1, <2>5, PlusType
  <2>8. Sound(own, env, note.heap, Plus(Plus(L, One(m)), two)) /\ two \in Seq(Values)
    BY <2>4, <2>5, <2>6 DEF One
  <2> DEFINE h == note.heap
             V == Plus(L, One(m))
  <2> HIDE DEF two, h, V
  <2>9. Sound(own, env, Dropped(h, two), V)
    BY <2>7, <2>8, SoundDrop DEF h, V
  <2>10. Sound(own, env, r.heap, Base(c, r.object)) /\ r.object \in Objects /\ r.of = d
    BY <1>1, <2>1, <2>4, <2>9 DEF h, V, two, m
  <2> QED
    BY <1>10, <2>10
<1> QED
  BY <1>7, <1>8, <1>9, <1>10

(* em_defect_resume leaves the run as the point after it says.             *)
LEMMA FitsResume ==
  ASSUME NEW p, Fits(p, env, heap, caller, pending, holds, grade, held, released, gravest),
         NEW s, LetRight(p, s), After(p, s) \in Points, \A v \in Stashes : p.own[v] <= 1,
         s.value.op = "resume", NEW r \in Resumed(Head(s.value.args))
  PROVE  Fits(After(p, s), env, r.heap, caller, r.object, holds, [grade EXCEPT ![Nil] = grade[r.of]],
              held, released, gravest)
<1> DEFINE q == Spent(p, s)
           own2 == q.own
           own == p.own
           z == After(p, s)
           d == Head(s.value.args)
           o == r.object
           y == r.of
           g2 == [grade EXCEPT ![Nil] = grade[r.of]]
<1>1. s.dst = Nil /\ Consumed(s.value) = s.value.args /\ s.value.args \in {<<v>> : v \in Stashes} /\ Innermost(p, d)
      /\ Enough(own2)
  BY DEF LetRight, ValueRight, Consumed
<1>2. d \in Stashes /\ s.value.args = One(d)
  BY <1>1 DEF One
<1>3. p \in Points /\ Defects(own, p.pend, env, pending, grade, gravest)
      /\ Handlers(p.open, p.done, p.hold, env, held, released, holds)
  BY DEF Fits
<1>4. own \in Tokens /\ p.pend \in BOOLEAN
  BY <1>3, PointOf
<1>5. own2 = Taken(own, One(d))
  BY <1>1, <1>2, <1>3, SpentIs
<1>6. d \in Variables /\ d # Nil
  BY <1>2, NamesApart
<1>7. own[d] = 1
  <2>1. own2[d] = own[d] - 1
    <3>1. Occurs(d, One(d)) = 1
      BY OccursOne DEF One
    <3>2. own2[d] = own[d] - Occurs(d, One(d))
      BY <1>5, <1>6 DEF Taken
    <3> QED
      BY <3>1, <3>2
  <2>2. own2[d] >= 0
    BY <1>1, <1>6 DEF Enough
  <2>3. own[d] <= 1 /\ own[d] \in Nat
    BY <1>2, <1>4, <1>6 DEF Tokens
  <2> QED
    BY <2>1, <2>2, <2>3
<1>8. env[d] \in Objects
  BY <1>2, <1>3, <1>7 DEF Defects
<1>9. Mid(p, s, ValuesOf(env, One(d)), env, heap, caller, pending, holds, grade, held, released, gravest)
  BY <1>1, <1>2, MidAtOnce
<1>10. ValuesOf(env, One(d)) = One(env[d])
  BY DEF ValuesOf, One
<1>11. /\ caller \subseteq {ParamObject, EnvObject} /\ pending \in Values /\ (q.lent => Lent(env, caller))
       /\ Sound(own2, env, heap, Plus(Base(caller, pending), One(env[d])))
  BY <1>9, <1>10 DEF Mid
<1> HIDE DEF d, own2, own
<1>12. r \in Resumed(d)
  BY DEF d
<1>13. /\ o \in Objects /\ Sound(own2, env, r.heap, Base(caller, o)) /\ y \in {d, Nil}
       /\ IF y = Nil /\ d # Nil THEN pending # Static /\ grade[d] = Interruption
          ELSE d # Nil /\ pending # Static => grade[d] # Interruption
  BY <1>8, <1>11, <1>12, SoundResumed
<1>14. p.pend = (pending # Static)
  BY <1>3 DEF Defects
<1>15. IF y = Nil THEN p.pend /\ grade[d] = Interruption ELSE p.pend => grade[d] # Interruption
  BY <1>6, <1>13, <1>14
<1>16. InnerOf(own, d)
  BY <1>1 DEF InnerOf, Innermost, own, d
<1> DEFINE pend == p.pend
<1>17. pend \in BOOLEAN /\ Defects(own, pend, env, pending, grade, gravest)
       /\ GivesWay(y, pend, grade, d)
  BY <1>3, <1>4, <1>15 DEF GivesWay
<1>18. g2 = Regraded(grade, y)
  BY DEF Regraded
<1> HIDE DEF o, y, g2, pend
<1>19. Defects(own2, TRUE, env, o, Regraded(grade, y), gravest)
  <2>1. o \in Objects /\ y \in {d, Nil} /\ d \in Stashes /\ own \in Tokens
    BY <1>2, <1>4, <1>13
  <2> QED
    BY ONLY <1>5, <1>7, <1>16, <1>17, <2>1, DefectsResume
<1>20. own2 \in Tokens
  BY <1>13 DEF Sound
<1>21. z.own = own2 /\ z.fresh = Nil /\ z.lent = q.lent
  BY <1>1, <1>3, <1>20, SettledAfter DEF own2
<1>22. z.pend = TRUE /\ z.open = p.open /\ z.done = p.done /\ z.hold = p.hold
  BY <1>3, AfterIs
<1>23. o \in Values
  BY <1>13 DEF Values
<1> HIDE DEF q
<1>24. Fits(z, env, r.heap, caller, o, holds, g2, held, released, gravest)
  BY <1>3, <1>11, <1>13, <1>18, <1>19, <1>21, <1>22, <1>23 DEF Fits
<1> QED
  BY <1>24 DEF o, g2

-----------------------------------------------------------------------------
(* dup and drop.                                                           *)
LEMMA FitsDup ==
  ASSUME NEW p, NEW e, NEW h, NEW c, NEW x, NEW n, NEW g, NEW hd, NEW rel, NEW gr,
         Fits(p, e, h, c, x, n, g, hd, rel, gr), NEW v \in Variables \ Stashes, MayRead(p, v) \/ v = p.fresh
  PROVE  /\ e[v] # Unbound /\ Live(h, e[v])
         /\ Fits([p EXCEPT !.own[v] = @ + 1, !.fresh = Nil], e, Duped(h, e[v]), c, x, n, g, hd, rel, gr)
<1> DEFINE own == p.own
           own2 == [own EXCEPT ![v] = @ + 1]
           z == [p EXCEPT !.own[v] = @ + 1, !.fresh = Nil]
           B == Base(c, x)
           o == e[v]
<1>1. /\ p \in Points /\ c \subseteq {ParamObject, EnvObject} /\ x \in Values /\ Sound(own, e, h, B)
      /\ (p.lent => Lent(e, c)) /\ (p.fresh # Nil => e[p.fresh] \in Values /\ Live(h, e[p.fresh]))
      /\ Handlers(p.open, p.done, p.hold, e, hd, rel, n) /\ Defects(own, p.pend, e, x, g, gr)
  BY DEF Fits
<1>2. own \in Tokens /\ B \in Weights /\ e \in Envs
  BY <1>1, PointOf, BaseType DEF Sound
<1>3. o \in Values /\ Live(h, o)
  <2>1. CASE v = p.fresh
    <3>1. v # Nil
      BY NamesApart
    <3> QED
      BY <1>1, <2>1, <3>1
  <2>2. CASE MayRead(p, v)
    <3>1. own[v] # 0 \/ (v = Env /\ Lent(e, c) /\ B[EnvObject] # 0)
      <4>1. CASE own[v] >= 1
        BY <1>2, <4>1 DEF Tokens
      <4>2. CASE v = Env /\ p.lent
        <5>1. Lent(e, c) /\ EnvObject \in c
          BY <1>1, <4>2 DEF Lent
        <5>2. \A w \in c : B[w] # 0
          BY <1>1, BaseType
        <5> QED
          BY <4>2, <5>1, <5>2
      <4> QED
        BY <2>2, <4>1, <4>2 DEF MayRead
    <3> HIDE DEF own, B
    <3> QED
      BY <1>1, <3>1, Readable
  <2> QED
    BY <2>1, <2>2
<1>4. z \in Points /\ z.own = own2 /\ z.fresh = Nil /\ z.lent = p.lent /\ z.pend = p.pend /\ z.open = p.open
      /\ z.done = p.done /\ z.hold = p.hold /\ own2 \in Tokens
  <2>1. own2 \in [Variables -> Nat]
    BY <1>2 DEF Tokens
  <2>2. z = [p EXCEPT !.own = own2, !.fresh = Nil]
    BY <1>1 DEF Points
  <2> HIDE DEF own2, z
  <2>3. /\ z.own = own2 /\ z.fresh = Nil /\ z.lent = p.lent /\ z.pend = p.pend /\ z.open = p.open
        /\ z.done = p.done /\ z.hold = p.hold
    BY <1>1, <2>2 DEF Points
  <2>4. z \in Points
    BY <1>1, <2>1, <2>2 DEF Points
  <2> QED
    BY <2>1, <2>3, <2>4 DEF Tokens
<1>5. \A w \in Variables : own2[w] = IF w = v THEN own[v] + 1 ELSE own[w]
  BY <1>2 DEF Tokens
<1> HIDE DEF own2, own, B, z
<1>6. Sound(own2, e, Duped(h, o), B)
  <2> DEFINE X == Held(own, e, B)
             Y == Held(own2, e, B)
  <2>1. /\ X \in Weights /\ Y \in Weights
        /\ \A w \in Objects : X[w] = VarRefs(own, e, w) + B[w] /\ Y[w] = VarRefs(own2, e, w) + B[w]
    BY <1>2, <1>4, HeldType
  <2>2. ASSUME NEW w \in Objects PROVE Y[w] = X[w] + Occurs(w, <<o>>)
    <3>1. VarRefs(own, e, w) + (IF e[v] = w THEN own2[v] ELSE 0) = VarRefs(own2, e, w) + (IF e[v] = w THEN own[v] ELSE 0)
      BY <1>2, <1>4, <1>5, VarChange
    <3>2. VarRefs(own, e, w) \in Nat /\ VarRefs(own2, e, w) \in Nat /\ B[w] \in Nat /\ own[v] \in Nat /\ own2[v] = own[v] + 1
      BY <1>2, <1>4, <1>5, VarTotal DEF Weights, Tokens
    <3>3. Occurs(w, <<o>>) = IF o = w THEN 1 ELSE 0
      BY OccursOne
    <3>4. VarRefs(own2, e, w) = VarRefs(own, e, w) + Occurs(w, <<o>>)
      BY <3>1, <3>2, <3>3
    <3> QED
      BY <2>1, <3>2, <3>3, <3>4
  <2>3. Exact(h, X)
    BY <1>1 DEF Sound
  <2> HIDE DEF X, Y
  <2>4. Exact(Duped(h, o), Y)
    BY <1>3, <2>1, <2>2, <2>3, DupExact
  <2>5. \A w \in Variables : own2[w] # 0 => e[w] # Unbound
    <3>1. o # Unbound
      BY <1>3, ObjectsNamed
    <3> QED
      BY <1>1, <1>5, <3>1 DEF Sound
  <2> QED
    BY <1>2, <1>4, <2>4, <2>5 DEF Sound, Y
<1>7. Defects(own2, p.pend, e, x, g, gr)
  <2>1. \A d \in Stashes : own2[d] = own[d] /\ (own[d] # 0 => e[d] = e[d])
    BY <1>5, NamesApart
  <2> QED
    BY <1>1, <2>1, DefectsKept
<1>8. Fits(z, e, Duped(h, o), c, x, n, g, hd, rel, gr)
  BY <1>1, <1>4, <1>6, <1>7 DEF Fits, B
<1> QED
  BY <1>3, <1>8, ObjectsNamed DEF z

(* drop of a variable that owns a reference.                               *)
LEMMA FitsDrop ==
  ASSUME NEW p, NEW e, NEW h, NEW c, NEW x, NEW n, NEW g, NEW hd, NEW rel, NEW gr,
         Fits(p, e, h, c, x, n, g, hd, rel, gr), NEW v \in Variables \ Stashes, p.own[v] >= 1, NEW z \in Points,
         z = Gives(p, One(v))
  PROVE  /\ e[v] # Unbound /\ Live(h, e[v])
         /\ Fits(z, e, Dropped(h, One(e[v])), c, x, n, g, hd, rel, gr)
<1> DEFINE own == p.own
           vs == One(v)
           own2 == Taken(own, vs)
           B == Base(c, x)
           os == One(e[v])
<1>1. /\ p \in Points /\ c \subseteq {ParamObject, EnvObject} /\ x \in Values /\ Sound(own, e, h, B)
      /\ (p.lent => Lent(e, c))
      /\ Handlers(p.open, p.done, p.hold, e, hd, rel, n) /\ Defects(own, p.pend, e, x, g, gr)
  BY DEF Fits
<1>2. own \in Tokens /\ B \in Weights
  BY <1>1, PointOf, BaseType
<1>3. e[v] \in Values /\ Live(h, e[v])
  BY <1>1, <1>2, SoundLive DEF Tokens
<1>4. /\ z.own = own2 /\ z.fresh = Nil /\ z.lent = p.lent /\ z.pend = p.pend /\ z.open = p.open
      /\ z.done = p.done /\ z.hold = p.hold
  BY <1>1, GivesIs
<1>5. \A w \in Variables : own2[w] = own[w] - (IF v = w THEN 1 ELSE 0)
  BY OccursOne DEF Taken, One
<1>6. Enough(own2)
  BY <1>2, <1>5 DEF Enough, Tokens
<1>7. vs \in Seq(Variables) /\ ValuesOf(e, vs) = os /\ os \in Seq(Values)
  BY <1>3 DEF One, ValuesOf
<1> HIDE DEF own, B, vs, os
<1>8. Sound(own2, e, h, Plus(B, os))
  BY <1>1, <1>6, <1>7, SoundTake
<1> HIDE DEF own2
<1>9. Sound(own2, e, Dropped(h, os), B)
  BY <1>2, <1>7, <1>8, SoundDrop
<1>10. Defects(own2, p.pend, e, x, g, gr)
  <2>1. \A d \in Stashes : own2[d] = own[d] /\ (own[d] # 0 => e[d] = e[d])
    BY <1>2, <1>5, NamesApart DEF Tokens
  <2> QED
    BY <1>1, <2>1, DefectsKept
<1>11. Fits(z, e, Dropped(h, os), c, x, n, g, hd, rel, gr)
  BY <1>1, <1>4, <1>9, <1>10 DEF Fits, B
<1> QED
  BY <1>3, <1>11, ObjectsNamed DEF os

-----------------------------------------------------------------------------
(* The places of code that was accepted.                                   *)

Closed(A) == \A c \in A : Right(c) /\ Ways(c) \subseteq A
OpenRight(p) == Distinct(p.open) /\ \A v \in Range(p.open) : p.own[v] >= 1
StashRight(p) == \A v \in Stashes : p.own[v] <= 1

(* The code and the point of a place.                                      *)
LEMMA PlaceOf ==
  ASSUME NEW f, NEW p PROVE Place(f, p).code = f /\ Place(f, p).at = p
BY DEF Place

(* A place of the set is right, and leads to places of the set.            *)
LEMMA HereIs ==
  ASSUME NEW A, Closed(A), NEW f, NEW p, Place(f, p) \in A
  PROVE  /\ f # <<>> /\ p \in Points /\ OpenRight(p) /\ StashRight(p)
         /\ Top(f).stmts = <<>> => TermRight(f, p) /\ TermWays(f, p) \subseteq A
         /\ Top(f).stmts # <<>> => StmtRight(p, Stmt(f)) /\ StmtWays(f, p, Stmt(f)) \subseteq A
<1>1. Right(Place(f, p)) /\ Ways(Place(f, p)) \subseteq A
  BY DEF Closed
<1>2. Place(f, p).code = f /\ Place(f, p).at = p
  BY PlaceOf
<1> QED
  BY <1>1, <1>2 DEF Right, Ways, OpenRight, StashRight

AtLet(f) == Top(f).stmts # <<>> /\ Stmt(f).k = "let"

(* A let at a place of the set leads to its places after it.               *)
LEMMA LetHere ==
  ASSUME NEW A, Closed(A), NEW f, NEW p, Place(f, p) \in A, AtLet(f), NEW s, s = Stmt(f)
  PROVE  /\ p \in Points /\ LetRight(p, s) /\ OpenOwned(p, s) /\ StashRight(p)
         /\ After(p, s) \in Points /\ Place(Advanced(f), After(p, s)) \in A
         /\ s.value.fail # <<>> => /\ Place(Landed(f, Head(s.value.fail)), Binds(AtLanding(p, s), <<Err>>, 1)) \in A
                                   /\ Binds(AtLanding(p, s), <<Err>>, 1) \in Points
         /\ s.defect # <<>> => /\ Place(Landed(f, Head(s.defect)), [AtLanding(p, s) EXCEPT !.pend = TRUE]) \in A
                               /\ [AtLanding(p, s) EXCEPT !.pend = TRUE] \in Points
<1>1. p \in Points /\ OpenRight(p) /\ StashRight(p) /\ StmtRight(p, s) /\ StmtWays(f, p, s) \subseteq A
  BY HereIs DEF AtLet
<1>2. LetRight(p, s)
  BY <1>1 DEF StmtRight, AtLet
<1>3. LetWays(f, p, s) \subseteq A
  BY <1>1 DEF StmtWays, AtLet
<1>4. Place(Advanced(f), After(p, s)) \in A
  BY <1>3 DEF LetWays
<1>5. After(p, s) \in Points /\ OpenRight(After(p, s))
  BY <1>4, HereIs
<1>6. OpenOwned(p, s)
  BY <1>1, <1>2, <1>5, OpenSpent DEF OpenRight
<1>7. ASSUME s.value.fail # <<>>
      PROVE  /\ Place(Landed(f, Head(s.value.fail)), Binds(AtLanding(p, s), <<Err>>, 1)) \in A
             /\ Binds(AtLanding(p, s), <<Err>>, 1) \in Points
  <2>1. s.value.fail = <<Head(s.value.fail)>>
    BY <1>2, <1>7 DEF LetRight
  <2>2. Head(s.value.fail) \in Range(s.value.fail)
    BY <2>1 DEF Range
  <2>3. Place(Landed(f, Head(s.value.fail)), Binds(AtLanding(p, s), <<Err>>, 1)) \in LetWays(f, p, s)
    BY <2>2 DEF LetWays
  <2> DEFINE f2 == Landed(f, Head(s.value.fail))
             p2 == Binds(AtLanding(p, s), <<Err>>, 1)
  <2>4. Place(f2, p2) \in A
    BY <1>3, <2>3
  <2> HIDE DEF f2, p2
  <2>5. p2 \in Points
    BY <2>4, HereIs
  <2> QED
    BY <2>4, <2>5 DEF f2, p2
<1>8. ASSUME s.defect # <<>>
      PROVE  /\ Place(Landed(f, Head(s.defect)), [AtLanding(p, s) EXCEPT !.pend = TRUE]) \in A
             /\ [AtLanding(p, s) EXCEPT !.pend = TRUE] \in Points
  <2>1. s.defect = <<Head(s.defect)>>
    BY <1>2, <1>8 DEF LetRight
  <2>2. Head(s.defect) \in Range(s.defect)
    BY <2>1 DEF Range
  <2>3. Place(Landed(f, Head(s.defect)), [AtLanding(p, s) EXCEPT !.pend = TRUE]) \in LetWays(f, p, s)
    BY <2>2 DEF LetWays
  <2> DEFINE f2 == Landed(f, Head(s.defect))
             p2 == [AtLanding(p, s) EXCEPT !.pend = TRUE]
  <2>4. Place(f2, p2) \in A
    BY <1>3, <2>3
  <2> HIDE DEF f2, p2
  <2>5. p2 \in Points
    BY <2>4, HereIs
  <2> QED
    BY <2>4, <2>5 DEF f2, p2
<1> QED
  BY <1>1, <1>2, <1>4, <1>5, <1>6, <1>7, <1>8

-----------------------------------------------------------------------------
(* The invariant: the run is at a place of the set, and as its point says. *)

Fitting(p) == Fits(p, env, heap, caller, pending, holds, grade, held, released, gravest)
Waiting(p) == Mid(p, Stmt(code), inflight, env, heap, caller, pending, holds, grade, held, released, gravest)

Finished ==
  /\ code = <<>> /\ env \in Envs /\ heap \in Heaps /\ caller \subseteq {ParamObject, EnvObject}
  /\ pending \in Values /\ holds \in Nat /\ inflight = <<>> /\ result \in Values \cup {Unbound}
  /\ grade \in Grading /\ gravest \in NoDefect..FirstDefect /\ held \in Seq(Objects) /\ released \subseteq Range(held)
  /\ state # "cut" =>
       /\ Exact(heap, Plus(Base(caller, pending), <<result>>)) /\ held = <<>> /\ holds = 0
       /\ state = "unwind" <=> pending # Static
       /\ Chain(IF state = "unwind" THEN {Nil} ELSE {}, grade, gravest)

Running(A) ==
  /\ state \in {"start", "run", "suspended"} \cup Ended /\ recurs \in 0..MaxRecurs
  /\ state \in {"start", "run"} =>
       inflight = <<>> /\ result = Static /\ \E p : Place(code, p) \in A /\ Fitting(p)
  /\ state = "suspended" =>
       AtLet(code) /\ Stmt(code).saved # <<>> /\ result = Static /\ \E p : Place(code, p) \in A /\ Waiting(p)
  /\ state \in Ended => Finished

HeapInv == \E A : Closed(A) /\ Running(A)

(* The types follow.                                                       *)
LEMMA HandlersType ==
  ASSUME NEW p \in Points, NEW e, NEW hd, NEW rel, NEW n, Handlers(p.open, p.done, p.hold, e, hd, rel, n)
  PROVE  hd \in Seq(Objects) /\ rel \subseteq Range(hd) /\ n \in Nat
<1>1. hd \in Seq(Objects) /\ (rel = IF p.done THEN {Last(hd)} ELSE {}) /\ (p.done => hd # <<>>) /\ n = p.hold
  BY DEF Handlers
<1>2. n \in Nat
  BY <1>1, PointOf
<1>3. hd # <<>> => Last(hd) \in Range(hd)
  BY <1>1 DEF Last, Range
<1> QED
  BY <1>1, <1>2, <1>3

(* The gravest defect is a grade.                                          *)
LEMMA ChainType ==
  ASSUME NEW U, NEW g, NEW gr, Chain(U, g, gr) PROVE gr \in NoDefect..FirstDefect
BY DEF Chain, NoDefect, Interruption, FirstDefect

(* The variables of a run that has not ended.                              *)
Typed ==
  /\ env \in Envs /\ heap \in Heaps /\ caller \subseteq {ParamObject, EnvObject} /\ pending \in Values
  /\ holds \in Nat /\ grade \in Grading /\ gravest \in NoDefect..FirstDefect
  /\ held \in Seq(Objects) /\ released \subseteq Range(held)

(* The values of variables and the heap have their types.                  *)
LEMMA SoundType ==
  ASSUME NEW own, NEW e, NEW h, NEW G, Sound(own, e, h, G) PROVE e \in Envs /\ h \in Heaps
BY DEF Sound, Exact, Counted

(* The variables have their types while the function runs.                 *)
LEMMA FittingTyped ==
  ASSUME NEW p, Fitting(p) PROVE Typed
<1>1. /\ p \in Points /\ caller \subseteq {ParamObject, EnvObject} /\ pending \in Values
      /\ Sound(p.own, env, heap, Base(caller, pending))
      /\ Handlers(p.open, p.done, p.hold, env, held, released, holds)
      /\ Defects(p.own, p.pend, env, pending, grade, gravest)
  BY DEF Fitting, Fits
<1>2. env \in Envs /\ heap \in Heaps
  BY <1>1, SoundType
<1>3. held \in Seq(Objects) /\ released \subseteq Range(held) /\ holds \in Nat
  BY <1>1, HandlersType
<1>4. grade \in Grading /\ gravest \in NoDefect..FirstDefect
  BY <1>1, ChainType DEF Defects
<1> QED
  BY <1>1, <1>2, <1>3, <1>4 DEF Typed

(* The variables have their types while it is suspended.                   *)
LEMMA WaitingTyped ==
  ASSUME NEW p \in Points, LetRight(p, Stmt(code)), Stmt(code).saved # <<>>, Waiting(p)
  PROVE  Typed /\ inflight \in Seq(Values)
<1> DEFINE s == Stmt(code)
           own == Spent(p, s).own
           G == Plus(Base(caller, pending), inflight)
<1>0. s.value.op # "resume"
  BY DEF LetRight, SavedRight, MayDefect, Calls
<1>1. /\ caller \subseteq {ParamObject, EnvObject} /\ pending \in Values /\ inflight \in Seq(Values)
      /\ Sound(own, env, heap, G)
      /\ Handlers(p.open, p.done, p.hold, env, held, released, holds)
      /\ Defects(own, p.pend, env, pending, grade, gravest)
  BY <1>0 DEF Waiting, Mid
<1> HIDE DEF own, G
<1>2. env \in Envs /\ heap \in Heaps
  BY <1>1, SoundType
<1>3. held \in Seq(Objects) /\ released \subseteq Range(held) /\ holds \in Nat
  BY <1>1, HandlersType
<1>4. grade \in Grading /\ gravest \in NoDefect..FirstDefect
  BY <1>1, ChainType DEF Defects
<1> QED
  BY <1>1, <1>2, <1>3, <1>4 DEF Typed

(* The type invariant of HeapMachine follows.                              *)
LEMMA TypesHold ==
  ASSUME NEW A, Closed(A), Running(A) PROVE HeapTypeOK
<1>0. Values = Objects \cup {Static}
  BY DEF Values
<1>1. CASE state \in {"start", "run"}
  <2>1. PICK p : Place(code, p) \in A /\ Fitting(p)
    BY <1>1 DEF Running
  <2>2. inflight = <<>> /\ result = Static /\ recurs \in 0..MaxRecurs
    BY <1>1 DEF Running
  <2>3. code # <<>>
    BY <2>1, HereIs
  <2>4. Typed
    BY <2>1, FittingTyped
  <2>5. state \notin Ended
    BY <1>1 DEF Ended
  <2>6. inflight \in Seq(Objects \cup {Static})
    BY <2>2
  <2> QED
    BY <1>0, <1>1, <2>2, <2>3, <2>4, <2>5, <2>6 DEF HeapTypeOK, Typed, Envs, Heaps, Grading
<1>2. CASE state = "suspended"
  <2>1. PICK p : Place(code, p) \in A /\ Waiting(p)
    BY <1>2 DEF Running
  <2>2. AtLet(code) /\ Stmt(code).saved # <<>> /\ result = Static /\ recurs \in 0..MaxRecurs
    BY <1>2 DEF Running
  <2>3. code # <<>>
    BY <2>1, HereIs
  <2>4. p \in Points /\ LetRight(p, Stmt(code))
    BY <2>1, <2>2, LetHere
  <2>5. Typed /\ inflight \in Seq(Values)
    BY <2>1, <2>2, <2>4, WaitingTyped
  <2>6. state \notin Ended
    BY <1>2 DEF Ended
  <2> QED
    BY <1>0, <1>2, <2>2, <2>3, <2>5, <2>6 DEF HeapTypeOK, Typed, Envs, Heaps, Grading
<1>3. CASE state \in Ended
  <2>1. Finished /\ recurs \in 0..MaxRecurs
    BY <1>3 DEF Running
  <2>2. result \in Objects \cup {Static, Unbound} /\ inflight \in Seq(Objects \cup {Static})
    BY <2>1 DEF Finished, Values
  <2> QED
    BY <1>0, <1>3, <2>1, <2>2 DEF HeapTypeOK, Finished, Envs, Heaps, Grading
<1> QED
  BY <1>1, <1>2, <1>3 DEF Running

-----------------------------------------------------------------------------
(* What the invariant says of the states.                                  *)

Readable1(e, h, v) == v \in Variables /\ e[v] # Unbound /\ Live(h, e[v])

(* A variable that may be read has an object that is there.                *)
LEMMA MayReadLive ==
  ASSUME NEW p, Fitting(p), NEW v \in Variables, MayRead(p, v)
  PROVE  Readable1(env, heap, v)
<1> DEFINE own == p.own
           B == Base(caller, pending)
<1>1. /\ p \in Points /\ caller \subseteq {ParamObject, EnvObject} /\ pending \in Values
      /\ Sound(own, env, heap, B) /\ (p.lent => Lent(env, caller))
  BY DEF Fitting, Fits
<1>2. own[v] # 0 \/ (v = Env /\ Lent(env, caller) /\ B[EnvObject] # 0)
  <2>1. CASE own[v] >= 1
    <3>1. own[v] # 0
      BY <2>1
    <3> QED
      BY <3>1
  <2>2. CASE v = Env /\ p.lent
    <3>1. Lent(env, caller) /\ EnvObject \in caller
      BY <1>1, <2>2 DEF Lent
    <3>2. \A w \in caller : B[w] # 0
      BY <1>1, BaseType
    <3> QED
      BY <2>2, <3>1, <3>2
  <2> QED
    BY <2>1, <2>2 DEF MayRead
<1> HIDE DEF own, B
<1>3. env[v] \in Values /\ Live(heap, env[v])
  BY <1>1, <1>2, Readable
<1> QED
  BY <1>3, ObjectsNamed DEF Readable1

(* What is taken from variables was theirs.                                *)
LEMMA TakenRead ==
  ASSUME NEW p \in Points, NEW args \in Seq(Variables), Enough(Taken(p.own, args)), NEW v \in Range(args)
  PROVE  v \in Variables /\ MayRead(p, v)
<1>1. PICK i \in DOMAIN args : v = args[i]
  BY DEF Range
<1>2. v \in Variables
  BY <1>1
<1>3. Occurs(v, args) \in Nat /\ Occurs(v, args) # 0
  BY <1>1, OccursNat, OccursIn
<1>4. p.own[v] - Occurs(v, args) >= 0 /\ p.own[v] \in Nat
  BY <1>2, PointOf DEF Enough, Taken, Tokens
<1> QED
  BY <1>2, <1>3, <1>4 DEF MayRead

(* What may be read after operands were taken might be before.             *)
LEMMA GivesRead ==
  ASSUME NEW p \in Points, NEW args \in Seq(Variables), NEW v \in Variables, MayRead(Gives(p, args), v)
  PROVE  MayRead(p, v)
<1>1. Gives(p, args).own = Taken(p.own, args) /\ Gives(p, args).lent = p.lent
  BY GivesIs
<1>2. Taken(p.own, args)[v] = p.own[v] - Occurs(v, args) /\ Occurs(v, args) \in Nat /\ p.own[v] \in Nat
  BY OccursNat, PointOf DEF Taken, Tokens
<1>3. CASE Gives(p, args).own[v] >= 1
  BY <1>1, <1>2, <1>3 DEF MayRead
<1>4. CASE v = Env /\ Gives(p, args).lent
  BY <1>1, <1>4 DEF MayRead
<1> QED
  BY <1>3, <1>4 DEF MayRead

(* What a let uses or saves may be read.                                   *)
LEMMA LetReads ==
  ASSUME NEW p \in Points, NEW s, LetRight(p, s), NEW v \in Uses(s.value) \cup UNION Range(s.saved)
  PROVE  v \in Variables /\ MayRead(p, v)
<1> DEFINE args == Consumed(s.value)
           own2 == Spent(p, s).own
<1>1. /\ args \in Seq(Variables) /\ Enough(own2) /\ Named(Borrowed(s.value))
      /\ \A x \in Range(Borrowed(s.value)) : MayRead(Gives(p, args), x)
      /\ s.saved # <<>> => SavedRight(p, s)
  BY DEF LetRight
<1>2. own2 = Taken(p.own, args)
  BY SpentIs
<1> HIDE DEF own2, args
<1>3. CASE v \in Range(args)
  BY <1>1, <1>2, <1>3, TakenRead
<1>4. CASE v \in Range(Borrowed(s.value))
  <2>1. v \in Variables
    <3>1. Range(Borrowed(s.value)) \subseteq Variables
      BY <1>1, NamedApart
    <3> QED
      BY <1>4, <3>1
  <2>2. MayRead(Gives(p, args), v)
    BY <1>1, <1>4
  <2> QED
    BY <1>1, <2>1, <2>2, GivesRead
<1>5. CASE v \in UNION Range(s.saved)
  <2>1. s.saved # <<>>
    BY <1>5 DEF Range
  <2>2. /\ s.saved = <<Head(s.saved)>> /\ Head(s.saved) \subseteq Variables
        /\ \A x \in Variables : own2[x] = IF x \in Head(s.saved) THEN 1 ELSE 0
    BY <1>1, <2>1 DEF SavedRight, own2
  <2>3. Range(s.saved) = {Head(s.saved)}
    BY <2>2 DEF Range
  <2>4. v \in Head(s.saved) /\ v \in Variables /\ own2[v] = 1
    BY <1>5, <2>2, <2>3
  <2>5. Occurs(v, args) \in Nat /\ p.own[v] \in Nat /\ own2[v] = p.own[v] - Occurs(v, args)
    BY <1>1, <1>2, <2>4, OccursNat, PointOf DEF Taken, Tokens
  <2> QED
    BY <2>4, <2>5 DEF MayRead
<1> QED
  BY <1>3, <1>4, <1>5 DEF Uses, args

(* What moves may be read.                                                 *)
LEMMA MovesReads ==
  ASSUME NEW p \in Points, NEW args, NEW vs, Moves(p, args, vs), NEW v \in Range(args)
  PROVE  v \in Variables /\ MayRead(p, v)
<1>1. Enough(Taken(p.own, args)) /\ args \in Seq(Variables)
  BY NamedApart DEF Moves
<1> QED
  BY <1>1, TakenRead

(* What a function is left with may be read.                               *)
LEMMA ExitReads ==
  ASSUME NEW p \in Points, NEW args, Named(args), \A v \in Variables : Taken(p.own, args)[v] = 0, NEW v \in Range(args)
  PROVE  v \in Variables /\ MayRead(p, v)
<1>1. Enough(Taken(p.own, args)) /\ args \in Seq(Variables)
  BY NamedApart DEF Enough
<1> QED
  BY <1>1, TakenRead

(* ReadsAreLive follows from the invariant.                                *)
LEMMA ReadsHold ==
  ASSUME NEW A, Closed(A), Running(A) PROVE ReadsAreLive
<1>1. HeapTypeOK
  BY TypesHold
<1> SUFFICES ASSUME NEW v \in Reads PROVE env[v] # Unbound /\ Live(heap, env[v])
  BY <1>1 DEF ReadsAreLive
<1>2. state = "run"
  BY DEF Reads
<1>3. PICK p : Place(code, p) \in A /\ Fitting(p)
  BY <1>2 DEF Running
<1>4. /\ p \in Points
      /\ Top(code).stmts = <<>> => TermRight(code, p)
      /\ Top(code).stmts # <<>> => StmtRight(p, Stmt(code))
  BY <1>3, HereIs
<1>5. CASE v \in Variables /\ MayRead(p, v)
  BY <1>3, <1>5, MayReadLive DEF Readable1
<1>6. CASE Top(code).stmts = <<>>
  <2> DEFINE term == Top(code).term
  <2>1. v \in Range(term.args)
    BY <1>2, <1>6 DEF Reads
  <2>2. TermRight(code, p)
    BY <1>4, <1>6
  <2>3. CASE term.k \in {"yield", "break"}
    <3>1. Moves(p, term.args, Dest(TargetOf(code)))
      BY <2>2, <2>3 DEF TermRight
    <3> QED
      BY <1>4, <1>5, <2>1, <3>1, MovesReads
  <2>4. CASE term.k = "recur"
    <3>1. Moves(p, term.args, TargetOf(code).vars)
      BY <2>2, <2>4 DEF TermRight
    <3> QED
      BY <1>4, <1>5, <2>1, <3>1, MovesReads
  <2>5. CASE term.k \in {"return", "fail", "unwind"}
    <3>1. Named(term.args) /\ \A x \in Variables : Taken(p.own, term.args)[x] = 0
      BY <2>2, <2>5 DEF TermRight
    <3> QED
      BY <1>4, <1>5, <2>1, <3>1, ExitReads
  <2> QED
    BY <2>2, <2>3, <2>4, <2>5 DEF TermRight
<1>7. CASE Top(code).stmts # <<>>
  <2> DEFINE s == Stmt(code)
  <2>1. StmtRight(p, s)
    BY <1>4, <1>7
  <2>2. CASE s.k = "let"
    <3>1. LetRight(p, s)
      BY <2>1, <2>2 DEF StmtRight
    <3>2. v \in Uses(s.value) \cup UNION Range(s.saved)
      BY <1>2, <1>7, <2>2 DEF Reads
    <3> QED
      BY <1>4, <1>5, <3>1, <3>2, LetReads
  <2>3. CASE s.k = "dup"
    <3>1. v = s.v /\ s.v \in Variables \ Stashes /\ (MayRead(p, s.v) \/ s.v = p.fresh)
      BY <1>2, <1>7, <2>1, <2>3 DEF Reads, StmtRight
    <3>2. CASE s.v = p.fresh
      <4>1. p.fresh # Nil
        BY <3>1, <3>2, NamesApart
      <4>2. env[p.fresh] \in Values /\ Live(heap, env[p.fresh])
        BY <1>3, <4>1 DEF Fitting, Fits
      <4> QED
        BY <3>1, <3>2, <4>2, ObjectsNamed
    <3> QED
      BY <1>5, <3>1, <3>2
  <2>4. CASE s.k = "drop"
    <3>1. v = s.v /\ s.v \in Variables \ Stashes /\ p.own[s.v] >= 1
      BY <1>2, <1>7, <2>1, <2>4 DEF Reads, StmtRight
    <3> QED
      BY <1>5, <3>1 DEF MayRead
  <2>5. CASE s.k = "branch"
    <3>1. v \in Range(s.on) /\ Named(s.on) /\ \A x \in Range(s.on) : MayRead(p, x)
      BY <1>2, <1>7, <2>1, <2>5 DEF Reads, StmtRight, Tested
    <3>2. Range(s.on) \subseteq Variables
      BY <3>1, NamedApart
    <3> QED
      BY <1>5, <3>1, <3>2
  <2>6. CASE s.k = "loop"
    <3>1. v \in Range(s.inits) /\ Moves(p, s.inits, LoopVars(s))
      BY <1>2, <1>7, <2>1, <2>6 DEF Reads, StmtRight, Inits
    <3> QED
      BY <1>4, <1>5, <3>1, MovesReads
  <2>7. CASE s.k \notin {"let", "dup", "drop", "branch", "loop"}
    BY <1>2, <1>7, <2>7 DEF Reads
  <2> QED
    BY <2>2, <2>3, <2>4, <2>5, <2>6, <2>7
<1> QED
  BY <1>6, <1>7

(* CountsExact follows from the invariant.                                 *)
LEMMA CountsHold ==
  ASSUME NEW A, Closed(A), Running(A) PROVE CountsExact
<1> SUFFICES ASSUME state \in Ended \ {"cut"}, NEW o \in Objects
             PROVE  heap[o].count = InRefs(heap, o) + Cardinality({o} \cap caller) + Cardinality({o} \cap {result})
                                      + Cardinality({o} \cap {pending})
  BY DEF CountsExact
<1>1. Finished
  BY DEF Running
<1> DEFINE X == Plus(Base(caller, pending), <<result>>)
<1>2. /\ caller \subseteq {ParamObject, EnvObject} /\ pending \in Values /\ heap \in Heaps
      /\ result \in Values \cup {Unbound} /\ Exact(heap, X)
  BY <1>1 DEF Finished
<1>3. heap[o].count = InRefs(heap, o) + X[o]
  BY <1>2 DEF Exact, Counted
<1>4. Base(caller, pending) \in Weights /\ Base(caller, pending) = Plus(Lends(caller), <<pending>>) /\ Lends(caller) \in Weights
  BY <1>2, BaseType, LendsType
<1>5. <<result>> \in Seq(Values \cup {Unbound}) /\ <<pending>> \in Seq(Values)
  BY <1>2
<1>6. X[o] = Base(caller, pending)[o] + Occurs(o, <<result>>)
  BY <1>4, <1>5, PlusType
<1>7. Base(caller, pending)[o] = Lends(caller)[o] + Occurs(o, <<pending>>)
  BY <1>4, <1>5, PlusType
<1>8. Lends(caller)[o] = Cardinality({o} \cap caller)
  BY DEF Lends
<1>9. ASSUME NEW x PROVE Occurs(o, <<x>>) = Cardinality({o} \cap {x}) /\ Occurs(o, <<x>>) \in Nat
  <2>1. Occurs(o, <<x>>) = IF x = o THEN 1 ELSE 0
    BY OccursOne
  <2>2. CASE x = o
    <3>1. {o} \cap {x} = {o}
      BY <2>2
    <3>2. Cardinality({o}) = 1
      BY FS_Singleton
    <3> QED
      BY <2>1, <2>2, <3>1, <3>2
  <2>3. CASE x # o
    <3>1. {o} \cap {x} = {}
      BY <2>3
    <3>2. Cardinality({}) = 0
      BY FS_EmptySet
    <3> QED
      BY <2>1, <2>3, <3>1, <3>2
  <2> QED
    BY <2>2, <2>3
<1>10. /\ Occurs(o, <<result>>) = Cardinality({o} \cap {result}) /\ Occurs(o, <<result>>) \in Nat
       /\ Occurs(o, <<pending>>) = Cardinality({o} \cap {pending}) /\ Occurs(o, <<pending>>) \in Nat
  BY <1>9
<1>11. InRefs(heap, o) \in Nat /\ Lends(caller)[o] \in Nat
  BY <1>2, <1>4, InRefsTotal DEF Weights
<1> HIDE DEF X
<1> DEFINE i == InRefs(heap, o)
           l == Lends(caller)[o]
           r == Occurs(o, <<result>>)
           x == Occurs(o, <<pending>>)
<1>12. heap[o].count = i + ((l + x) + r) /\ i \in Nat /\ l \in Nat /\ r \in Nat /\ x \in Nat
  BY <1>3, <1>6, <1>7, <1>10, <1>11
<1>13. heap[o].count = i + l + r + x
  <2> HIDE DEF i, l, r, x
  <2> QED
    BY <1>12
<1> QED
  BY <1>8, <1>10, <1>13

(* ReleasedInOrder follows from the invariant.                             *)
LEMMA OrderHolds ==
  ASSUME NEW A, Closed(A), Running(A) PROVE ReleasedInOrder
<1>1. ASSUME AtValue({"release", "retire"})
      PROVE  /\ held # <<>> /\ env[Head(Stmt(code).value.args)] = Last(held)
             /\ Stmt(code).value.op = "release" => Last(held) \notin released
  <2> DEFINE s == Stmt(code)
  <2>1. state = "run" /\ AtLet(code) /\ s.value.op \in {"release", "retire"}
    BY <1>1 DEF AtValue, AtStmt, AtLet
  <2>2. PICK p : Place(code, p) \in A /\ Fitting(p)
    BY <2>1 DEF Running
  <2>3. p \in Points /\ LetRight(p, s)
    BY <2>1, <2>2, LetHere
  <2>4. p.open # <<>> /\ s.value.args = <<Last(p.open)>> /\ (s.value.op = "release" => ~p.done)
    BY <2>1, <2>3 DEF LetRight, ValueRight
  <2>5. /\ held \in Seq(Objects) /\ Len(held) = Len(p.open) /\ \A i \in DOMAIN p.open : held[i] = env[p.open[i]]
        /\ released = IF p.done THEN {Last(held)} ELSE {}
    BY <2>2 DEF Fitting, Fits, Handlers
  <2> DEFINE open == p.open
  <2>6. open \in Seq(Variables) /\ open # <<>>
    BY <2>3, <2>4, PointOf
  <2>7. held # <<>>
    BY <2>5, <2>6
  <2>8. Last(open) = open[Len(open)] /\ Last(held) = held[Len(held)] /\ Len(open) \in DOMAIN open
    BY <2>5, <2>6, <2>7 DEF Last
  <2>9. env[Last(open)] = Last(held)
    BY <2>5, <2>8
  <2> QED
    BY <2>4, <2>5, <2>7, <2>9
<1>2. ASSUME state \in Ended \ {"cut"} PROVE held = <<>> /\ holds = 0
  BY <1>2 DEF Running, Finished
<1> QED
  BY <1>1, <1>2 DEF ReleasedInOrder

(* DefectKept follows from the invariant.                                  *)
LEMMA DefectHolds ==
  ASSUME NEW A, Closed(A), Running(A) PROVE DefectKept
<1>1. ASSUME AtStmt("let"), MayDefect(Stmt(code).value) \/ Stmt(code).value.op = "raise"
      PROVE  pending = Static
  <2> DEFINE s == Stmt(code)
  <2>1. state = "run" /\ AtLet(code)
    BY <1>1 DEF AtStmt, AtLet
  <2>2. PICK p : Place(code, p) \in A /\ Fitting(p)
    BY <2>1 DEF Running
  <2>3. p \in Points /\ LetRight(p, s)
    BY <2>1, <2>2, LetHere
  <2>4. ~p.pend
    <3>1. CASE MayDefect(s.value)
      BY <2>3, <3>1 DEF LetRight
    <3>2. CASE s.value.op = "raise"
      BY <2>3, <3>2 DEF LetRight, ValueRight
    <3> QED
      BY <1>1, <3>1, <3>2
  <2>5. p.pend = (pending # Static)
    BY <2>2 DEF Fitting, Fits, Defects
  <2> QED
    BY <2>4, <2>5
<1>2. ASSUME state \in Ended \ {"cut"}
      PROVE  /\ state = "unwind" <=> gravest # NoDefect
             /\ state = "unwind" => pending # Static /\ grade[Nil] = gravest
  <2>1. /\ state = "unwind" <=> pending # Static
        /\ Chain(IF state = "unwind" THEN {Nil} ELSE {}, grade, gravest)
    BY <1>2 DEF Running, Finished
  <2>2. CASE state = "unwind"
    <3>1. Chain({Nil}, grade, gravest)
      BY <2>1, <2>2
    <3>2. gravest # NoDefect /\ grade[Nil] = gravest
      BY <3>1 DEF Chain
    <3> QED
      BY <2>1, <2>2, <3>2
  <2>3. CASE state # "unwind"
    <3>1. Chain({}, grade, gravest)
      BY <2>1, <2>3
    <3>2. gravest = NoDefect
      BY <3>1 DEF Chain
    <3> QED
      BY <2>3, <3>2
  <2> QED
    BY <2>2, <2>3
<1> QED
  BY <1>1, <1>2 DEF DefectKept

-----------------------------------------------------------------------------
(* The heap a function starts with, made object by object.                 *)

NoWeight == [o \in Objects |-> 0]
NoToken == [v \in Variables |-> 0]
EmptyHeap == [o \in Objects |-> Free]

(* A heap without objects.                                                 *)
LEMMA SoundEmpty ==
  ASSUME NEW e \in Envs PROVE Sound(NoToken, e, EmptyHeap, NoWeight) /\ NoWeight \in Weights
<1>1. NoToken \in Tokens /\ NoWeight \in Weights /\ EmptyHeap \in Heaps
  <2>1. <<>> \in Seq(Values)
    OBVIOUS
  <2> QED
    BY <2>1 DEF NoToken, NoWeight, EmptyHeap, Tokens, Weights, Heaps, Free
<1>2. ASSUME NEW o \in Objects PROVE EmptyHeap[o].count = InRefs(EmptyHeap, o) + Held(NoToken, e, NoWeight)[o]
  <2>1. InRefs(EmptyHeap, o) = 0
    <3> DEFINE F == RefsTo(EmptyHeap, o)
    <3>1. InRefs(EmptyHeap, o) = Total(Objects, F) /\ \A n \in Objects : IsFiniteSet(F[n])
      BY <1>1, InRefsTotal
    <3>2. \A n \in Objects : F[n] = {}
      BY DEF RefsTo, At, EmptyHeap, Free
    <3> HIDE DEF F
    <3>3. Total(Objects, F) = 0
      BY <3>1, <3>2, TotalZero, ObjectsFinite
    <3> QED
      BY <3>1, <3>3
  <2>2. VarRefs(NoToken, e, o) = 0
    BY <1>1, VarZero DEF NoToken
  <2>3. Held(NoToken, e, NoWeight)[o] = 0
    BY <1>1, <2>2, HeldType DEF NoWeight
  <2> QED
    BY <2>1, <2>3 DEF EmptyHeap, Free
<1>3. Freed(EmptyHeap)
  BY DEF Freed, EmptyHeap, Free
<1>4. \A v \in Variables : NoToken[v] = 0
  BY DEF NoToken
<1> QED
  BY <1>1, <1>2, <1>3, <1>4 DEF Sound, Exact, Counted

(* An object that refers to none, and one that refers to it.               *)
Paired(h, part, whole) == [[h EXCEPT ![part] = Object(<<>>)] EXCEPT ![whole] = Object(One(part))]

(* Two objects more, one of which is in hand.                              *)
LEMMA SoundPaired ==
  ASSUME NEW own, NEW e, NEW h, NEW G \in Weights, Sound(own, e, h, G), NEW part \in Objects, NEW whole \in Objects,
         part # whole, h[part].count = 0, h[whole].count = 0
  PROVE  Sound(own, e, Paired(h, part, whole), Plus(G, One(whole)))
<1> DEFINE h1 == [h EXCEPT ![part] = Object(<<>>)]
           none == <<>>
<1>1. none \in Seq(Values) /\ Sound(own, e, h, Plus(G, none)) /\ h \in Heaps
  BY PlusNone DEF Sound, Exact, Counted
<1> HIDE DEF none
<1>2. Sound(own, e, [h EXCEPT ![part] = Object(none)], Plus(G, <<part>>))
  BY <1>1, SoundMake
<1>3. h1[whole].count = 0
  BY <1>1 DEF Heaps
<1>4. Sound(own, e, h1, Plus(G, One(part))) /\ One(part) \in Seq(Values)
  BY <1>2 DEF none, One, Values
<1> HIDE DEF h1
<1>5. Sound(own, e, [h1 EXCEPT ![whole] = Object(One(part))], Plus(G, <<whole>>))
  BY <1>3, <1>4, SoundMake
<1> QED
  BY <1>5 DEF Paired, h1, One

StartEnv == [v \in Variables |-> CASE v = Param -> ParamObject [] v = Env -> EnvObject [] OTHER -> Unbound]
StartHeap(shared) ==
  [o \in Objects |-> CASE o = ParamObject -> [Object(<<2>>) EXCEPT !.count = IF shared THEN 2 ELSE 1]
                       [] o = EnvObject -> Object(<<4>>)
                       [] o \in {2, 4} -> Object(<<>>)
                       [] OTHER -> Free]
StartCaller(shared) == IF shared THEN {ParamObject, EnvObject} ELSE {EnvObject}
StartOwn == [v \in Variables |-> IF v = Param THEN 1 ELSE 0]

(* The heap at the start: the parameter is owned, and the caller has its   *)
(* own.                                                                    *)
LEMMA SoundStart ==
  ASSUME NEW shared \in BOOLEAN
  PROVE  Sound(StartOwn, StartEnv, StartHeap(shared), Base(StartCaller(shared), Static))
<1> DEFINE e == StartEnv
           c == StartCaller(shared)
           h1 == Paired(EmptyHeap, 2, 1)
           h2 == Paired(h1, 4, 3)
           G0 == NoWeight
           G1 == Plus(G0, One(1))
           G2 == Plus(G1, One(3))
           B == Base(c, Static)
<1>1. {1, 2, 3, 4} \subseteq Objects /\ ParamObject = 1 /\ EnvObject = 3
  BY ObjectsNamed DEF ParamObject, EnvObject
<1>2. e \in Envs /\ e[Param] = ParamObject /\ e[Env] = EnvObject
  BY <1>1, NamesApart DEF StartEnv, Envs
<1>3. Sound(NoToken, e, EmptyHeap, G0) /\ G0 \in Weights
  BY <1>2, SoundEmpty
<1>4. \A o \in Objects : h1[o] = IF o = 1 THEN Object(<<2>>) ELSE IF o = 2 THEN Object(<<>>) ELSE Free
  BY <1>1 DEF Paired, One, EmptyHeap
<1>5. \A o \in Objects : h2[o] = IF o = 1 THEN Object(<<2>>) ELSE IF o = 3 THEN Object(<<4>>)
                                 ELSE IF o \in {2, 4} THEN Object(<<>>) ELSE Free
  <2>1. \A o \in Objects : h2[o] = IF o = 3 THEN Object(<<4>>) ELSE IF o = 4 THEN Object(<<>>) ELSE h1[o]
    <3>1. h1 \in [Objects -> {h1[o] : o \in Objects}]
      BY DEF Paired, EmptyHeap
    <3> HIDE DEF h1
    <3> QED
      BY <1>1, <3>1 DEF Paired, One
  <2> QED
    BY <1>1, <1>4, <2>1
<1>6. EmptyHeap[1].count = 0 /\ EmptyHeap[2].count = 0 /\ h1[3].count = 0 /\ h1[4].count = 0
  BY <1>1, <1>4 DEF EmptyHeap, Free
<1> HIDE DEF h1, e, G0
<1>7. Sound(NoToken, e, Paired(EmptyHeap, 2, 1), G1)
  BY <1>1, <1>3, <1>6, SoundPaired
<1>8. One(1) \in Seq(Values) /\ One(3) \in Seq(Values)
  BY <1>1 DEF One, Values
<1>9. G1 \in Weights /\ \A o \in Objects : G1[o] = G0[o] + Occurs(o, One(1))
  BY <1>3, <1>8, PlusType
<1>10. Sound(NoToken, e, h1, G1)
  BY <1>7 DEF h1
<1> HIDE DEF G1
<1>11. Sound(NoToken, e, h2, G2)
  BY <1>1, <1>6, <1>9, <1>10, SoundPaired
<1>12. G2 \in Weights /\ \A o \in Objects : G2[o] = G1[o] + Occurs(o, One(3))
  BY <1>8, <1>9, PlusType
<1> HIDE DEF G2, h2
<1>13. \A o \in Objects : G2[o] = (IF o = 1 THEN 1 ELSE 0) + (IF o = 3 THEN 1 ELSE 0)
  BY <1>9, <1>12, OccursOne DEF G0, NoWeight, One
<1>14. c \subseteq {ParamObject, EnvObject} /\ B \in Weights /\ B = Lends(c)
       /\ \A o \in Objects : Lends(c)[o] = IF o \in c THEN 1 ELSE 0
  <2>1. c \subseteq {ParamObject, EnvObject}
    BY DEF StartCaller
  <2>2. Static \in Values
    BY DEF Values
  <2> QED
    BY <2>1, <2>2, BaseType, LendsType
<1>15. Plus(B, One(1)) \in Weights /\ \A o \in Objects : Plus(B, One(1))[o] = B[o] + Occurs(o, One(1))
  BY <1>8, <1>14, PlusType
<1>16. \A o \in Objects : Plus(B, One(1))[o] = (IF o \in c THEN 1 ELSE 0) + (IF o = 1 THEN 1 ELSE 0)
  BY <1>14, <1>15, OccursOne DEF One
<1>17. Sound(NoToken, e, StartHeap(shared), Plus(B, One(1)))
  <2>1. CASE ~shared
    <3>1. c = {3}
      BY <1>1, <2>1 DEF StartCaller
    <3>2. Plus(B, One(1)) = G2
      BY <1>12, <1>13, <1>15, <1>16, <3>1 DEF Weights
    <3>3. h2 \in [Objects -> {h2[o] : o \in Objects}]
      BY <1>11 DEF Sound, Exact, Counted, Heaps
    <3>4. ASSUME NEW o \in Objects PROVE StartHeap(shared)[o] = h2[o]
      <4>1. [Object(<<2>>) EXCEPT !.count = IF shared THEN 2 ELSE 1] = Object(<<2>>)
        BY <2>1 DEF Object
      <4> QED
        BY <1>1, <1>5, <4>1 DEF StartHeap
    <3>5. StartHeap(shared) = h2
      BY <3>3, <3>4 DEF StartHeap
    <3> QED
      BY <1>11, <3>2, <3>5
  <2>2. CASE shared
    <3>1. c = {1, 3}
      BY <1>1, <2>2 DEF StartCaller
    <3>2. Plus(G2, One(1)) \in Weights /\ \A o \in Objects : Plus(G2, One(1))[o] = G2[o] + Occurs(o, One(1))
      BY <1>8, <1>12, PlusType
    <3>3. \A o \in Objects : Plus(G2, One(1))[o] = Plus(B, One(1))[o]
      BY <1>13, <1>16, <3>1, <3>2, OccursOne DEF One
    <3>4. Plus(B, One(1)) = Plus(G2, One(1))
      BY <1>15, <3>2, <3>3 DEF Weights
    <3>5. Live(h2, 1) /\ 1 \in Values
      BY <1>1, <1>5 DEF Live, Object, Values
    <3>6. Sound(NoToken, e, Duped(h2, 1), Plus(G2, <<1>>))
      BY <1>11, <3>5, SoundDup
    <3>7. h2 \in Heaps
      BY <1>11, SoundType
    <3>8. Duped(h2, 1) = [h2 EXCEPT ![1].count = @ + 1]
      BY <1>1, <3>5 DEF Duped
    <3>9. ASSUME NEW o \in Objects PROVE StartHeap(shared)[o] = [h2 EXCEPT ![1].count = @ + 1][o]
      <4>1. [Object(<<2>>) EXCEPT !.count = IF shared THEN 2 ELSE 1] = [Object(<<2>>) EXCEPT !.count = @ + 1]
        BY <2>2 DEF Object
      <4>2. [h2 EXCEPT ![1].count = @ + 1][o] = IF o = 1 THEN [h2[1] EXCEPT !.count = @ + 1] ELSE h2[o]
        BY <1>1, <3>7 DEF Heaps
      <4> QED
        BY <1>1, <1>5, <4>1, <4>2 DEF StartHeap
    <3>10. StartHeap(shared) = [h2 EXCEPT ![1].count = @ + 1]
      BY <3>7, <3>9 DEF StartHeap, Heaps
    <3> QED
      BY <3>4, <3>6, <3>8, <3>10 DEF One
  <2> QED
    BY <2>1, <2>2
<1> DEFINE h == StartHeap(shared)
<1> HIDE DEF B, h
<1>18. Sound(Defined(NoToken, Range(One(Param)), 1), Bind(e, One(Param), One(1)), h, B)
  <2>1. 1 \in Values /\ Param \in Variables /\ NoToken[Param] = 0 /\ Sound(NoToken, e, h, Plus(B, One(1)))
    BY <1>1, <1>17, NamesApart DEF Values, NoToken, h
  <2> QED
    BY <1>14, <2>1, BindOne
<1>19. Defined(NoToken, Range(One(Param)), 1) = StartOwn
  <2>1. Range(One(Param)) = {Param}
    BY DEF One, Range
  <2> QED
    BY <2>1 DEF Defined, NoToken, StartOwn
<1>20. Bind(e, One(Param), One(1)) = e
  <2>1. Range(One(Param)) = {Param} /\ DOMAIN One(Param) = {1} /\ One(Param)[1] = Param /\ One(1)[1] = 1
    BY DEF One, Range
  <2>2. (CHOOSE i \in DOMAIN One(Param) : One(Param)[i] = Param) = 1
    BY <2>1
  <2>3. \A v \in Variables : Bind(e, One(Param), One(1))[v] = e[v]
    BY <1>1, <1>2, <2>1, <2>2 DEF Bind
  <2> QED
    BY <1>2, <2>3 DEF Bind, Envs
<1> QED
  BY <1>18, <1>19, <1>20 DEF e, h, B

Accepted == \A f \in Functions : \E A : Accepts(A, f)

(* A function that is accepted starts at a place of its set.               *)
LEMMA InitHolds ==
  ASSUME Accepted, HeapInit PROVE HeapInv
<1>1. PICK f \in Functions, shared \in BOOLEAN :
         /\ code = Entry(f) /\ env = StartEnv /\ heap = StartHeap(shared) /\ caller = StartCaller(shared)
         /\ pending = Static /\ holds = 0 /\ inflight = <<>> /\ state = "start" /\ result = Static
         /\ grade = [x \in Stashes \cup {Nil} |-> NoDefect]
         /\ held = <<>> /\ released = {} /\ gravest = NoDefect /\ recurs = 0
  BY DEF HeapInit, StartEnv, StartHeap, StartCaller
<1>2. PICK A : Accepts(A, f)
  BY DEF Accepted
<1> DEFINE p == [own |-> [v \in Variables |-> IF v = Param THEN 1 ELSE 0], fresh |-> Nil,
                 lent |-> TRUE, pend |-> FALSE, open |-> <<>>, done |-> FALSE, hold |-> 0]
<1>3. Closed(A) /\ Place(Entry(f), p) \in A
  BY <1>2 DEF Accepts, Closed, Start
<1>4. p.own = StartOwn /\ p.fresh = Nil /\ p.lent = TRUE /\ p.pend = FALSE /\ p.open = <<>> /\ p.done = FALSE /\ p.hold = 0
  BY DEF StartOwn
<1> HIDE DEF p
<1>5. p \in Points
  BY <1>3, HereIs
<1>6. Sound(p.own, env, heap, Base(caller, pending))
  BY <1>1, <1>4, SoundStart
<1>7. Lent(env, caller)
  BY <1>1, NamesApart DEF Lent, StartEnv, StartCaller
<1>8. Handlers(p.open, p.done, p.hold, env, held, released, holds)
  BY <1>1, <1>4 DEF Handlers
<1>9. Defects(p.own, p.pend, env, pending, grade, gravest)
  <2>1. There(StartOwn, FALSE) = {}
    BY NamesApart DEF There, StartOwn
  <2>2. grade \in Grading
    BY <1>1, GradesApart DEF Grading
  <2>3. Chain({}, grade, NoDefect)
    BY GradesApart DEF Chain
  <2>4. \A d \in Stashes : StartOwn[d] = 0
    BY NamesApart DEF StartOwn
  <2> QED
    BY <1>1, <1>4, <2>1, <2>2, <2>3, <2>4 DEF Defects
<1>10. caller \subseteq {ParamObject, EnvObject} /\ pending \in Values
  BY <1>1 DEF StartCaller, Values
<1>11. Fitting(p)
  BY <1>4, <1>5, <1>6, <1>7, <1>8, <1>9, <1>10 DEF Fitting, Fits
<1>12. recurs \in 0..MaxRecurs
  BY <1>1, MachineAssumption
<1>13. state \notin Ended
  BY <1>1 DEF Ended
<1>14. Running(A)
  BY <1>1, <1>3, <1>11, <1>12, <1>13 DEF Running
<1> QED
  BY <1>3, <1>14 DEF HeapInv

-----------------------------------------------------------------------------
(* Each step leads from a place of the set to another.                     *)

Goes(A) == \E p : Place(code', p) \in A /\ Fitting(p)'

(* A step to another place of the set keeps the invariant.                 *)
LEMMA RunsOn ==
  ASSUME NEW A, state' = "run", inflight' = <<>>, result' = Static, recurs' \in 0..MaxRecurs, Goes(A)
  PROVE  Running(A)'
<1>1. state' \notin Ended /\ state' # "suspended"
  BY DEF Ended
<1> QED
  BY <1>1 DEF Running, Goes

(* Where a run is.                                                         *)
LEMMA InRun ==
  ASSUME NEW A, Closed(A), Running(A), state \in {"start", "run"}
  PROVE  /\ inflight = <<>> /\ result = Static /\ recurs \in 0..MaxRecurs
         /\ \E p : Place(code, p) \in A /\ Fitting(p)
BY DEF Running

(* The call is made.                                                       *)
LEMMA CalledKeeps ==
  ASSUME NEW A, Closed(A), Running(A), Called PROVE Running(A)'
<1>1. /\ inflight = <<>> /\ result = Static /\ recurs \in 0..MaxRecurs
      /\ \E p : Place(code, p) \in A /\ Fitting(p)
  BY InRun DEF Called
<1>2. PICK p : Place(code, p) \in A /\ Fitting(p)
  BY <1>1
<1>3. /\ state' = "run" /\ code' = code /\ env' = env /\ heap' = heap /\ caller' = caller /\ pending' = pending
      /\ holds' = holds /\ inflight' = inflight /\ result' = result /\ grade' = grade /\ held' = held
      /\ released' = released /\ gravest' = gravest /\ recurs' = recurs
  BY DEF Called, ghosts
<1>4. Fitting(p)'
  BY <1>2, <1>3 DEF Fitting
<1> QED
  BY <1>1, <1>2, <1>3, <1>4, RunsOn DEF Goes

(* dup and drop.                                                           *)
LEMMA CountKeeps ==
  ASSUME NEW A, Closed(A), Running(A), Count PROVE Running(A)'
<1> PICK s : s = Stmt(code)
  OBVIOUS
<1>0. state = "run" /\ Top(code).stmts # <<>> /\ s.k \in {"dup", "drop"}
  BY DEF Count, AtStmt
<1>1. /\ inflight = <<>> /\ result = Static /\ recurs \in 0..MaxRecurs
      /\ \E p : Place(code, p) \in A /\ Fitting(p)
  BY <1>0, InRun
<1>2. PICK p : Place(code, p) \in A /\ Fitting(p)
  BY <1>1
<1>3. /\ state' = state /\ code' = Advanced(code) /\ env' = env /\ caller' = caller /\ pending' = pending
      /\ holds' = holds /\ inflight' = inflight /\ result' = result /\ grade' = grade /\ held' = held
      /\ released' = released /\ gravest' = gravest /\ recurs' = recurs
  BY DEF Count, ghosts
<1>4. p \in Points /\ StmtRight(p, s) /\ StmtWays(code, p, s) \subseteq A
  BY <1>0, <1>2, HereIs
<1>5. CASE s.k = "dup"
  <2> DEFINE v == s.v
             z == [p EXCEPT !.own[v] = @ + 1, !.fresh = Nil]
  <2>1. v \in Variables \ Stashes /\ (MayRead(p, v) \/ v = p.fresh)
    BY <1>4, <1>5 DEF StmtRight
  <2>2. Place(Advanced(code), z) \in A
    BY <1>4, <1>5 DEF StmtWays
  <2>3. heap' = Duped(heap, env[v])
    BY <1>5 DEF Count, AtStmt
  <2> HIDE DEF v
  <2>4. Fits(z, env, Duped(heap, env[v]), caller, pending, holds, grade, held, released, gravest)
    BY <1>2, <2>1, FitsDup DEF Fitting
  <2> HIDE DEF z
  <2>5. Fitting(z)'
    BY <1>3, <2>3, <2>4 DEF Fitting
  <2> QED
    BY <1>0, <1>1, <1>3, <2>2, <2>5, RunsOn DEF Goes
<1>6. CASE s.k = "drop"
  <2> DEFINE v == s.v
             z == Gives(p, One(v))
  <2>1. v \in Variables \ Stashes /\ p.own[v] >= 1
    BY <1>4, <1>6 DEF StmtRight
  <2>2. Place(Advanced(code), z) \in A
    BY <1>4, <1>6 DEF StmtWays, One
  <2>3. heap' = Dropped(heap, One(env[v]))
    BY <1>6 DEF Count, AtStmt, One
  <2>4. z = Gives(p, One(v))
    OBVIOUS
  <2> HIDE DEF v, z
  <2>5. z \in Points
    BY <2>2, HereIs
  <2>6. Fits(z, env, Dropped(heap, One(env[v])), caller, pending, holds, grade, held, released, gravest)
    BY <1>2, <2>1, <2>4, <2>5, FitsDrop DEF Fitting
  <2>7. Fitting(z)'
    BY <1>3, <2>3, <2>6 DEF Fitting
  <2> QED
    BY <1>0, <1>1, <1>3, <2>2, <2>7, RunsOn DEF Goes
<1> QED
  BY <1>0, <1>5, <1>6

(* A let that is next.                                                     *)
LEMMA LetRun ==
  ASSUME NEW A, Closed(A), Running(A), AtStmt("let"), NEW s, s = Stmt(code)
  PROVE  /\ state = "run" /\ inflight = <<>> /\ result = Static /\ recurs \in 0..MaxRecurs /\ AtLet(code)
         /\ \E p : /\ Place(code, p) \in A /\ Fitting(p) /\ p \in Points /\ LetRight(p, s) /\ OpenOwned(p, s)
                   /\ StashRight(p) /\ After(p, s) \in Points /\ Place(Advanced(code), After(p, s)) \in A
<1>0. state = "run" /\ AtLet(code)
  BY DEF AtStmt, AtLet
<1>1. /\ inflight = <<>> /\ result = Static /\ recurs \in 0..MaxRecurs
      /\ \E p : Place(code, p) \in A /\ Fitting(p)
  BY <1>0, InRun
<1>2. PICK p : Place(code, p) \in A /\ Fitting(p)
  BY <1>1
<1>3. /\ p \in Points /\ LetRight(p, s) /\ OpenOwned(p, s)
      /\ StashRight(p) /\ After(p, s) \in Points /\ Place(Advanced(code), After(p, s)) \in A
  BY <1>0, <1>2, LetHere
<1> QED
  BY <1>0, <1>1, <1>2, <1>3

(* A new object.                                                           *)
LEMMA MakeKeeps ==
  ASSUME NEW A, Closed(A), Running(A), Make PROVE Running(A)'
<1> PICK s : s = Stmt(code)
  OBVIOUS
<1>1. AtStmt("let") /\ s.value.op \in {"make"}
  BY DEF Make, AtValue
<1>2. /\ state = "run" /\ inflight = <<>> /\ result = Static /\ recurs \in 0..MaxRecurs
      /\ \E p : /\ Place(code, p) \in A /\ Fitting(p) /\ p \in Points /\ LetRight(p, s) /\ OpenOwned(p, s)
                /\ StashRight(p) /\ After(p, s) \in Points /\ Place(Advanced(code), After(p, s)) \in A
  BY <1>1, LetRun
<1>3. PICK p : /\ Place(code, p) \in A /\ Fitting(p) /\ p \in Points /\ LetRight(p, s) /\ OpenOwned(p, s)
               /\ StashRight(p) /\ After(p, s) \in Points /\ Place(Advanced(code), After(p, s)) \in A
  BY <1>2
<1> DEFINE z == After(p, s)
<1>4. /\ code' = Advanced(code) /\ caller' = caller /\ pending' = pending /\ holds' = holds
      /\ inflight' = inflight /\ state' = state /\ result' = result /\ grade' = grade /\ held' = held
      /\ released' = released /\ gravest' = gravest /\ recurs' = recurs
  BY DEF Make, ghosts
<1>5. PICK r \in Made(heap, ValuesOf(env, s.value.args)) : heap' = r.heap /\ env' = Bind(env, Dest(s), <<r.object>>)
  BY DEF Make, Of, ValuesOf
<1>6. Fits(z, Bind(env, Dest(s), <<r.object>>), r.heap, caller, pending, holds, grade, held, released, gravest)
  BY <1>1, <1>3, FitsMake DEF Fitting
<1> HIDE DEF z
<1>7. Fitting(z)'
  BY <1>4, <1>6, <1>5 DEF Fitting
<1> QED
  BY <1>2, <1>3, <1>4, <1>7, RunsOn DEF Goes, z

(* A part of an object.                                                    *)
LEMMA ViewKeeps ==
  ASSUME NEW A, Closed(A), Running(A), View PROVE Running(A)'
<1> PICK s : s = Stmt(code)
  OBVIOUS
<1>1. AtStmt("let") /\ s.value.op \in {"view"}
  BY DEF View, AtValue
<1>2. /\ state = "run" /\ inflight = <<>> /\ result = Static /\ recurs \in 0..MaxRecurs
      /\ \E p : /\ Place(code, p) \in A /\ Fitting(p) /\ p \in Points /\ LetRight(p, s) /\ OpenOwned(p, s)
                /\ StashRight(p) /\ After(p, s) \in Points /\ Place(Advanced(code), After(p, s)) \in A
  BY <1>1, LetRun
<1>3. PICK p : /\ Place(code, p) \in A /\ Fitting(p) /\ p \in Points /\ LetRight(p, s) /\ OpenOwned(p, s)
               /\ StashRight(p) /\ After(p, s) \in Points /\ Place(Advanced(code), After(p, s)) \in A
  BY <1>2
<1> DEFINE z == After(p, s)
<1>4. /\ code' = Advanced(code) /\ heap' = heap /\ caller' = caller /\ pending' = pending /\ holds' = holds
      /\ inflight' = inflight /\ state' = state /\ result' = result /\ grade' = grade /\ held' = held
      /\ released' = released /\ gravest' = gravest /\ recurs' = recurs
  BY DEF View, ghosts
<1> DEFINE base == env[Head(s.value.args)]
           o == IF base \in Objects /\ heap[base].refs # <<>> THEN Head(heap[base].refs) ELSE Static
<1>5. env' = Bind(env, Dest(s), <<o>>)
  BY DEF View
<1>50. base = env[Head(s.value.args)] /\ o = IF base \in Objects /\ heap[base].refs # <<>> THEN Head(heap[base].refs) ELSE Static
  OBVIOUS
<1> HIDE DEF base, o
<1>6. Fits(z, Bind(env, Dest(s), <<o>>), heap, caller, pending, holds, grade, held, released, gravest)
  BY <1>1, <1>3, <1>50, FitsView DEF Fitting
<1> HIDE DEF z
<1>7. Fitting(z)'
  BY <1>4, <1>6, <1>5 DEF Fitting
<1> QED
  BY <1>2, <1>3, <1>4, <1>7, RunsOn DEF Goes, z

(* A value that is looked at.                                              *)
LEMMA LookKeeps ==
  ASSUME NEW A, Closed(A), Running(A), Look PROVE Running(A)'
<1> PICK s : s = Stmt(code)
  OBVIOUS
<1>1. AtStmt("let") /\ s.value.op \in {"look", "div"}
  BY DEF Look, AtValue
<1>2. /\ state = "run" /\ inflight = <<>> /\ result = Static /\ recurs \in 0..MaxRecurs
      /\ \E p : /\ Place(code, p) \in A /\ Fitting(p) /\ p \in Points /\ LetRight(p, s) /\ OpenOwned(p, s)
                /\ StashRight(p) /\ After(p, s) \in Points /\ Place(Advanced(code), After(p, s)) \in A
  BY <1>1, LetRun
<1>3. PICK p : /\ Place(code, p) \in A /\ Fitting(p) /\ p \in Points /\ LetRight(p, s) /\ OpenOwned(p, s)
               /\ StashRight(p) /\ After(p, s) \in Points /\ Place(Advanced(code), After(p, s)) \in A
  BY <1>2
<1> DEFINE z == After(p, s)
<1>4. /\ code' = Advanced(code) /\ env' = env /\ heap' = heap /\ caller' = caller /\ pending' = pending
      /\ holds' = holds /\ inflight' = inflight /\ state' = state /\ result' = result /\ grade' = grade
      /\ held' = held /\ released' = released /\ gravest' = gravest /\ recurs' = recurs
  BY DEF Look, ghosts
<1>6. Fits(z, env, heap, caller, pending, holds, grade, held, released, gravest)
  BY <1>1, <1>3, FitsLook DEF Fitting
<1> HIDE DEF z
<1>7. Fitting(z)'
  BY <1>4, <1>6 DEF Fitting
<1> QED
  BY <1>2, <1>3, <1>4, <1>7, RunsOn DEF Goes, z

(* em_hold and em_unhold.                                                  *)
LEMMA HoldKeeps ==
  ASSUME NEW A, Closed(A), Running(A), Hold PROVE Running(A)'
<1> PICK s : s = Stmt(code)
  OBVIOUS
<1>1. AtStmt("let") /\ s.value.op \in {"hold", "unhold"}
  BY DEF Hold, AtValue
<1>2. /\ state = "run" /\ inflight = <<>> /\ result = Static /\ recurs \in 0..MaxRecurs
      /\ \E p : /\ Place(code, p) \in A /\ Fitting(p) /\ p \in Points /\ LetRight(p, s) /\ OpenOwned(p, s)
                /\ StashRight(p) /\ After(p, s) \in Points /\ Place(Advanced(code), After(p, s)) \in A
  BY <1>1, LetRun
<1>3. PICK p : /\ Place(code, p) \in A /\ Fitting(p) /\ p \in Points /\ LetRight(p, s) /\ OpenOwned(p, s)
               /\ StashRight(p) /\ After(p, s) \in Points /\ Place(Advanced(code), After(p, s)) \in A
  BY <1>2
<1> DEFINE z == After(p, s)
<1>4. /\ code' = Advanced(code) /\ env' = env /\ heap' = heap /\ caller' = caller /\ pending' = pending
      /\ inflight' = inflight /\ state' = state /\ result' = result /\ grade' = grade /\ held' = held
      /\ released' = released /\ gravest' = gravest /\ recurs' = recurs
  BY DEF Hold, ghosts
<1> DEFINE n == IF s.value.op = "hold" THEN holds + 1 ELSE holds - 1
<1>5. holds' = n
  BY DEF Hold, AtValue
<1>6. Fits(z, env, heap, caller, pending, n, grade, held, released, gravest)
  BY <1>1, <1>3, FitsHold DEF Fitting
<1> HIDE DEF z
<1>7. Fitting(z)'
  BY <1>4, <1>6, <1>5 DEF Fitting
<1> QED
  BY <1>2, <1>3, <1>4, <1>7, RunsOn DEF Goes, z

(* em_retire.                                                              *)
LEMMA RetireKeeps ==
  ASSUME NEW A, Closed(A), Running(A), Retire PROVE Running(A)'
<1> PICK s : s = Stmt(code)
  OBVIOUS
<1>1. AtStmt("let") /\ s.value.op \in {"retire"}
  BY DEF Retire, AtValue
<1>2. /\ state = "run" /\ inflight = <<>> /\ result = Static /\ recurs \in 0..MaxRecurs
      /\ \E p : /\ Place(code, p) \in A /\ Fitting(p) /\ p \in Points /\ LetRight(p, s) /\ OpenOwned(p, s)
                /\ StashRight(p) /\ After(p, s) \in Points /\ Place(Advanced(code), After(p, s)) \in A
  BY <1>1, LetRun
<1>3. PICK p : /\ Place(code, p) \in A /\ Fitting(p) /\ p \in Points /\ LetRight(p, s) /\ OpenOwned(p, s)
               /\ StashRight(p) /\ After(p, s) \in Points /\ Place(Advanced(code), After(p, s)) \in A
  BY <1>2
<1> DEFINE z == After(p, s)
<1>4. /\ code' = Advanced(code) /\ env' = env /\ heap' = heap /\ caller' = caller /\ pending' = pending
      /\ holds' = holds /\ inflight' = inflight /\ state' = state /\ result' = result /\ grade' = grade
      /\ gravest' = gravest /\ recurs' = recurs
  BY DEF Retire, ghosts
<1>5. /\ held # <<>> /\ env[Head(s.value.args)] = Last(held)
      /\ Fits(z, env, heap, caller, pending, holds, grade, Front(held), released \ {env[Head(s.value.args)]}, gravest)
  BY <1>1, <1>3, FitsRetire DEF Fitting
<1>6. held' = Front(held) /\ released' = released \ {env[Head(s.value.args)]}
  BY <1>5 DEF Retire
<1> HIDE DEF z
<1>7. Fitting(z)'
  BY <1>4, <1>6, <1>5 DEF Fitting
<1> QED
  BY <1>2, <1>3, <1>4, <1>7, RunsOn DEF Goes, z

(* em_raise.                                                               *)
LEMMA RaiseDefectKeeps ==
  ASSUME NEW A, Closed(A), Running(A), RaiseDefect PROVE Running(A)'
<1> PICK s : s = Stmt(code)
  OBVIOUS
<1>1. AtStmt("let") /\ s.value.op \in {"raise"}
  BY DEF RaiseDefect, AtValue
<1>2. /\ state = "run" /\ inflight = <<>> /\ result = Static /\ recurs \in 0..MaxRecurs
      /\ \E p : /\ Place(code, p) \in A /\ Fitting(p) /\ p \in Points /\ LetRight(p, s) /\ OpenOwned(p, s)
                /\ StashRight(p) /\ After(p, s) \in Points /\ Place(Advanced(code), After(p, s)) \in A
  BY <1>1, LetRun
<1>3. PICK p : /\ Place(code, p) \in A /\ Fitting(p) /\ p \in Points /\ LetRight(p, s) /\ OpenOwned(p, s)
               /\ StashRight(p) /\ After(p, s) \in Points /\ Place(Advanced(code), After(p, s)) \in A
  BY <1>2
<1> DEFINE z == After(p, s)
<1>4. /\ code' = Advanced(code) /\ env' = env /\ caller' = caller /\ holds' = holds /\ inflight' = inflight
      /\ state' = state /\ result' = result /\ held' = held /\ released' = released /\ recurs' = recurs
  BY DEF RaiseDefect, ghosts
<1> DEFINE g2 == PendingGrade(grade, GradeAfter(gravest))
           gr2 == GravestWith(gravest, GradeAfter(gravest))
<1>5. PICK r : r \in RaisedBy(MessageOf(env, s), heap) /\ heap' = r.heap /\ Pends(r.object, NewDefect)
  BY DEF RaiseDefect, RaisedBy, MessageOf
<1>50. /\ pending' = r.object /\ grade' = g2 /\ gravest' = gr2
  BY <1>5 DEF Pends, NewDefect, PendingGrade, GradeAfter, GravestWith
<1>6. Fits(z, env, r.heap, caller, r.object, holds, g2, held, released, gr2)
  BY <1>1, <1>3, <1>5, FitsRaise DEF Fitting
<1> HIDE DEF z
<1>7. Fitting(z)'
  BY <1>4, <1>6, <1>5, <1>50 DEF Fitting
<1> QED
  BY <1>2, <1>3, <1>4, <1>7, RunsOn DEF Goes, z

(* em_defect_take.                                                         *)
LEMMA TakeKeeps ==
  ASSUME NEW A, Closed(A), Running(A), Take PROVE Running(A)'
<1> PICK s : s = Stmt(code)
  OBVIOUS
<1>1. AtStmt("let") /\ s.value.op \in {"take"}
  BY DEF Take, AtValue
<1>2. /\ state = "run" /\ inflight = <<>> /\ result = Static /\ recurs \in 0..MaxRecurs
      /\ \E p : /\ Place(code, p) \in A /\ Fitting(p) /\ p \in Points /\ LetRight(p, s) /\ OpenOwned(p, s)
                /\ StashRight(p) /\ After(p, s) \in Points /\ Place(Advanced(code), After(p, s)) \in A
  BY <1>1, LetRun
<1>3. PICK p : /\ Place(code, p) \in A /\ Fitting(p) /\ p \in Points /\ LetRight(p, s) /\ OpenOwned(p, s)
               /\ StashRight(p) /\ After(p, s) \in Points /\ Place(Advanced(code), After(p, s)) \in A
  BY <1>2
<1> DEFINE z == After(p, s)
<1>4. /\ code' = Advanced(code) /\ heap' = heap /\ caller' = caller /\ holds' = holds
      /\ inflight' = inflight /\ state' = state /\ result' = result /\ held' = held /\ released' = released
      /\ gravest' = gravest /\ recurs' = recurs
  BY DEF Take, ghosts
<1> DEFINE g2 == [grade EXCEPT ![s.dst] = grade[Nil], ![Nil] = NoDefect]
<1>5. env' = Bind(env, Dest(s), <<pending>>) /\ pending' = Static /\ grade' = g2
  BY DEF Take
<1>50. g2 = [grade EXCEPT ![s.dst] = grade[Nil], ![Nil] = NoDefect]
  OBVIOUS
<1> HIDE DEF g2
<1>6. Fits(z, Bind(env, Dest(s), <<pending>>), heap, caller, Static, holds, g2, held, released, gravest)
  BY <1>1, <1>3, <1>50, FitsTake DEF Fitting
<1> HIDE DEF z
<1>7. Fitting(z)'
  BY <1>4, <1>6, <1>5 DEF Fitting
<1> QED
  BY <1>2, <1>3, <1>4, <1>7, RunsOn DEF Goes, z

(* em_defect_resume.                                                       *)
LEMMA ResumeKeeps ==
  ASSUME NEW A, Closed(A), Running(A), Resume PROVE Running(A)'
<1> PICK s : s = Stmt(code)
  OBVIOUS
<1>1. AtStmt("let") /\ s.value.op \in {"resume"}
  BY DEF Resume, AtValue
<1>2. /\ state = "run" /\ inflight = <<>> /\ result = Static /\ recurs \in 0..MaxRecurs
      /\ \E p : /\ Place(code, p) \in A /\ Fitting(p) /\ p \in Points /\ LetRight(p, s) /\ OpenOwned(p, s)
                /\ StashRight(p) /\ After(p, s) \in Points /\ Place(Advanced(code), After(p, s)) \in A
  BY <1>1, LetRun
<1>3. PICK p : /\ Place(code, p) \in A /\ Fitting(p) /\ p \in Points /\ LetRight(p, s) /\ OpenOwned(p, s)
               /\ StashRight(p) /\ After(p, s) \in Points /\ Place(Advanced(code), After(p, s)) \in A
  BY <1>2
<1> DEFINE z == After(p, s)
<1>4. /\ code' = Advanced(code) /\ env' = env /\ caller' = caller /\ holds' = holds /\ inflight' = inflight
      /\ state' = state /\ result' = result /\ held' = held /\ released' = released /\ gravest' = gravest
      /\ recurs' = recurs
  BY DEF Resume, ghosts
<1>5. PICK r \in Resumed(Head(s.value.args)) :
         heap' = r.heap /\ pending' = r.object /\ grade' = [grade EXCEPT ![Nil] = grade[r.of]]
  BY DEF Resume
<1>6. Fits(z, env, r.heap, caller, r.object, holds, [grade EXCEPT ![Nil] = grade[r.of]], held, released, gravest)
  BY <1>1, <1>3, FitsResume DEF Fitting, StashRight
<1> HIDE DEF z
<1>7. Fitting(z)'
  BY <1>4, <1>6, <1>5 DEF Fitting
<1> QED
  BY <1>2, <1>3, <1>4, <1>7, RunsOn DEF Goes, z

(* A call on its way back, at once or resumed.                             *)
LEMMA ComesMid ==
  ASSUME NEW A, Closed(A), Running(A), Comes, NEW s, s = Stmt(code)
  PROVE  /\ result = Static /\ recurs \in 0..MaxRecurs /\ AtLet(code)
         /\ MayDefect(s.value) \/ s.value.op = "pure"
         /\ \E p : /\ Place(code, p) \in A
                   /\ Mid(p, s, Given, env, heap, caller, pending, holds, grade, held, released, gravest)
<1>1. CASE state = "suspended"
  <2>1. /\ AtLet(code) /\ s.saved # <<>> /\ result = Static /\ recurs \in 0..MaxRecurs
        /\ \E p : Place(code, p) \in A /\ Waiting(p)
    BY <1>1 DEF Running
  <2>2. PICK p : Place(code, p) \in A /\ Waiting(p)
    BY <2>1
  <2>3. LetRight(p, s)
    BY <2>1, <2>2, LetHere
  <2>4. MayDefect(s.value)
    BY <2>1, <2>3 DEF LetRight, SavedRight
  <2>5. Given = inflight
    BY <1>1 DEF Given
  <2>6. Mid(p, s, Given, env, heap, caller, pending, holds, grade, held, released, gravest)
    BY <2>2, <2>5 DEF Waiting
  <2> QED
    BY <2>1, <2>2, <2>4, <2>6
<1>2. CASE state # "suspended"
  <2>1. AtStmt("let") /\ (MayDefect(s.value) \/ s.value.op = "pure")
    BY <1>2 DEF Comes
  <2>2. /\ result = Static /\ recurs \in 0..MaxRecurs /\ AtLet(code)
        /\ \E p : /\ Place(code, p) \in A /\ Fitting(p) /\ p \in Points /\ LetRight(p, s) /\ OpenOwned(p, s)
                  /\ StashRight(p) /\ After(p, s) \in Points /\ Place(Advanced(code), After(p, s)) \in A
    BY <2>1, LetRun
  <2>3. PICK p : Place(code, p) \in A /\ Fitting(p) /\ LetRight(p, s)
    BY <2>2
  <2>4. Given = ValuesOf(env, Consumed(s.value))
    BY <1>2 DEF Given, Of, ValuesOf
  <2>5. Mid(p, s, ValuesOf(env, Consumed(s.value)), env, heap, caller, pending, holds, grade, held, released, gravest)
    BY <2>3, MidAtOnce DEF Fitting
  <2> QED
    BY <2>1, <2>2, <2>3, <2>4, <2>5
<1> QED
  BY <1>1, <1>2

(* What may raise or is called is no em_defect_resume.                     *)
LEMMA MayDefectIs ==
  ASSUME NEW v, MayDefect(v) \/ v.op = "pure" PROVE v.op # "resume"
BY DEF MayDefect, Calls

(* A call comes back with a value.                                         *)
LEMMA ReturnsKeeps ==
  ASSUME NEW A, Closed(A), Running(A), Returns PROVE Running(A)'
<1> PICK s : s = Stmt(code)
  OBVIOUS
<1>1. /\ result = Static /\ recurs \in 0..MaxRecurs /\ AtLet(code)
      /\ MayDefect(s.value) \/ s.value.op = "pure"
      /\ \E p : /\ Place(code, p) \in A
                /\ Mid(p, s, Given, env, heap, caller, pending, holds, grade, held, released, gravest)
  BY ComesMid DEF Returns
<1>2. PICK p : /\ Place(code, p) \in A
               /\ Mid(p, s, Given, env, heap, caller, pending, holds, grade, held, released, gravest)
  BY <1>1
<1>3. /\ p \in Points /\ LetRight(p, s) /\ OpenOwned(p, s) /\ After(p, s) \in Points
      /\ Place(Advanced(code), After(p, s)) \in A
  BY <1>1, <1>2, LetHere
<1> DEFINE z == After(p, s)
<1>4. /\ code' = Advanced(code) /\ caller' = caller /\ pending' = pending /\ holds' = holds /\ result' = result
      /\ grade' = grade /\ gravest' = gravest /\ recurs' = recurs /\ state' = "run" /\ inflight' = <<>>
      /\ released' = Back2(s, Given, released)
  BY DEF Returns, Back, Back2
<1>5. PICK r \in Outcomes(s.value, s.dst) :
         /\ heap' = r.heap /\ env' = Bind(Emptied(s.value), Dest(s), <<r.object>>)
         /\ held' = IF s.value.op = "acquire" THEN Append(held, r.object) ELSE held
  BY DEF Returns, Emptied
<1>6. Fits(z, Bind(Emptied(s.value), Dest(s), <<r.object>>), r.heap, caller, pending, holds, grade,
           IF s.value.op = "acquire" THEN Append(held, r.object) ELSE held, Back2(s, Given, released), gravest)
  BY <1>1, <1>2, <1>3, FitsReturned
<1> HIDE DEF z
<1>7. Fitting(z)'
  BY <1>4, <1>5, <1>6 DEF Fitting
<1> QED
  BY <1>1, <1>3, <1>4, <1>7, RunsOn DEF Goes, z

(* A call fails.                                                           *)
LEMMA FailsKeeps ==
  ASSUME NEW A, Closed(A), Running(A), Fails PROVE Running(A)'
<1> PICK s : s = Stmt(code)
  OBVIOUS
<1>1. /\ result = Static /\ recurs \in 0..MaxRecurs /\ AtLet(code)
      /\ MayDefect(s.value) \/ s.value.op = "pure"
      /\ \E p : /\ Place(code, p) \in A
                /\ Mid(p, s, Given, env, heap, caller, pending, holds, grade, held, released, gravest)
  BY ComesMid DEF Fails
<1>2. PICK p : /\ Place(code, p) \in A
               /\ Mid(p, s, Given, env, heap, caller, pending, holds, grade, held, released, gravest)
  BY <1>1
<1> DEFINE z == Binds(AtLanding(p, s), <<Err>>, 1)
<1>20. s.value.fail # <<>>
  BY DEF Fails
<1>3. /\ p \in Points /\ LetRight(p, s) /\ OpenOwned(p, s) /\ z \in Points
      /\ Place(Landed(code, Head(s.value.fail)), z) \in A
  BY <1>1, <1>2, <1>20, LetHere
<1>4. /\ code' = Landed(code, Head(s.value.fail)) /\ caller' = caller /\ pending' = pending /\ holds' = holds
      /\ result' = result /\ grade' = grade /\ gravest' = gravest /\ recurs' = recurs /\ state' = "run"
      /\ inflight' = <<>> /\ held' = held /\ released' = Back2(s, Given, released)
  BY DEF Fails, Back, Back2
<1>5. PICK r \in Made(Dropped(heap, Given), <<>>) : heap' = r.heap /\ env' = Bind(env, <<Err>>, <<r.object>>)
  BY DEF Fails
<1>50. s.value.op # "resume"
  BY <1>1, MayDefectIs
<1>6. Fits(z, Bind(env, <<Err>>, <<r.object>>), r.heap, caller, pending, holds, grade, held,
           Back2(s, Given, released), gravest)
  BY <1>2, <1>20, <1>3, <1>50, FitsFailed
<1> HIDE DEF z
<1>7. Fitting(z)'
  BY <1>4, <1>5, <1>6 DEF Fitting
<1> QED
  BY <1>1, <1>3, <1>4, <1>7, RunsOn DEF Goes

(* A call raises a defect, or is interrupted.                              *)
LEMMA RaisesKeeps ==
  ASSUME NEW A, Closed(A), Running(A), Raises PROVE Running(A)'
<1> PICK s : s = Stmt(code)
  OBVIOUS
<1>1. /\ result = Static /\ recurs \in 0..MaxRecurs /\ AtLet(code)
      /\ MayDefect(s.value) \/ s.value.op = "pure"
      /\ \E p : /\ Place(code, p) \in A
                /\ Mid(p, s, Given, env, heap, caller, pending, holds, grade, held, released, gravest)
  BY ComesMid DEF Raises
<1>2. PICK p : /\ Place(code, p) \in A
               /\ Mid(p, s, Given, env, heap, caller, pending, holds, grade, held, released, gravest)
  BY <1>1
<1> DEFINE z == [AtLanding(p, s) EXCEPT !.pend = TRUE]
<1>20. s.defect # <<>>
  BY DEF Raises
<1>3. /\ p \in Points /\ LetRight(p, s) /\ z \in Points
      /\ Place(Landed(code, Head(s.defect)), z) \in A
  BY <1>1, <1>2, <1>20, LetHere
<1>4. /\ code' = Landed(code, Head(s.defect)) /\ env' = env /\ caller' = caller /\ holds' = holds
      /\ result' = result /\ recurs' = recurs /\ state' = "run" /\ inflight' = <<>> /\ held' = held
      /\ released' = Back2(s, Given, released)
  BY DEF Raises, Back, Back2
<1>5. PICK r \in Made(Dropped(heap, Given), <<>>), k \in Grades(s) : heap' = r.heap /\ Pends(r.object, k)
  BY DEF Raises
<1>51. k \in {Interruption, NewDefect}
  BY <1>5 DEF Grades
<1>52. /\ pending' = r.object /\ grade' = [grade EXCEPT ![Nil] = k]
       /\ gravest' = IF gravest = FirstDefect THEN gravest ELSE k
  BY <1>5 DEF Pends
<1>50. s.value.op # "resume"
  BY <1>1, MayDefectIs
<1>6. Fits(z, env, r.heap, caller, r.object, holds, [grade EXCEPT ![Nil] = k], held,
           Back2(s, Given, released), IF gravest = FirstDefect THEN gravest ELSE k)
  BY <1>2, <1>20, <1>3, <1>50, <1>51, FitsRaised
<1> HIDE DEF z
<1>7. Fitting(z)'
  BY <1>4, <1>5, <1>52, <1>6 DEF Fitting
<1> QED
  BY <1>1, <1>3, <1>4, <1>7, RunsOn DEF Goes

(* A call comes back suspended, and the caller may let the environment go. *)
LEMMA SuspendsKeeps ==
  ASSUME NEW A, Closed(A), Running(A), Suspends PROVE Running(A)'
<1> PICK s : s = Stmt(code)
  OBVIOUS
<1>1. AtStmt("let") /\ s.saved # <<>>
  BY DEF Suspends
<1>2. /\ state = "run" /\ result = Static /\ recurs \in 0..MaxRecurs /\ AtLet(code)
      /\ \E p : /\ Place(code, p) \in A /\ Fitting(p) /\ p \in Points /\ LetRight(p, s) /\ OpenOwned(p, s)
                /\ StashRight(p) /\ After(p, s) \in Points /\ Place(Advanced(code), After(p, s)) \in A
  BY <1>1, LetRun
<1>3. PICK p : Place(code, p) \in A /\ Fitting(p) /\ p \in Points /\ LetRight(p, s) /\ OpenOwned(p, s)
  BY <1>2
<1> DEFINE given == ValuesOf(env, Consumed(s.value))
           e2 == [v \in Variables |-> IF v \in Head(s.saved) THEN env[v] ELSE Unbound]
<1>4. /\ code' = code /\ pending' = pending /\ holds' = holds /\ result' = result /\ grade' = grade
      /\ held' = held /\ released' = released /\ gravest' = gravest /\ recurs' = recurs /\ state' = "suspended"
      /\ inflight' = given /\ env' = e2
  BY DEF Suspends, ghosts, Of, ValuesOf
<1>5. \/ heap' = heap /\ caller' = caller
      \/ EnvObject \in caller /\ caller' = caller \ {EnvObject} /\ heap' = Dropped(heap, <<EnvObject>>)
  BY DEF Suspends
<1>6. Mid(p, s, given, env, heap, caller, pending, holds, grade, held, released, gravest)
  BY <1>3, MidAtOnce DEF Fitting
<1> HIDE DEF given
<1>7. PICK h2, c2 : h2 = heap' /\ c2 = caller'
  OBVIOUS
<1>8. Mid(p, s, given, e2, h2, c2, pending, holds, grade, held, released, gravest)
  BY <1>1, <1>3, <1>5, <1>6, <1>7, MidSuspended
<1> HIDE DEF e2
<1>9. Stmt(code)' = s
  BY <1>4
<1>10. Waiting(p)'
  BY <1>4, <1>7, <1>8, <1>9 DEF Waiting
<1>11. state' \notin Ended /\ state' \notin {"start", "run"}
  BY <1>4 DEF Ended
<1>12. AtLet(code)' /\ s.saved # <<>>
  BY <1>1, <1>2, <1>4
<1> QED
  BY <1>2, <1>3, <1>4, <1>9, <1>10, <1>11, <1>12 DEF Running

(* Values move to variables, and the run to another sequence.              *)
LEMMA MovesOn ==
  ASSUME NEW A, Closed(A), NEW p, Fitting(p), NEW args, NEW vs, Moves(p, args, vs),
         NEW f, Place(f, Moved(p, args, vs)) \in A
  PROVE  Fits(Moved(p, args, vs), Bind(env, vs, ValuesOf(env, args)), heap, caller, pending, holds, grade,
              held, released, gravest)
<1> DEFINE z == Moved(p, args, vs)
<1>1. p \in Points
  BY DEF Fitting, Fits
<1>2. z.open = p.open
  BY <1>1, MovedIs
<1>3. z \in Points /\ OpenRight(z)
  <2> HIDE DEF z
  <2> QED
    BY HereIs DEF z
<1>4. \A v \in Range(p.open) : z.own[v] >= 1
  BY <1>2, <1>3 DEF OpenRight
<1> QED
  BY <1>3, <1>4, FitsMoved DEF Fitting

(* A branch, block or loop is entered.                                     *)
LEMMA EnterKeeps ==
  ASSUME NEW A, Closed(A), Running(A), Enter PROVE Running(A)'
<1> PICK s : s = Stmt(code)
  OBVIOUS
<1>0. state = "run" /\ Top(code).stmts # <<>> /\ s.k \in {"branch", "block", "loop"}
  BY DEF Enter
<1>1. /\ inflight = <<>> /\ result = Static /\ recurs \in 0..MaxRecurs
      /\ \E p : Place(code, p) \in A /\ Fitting(p)
  BY <1>0, InRun
<1>2. PICK p : Place(code, p) \in A /\ Fitting(p)
  BY <1>1
<1>3. StmtRight(p, s) /\ StmtWays(code, p, s) \subseteq A
  BY <1>0, <1>2, HereIs
<1>4. PICK q \in Range(Children(s)) : code' = Entered(code, q)
  BY DEF Enter
<1> DEFINE z == Moved(p, Inits(s), LoopVars(s))
<1>5. Moves(p, Inits(s), LoopVars(s))
  BY <1>0, <1>3 DEF StmtRight
<1>6. Place(Entered(code, q), z) \in A
  BY <1>0, <1>3 DEF StmtWays
<1>7. Fits(z, Bind(env, LoopVars(s), ValuesOf(env, Inits(s))), heap, caller, pending, holds, grade, held, released, gravest)
  BY <1>2, <1>5, <1>6, MovesOn
<1>8. env \in Envs
  BY <1>2, FittingTyped DEF Typed
<1>9. env' = Bind(env, LoopVars(s), ValuesOf(env, Inits(s)))
  <2>1. CASE s.k = "loop"
    BY <2>1 DEF Enter, LoopVars, Inits, Of, ValuesOf
  <2>2. CASE s.k # "loop"
    <3>1. env' = env /\ LoopVars(s) = <<>>
      BY <2>2 DEF Enter, LoopVars
    <3> QED
      BY <1>8, <3>1, BindNone
  <2> QED
    BY <2>1, <2>2
<1>10. /\ heap' = heap /\ caller' = caller /\ pending' = pending /\ holds' = holds /\ inflight' = inflight
       /\ state' = state /\ result' = result /\ grade' = grade /\ held' = held /\ released' = released
       /\ gravest' = gravest /\ recurs' = recurs
  BY DEF Enter, ghosts
<1> HIDE DEF z
<1>11. Fitting(z)'
  BY <1>7, <1>9, <1>10 DEF Fitting
<1> QED
  BY <1>0, <1>1, <1>4, <1>6, <1>10, <1>11, RunsOn DEF Goes

(* A terminator that is next.                                              *)
LEMMA TermHere ==
  ASSUME NEW A, Closed(A), Running(A), NEW k, AtTerm(k)
  PROVE  /\ state = "run" /\ inflight = <<>> /\ result = Static /\ recurs \in 0..MaxRecurs /\ Top(code).term.k = k
         /\ \E p : Place(code, p) \in A /\ Fitting(p) /\ TermRight(code, p) /\ TermWays(code, p) \subseteq A
<1>0. state = "run" /\ Top(code).stmts = <<>> /\ Top(code).term.k = k
  BY DEF AtTerm
<1>1. /\ inflight = <<>> /\ result = Static /\ recurs \in 0..MaxRecurs
      /\ \E p : Place(code, p) \in A /\ Fitting(p)
  BY <1>0, InRun
<1>2. PICK p : Place(code, p) \in A /\ Fitting(p)
  BY <1>1
<1>3. TermRight(code, p) /\ TermWays(code, p) \subseteq A
  BY <1>0, <1>2, HereIs
<1> QED
  BY <1>0, <1>1, <1>2, <1>3

(* A branch, block or loop is left.                                        *)
LEMMA LeaveKeeps ==
  ASSUME NEW A, Closed(A), Running(A), Leave PROVE Running(A)'
<1>0. PICK k \in {"yield", "break"} : AtTerm(k)
  BY DEF Leave
<1>1. /\ state = "run" /\ inflight = <<>> /\ result = Static /\ recurs \in 0..MaxRecurs /\ Top(code).term.k = k
      /\ \E p : Place(code, p) \in A /\ Fitting(p) /\ TermRight(code, p) /\ TermWays(code, p) \subseteq A
  BY <1>0, TermHere
<1>2. PICK p : Place(code, p) \in A /\ Fitting(p) /\ TermRight(code, p) /\ TermWays(code, p) \subseteq A
  BY <1>1
<1>3. PICK args, vs : args = Top(code).term.args /\ vs = Dest(TargetOf(code))
  OBVIOUS
<1> DEFINE z == Moved(p, args, vs)
<1>4. Moves(p, args, vs) /\ Place(Outside(code), z) \in A
  BY <1>1, <1>2, <1>3 DEF TermRight, TermWays
<1>5. Fits(z, Bind(env, vs, ValuesOf(env, args)), heap, caller, pending, holds, grade, held, released, gravest)
  BY <1>2, <1>4, MovesOn
<1>6. /\ code' = Outside(code) /\ env' = Bind(env, vs, ValuesOf(env, args))
      /\ heap' = heap /\ caller' = caller /\ pending' = pending /\ holds' = holds /\ inflight' = inflight
      /\ state' = state /\ result' = result /\ grade' = grade /\ held' = held /\ released' = released
      /\ gravest' = gravest /\ recurs' = recurs
  BY <1>3 DEF Leave, ghosts, Of, ValuesOf
<1> HIDE DEF z
<1>7. Fitting(z)'
  BY <1>5, <1>6 DEF Fitting
<1> QED
  BY <1>1, <1>4, <1>6, <1>7, RunsOn DEF Goes

(* A loop starts again.                                                    *)
LEMMA RecurKeeps ==
  ASSUME NEW A, Closed(A), Running(A), Recur PROVE Running(A)'
<1>0. AtTerm("recur")
  BY DEF Recur
<1>1. /\ state = "run" /\ inflight = <<>> /\ result = Static /\ recurs \in 0..MaxRecurs /\ Top(code).term.k = "recur"
      /\ \E p : Place(code, p) \in A /\ Fitting(p) /\ TermRight(code, p) /\ TermWays(code, p) \subseteq A
  BY <1>0, TermHere
<1>2. PICK p : Place(code, p) \in A /\ Fitting(p) /\ TermRight(code, p) /\ TermWays(code, p) \subseteq A
  BY <1>1
<1>3. PICK args, vs : args = Top(code).term.args /\ vs = TargetOf(code).vars
  OBVIOUS
<1> DEFINE z == Moved(p, args, vs)
<1>4. Moves(p, args, vs) /\ Place(Restarted(code), z) \in A
  BY <1>1, <1>2, <1>3 DEF TermRight, TermWays
<1>5. Fits(z, Bind(env, vs, ValuesOf(env, args)), heap, caller, pending, holds, grade, held, released, gravest)
  BY <1>2, <1>4, MovesOn
<1>6. /\ code' = Restarted(code) /\ env' = Bind(env, vs, ValuesOf(env, args))
      /\ heap' = heap /\ caller' = caller /\ pending' = pending /\ holds' = holds /\ inflight' = inflight
      /\ state' = state /\ result' = result /\ grade' = grade /\ held' = held /\ released' = released
      /\ gravest' = gravest
  BY <1>3 DEF Recur, ghosts, Of, ValuesOf
<1>60. recurs' \in 0..MaxRecurs
  <2>1. recurs < MaxRecurs /\ recurs' = recurs + 1
    BY DEF Recur
  <2> QED
    BY <1>1, <2>1, MachineAssumption
<1> HIDE DEF z
<1>7. Fitting(z)'
  BY <1>5, <1>6 DEF Fitting
<1> QED
  BY <1>1, <1>4, <1>6, <1>60, <1>7, RunsOn DEF Goes

(* Where no handler is open none is held.                                  *)
LEMMA NothingHeld ==
  ASSUME NEW open, open = <<>>, NEW done, NEW hold, NEW e, NEW hd, NEW rel, NEW n,
         Handlers(open, done, hold, e, hd, rel, n)
  PROVE  hd = <<>> /\ rel = {} /\ n = hold
<1>1. hd \in Seq(Objects) /\ Len(hd) = Len(open) /\ (done => hd # <<>>) /\ n = hold
  BY DEF Handlers
<1>2. hd = <<>>
  BY <1>1
<1>3. rel = {}
  BY <1>1, <1>2 DEF Handlers
<1> QED
  BY <1>1, <1>2, <1>3

(* Where every variable is spent no defect is put away.                    *)
LEMMA NoneStashed ==
  ASSUME NEW p \in Points, NEW args, Named(args), \A v \in Variables : Taken(p.own, args)[v] = 0
  PROVE  There(p.own, p.pend) = IF p.pend THEN {Nil} ELSE {}
<1>1. p.own \in Tokens
  BY PointOf
<1>2. ASSUME NEW d \in Stashes PROVE p.own[d] = 0
  <2>1. d \in Variables /\ Occurs(d, args) = 0
    BY NamesApart, NamedApart
  <2>2. Taken(p.own, args)[d] = p.own[d] - Occurs(d, args)
    BY <2>1 DEF Taken
  <2>3. p.own[d] \in Nat
    BY <1>1, <2>1 DEF Tokens
  <2> QED
    BY <2>1, <2>2, <2>3
<1> QED
  BY <1>2 DEF There

(* The function is left.                                                   *)
LEMMA ExitsKeeps ==
  ASSUME NEW A, Closed(A), Running(A), Exits PROVE Running(A)'
<1>0. PICK k \in {"return", "fail", "unwind", "recur"} : AtTerm(k) /\ state' = IF k = "recur" THEN "cut" ELSE k
  BY DEF Exits
<1>1. /\ inflight = <<>> /\ result = Static /\ recurs \in 0..MaxRecurs /\ Top(code).term.k = k
      /\ \E p : Place(code, p) \in A /\ Fitting(p) /\ TermRight(code, p) /\ TermWays(code, p) \subseteq A
  BY <1>0, TermHere
<1>2. PICK p : Place(code, p) \in A /\ Fitting(p) /\ TermRight(code, p) /\ TermWays(code, p) \subseteq A
  BY <1>1
<1>3. PICK args : args = Top(code).term.args
  OBVIOUS
<1> DEFINE r == IF args = <<>> THEN Static ELSE env[Head(args)]
<1>4. /\ result' = r /\ code' = <<>> /\ env' = [v \in Variables |-> Unbound]
      /\ heap' = heap /\ caller' = caller /\ pending' = pending /\ holds' = holds /\ inflight' = inflight
      /\ grade' = grade /\ held' = held /\ released' = released /\ gravest' = gravest /\ recurs' = recurs
  BY <1>3 DEF Exits, ghosts
<1>5. Typed
  BY <1>2, FittingTyped
<1>6. env' \in Envs
  BY <1>4 DEF Envs
<1>7. Named(args)
  BY <1>1, <1>2, <1>3 DEF TermRight, Moves
<1>8. r \in Values \cup {Unbound}
  <2>1. CASE args = <<>>
    BY <2>1 DEF Values
  <2>2. CASE args # <<>>
    <3>1. args \in Seq(Variables)
      BY <1>7, NamedApart
    <3>2. Head(args) \in Variables
      BY <2>2, <3>1
    <3>3. env[Head(args)] \in Values \cup {Unbound}
      BY <1>5, <3>2 DEF Typed, Envs, Values
    <3> QED
      BY <2>2, <3>3
  <2> QED
    BY <2>1, <2>2
<1>9. ASSUME k # "recur"
      PROVE  /\ Exact(heap, Plus(Base(caller, pending), <<r>>)) /\ held = <<>> /\ holds = 0
             /\ k = "unwind" <=> pending # Static
             /\ Chain(IF k = "unwind" THEN {Nil} ELSE {}, grade, gravest)
  <2>1. /\ Len(args) <= 1 /\ (\A v \in Variables : Taken(p.own, args)[v] = 0)
        /\ p.pend = (k = "unwind") /\ p.open = <<>> /\ p.hold = 0
    BY <1>1, <1>2, <1>3, <1>9 DEF TermRight
  <2>2. Exact(heap, Plus(Base(caller, pending), <<r>>))
    BY <1>2, <1>7, <2>1, ExitExact DEF Fitting
  <2>3. /\ p \in Points /\ Handlers(p.open, p.done, p.hold, env, held, released, holds)
        /\ Defects(p.own, p.pend, env, pending, grade, gravest)
    BY <1>2 DEF Fitting, Fits
  <2>4. held = <<>> /\ holds = 0
    BY <2>1, <2>3, NothingHeld
  <2>5. There(p.own, p.pend) = IF p.pend THEN {Nil} ELSE {}
    BY <1>7, <2>1, <2>3, NoneStashed
  <2>6. p.pend = (pending # Static) /\ Chain(There(p.own, p.pend), grade, gravest)
    BY <2>3 DEF Defects
  <2>7. There(p.own, p.pend) = IF k = "unwind" THEN {Nil} ELSE {}
    BY <2>1, <2>5
  <2> QED
    BY <2>1, <2>2, <2>4, <2>6, <2>7
<1> HIDE DEF r
<1>10. state' \in Ended /\ state' # "suspended" /\ state' \notin {"start", "run"} /\ (state' # "cut" => k # "recur" /\ state' = k)
  BY <1>0 DEF Ended
<1>11. Finished'
  <2>1. /\ (code = <<>>)' /\ (env \in Envs)' /\ (heap \in Heaps)' /\ (caller \subseteq {ParamObject, EnvObject})'
        /\ (pending \in Values)' /\ (holds \in Nat)' /\ (inflight = <<>>)' /\ (result \in Values \cup {Unbound})'
        /\ (grade \in Grading)' /\ (gravest \in NoDefect..FirstDefect)' /\ (held \in Seq(Objects))'
        /\ (released \subseteq Range(held))'
    BY <1>1, <1>4, <1>5, <1>6, <1>8 DEF Typed
  <2>2. ASSUME state' # "cut"
        PROVE  /\ Exact(heap', Plus(Base(caller', pending'), <<result'>>)) /\ held' = <<>> /\ holds' = 0
               /\ state' = "unwind" <=> pending' # Static
               /\ Chain(IF state' = "unwind" THEN {Nil} ELSE {}, grade', gravest')
    BY <1>4, <1>9, <1>10, <2>2
  <2> QED
    BY <2>1, <2>2 DEF Finished
<1> QED
  BY <1>1, <1>4, <1>10, <1>11 DEF Running

(* Nothing happens.                                                        *)
LEMMA StutterKeeps ==
  ASSUME NEW A, Running(A), UNCHANGED heapVars PROVE Running(A)'
<1>1. /\ code' = code /\ env' = env /\ heap' = heap /\ caller' = caller /\ pending' = pending
      /\ holds' = holds /\ inflight' = inflight /\ state' = state /\ result' = result /\ grade' = grade
      /\ held' = held /\ released' = released /\ gravest' = gravest /\ recurs' = recurs
  BY DEF heapVars, ghosts
<1> QED
  BY <1>1 DEF Running, Fitting, Waiting, Finished

(* Every step of HeapMachine keeps the run at a place of the set.          *)
LEMMA StepKeeps ==
  ASSUME NEW A, Closed(A), Running(A), HeapNext PROVE Running(A)'
BY CalledKeeps, CountKeeps, MakeKeeps, ViewKeeps, LookKeeps, HoldKeeps, RetireKeeps, ReturnsKeeps, FailsKeeps,
   RaisesKeeps, SuspendsKeeps, RaiseDefectKeeps, TakeKeeps, ResumeKeeps, EnterKeeps, LeaveKeeps, RecurKeeps,
   ExitsKeeps, StutterKeeps DEF HeapNext, Over

(* The invariant is inductive.                                             *)
LEMMA NextHolds ==
  ASSUME HeapInv, [HeapNext]_heapVars PROVE HeapInv'
<1>1. PICK A : Closed(A) /\ Running(A)
  BY DEF HeapInv
<1>2. Running(A)'
  BY <1>1, StepKeeps, StutterKeeps
<1> QED
  BY <1>1, <1>2 DEF HeapInv

(* Functions that OwnedPaths accepts are run as their points say: at every *)
(* step there is a point of a place of the set that the counts, the        *)
(* handlers, the pending defect and those taken agree with.                *)
THEOREM HeapInvariant ==
  ASSUME Accepted PROVE HeapSpec => []HeapInv
<1>1. HeapInit => HeapInv
  BY InitHolds
<1>2. HeapInv /\ [HeapNext]_heapVars => HeapInv'
  BY NextHolds
<1> QED
  BY <1>1, <1>2, PTL DEF HeapSpec

(* The properties follow from the invariant.                               *)
LEMMA InvReads ==
  ASSUME HeapInv PROVE ReadsAreLive /\ CountsExact /\ ReleasedInOrder /\ DefectKept
BY ReadsHold, CountsHold, OrderHolds, DefectHolds DEF HeapInv

(* A function accepted by the path check never reads a variable whose      *)
(* object was freed, moved, changed in place or left out of a frame,       *)
(* whatever it calls returns, raises or does to what it was given, and     *)
(* whenever it is suspended (insert_rc, saved_vars, em_array_set).         *)
THEOREM HeapReadsAreLive ==
  ASSUME Accepted PROVE HeapSpec => []ReadsAreLive
BY HeapInvariant, InvReads, PTL

(* However an accepted function is left, every object has exactly the      *)
(* references that are counted: nothing leaks and nothing was freed too    *)
(* early (insert_rc, em_drop, em_free, em_array_set, em_defect_resume).    *)
THEOREM HeapCountsExact ==
  ASSUME Accepted PROVE HeapSpec => []CountsExact
BY HeapInvariant, InvReads, PTL

(* An accepted function releases each handler once and retires it, the     *)
(* last made first, on every way out, and leaves no hold on interruptions  *)
(* (with_, exit).                                                          *)
THEOREM HeapReleasedInOrder ==
  ASSUME Accepted PROVE HeapSpec => []ReleasedInOrder
BY HeapInvariant, InvReads, PTL

(* An accepted function loses no defect: nothing that may raise is entered *)
(* with one pending, and it unwinds exactly if one was raised, with the    *)
(* gravest of them (exit, em_defect_take, em_defect_resume).               *)
THEOREM HeapDefectKept ==
  ASSUME Accepted PROVE HeapSpec => []DefectKept
BY HeapInvariant, InvReads, PTL
=============================================================================
