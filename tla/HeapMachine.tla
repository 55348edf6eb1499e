----------------------------- MODULE HeapMachine -----------------------------
(***************************************************************************)
(* A function in the Heap IR, run as the C backend emits it (stmt and term *)
(* of emela-codegen-c/src/emit.rs) over a heap of counted objects (em_dup, *)
(* em_drop, em_free, em_array_set, em_defect_take and em_defect_resume of  *)
(* emela_runtime.c).  The passes of DefectPaths and RefCounts make such    *)
(* functions; here it is seen whether the references they count are the    *)
(* ones there are, on every path.                                          *)
(*                                                                         *)
(* The caller owns the closure record that is the environment for the      *)
(* call, and may let it go once the call has come back suspended; the      *)
(* parameter is given away, and the caller may have another reference to   *)
(* the same object.  What is called may keep its arguments in what it      *)
(* returns, drop them or return one; it may fail, raise a defect, or come  *)
(* back suspended and be resumed with any of these or interrupted.         *)
(***************************************************************************)
EXTENDS HeapCode

CONSTANTS
  Functions,   \* functions in the Heap IR
  MaxObjects,
  MaxRecurs    \* how often a run starts a loop again

ASSUME MachineAssumption == MaxObjects \in Nat /\ MaxObjects >= 4 /\ MaxRecurs \in Nat

VARIABLES
  code,      \* the frames
  env,       \* the object of each variable
  heap,      \* the objects: the count and what they refer to
  caller,    \* the objects the caller has a reference to
  pending,   \* the pending defect
  holds,     \* the releases that are not to be interrupted
  inflight,  \* the arguments of the call that is suspended
  state,     \* "start", "run", "suspended", or how the run ended
  result,    \* what was returned or failed with
  grade,     \* what the pending defect is (at Nil), and each that was taken
  held,      \* ghost: the handlers made and not retired, in order
  released,  \* ghost: those of them whose release was called
  gravest,   \* ghost: the gravest defect raised so far
  recurs

ghosts == <<held, released, gravest>>
heapVars == <<code, env, heap, caller, pending, holds, inflight, state, result, grade, ghosts, recurs>>

Objects == 1..MaxObjects
ParamObject == 1
EnvObject == 3
Static == 0     \* data that is not counted
Unbound == -1   \* a variable without a value
Ended == {"return", "fail", "unwind", "cut"}

(* What a defect is: an interruption, the first defect or a later one.     *)
NoDefect == 0
Interruption == 1
FirstDefect == 2
LaterDefect == 3

Free == [count |-> 0, refs |-> <<>>]
Object(refs) == [count |-> 1, refs |-> refs]
Live(h, o) == o = Static \/ (o \in Objects /\ h[o].count > 0)

(* em_dup.                                                                 *)
Duped(h, o) == IF o \in Objects /\ Live(h, o) THEN [h EXCEPT ![o].count = @ + 1] ELSE h

(* em_drop, of each of a sequence: the counts are lowered, and em_free     *)
(* frees the objects whose count is 0 one after the other, lowering the    *)
(* counts of what they refer to.                                           *)
Lowered(h, os) ==
  [o \in Objects |->
     [h[o] EXCEPT !.count = IF Occurs(o, os) < @ THEN @ - Occurs(o, os) ELSE 0]]
Dying(h) == {o \in Objects : h[o].count = 0 /\ h[o].refs # <<>>}
FreeNext(h) ==
  IF Dying(h) = {} THEN h
  ELSE LET o == CHOOSE o \in Dying(h) : TRUE IN Lowered([h EXCEPT ![o] = Free], h[o].refs)
Dropped(h, os) ==
  LET freed[n \in 0..MaxObjects] == IF n = 0 THEN Lowered(h, os) ELSE FreeNext(freed[n - 1])
  IN  freed[MaxObjects]

(* em_alloc: an object nothing has the address of, so that a stale one     *)
(* never names a new object.  A run out of memory is aborted.              *)
Fresh(h) ==
  LET known == Range(env) \cup (UNION {Range(h[o].refs) : o \in Objects}) \cup
                 {o \in Objects : h[o].count > 0 \/ heap[o].count > 0}
                 \cup Range(inflight) \cup {pending}
  IN  {o \in Objects \ known : \A n \in Objects \ known : o <= n}

Made(h, refs) == {[heap |-> [h EXCEPT ![o] = Object(refs)], object |-> o] : o \in Fresh(h)}

-----------------------------------------------------------------------------
AtStmt(k) == state = "run" /\ Top(code).stmts # <<>> /\ Stmt(code).k = k
AtValue(ops) == AtStmt("let") /\ Stmt(code).value.op \in ops
AtTerm(k) == state = "run" /\ Top(code).stmts = <<>> /\ Top(code).term.k = k
Of(args) == [i \in DOMAIN args |-> env[args[i]]]

(* Variables are given objects.                                            *)
Bind(e, vs, os) ==
  [v \in Variables |-> IF v \in Range(vs) THEN os[CHOOSE i \in DOMAIN vs : vs[i] = v] ELSE e[v]]

HeapInit ==
  \E f \in Functions, shared \in BOOLEAN :
    /\ code = Entry(f)
    /\ env = [v \in Variables |-> CASE v = Param -> ParamObject [] v = Env -> EnvObject
                                    [] OTHER -> Unbound]
    /\ heap = [o \in Objects |->
                 CASE o = ParamObject ->
                        [Object(<<2>>) EXCEPT !.count = IF shared THEN 2 ELSE 1]
                   [] o = EnvObject -> Object(<<4>>)
                   [] o \in {2, 4} -> Object(<<>>)
                   [] OTHER -> Free]
    /\ caller = IF shared THEN {ParamObject, EnvObject} ELSE {EnvObject}
    /\ pending = Static /\ holds = 0 /\ inflight = <<>> /\ state = "start" /\ result = Static
    /\ grade = [x \in Stashes \cup {Nil} |-> NoDefect]
    /\ held = <<>> /\ released = {} /\ gravest = NoDefect /\ recurs = 0

Called ==
  /\ state = "start" /\ state' = "run"
  /\ UNCHANGED <<code, env, heap, caller, pending, holds, inflight, result, grade, ghosts, recurs>>

-----------------------------------------------------------------------------
Count ==
  /\ \/ AtStmt("dup") /\ heap' = Duped(heap, env[Stmt(code).v])
     \/ AtStmt("drop") /\ heap' = Dropped(heap, <<env[Stmt(code).v]>>)
  /\ code' = Advanced(code)
  /\ UNCHANGED <<env, caller, pending, holds, inflight, state, result, grade, ghosts, recurs>>

(* A value that neither fails, raises nor waits.                           *)
Make ==
  /\ AtValue({"make"})
  /\ \E r \in Made(heap, Of(Stmt(code).value.args)) :
       heap' = r.heap /\ env' = Bind(env, Dest(Stmt(code)), <<r.object>>)
  /\ code' = Advanced(code)
  /\ UNCHANGED <<caller, pending, holds, inflight, state, result, grade, ghosts, recurs>>

View ==
  /\ AtValue({"view"})
  /\ LET base == env[Head(Stmt(code).value.args)]
         part == IF base \in Objects /\ heap[base].refs # <<>> THEN Head(heap[base].refs) ELSE Static
     IN  env' = Bind(env, Dest(Stmt(code)), <<part>>)
  /\ code' = Advanced(code)
  /\ UNCHANGED <<heap, caller, pending, holds, inflight, state, result, grade, ghosts, recurs>>

(* What is looked at or divided is no reference.                           *)
Look ==
  /\ AtValue({"look", "div"})
  /\ code' = Advanced(code)
  /\ UNCHANGED <<env, heap, caller, pending, holds, inflight, state, result, grade, ghosts, recurs>>

(* em_hold and em_unhold.                                                  *)
Hold ==
  /\ \/ AtValue({"hold"}) /\ holds' = holds + 1
     \/ AtValue({"unhold"}) /\ holds' = holds - 1
  /\ code' = Advanced(code)
  /\ UNCHANGED <<env, heap, caller, pending, inflight, state, result, grade, ghosts, recurs>>

(* em_retire.                                                              *)
Retire ==
  /\ AtValue({"retire"})
  /\ LET o == env[Head(Stmt(code).value.args)]
     IN  /\ held' = IF held # <<>> /\ Last(held) = o THEN Front(held) ELSE held
         /\ released' = released \ {o}
  /\ code' = Advanced(code)
  /\ UNCHANGED <<env, heap, caller, pending, holds, inflight, state, result, grade, gravest, recurs>>

-----------------------------------------------------------------------------
(* A call, an external function, Array.set or the yield before a call, on  *)
(* its way back: at once, or resumed.                                      *)
Comes == \/ AtStmt("let") /\ (MayDefect(Stmt(code).value) \/ Stmt(code).value.op = "pure")
         \/ state = "suspended"
Given == IF state = "suspended" THEN inflight ELSE Of(Consumed(Stmt(code).value))
Back ==
  /\ state' = "run" /\ inflight' = <<>>
  /\ released' = IF Stmt(code).value.op = "release" THEN released \cup Range(Given) ELSE released

(* em_array_set, of an array of one: in place if its count is 1.           *)
InPlace(v) == v.op = "set" /\ heap[Head(Given)].count = 1
ArraySet(array, x) ==
  IF heap[array].count = 1
  THEN LET emptied == Dropped([heap EXCEPT ![array].refs = <<>>], heap[array].refs)
       IN  {[heap |-> [Duped(emptied, x) EXCEPT ![array].refs = <<x>>], object |-> array]}
  ELSE Made(Duped(Dropped(heap, <<array>>), x), <<x>>)

(* What a value may come back with, and the heap then.  An empty array has *)
(* no position to set.                                                     *)
Outcomes(v, dst) ==
  CASE v.op = "set" ->
         UNION {ArraySet(a, env[v.args[2]]) :
                  a \in {o \in {Head(Given)} \cap Objects : heap[o].refs # <<>>}}
    [] v.op # "set" /\ dst = Nil -> {[heap |-> Dropped(heap, Given), object |-> Static]}
    [] v.op = "extern" /\ dst # Nil ->
         Made(heap, <<>>)
           \cup {[heap |-> Duped(heap, env[Head(v.args)]), object |-> env[Head(v.args)]]}
    [] v.op = "acquire" /\ dst # Nil -> Made(Dropped(heap, Given), <<>>)
    [] OTHER ->
         Made(heap, Given) \cup Made(Dropped(heap, Given), <<>>)
           \cup {[heap |-> Dropped(heap, Tail(os)), object |-> Head(os)] : os \in {Given} \ {<<>>}}

Returns ==
  /\ Comes
  /\ LET v == Stmt(code).value IN
     \E r \in Outcomes(v, Stmt(code).dst) :
       /\ heap' = r.heap
       /\ env' = Bind([x \in Variables |-> IF InPlace(v) /\ env[x] = Head(Given) THEN Unbound
                                           ELSE env[x]], Dest(Stmt(code)), <<r.object>>)
       /\ held' = IF v.op = "acquire" THEN Append(held, r.object) ELSE held
  /\ code' = Advanced(code) /\ Back
  /\ UNCHANGED <<caller, pending, holds, result, grade, gravest, recurs>>

Fails ==
  /\ Comes /\ Stmt(code).value.fail # <<>>
  /\ \E r \in Made(Dropped(heap, Given), <<>>) :
       heap' = r.heap /\ env' = Bind(env, <<Err>>, <<r.object>>)
  /\ code' = Landed(code, Head(Stmt(code).value.fail)) /\ Back
  /\ UNCHANGED <<caller, pending, holds, result, grade, held, gravest, recurs>>

(* A defect o of grade g is pending.                                       *)
NewDefect == IF gravest = FirstDefect THEN LaterDefect ELSE FirstDefect
Pends(o, g) ==
  /\ pending' = o /\ grade' = [grade EXCEPT ![Nil] = g]
  /\ gravest' = IF gravest = FirstDefect THEN gravest ELSE g

(* What was called raises a defect, or an interruption is delivered: where *)
(* it may wait and no release is held, as it is dropped while it waits, or *)
(* when something that waits was unwound in place because it was called    *)
(* where nothing may suspend (em_sync_leave).                              *)
InPlaceCall(s) == s.saved = <<>> /\ s.value.op \in Calls \cup {"extern"}
Grades(s) ==
  (IF s.value.op = "pause" THEN {} ELSE {NewDefect}) \cup
  (IF state = "suspended" \/ (s.saved # <<>> /\ holds = 0) \/ InPlaceCall(s)
   THEN {Interruption} ELSE {})

Raises ==
  /\ Comes /\ Stmt(code).defect # <<>>
  /\ \E r \in Made(Dropped(heap, Given), <<>>), g \in Grades(Stmt(code)) :
       heap' = r.heap /\ Pends(r.object, g)
  /\ code' = Landed(code, Head(Stmt(code).defect)) /\ Back
  /\ UNCHANGED <<env, caller, holds, result, held, recurs>>

(* The suspension edge: the saved variables move into the frame and the    *)
(* others are gone; the caller may let the closure record go.              *)
Suspends ==
  /\ AtStmt("let") /\ Stmt(code).saved # <<>>
  /\ state' = "suspended"
  /\ inflight' = Of(Consumed(Stmt(code).value))
  /\ env' = [v \in Variables |-> IF v \in Head(Stmt(code).saved) THEN env[v] ELSE Unbound]
  /\ \/ UNCHANGED <<heap, caller>>
     \/ /\ EnvObject \in caller
        /\ caller' = caller \ {EnvObject} /\ heap' = Dropped(heap, <<EnvObject>>)
  /\ UNCHANGED <<code, pending, holds, result, grade, ghosts, recurs>>

-----------------------------------------------------------------------------
(* em_raise, of a message or of a constant.  The passes put it where no    *)
(* defect is pending, so that it never adds a note itself.                 *)
RaiseDefect ==
  /\ AtValue({"raise"})
  /\ LET message == {env[v] : v \in Range(Stmt(code).value.args)} \cap Objects
     IN  \E r \in IF message = {} THEN Made(heap, <<>>)
                  ELSE {[heap |-> Duped(heap, o), object |-> o] : o \in message} :
           heap' = r.heap /\ Pends(r.object, NewDefect)
  /\ code' = Advanced(code)
  /\ UNCHANGED <<env, caller, holds, inflight, state, result, held, released, recurs>>

(* em_defect_take.                                                         *)
Take ==
  /\ AtValue({"take"})
  /\ env' = Bind(env, Dest(Stmt(code)), <<pending>>) /\ pending' = Static
  /\ grade' = [grade EXCEPT ![Stmt(code).dst] = grade[Nil], ![Nil] = NoDefect]
  /\ code' = Advanced(code)
  /\ UNCHANGED <<heap, caller, holds, inflight, state, result, ghosts, recurs>>

(* em_defect_resume: the defect in d is pending again, and one that the    *)
(* cleanup raised becomes a note of it; an interruption gives way.         *)
Resumed(d) ==
  LET o == env[d] IN
  IF pending = Static THEN {[heap |-> heap, object |-> o, of |-> d]}
  ELSE IF grade[d] = Interruption
  THEN {[heap |-> Dropped(heap, <<o>>), object |-> pending, of |-> Nil]}
  ELSE IF grade[Nil] = Interruption
  THEN {[heap |-> Dropped(heap, <<pending>>), object |-> o, of |-> d]}
  ELSE {[heap |-> Dropped(note.heap, <<o, pending>>), object |-> note.object, of |-> d] :
          note \in Made(heap, <<>>)}

Resume ==
  /\ AtValue({"resume"})
  /\ \E r \in Resumed(Head(Stmt(code).value.args)) :
       /\ heap' = r.heap /\ pending' = r.object
       /\ grade' = [grade EXCEPT ![Nil] = grade[r.of]]
  /\ code' = Advanced(code)
  /\ UNCHANGED <<env, caller, holds, inflight, state, result, ghosts, recurs>>

-----------------------------------------------------------------------------
Enter ==
  /\ state = "run" /\ Top(code).stmts # <<>> /\ Stmt(code).k \in {"branch", "block", "loop"}
  /\ \E q \in Range(Children(Stmt(code))) : code' = Entered(code, q)
  /\ env' = IF Stmt(code).k = "loop" THEN Bind(env, Stmt(code).vars, Of(Stmt(code).inits)) ELSE env
  /\ UNCHANGED <<heap, caller, pending, holds, inflight, state, result, grade, ghosts, recurs>>

Leave ==
  /\ AtTerm("yield") \/ AtTerm("break")
  /\ code' = Outside(code)
  /\ env' = Bind(env, Dest(TargetOf(code)), Of(Top(code).term.args))
  /\ UNCHANGED <<heap, caller, pending, holds, inflight, state, result, grade, ghosts, recurs>>

Recur ==
  /\ AtTerm("recur") /\ recurs < MaxRecurs /\ recurs' = recurs + 1
  /\ code' = Restarted(code)
  /\ env' = Bind(env, TargetOf(code).vars, Of(Top(code).term.args))
  /\ UNCHANGED <<heap, caller, pending, holds, inflight, state, result, grade, ghosts>>

(* return, fail and unwind; a run that recurs too often is not followed.   *)
Exits ==
  /\ \/ \E k \in {"return", "fail", "unwind"} : AtTerm(k) /\ state' = k
     \/ AtTerm("recur") /\ recurs = MaxRecurs /\ state' = "cut"
  /\ result' = IF Top(code).term.args = <<>> THEN Static ELSE env[Head(Top(code).term.args)]
  /\ code' = <<>> /\ env' = [v \in Variables |-> Unbound]
  /\ UNCHANGED <<heap, caller, pending, holds, inflight, grade, ghosts, recurs>>

Over == state \in Ended /\ UNCHANGED heapVars

HeapNext ==
  \/ Called \/ Count \/ Make \/ View \/ Look \/ Hold \/ Retire
  \/ Returns \/ Fails \/ Raises \/ Suspends
  \/ RaiseDefect \/ Take \/ Resume
  \/ Enter \/ Leave \/ Recur \/ Exits \/ Over

HeapSpec == HeapInit /\ [][HeapNext]_heapVars

-----------------------------------------------------------------------------
HeapTypeOK ==
  /\ env \in [Variables -> Objects \cup {Static, Unbound}]
  /\ heap \in [Objects -> [count : Nat, refs : Seq(Objects \cup {Static})]]
  /\ caller \subseteq {ParamObject, EnvObject} /\ pending \in Objects \cup {Static}
  /\ holds \in Nat /\ inflight \in Seq(Objects \cup {Static})
  /\ state \in {"start", "run", "suspended"} \cup Ended /\ (code = <<>> <=> state \in Ended)
  /\ result \in Objects \cup {Static, Unbound} /\ recurs \in 0..MaxRecurs
  /\ grade \in [Stashes \cup {Nil} -> NoDefect..LaterDefect] /\ gravest \in NoDefect..FirstDefect
  /\ held \in Seq(Objects) /\ released \subseteq Range(held)

(* The variables the next step reads.                                      *)
Reads ==
  IF state # "run" THEN {}
  ELSE IF Top(code).stmts = <<>> THEN Range(Top(code).term.args)
  ELSE CASE Stmt(code).k = "let" -> Uses(Stmt(code).value) \cup UNION Range(Stmt(code).saved)
         [] Stmt(code).k \in {"dup", "drop"} -> {Stmt(code).v}
         [] Stmt(code).k = "branch" -> Range(Stmt(code).on)
         [] Stmt(code).k = "loop" -> Range(Stmt(code).inits)
         [] OTHER -> {}

(* Nothing is read after its last reference is gone, moved, changed in     *)
(* place or left out of a frame: every variable the next step reads has an *)
(* object that is there (insert_rc, saved_vars, em_array_set).  The state  *)
(* has its type.                                                           *)
ReadsAreLive == HeapTypeOK /\ \A v \in Reads : env[v] # Unbound /\ Live(heap, env[v])

(* The references to an object from other objects.                         *)
InRefs(h, o) ==
  Cardinality(UNION {{n} \X {i \in DOMAIN h[n].refs : h[n].refs[i] = o} : n \in Objects})

(* However a function is left, each object has as many references as are   *)
(* counted: those of other objects, of the caller, of the result and of    *)
(* the pending defect.  Nothing leaks and nothing is freed too early       *)
(* (insert_rc, explicit_defects, em_defect_resume, em_array_set).          *)
CountsExact ==
  state \in Ended \ {"cut"} =>
    \A o \in Objects :
      heap[o].count = InRefs(heap, o) + Cardinality({o} \cap caller) + Cardinality({o} \cap {result})
                        + Cardinality({o} \cap {pending})

(* A handler is released once and then retired, the last made first, on    *)
(* every way out of its with, a defect in a release included; and no hold  *)
(* on interruptions is left (with_, exit).                                 *)
ReleasedInOrder ==
  /\ AtValue({"release", "retire"}) =>
       /\ held # <<>> /\ env[Head(Stmt(code).value.args)] = Last(held)
       /\ Stmt(code).value.op = "release" => Last(held) \notin released
  /\ state \in Ended \ {"cut"} => held = <<>> /\ holds = 0

(* No defect is lost on the way out: what may raise is not entered with    *)
(* one pending, a function unwinds exactly if one was raised in it, and    *)
(* with the first of them; only an interruption gives way to a defect of a *)
(* cleanup (exit, em_defect_take, em_defect_resume).                       *)
DefectKept ==
  /\ AtStmt("let") /\ (MayDefect(Stmt(code).value) \/ Stmt(code).value.op = "raise") => pending = Static
  /\ state \in Ended \ {"cut"} =>
       /\ state = "unwind" <=> gravest # NoDefect
       /\ state = "unwind" => pending # Static /\ grade[Nil] = gravest
=============================================================================
