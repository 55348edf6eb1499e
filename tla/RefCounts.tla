------------------------------ MODULE RefCounts ------------------------------
(***************************************************************************)
(* From explicit defects to reference counts: state_machines of            *)
(* emela-lir/src/heap/suspend.rs with the liveness of heap/live.rs,        *)
(* insert_rc of heap/rc.rs (Perceus).                                      *)
(*                                                                         *)
(* Liveness is a function of a sequence and of where it may go: the        *)
(* variables live after a yield, at the head of the loop and after each    *)
(* block.  rc.rs records it for each sequence where this module passes on  *)
(* the place it was computed for.                                          *)
(***************************************************************************)
EXTENDS DefectPaths

Nowhere == [yield |-> {}, head |-> {}, labels |-> [l \in Labels |-> {}]]

Dup(v) == [k |-> "dup", dst |-> Nil, v |-> v]
Drop(v) == [k |-> "drop", dst |-> Nil, v |-> v]

(* A statement with other sequences inside.                                *)
MapChildren(s, F(_)) ==
  CASE s.k = "let" -> [s EXCEPT !.value.fail = [i \in DOMAIN s.value.fail |-> F(s.value.fail[i])],
                                !.defect = [i \in DOMAIN s.defect |-> F(s.defect[i])]]
    [] s.k = "branch" -> [s EXCEPT !.cases = [i \in DOMAIN s.cases |-> F(s.cases[i])]]
    [] s.k \in {"block", "loop"} -> [s EXCEPT !.body = F(s.body)]
    [] OTHER -> s

-----------------------------------------------------------------------------
RECURSIVE LiveSeq(_, _), LiveStmts(_, _, _), LoopHead(_, _, _, _), LiveStmt(_, _, _)

(* Live at the terminator, what it consumes included.                      *)
LiveTerm(term, to) ==
  Range(term.args) \cup
    (CASE term.k = "yield" -> to.yield
       [] term.k = "break" -> to.labels[term.label]
       [] term.k = "recur" -> to.head
       [] OTHER -> {})

LiveStmts(stmts, end, to) ==
  IF stmts = <<>> THEN end
  ELSE LiveStmt(Head(stmts), LiveStmts(Tail(stmts), end, to), to)

LiveSeq(q, to) == LiveStmts(q.stmts, LiveTerm(q.term, to), to)

(* Live on after a let, on any way on.                                     *)
LiveOn(s, after, to) ==
  (after \ {s.dst})
    \cup UNION {LiveSeq(s.value.fail[i], to) \ {Err} : i \in DOMAIN s.value.fail}
    \cup UNION {LiveSeq(s.defect[i], to) : i \in DOMAIN s.defect}

LetLive(s, after, to) == LiveOn(s, after, to) \cup Uses(s.value) \cup UNION Range(s.saved)

(* The fixpoint at a loop, from nothing.                                   *)
LoopHead(s, after, to, h) ==
  LET l == LiveSeq(s.body, [to EXCEPT !.yield = after, !.head = h]) \ Range(s.vars)
  IN  IF l = h THEN h ELSE LoopHead(s, after, to, l)

(* Mutant: the body of a loop is looked at once.                           *)
InsideOnce(s, after, to) ==
  LET a == after \ {s.dst} IN
  CASE s.k = "branch" -> [to EXCEPT !.yield = a]
    [] s.k = "block" -> [to EXCEPT !.yield = a, !.labels[s.label] = a]
    [] s.k = "loop" -> [to EXCEPT !.yield = a, !.head = {}]
    [] OTHER -> to

(* Where the sequences inside a statement go.                              *)
Inside(s, after, to) ==
  LET a == after \ {s.dst} IN
  CASE s.k = "branch" -> [to EXCEPT !.yield = a]
    [] s.k = "block" -> [to EXCEPT !.yield = a, !.labels[s.label] = a]
    [] s.k = "loop" -> [to EXCEPT !.yield = a, !.head = LoopHead(s, a, to, {})]
    [] OTHER -> to

LiveStmt(s, after, to) ==
  CASE s.k = "let" -> LetLive(s, after, to)
    [] s.k \in {"dup", "drop"} -> after \cup {s.v}
    [] OTHER ->
         LET c == Children(s)
             inside == Inside(s, after, to)
             l == UNION {LiveSeq(c[i], inside) : i \in DOMAIN c}
         IN  CASE s.k = "branch" -> l \cup Range(s.on)
               [] s.k = "loop" -> (l \ Range(s.vars)) \cup Range(s.inits)
               [] OTHER -> l

LiveAfter(q, i, to) ==
  LiveStmts(SubSeq(q.stmts, i + 1, Len(q.stmts)), LiveTerm(q.term, to), to)

-----------------------------------------------------------------------------
(* The state machines: a fairness yield before every suspending call, and  *)
(* the variables each suspension point saves.                              *)
RECURSIVE InsertYields(_), Mark(_, _), Statements(_)

InsertYields(q) ==
  LET One(s) ==
        LET t == MapChildren(s, InsertYields) IN
        IF s.k = "let" /\ s.value.suspends
        THEN <<[Let(Nil, Value("pause", <<>>, <<>>)) EXCEPT !.defect = t.defect], t>>
        ELSE <<t>>
  IN  [q EXCEPT !.stmts = FlattenSeq([i \in DOMAIN q.stmts |-> One(q.stmts[i])])]

MaySuspend(v) == v.suspends \/ v.op = "pause"

(* Mutant: what the value borrows is not saved.                            *)
SavedVarsLive(s, after, to) == LiveOn(s, after, to)

SavedVars(s, after, to) == LiveOn(s, after, to) \cup Range(Borrowed(s.value))

Mark(q, to) ==
  LET One(s, after) ==
        LET Child(c) == Mark(c, Inside(s, after, to))
            t == MapChildren(s, Child)
        IN  IF s.k = "let" /\ MaySuspend(s.value)
            THEN [t EXCEPT !.saved = <<SavedVars(s, after, to)>>]
            ELSE t
  IN  [q EXCEPT !.stmts = [i \in DOMAIN q.stmts |-> One(q.stmts[i], LiveAfter(q, i, to))]]

(* A function that does not suspend is left as it is.                      *)
StateMachines(q, suspends) == IF suspends THEN Mark(InsertYields(q), Nowhere) ELSE q

(* All the statements of a sequence, nested ones included.                 *)
Statements(q) ==
  UNION {{s} \cup UNION {Statements(c) : c \in Range(Children(s))} : s \in Range(q.stmts)}

-----------------------------------------------------------------------------
(* insert_rc.  owned: the variables that own a reference; want: those      *)
(* wanted owned where the sequence may go.                                 *)
RECURSIVE RcSeq(_, _, _, _), RcRest(_, _, _, _), Afters(_, _, _)

Drops(vars) == [i \in 1..Cardinality(vars) |-> Drop(SetToSeq(vars)[i])]

(* consume: a dup for each occurrence, but for the first of a variable     *)
(* that is owned and not kept, which gives up its reference.               *)
Dups(consumed, owned, keep) ==
  LET given == owned \ keep
      Gives(i) == consumed[i] \in given /\ \A j \in 1..(i - 1) : consumed[j] # consumed[i]
      order == SetToSortSeq({i \in DOMAIN consumed : ~Gives(i)}, <)
  IN  [i \in 1..Len(order) |-> Dup(consumed[order[i]])]
Left(consumed, owned, keep) == owned \ (Range(consumed) \ keep)

(* afters: as liveness, with what is wanted for yields and loops, and the  *)
(* liveness of nested sequences where they were computed.                  *)
Afters(q, want, to) ==
  IF q.stmts = <<>> THEN LiveTerm(q.term, [want EXCEPT !.labels = to.labels])
  ELSE LET s == Head(q.stmts)
           rest == Code(Tail(q.stmts), q.term)
       IN  CASE s.k = "let" -> LetLive(s, Afters(rest, want, to), to)
             [] s.k \in {"dup", "drop"} -> Afters(rest, want, to) \cup {s.v}
             [] OTHER -> LiveStmt(s, LiveSeq(rest, to), to)

(* A let: dups before what it consumes, its landings with what is left,    *)
(* and a dup of a view that is used later.                                 *)
RcLet(s, owned, after, want, to) ==
  LET consumed == Consumed(s.value)
      keep == LiveOn(s, after, to) \cup Range(Borrowed(s.value))
      left == Left(consumed, owned, keep)
      out == [want EXCEPT !.yield = {}]
      new == [s EXCEPT
                !.value.fail = [i \in DOMAIN s.value.fail |->
                                  RcSeq(s.value.fail[i], left \cup {Err}, out, to)],
                !.defect = [i \in DOMAIN s.defect |-> RcSeq(s.defect[i], left, out, to)]]
      view == IF IsView(s.value) /\ s.dst \in after THEN <<Dup(s.dst)>> ELSE <<>>
  IN  [out |-> Dups(consumed, owned, keep) \o <<new>> \o view,
       owned |-> left \cup (IF IsView(s.value) THEN Dst(s) \cap after ELSE Dst(s))]

(* A compound statement: each way to its end brings the same variables.    *)
RcCompound(s, owned, after, live, want, to) ==
  LET inside == Inside(s, live, to)
      keep == IF s.k = "loop" THEN inside.head ELSE owned
      inits == IF s.k = "loop" THEN s.inits ELSE <<>>
      left == Left(inits, owned, keep) \cap keep
      target == (left \cap after) \ Dst(s)
      wanted == CASE s.k = "loop" -> [want EXCEPT !.yield = target, !.head = left]
                  [] s.k = "block" -> [want EXCEPT !.yield = target, !.labels[s.label] = target]
                  [] OTHER -> [want EXCEPT !.yield = target]
      entry == left \cup (IF s.k = "loop" THEN Range(s.vars) ELSE {})
      Child(c) == RcSeq(c, entry, wanted, inside)
  IN  [out |-> Dups(inits, owned, keep)
                 \o (IF s.k = "loop" THEN Drops(Left(inits, owned, keep) \ keep) ELSE <<>>)
                 \o <<MapChildren(s, Child)>>,
       owned |-> target \cup Dst(s)]

(* Mutant: a result that is not used is not dropped.                       *)
DropsAfterUsed(s, owned, after) ==
  [drops |-> Drops(owned \ (after \cup Dst(s))), owned |-> owned \cap after]

DropsAfter(s, owned, after) == [drops |-> Drops(owned \ after), owned |-> owned \cap after]

RcRest(q, owned, want, to) ==
  IF q.stmts = <<>>
  THEN LET target == CASE q.term.k = "yield" -> want.yield
                       [] q.term.k = "break" -> want.labels[q.term.label]
                       [] q.term.k = "recur" -> want.head
                       [] OTHER -> {}
           args == q.term.args
       IN  IF q.term.k = "unreachable" THEN <<>>
           ELSE Dups(args, owned, target) \o Drops(Left(args, owned, target) \ target)
  ELSE LET s == Head(q.stmts)
           rest == Code(Tail(q.stmts), q.term)
           after == Afters(rest, want, to)
           r == IF s.k = "let" THEN RcLet(s, owned, after, want, to)
                ELSE RcCompound(s, owned, after, LiveSeq(rest, to), want, to)
           then == DropsAfter(s, r.owned, after)
       IN  r.out \o then.drops \o RcRest(rest, then.owned, want, to)

RcSeq(q, owned, want, to) ==
  LET live == LiveSeq(q, to)
  IN  [q EXCEPT !.stmts = Drops(owned \ live) \o RcRest(q, owned \cap live, want, to)]

(* A function that may be suspended with its environment in a frame owns   *)
(* it, after a dup at its start.                                           *)
OwnsEnv(q) ==
  /\ Env \in LiveSeq(q, Nowhere)
  /\ \E s \in Statements(q) : s.k = "let" /\ Env \in UNION Range(s.saved)

InsertRc(q) ==
  IF OwnsEnv(q)
  THEN LET r == RcSeq(q, {Param, Env}, Nowhere, Nowhere) IN [r EXCEPT !.stmts = <<Dup(Env)>> \o @]
  ELSE RcSeq(q, {Param}, Nowhere, Nowhere)

ToHeap(q, suspends) == InsertRc(StateMachines(ExplicitDefects(q), suspends))
==============================================================================
