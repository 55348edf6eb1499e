----------------------------- MODULE DefectPaths -----------------------------
(***************************************************************************)
(* The Flow IR of emela-lir/src/ir.rs, as far as ownership and the ways    *)
(* out of a function go, and explicit_defects of heap/defects.rs, which    *)
(* makes defects and the cleanups of protect ordinary control.             *)
(*                                                                         *)
(* What the pass copies keeps its names: copies are in sequences of their  *)
(* own.                                                                    *)
(***************************************************************************)
EXTENDS HeapCode

(* A sequence, its terminator, a value and the statements.  What may be    *)
(* missing is a sequence of at most one.                                   *)
Code(stmts, term) == [stmts |-> stmts, term |-> term]
Term(k, label, args) == [k |-> k, label |-> label, args |-> args]
Yield(args) == Term("yield", Nil, args)
Unwind == Term("unwind", Nil, <<>>)
Value(op, on, args) ==
  [op |-> op, on |-> on, args |-> args, fail |-> <<>>, suspends |-> FALSE]
Let(dst, value) ==
  [k |-> "let", dst |-> dst, value |-> value, defect |-> <<>>, saved |-> <<>>]
Branch(dst, on, cases) == [k |-> "branch", dst |-> dst, on |-> on, cases |-> cases]
Block(dst, label, body) == [k |-> "block", dst |-> dst, label |-> label, body |-> body]
Loop(dst, vars, inits, body) ==
  [k |-> "loop", dst |-> dst, vars |-> vars, inits |-> inits, body |-> body]
Protect(dst, body, cleanup) ==
  [k |-> "protect", dst |-> dst, body |-> body, cleanup |-> cleanup]

Op(op, args) == Let(Nil, Value(op, <<>>, args))

(* with_ of from_core.rs: the rest of a with inside protect, whose cleanup *)
(* evaluates the release of handler h and then retires it.  A release that *)
(* may suspend is held, so that it is not interrupted.                     *)
Release(h, suspends) == Let(Nil, [Value("release", <<>>, <<h>>) EXCEPT !.suspends = suspends])
If(c, stmts) == IF c THEN stmts ELSE <<>>

(* Mutant: the handler is retired after its release, not when it is left.  *)
WithReleasePlain(dst, h, suspends, body) ==
  Protect(dst, body,
          Code(If(suspends, <<Op("hold", <<>>)>>)
                 \o <<Release(h, suspends), Op("retire", <<h>>)>>
                 \o If(suspends, <<Op("unhold", <<>>)>>), Yield(<<>>)))

WithRelease(dst, h, suspends, body) ==
  LET retire == Code(<<Op("retire", <<h>>)>> \o If(suspends, <<Op("unhold", <<>>)>>), Yield(<<>>))
      released == Code(<<Release(h, suspends)>>, Yield(<<>>))
  IN  Protect(dst, body, Code(If(suspends, <<Op("hold", <<>>)>>)
                                \o <<Protect(Nil, released, retire)>>, Yield(<<>>)))

(* The runtime operations of the pass.                                     *)
Raise(args) == Op("raise", args)
TakeDefect(d) == Let(d, Value("take", <<>>, <<>>))
ResumeDefect(d) == Op("resume", <<d>>)

(* What encloses the code that is rebuilt: the body of a protect, or a     *)
(* cleanup on the way out with the defect in d.                            *)
InProtect(cleanup) == [k |-> "protect", cleanup |-> cleanup]
InCleanup(d) == [k |-> "stash", var |-> d]

RECURSIVE ExplicitSeq(_, _, _, _), ExplicitStmt(_, _, _), Exit(_, _, _, _)

CleanupBlock(cleanup, stack, depth) ==
  Block(Nil, Nil, ExplicitSeq(cleanup, FALSE, stack, depth))

(* Mutant: a cleanup on the way out with a defect leaves it in place.      *)
ExitKeeping(stack, from, unwind, depth) ==
  IF Len(stack) <= from THEN <<>>
  ELSE LET outer == Front(stack)
           top == Last(stack)
       IN  (IF top.k = "stash" THEN <<>> ELSE <<CleanupBlock(top.cleanup, outer, depth)>>)
             \o Exit(outer, from, unwind, depth)

(* exit: the cleanups run when the statements of the stack above from are  *)
(* left, innermost first, each within what encloses its protect.           *)
Exit(stack, from, unwind, depth) ==
  IF Len(stack) <= from THEN <<>>
  ELSE LET outer == Front(stack)
           top == Last(stack)
           d == Stash(Len(outer))
       IN  (CASE top.k = "stash" -> <<ResumeDefect(top.var)>>
              [] top.k = "protect" /\ unwind ->
                   <<TakeDefect(d), CleanupBlock(top.cleanup, Append(outer, InCleanup(d)), depth),
                     ResumeDefect(d)>>
              [] OTHER -> <<CleanupBlock(top.cleanup, outer, depth)>>)
             \o Exit(outer, from, unwind, depth)

UnwindSeq(stack, depth) == Code(Exit(stack, 0, TRUE, depth), Unwind)

(* Down to where a terminator leaves the stack.                            *)
LeavesTo(term, protectTop, stack, depth) ==
  CASE term.k = "yield" -> IF protectTop THEN Len(stack) - 1 ELSE Len(stack)
    [] term.k = "break" -> depth[term.label]
    [] term.k = "recur" -> Len(stack)
    [] OTHER -> 0

ExplicitSeq(q, protectTop, stack, depth) ==
  LET term == q.term
      raised == IF term.k = "defect" THEN <<Raise(term.args)>> ELSE <<>>
      unwind == term.k \in {"defect", "unwind"}
      exits == IF term.k = "unreachable" THEN <<>>
               ELSE Exit(stack, LeavesTo(term, protectTop, stack, depth), unwind, depth)
  IN  Code(FlattenSeq([i \in 1..Len(q.stmts) |-> ExplicitStmt(q.stmts[i], stack, depth)])
             \o raised \o exits,
           IF term.k = "defect" THEN Unwind ELSE term)

(* landing: the failure edge of a call, to a block or out of the function. *)
Landing(edge, stack, depth) ==
  IF edge.k = "break"
  THEN Code(Exit(stack, depth[edge.label], FALSE, depth), Term("break", edge.label, <<Err>>))
  ELSE Code(Exit(stack, 0, FALSE, depth), Term("fail", Nil, <<Err>>))

(* zero_test: before a division, a test that raises.                       *)
ZeroTest(stack, depth) ==
  Branch(Nil, <<>>, <<Code(<<Raise(<<>>)>> \o Exit(stack, 0, TRUE, depth), Unwind),
                       Code(<<>>, Yield(<<>>))>>)

ExplicitStmt(s, stack, depth) ==
  CASE s.k = "let" ->
         LET v == s.value
         IN  (IF v.op = "div" THEN <<ZeroTest(stack, depth)>> ELSE <<>>) \o
             <<[s EXCEPT
                  !.value.fail = [i \in DOMAIN v.fail |-> Landing(v.fail[i], stack, depth)],
                  !.defect = IF MayDefect(v) THEN <<UnwindSeq(stack, depth)>> ELSE <<>>]>>
    [] s.k = "branch" ->
         <<[s EXCEPT !.cases = [i \in DOMAIN s.cases |->
                                  ExplicitSeq(s.cases[i], FALSE, stack, depth)]]>>
    [] s.k = "block" ->
         <<[s EXCEPT !.body = ExplicitSeq(s.body, FALSE, stack,
                                          [depth EXCEPT ![s.label] = Len(stack)])]>>
    [] s.k = "loop" -> <<[s EXCEPT !.body = ExplicitSeq(s.body, FALSE, stack, depth)]>>
    [] s.k = "protect" ->
         <<Block(s.dst, Nil,
                 ExplicitSeq(s.body, TRUE, Append(stack, InProtect(s.cleanup)), depth))>>

ExplicitDefects(q) == ExplicitSeq(q, FALSE, <<>>, [l \in Labels |-> 0])
==============================================================================
