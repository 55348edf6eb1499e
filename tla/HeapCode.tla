------------------------------- MODULE HeapCode -------------------------------
(***************************************************************************)
(* The Heap IR of emela-lir/src/ir.rs as the passes make it and a backend  *)
(* runs it: how values use their operands, and the frames of a run, which  *)
(* are what is left of each sequence that was entered.                     *)
(*                                                                         *)
(* Every variable here is a counted one (ref), a number; constants and     *)
(* numbers are left out of the operands.  A label is a number.             *)
(***************************************************************************)
EXTENDS Integers, Sequences, FiniteSets, SequencesExt

CONSTANTS
  MaxName,    \* the variables of a program
  MaxLabel,   \* the labels of its blocks
  MaxDepth    \* how deep cleanups are nested

ASSUME CodeAssumption ==
  MaxName \in Nat /\ MaxName >= 2 /\ MaxLabel \in Nat /\ MaxDepth \in Nat

Nil == 0      \* no destination, or a label nothing breaks to
Param == 1    \* the parameter of the function
Env == 2      \* its environment, which is borrowed
Err == -1     \* the error of a failure landing
Stash(n) == -(2 + n)   \* the defect taken while the cleanup at depth n runs
Stashes == (-(2 + MaxDepth))..(-2)
Variables == 1..MaxName \cup {Err} \cup Stashes
Labels == 0..MaxLabel

Occurs(v, args) == Cardinality({i \in DOMAIN args : args[i] = v})
Dst(s) == {s.dst} \ {Nil}
Dest(s) == IF s.dst = Nil THEN <<>> ELSE <<s.dst>>

Calls == {"call", "acquire", "release"}

(* may_defect: calls of functions that may, Array.set, fairness yields;    *)
(* not a call of a function found to raise none (pure), nor the hold,      *)
(* unhold and retire of a release.                                         *)
MayDefect(v) == v.op \in Calls \cup {"extern", "set", "pause"}

(* value_uses, by mode: what is called, and all a view, a builtin or an    *)
(* external function looks at, is borrowed; Array.set consumes the array.  *)
Consumed(v) ==
  CASE v.op \in Calls \cup {"pure", "make", "resume"} -> v.args
    [] v.op = "set" -> <<Head(v.args)>>
    [] OTHER -> <<>>
Borrowed(v) ==
  v.on \o (CASE v.op \in {"view", "look", "extern", "raise", "retire"} -> v.args
             [] v.op = "set" -> Tail(v.args)
             [] OTHER -> <<>>)
Uses(v) == Range(Consumed(v)) \cup Range(Borrowed(v))
IsView(v) == v.op = "view"

(* The sequences inside a statement.                                       *)
Children(s) ==
  CASE s.k = "let" -> s.value.fail \o s.defect
    [] s.k = "branch" -> s.cases
    [] s.k \in {"block", "loop"} -> <<s.body>>
    [] OTHER -> <<>>

-----------------------------------------------------------------------------
(* The frames, innermost last: the statements left, the terminator and the *)
(* statement the sequence is of.                                           *)
Frame(q, of) == [stmts |-> q.stmts, term |-> q.term, of |-> of]
Entry(q) == <<Frame(q, [k |-> "function", dst |-> Nil])>>
Top(frames) == Last(frames)
Stmt(frames) == Head(Top(frames).stmts)
Advanced(frames) == [frames EXCEPT ![Len(frames)].stmts = Tail(@)]
Landed(frames, q) == [frames EXCEPT ![Len(frames)] = Frame(q, Top(frames).of)]
Entered(frames, q) == Append(Advanced(frames), Frame(q, Stmt(frames)))

(* The innermost frame a terminator leaves.                                *)
LeavesFrame(frames, i) ==
  LET term == Top(frames).term IN
  CASE term.k = "yield" -> i = Len(frames)
    [] term.k = "break" -> frames[i].of.k = "block" /\ frames[i].of.label = term.label
    [] term.k = "recur" -> frames[i].of.k = "loop"
Target(frames) ==
  CHOOSE i \in DOMAIN frames :
    LeavesFrame(frames, i) /\ \A j \in DOMAIN frames : LeavesFrame(frames, j) => j <= i
TargetOf(frames) == frames[Target(frames)].of
Outside(frames) == SubSeq(frames, 1, Target(frames) - 1)
Restarted(frames) == Append(Outside(frames), Frame(TargetOf(frames).body, TargetOf(frames)))
===============================================================================
