----------------------------- MODULE BalanceCheck -----------------------------
(***************************************************************************)
(* The verifier's balance check, emela-lir/src/heap/rc_check.rs: follows   *)
(* every path, counting the references each variable owns.                 *)
(*                                                                         *)
(* A way through code ends in exits: where they go, with the references    *)
(* and the variables in scope there.  The code delivers to the slot of a   *)
(* statement as it goes; here the exits are gathered and a statement       *)
(* takes its own.                                                          *)
(***************************************************************************)
EXTENDS RefCounts, OwnedPaths

RECURSIVE CheckSeq(_, _, _)

Both(a, b) == [ok |-> a.ok /\ b.ok, exits |-> a.exits \cup b.exits]
Every(cs, tokens, scope) ==
  LET r == {CheckSeq(c, tokens, scope) : c \in cs}
  IN  [ok |-> \A a \in r : a.ok, exits |-> UNION {a.exits : a \in r}]

(* deliver: what was defined inside has no reference left, and every edge  *)
(* brings the same.                                                        *)
Joins(exits, scope) ==
  /\ \A x \in exits : \A v \in x.scope \ scope : x.tokens[v] = 0
  /\ \A x, y \in exits : \A v \in scope : x.tokens[v] = y.tokens[v]

CheckTerm(term, tokens, scope) ==
  LET left == Taken(tokens, term.args)
      to == IF term.k \in {"yield", "break", "recur"} THEN term.k ELSE "out"
  IN  [ok |-> Enough(left),
       exits |-> IF term.k = "unreachable" THEN {}
                 ELSE {[to |-> to, label |-> term.label, tokens |-> left, scope |-> scope]}]

(* A let takes what it consumes, needs what it borrows, and leaves nothing *)
(* behind when it is suspended.                                            *)
CheckLet(s, rest, tokens, scope) ==
  LET left == Taken(tokens, Consumed(s.value))
      after == Defined(left, Dst(s), IF IsView(s.value) THEN 0 ELSE 1)
      suspended == [v \in Variables |-> left[v] - (IF v \in UNION Range(s.saved) THEN 1 ELSE 0)]
      here == [ok |-> /\ Enough(left)
                      /\ \A v \in Range(Borrowed(s.value)) : left[v] >= 1 \/ v = Env
                      /\ s.saved # <<>> => \A v \in scope : suspended[v] = 0,
               exits |-> {}]
      landings == Both(Every(Range(s.value.fail), Defined(left, {Err}, 1), scope \cup {Err}),
                       Every(Range(s.defect), left, scope))
  IN  Both(here, Both(landings, CheckSeq(rest, after, scope \cup Dst(s))))

(* A compound statement takes the exits to its end and to its head; what   *)
(* follows goes on with the references they bring, if there are any.       *)
CheckCompound(s, rest, tokens, scope) ==
  LET isLoop == s.k = "loop"
      left == IF isLoop THEN Taken(tokens, s.inits) ELSE tokens
      vars == IF isLoop THEN Range(s.vars) ELSE {}
      inside == Every(Range(Children(s)), Defined(left, vars, 1), scope \cup vars)
      ends == {x \in inside.exits :
                 x.to = "yield" \/ (s.k = "block" /\ x.to = "break" /\ x.label = s.label)}
      again == {x \in inside.exits : isLoop /\ x.to = "recur"}
      head == {[to |-> "recur", label |-> Nil, tokens |-> left, scope |-> scope]}
      onward == [ok |-> /\ inside.ok /\ Enough(left) /\ Joins(ends, scope)
                        /\ isLoop => Joins(again \cup head, scope)
                        /\ s.k = "branch" => \A v \in Range(s.on) : left[v] >= 1 \/ v = Env,
                 exits |-> inside.exits \ (ends \cup again)]
  IN  IF ends = {} THEN onward
      ELSE LET x == CHOOSE x \in ends : TRUE
           IN  Both(onward, CheckSeq(rest, Defined(x.tokens, Dst(s), 1), scope \cup Dst(s)))

CheckSeq(q, tokens, scope) ==
  IF q.stmts = <<>> THEN CheckTerm(q.term, tokens, scope)
  ELSE LET s == Head(q.stmts)
           rest == Code(Tail(q.stmts), q.term)
       IN  CASE s.k = "dup" -> CheckSeq(rest, [tokens EXCEPT ![s.v] = @ + 1], scope)
             [] s.k = "drop" ->
                  LET r == CheckSeq(rest, Taken(tokens, <<s.v>>), scope)
                  IN  [r EXCEPT !.ok = @ /\ tokens[s.v] > 0]
             [] s.k = "let" -> CheckLet(s, rest, tokens, scope)
             [] OTHER -> CheckCompound(s, rest, tokens, scope)

(* check: of a function, whose environment is borrowed.                    *)
Balanced(q) ==
  LET r == CheckSeq(q, [v \in Variables |-> IF v = Param THEN 1 ELSE 0], {Param, Env})
  IN  r.ok /\ Joins({x \in r.exits : x.to = "out"}, {})
===============================================================================
