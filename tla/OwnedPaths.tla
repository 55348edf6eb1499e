------------------------------ MODULE OwnedPaths ------------------------------
(***************************************************************************)
(* What is known at each point of counted code: a check that follows every *)
(* path, as the verifier's (rc_check.rs) does, and that besides the        *)
(* references each variable owns knows whether the caller still lends the  *)
(* environment, whether a defect is pending, which handlers are open and   *)
(* how many holds there are.                                               *)
(*                                                                         *)
(* Code is accepted if there is a set of places, with its entry among      *)
(* them, that are right and lead only to places of the set.                *)
(***************************************************************************)
EXTENDS HeapCode

Taken(tokens, args) == [v \in Variables |-> tokens[v] - Occurs(v, args)]
Enough(tokens) == \A v \in Variables : tokens[v] >= 0
Defined(tokens, vs, n) == [v \in Variables |-> IF v \in vs THEN n ELSE tokens[v]]

(* What is known at a point, and a place in the code with its point.       *)
Points == [own : [Variables -> Nat],     \* the references each variable owns
           fresh : Variables \cup {Nil}, \* the part that was just looked at
           lent : BOOLEAN,               \* the caller lends the environment
           pend : BOOLEAN,               \* a defect is pending
           open : Seq(Variables),        \* the handlers made and not retired
           done : BOOLEAN,               \* the last of them was released
           hold : Nat]
Place(frames, p) == [code |-> frames, at |-> p]
Start(q) ==
  Place(Entry(q), [own |-> [v \in Variables |-> IF v = Param THEN 1 ELSE 0], fresh |-> Nil,
                   lent |-> TRUE, pend |-> FALSE, open |-> <<>>, done |-> FALSE, hold |-> 0])

MayRead(p, v) == p.own[v] >= 1 \/ (v = Env /\ p.lent)
Named(args) == args \in Seq(Variables \ Stashes)
Distinct(vs) == \A i, j \in DOMAIN vs : vs[i] = vs[j] => i = j

(* References are taken from variables, and given to variables that own    *)
(* none and are no open handler.                                           *)
Gives(p, args) == [p EXCEPT !.own = Taken(@, args), !.fresh = Nil]
Binds(p, vs, n) == [p EXCEPT !.own = Defined(@, Range(vs), n), !.fresh = Nil]
CanBind(p, vs) ==
  /\ vs \in Seq(Variables \ {Env}) /\ Distinct(vs)
  /\ \A v \in Range(vs) : p.own[v] = 0 /\ v \notin Range(p.open)
Moves(p, args, vs) ==
  /\ Named(args) /\ Named(vs) /\ Len(args) = Len(vs)
  /\ Enough(Taken(p.own, args)) /\ CanBind(Gives(p, args), vs)
Moved(p, args, vs) == Binds(Gives(p, args), vs, 1)

(* Inside of every stash in use.                                           *)
Innermost(p, d) == \A v \in Stashes : p.own[v] > 0 => d <= v

-----------------------------------------------------------------------------
(* A let takes what it consumes and needs what it borrows; suspended, it   *)
(* leaves nothing behind.                                                  *)
Spent(p, s) == [Gives(p, Consumed(s.value)) EXCEPT !.lent = @ /\ s.saved = <<>>]

ValueRight(p, s) ==
  LET v == s.value IN
  CASE v.op = "make" -> s.dst # Nil
    [] v.op = "view" -> v.args # <<>>
    [] v.op \in {"look", "div", "hold", "pause"} -> s.dst = Nil
    [] v.op = "unhold" -> s.dst = Nil /\ p.hold > 0
    [] v.op = "retire" -> s.dst = Nil /\ p.open # <<>> /\ v.args = <<Last(p.open)>>
    [] v.op = "release" -> s.dst = Nil /\ p.open # <<>> /\ v.args = <<Last(p.open)>> /\ ~p.done
    [] v.op = "acquire" -> s.dst # Nil /\ ~p.done
    [] v.op = "take" -> s.dst \in Stashes /\ Innermost(p, s.dst) /\ p.pend
    [] v.op = "resume" -> s.dst = Nil /\ v.args \in {<<d>> : d \in Stashes} /\ Innermost(p, Head(v.args))
    [] v.op = "raise" -> s.dst = Nil /\ Len(v.args) <= 1 /\ ~p.pend
    [] v.op = "set" -> s.dst # Nil /\ Len(v.args) = 2
    [] v.op = "extern" -> s.dst # Nil => v.args # <<>>
    [] v.op \in {"call", "pure"} -> TRUE
    [] OTHER -> FALSE

SavedRight(p, s) ==
  LET saved == Head(s.saved) IN
  /\ MayDefect(s.value) /\ s.saved = <<saved>> /\ saved \subseteq Variables
  /\ \A x \in Variables : Spent(p, s).own[x] = IF x \in saved THEN 1 ELSE 0
  /\ Range(Borrowed(s.value)) \subseteq saved

LetRight(p, s) ==
  LET v == s.value
      left == Spent(p, s)
  IN  /\ v.on \in Seq(Variables) /\ v.args \in Seq(Variables) /\ Consumed(v) \in Seq(Variables)
      /\ (v.op # "resume" => Named(Consumed(v))) /\ Named(Borrowed(v)) /\ Enough(left.own)
      /\ \A x \in Range(Borrowed(v)) : MayRead(Gives(p, Consumed(v)), x)
      /\ CanBind(left, Dest(s)) /\ (v.op # "take" => Named(Dest(s)))
      /\ s.saved # <<>> => SavedRight(p, s)
      /\ v.fail # <<>> => v.fail = <<Head(v.fail)>> /\ CanBind(left, <<Err>>)
      /\ s.defect # <<>> => s.defect = <<Head(s.defect)>>
      /\ MayDefect(v) \/ s.defect # <<>> => ~p.pend
      /\ ValueRight(p, s)

(* What is known after it, and where it fails or a defect is raised.       *)
After(p, s) ==
  LET v == s.value
      bound == Binds(Spent(p, s), Dest(s), IF IsView(v) THEN 0 ELSE 1)
  IN  CASE v.op = "view" -> [bound EXCEPT !.fresh = s.dst]
        [] v.op = "hold" -> [bound EXCEPT !.hold = @ + 1]
        [] v.op = "unhold" -> [bound EXCEPT !.hold = @ - 1]
        [] v.op = "retire" -> [bound EXCEPT !.open = Front(@), !.done = FALSE]
        [] v.op = "acquire" -> [bound EXCEPT !.open = Append(@, s.dst)]
        [] v.op = "release" -> [bound EXCEPT !.done = TRUE]
        [] v.op = "take" -> [bound EXCEPT !.pend = FALSE]
        [] v.op \in {"raise", "resume"} -> [bound EXCEPT !.pend = TRUE]
        [] OTHER -> bound
AtLanding(p, s) == [Spent(p, s) EXCEPT !.done = @ \/ s.value.op = "release"]
LetWays(frames, p, s) ==
  {Place(Advanced(frames), After(p, s))}
    \cup {Place(Landed(frames, q), Binds(AtLanding(p, s), <<Err>>, 1)) : q \in Range(s.value.fail)}
    \cup {Place(Landed(frames, q), [AtLanding(p, s) EXCEPT !.pend = TRUE]) : q \in Range(s.defect)}

-----------------------------------------------------------------------------
Inits(s) == IF s.k = "loop" THEN s.inits ELSE <<>>
LoopVars(s) == IF s.k = "loop" THEN s.vars ELSE <<>>
Tested(s) == IF s.k = "branch" THEN s.on ELSE <<>>

StmtRight(p, s) ==
  CASE s.k = "dup" -> s.v \in Variables \ Stashes /\ (MayRead(p, s.v) \/ s.v = p.fresh)
    [] s.k = "drop" -> s.v \in Variables \ Stashes /\ p.own[s.v] >= 1
    [] s.k = "let" -> LetRight(p, s)
    [] s.k \in {"branch", "block", "loop"} ->
         /\ Named(Tested(s)) /\ \A x \in Range(Tested(s)) : MayRead(p, x)
         /\ Moves(p, Inits(s), LoopVars(s))
    [] OTHER -> FALSE
StmtWays(frames, p, s) ==
  CASE s.k = "dup" -> {Place(Advanced(frames), [p EXCEPT !.own[s.v] = @ + 1, !.fresh = Nil])}
    [] s.k = "drop" -> {Place(Advanced(frames), Gives(p, <<s.v>>))}
    [] s.k = "let" -> LetWays(frames, p, s)
    [] OTHER -> {Place(Entered(frames, q), Moved(p, Inits(s), LoopVars(s))) : q \in Range(Children(s))}

TermRight(frames, p) ==
  LET term == Top(frames).term IN
  CASE term.k \in {"yield", "break"} -> Moves(p, term.args, Dest(TargetOf(frames)))
    [] term.k = "recur" -> Moves(p, term.args, TargetOf(frames).vars)
    [] term.k \in {"return", "fail", "unwind"} ->
         /\ Named(term.args) /\ Len(term.args) <= 1
         /\ \A v \in Variables : Taken(p.own, term.args)[v] = 0
         /\ p.pend = (term.k = "unwind") /\ p.open = <<>> /\ p.hold = 0
    [] OTHER -> FALSE
TermWays(frames, p) ==
  LET term == Top(frames).term IN
  CASE term.k \in {"yield", "break"} ->
         {Place(Outside(frames), Moved(p, term.args, Dest(TargetOf(frames))))}
    [] term.k = "recur" -> {Place(Restarted(frames), Moved(p, term.args, TargetOf(frames).vars))}
    [] OTHER -> {}

Right(c) ==
  /\ c.code # <<>> /\ c.at \in Points
  /\ Distinct(c.at.open) /\ \A v \in Range(c.at.open) : c.at.own[v] >= 1
  /\ \A v \in Stashes : c.at.own[v] <= 1
  /\ IF Top(c.code).stmts = <<>> THEN TermRight(c.code, c.at) ELSE StmtRight(c.at, Stmt(c.code))
Ways(c) ==
  IF Top(c.code).stmts = <<>> THEN TermWays(c.code, c.at)
  ELSE StmtWays(c.code, c.at, Stmt(c.code))

Accepts(places, q) == Start(q) \in places /\ \A c \in places : Right(c) /\ Ways(c) \subseteq places
===============================================================================
