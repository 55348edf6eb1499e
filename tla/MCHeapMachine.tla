---------------------------- MODULE MCHeapMachine ----------------------------
(* Functions for HeapMachine: small ones of each kind of control, in every  *)
(* combination of the values and ways out that ownership tells apart.       *)
EXTENDS HeapMachine, BalanceCheck

Call(on, args, fail, suspends) ==
  [Value("call", on, args) EXCEPT !.fail = fail, !.suspends = suspends]
Extern(args) == [Value("extern", <<>>, args) EXCEPT !.suspends = TRUE]
Propagate == <<[k |-> "propagate", label |-> Nil]>>
FailTo(l) == <<[k |-> "break", label |-> l]>>
Break(l, args) == Term("break", l, args)
Return(args) == Term("return", Nil, args)

(* Three values, each of those before: aliases, views, in-place updates.    *)
Straight ==
  LET firsts == {Value("make", <<>>, <<Param, Param>>), Value("view", <<>>, <<Param>>),
                 Value("view", <<>>, <<Env>>), Call(<<Env>>, <<Param>>, <<>>, TRUE),
                 Extern(<<Param>>), Value("set", <<>>, <<Param, Param>>)}
      seconds == {Value("make", <<>>, <<3, Param>>), Value("view", <<>>, <<3>>),
                  Call(<<3>>, <<Param>>, Propagate, TRUE), Call(<<>>, <<3, 3>>, <<>>, FALSE),
                  Value("set", <<>>, <<3, Param>>), Value("set", <<>>, <<Param, 3>>),
                  Value("pure", <<>>, <<3>>)}
      thirds == {Value("make", <<>>, <<4, 4>>), Value("view", <<>>, <<4>>),
                 Value("set", <<>>, <<4, 3>>), Call(<<4>>, <<4, Env>>, <<>>, TRUE)}
  IN  {Code(<<Let(3, v), Let(4, w), Let(5, u)>>, Return(<<x>>)) :
         v \in firsts, w \in seconds, u \in thirds, x \in {Param, 4, 5}}

(* A block left by a break, by the failure of a call or at its end.         *)
Blocks ==
  LET Choice(y) == Branch(5, <<3>>, <<Code(<<>>, Yield(<<4>>)), Code(<<>>, Break(1, <<y>>))>>)
  IN  {Code(<<Let(3, v),
              Block(6, 1, Code(<<Let(4, Call(<<Env>>, <<x>>, FailTo(1), TRUE)), Choice(y)>>,
                               Yield(<<5>>)))>>, Return(<<z>>)) :
         v \in {Value("view", <<>>, <<Param>>), Value("make", <<>>, <<Param>>), Extern(<<Param>>)},
         x \in {Param, 3}, y \in {Param, 4, Env}, z \in {3, 6, Env}}

(* A loop that needs variables of its surroundings only after it recurred,  *)
(* or only once it is left.                                                 *)
Loops ==
  LET Again(r, y) == Branch(6, <<4>>, <<Code(<<>>, Term("recur", Nil, r)), Code(<<>>, Yield(<<y>>))>>)
  IN  {Code(<<Let(3, Value("make", <<>>, <<>>)),
              Loop(7, <<4, 5>>, <<Param, x>>,
                   Code(<<Again(r, y), Let(8, Call(<<3>>, <<5>>, Propagate, s))>>, Yield(<<6>>)))>>,
            Return(<<z>>)) :
         x \in {Param, 3}, r \in {<<5, 4>>, <<4, 4>>, <<3, Env>>}, y \in {3, 4, Env},
         s \in BOOLEAN, z \in {3, 7}}

(* A with that is left in every way, one inside it, and one in a loop.      *)
Bodies ==
  {Code(<<>>, Yield(<<Param>>)), Code(<<>>, Return(<<Param>>)), Code(<<>>, Break(1, <<Param>>)),
   Code(<<>>, Term("fail", Nil, <<Param>>)), Code(<<>>, Term("defect", Nil, <<Param>>)),
   Code(<<Op("div", <<>>), Let(5, Call(<<3>>, <<Param>>, FailTo(1), TRUE))>>, Yield(<<5>>)),
   Code(<<Let(5, Call(<<Env>>, <<Param>>, Propagate, FALSE))>>, Yield(<<5>>)),
   Code(<<Branch(5, <<Param>>, <<Code(<<>>, Yield(<<Param>>)), Code(<<>>, Break(1, <<Env>>))>>)>>,
        Yield(<<5>>))}
Handler(h) == Let(h, Value("acquire", <<>>, <<>>))
Outer(s, body, z) ==
  Code(<<Block(9, 1, Code(<<Handler(3), WithRelease(4, 3, s, body)>>, Yield(<<4>>)))>>, Return(<<z>>))
Inner(s, body) == Code(<<Handler(6), WithRelease(7, 6, s, body)>>, Yield(<<7>>))
Looped(s, body) ==
  Code(<<Block(9, 1,
           Code(<<Loop(8, <<3>>, <<Param>>,
                       Code(<<Handler(6), WithRelease(7, 6, s, body),
                              Branch(4, <<3>>, <<Code(<<>>, Term("recur", Nil, <<7>>)),
                                                 Code(<<>>, Yield(<<7>>))>>)>>, Yield(<<4>>)))>>,
                Yield(<<8>>)))>>, Return(<<9>>))
Withs ==
  LET once == {Outer(s, b, z) : s \in BOOLEAN, b \in Bodies, z \in {Param, 9}}
      nested == {Outer(s, Inner(t, b), 9) : s, t \in BOOLEAN, b \in Bodies}
      looped == {Looped(s, b) : s \in BOOLEAN, b \in Bodies}
  IN  once \cup nested \cup looped

(* As functions that suspend, and some as functions that do not.            *)
MCFunctions ==
  {ToHeap(f[1], f[2]) : f \in ((Straight \cup Blocks \cup Loops \cup Withs) \X {TRUE})
                               \cup ((Blocks \cup Withs) \X {FALSE})}

-----------------------------------------------------------------------------
(* The places of a function, from those found so far and the last of them. *)
RECURSIVE Places(_, _)
Places(found, last) ==
  LET new == UNION {Ways(c) : c \in {c \in last : Right(c)}} \ found
  IN  IF new = {} THEN found ELSE Places(found \cup new, new)
PlacesOf(q) == Places({Start(q)}, {Start(q)})

(* Where control may go from the frames, with the counts left out.         *)
RECURSIVE Stripped(_), Needed(_, _), Reach(_)
Stripped(q) ==
  LET kept == SelectSeq(q.stmts, LAMBDA s : s.k \notin {"dup", "drop"})
  IN  [q EXCEPT !.stmts = [i \in DOMAIN kept |-> MapChildren(kept[i], Stripped)]]
Needed(frames, to) ==
  LET f == Head(frames)
      here == LiveSeq(Stripped(Code(f.stmts, f.term)), to)
  IN  IF Len(frames) = 1 THEN here
      ELSE Needed(Tail(frames), Inside(MapChildren(frames[2].of, Stripped), here, to))
Reach(os) ==
  LET more == os \cup UNION {Range(heap[o].refs) : o \in os \cap Objects}
  IN  IF more = os THEN os ELSE Reach(more)

(* When a call is made, each object that is there is reached from a        *)
(* variable that is used later, the caller, or the pending defect.         *)
NothingIdle ==
  AtValue(Calls) =>
    {o \in Objects : heap[o].count > 0} \subseteq
      Reach({env[v] : v \in Needed(code, Nowhere)} \cup caller \cup {pending})

VerifierAccepts ==
  state = "start" =>
    LET q == Code(code[1].stmts, code[1].term) IN Balanced(q) /\ Accepts(PlacesOf(q), q)

(* What the passes make is accepted by the verifier's own balance check    *)
(* (rc_check.rs) and by the path check of OwnedPaths that the proofs start *)
(* from; and it gives references up as early as possible, so that nothing  *)
(* is kept through a call that is not used after it (drop_except).         *)
WellCounted == VerifierAccepts /\ NothingIdle
==============================================================================
