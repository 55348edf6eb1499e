------------------------ MODULE VersionSelectionProofs ------------------------
(* Minimal version selection is right for every requirement graph: the     *)
(* inductive invariant of the loops of build_list and reached, and the     *)
(* properties of VersionSelection that follow from it.  And the order of   *)
(* versions that "largest" rests on is total, for all versions.            *)
EXTENDS MCVersionSelection, WellFoundedInduction, TLAPS

(* The requirements that the build_list at work was given.                 *)
Goal == IF phase = "all" THEN root[1] \o root[2] ELSE root[1]

(* build_list: everything visited or queued is reachable; the requirements *)
(* it was given, and those of the visited versions, are visited or queued; *)
(* the largest visited versions are selected.                              *)
WalkSound == visited \cup Elements(queue) \subseteq Reachable(Goal)
WalkWhole ==
  /\ Elements(Goal) \subseteq visited \cup Elements(queue)
  /\ \A n \in visited : Elements(graph[n]) \subseteq visited \cup Elements(queue)
WalkLargest == IsLargest(selected, visited)
WalkInv == phase # "failed" => WalkSound /\ WalkWhole /\ WalkLargest

WalkEnded == phase \in {"reach", "done"} => queue = <<>>

(* A set of Pomes a build without the tests has to get all of.             *)
Sufficient(T) ==
  /\ {n[1] : n \in Reachable(root[1])} \subseteq T
  /\ \A p \in T : RequiredBySelected(p) \subseteq T

(* reached: what was seen is locked, is needed, and has been followed      *)
(* unless it is pending.                                                   *)
ReachInv == phase \in {"reach", "done"} =>
  /\ Keys(selected) \subseteq seen
  /\ pending \subseteq seen
  /\ seen \subseteq Keys(list)
  /\ \A p \in seen \ pending : RequiredBySelected(p) \subseteq seen
  /\ \A T \in SUBSET Pomes : Sufficient(T) => seen \subseteq T

DoneInv == phase = "done" => pending = {}

IInv == TypeOK /\ WalkInv /\ WalkEnded /\ LargestRequired /\ ReachInv /\ DoneInv

-----------------------------------------------------------------------------
(* Elements of the sequences the loops build.                              *)
LEMMA ElementsInSet ==
  ASSUME NEW S, NEW s \in Seq(S)
  PROVE  Elements(s) \subseteq S
BY DEF Elements

LEMMA ElementsEmpty == Elements(<<>>) = {}
BY DEF Elements

LEMMA ElementsConcat ==
  ASSUME NEW S, NEW s \in Seq(S), NEW t \in Seq(S)
  PROVE  Elements(s \o t) = Elements(s) \cup Elements(t)
<1>1. Elements(s \o t) \subseteq Elements(s) \cup Elements(t)
  <2>. SUFFICES ASSUME NEW i \in 1..Len(s \o t)
                PROVE  (s \o t)[i] \in Elements(s) \cup Elements(t)
    BY DEF Elements
  <2>1. CASE i <= Len(s)
    BY <2>1 DEF Elements
  <2>2. CASE i > Len(s)
    <3>1. i - Len(s) \in 1..Len(t) /\ (s \o t)[i] = t[i - Len(s)]
      BY <2>2
    <3>. QED
      BY <3>1 DEF Elements
  <2>. QED
    BY <2>1, <2>2
<1>2. Elements(s) \subseteq Elements(s \o t)
  <2>. SUFFICES ASSUME NEW i \in 1..Len(s)
                PROVE  s[i] \in Elements(s \o t)
    BY DEF Elements
  <2>1. i \in 1..Len(s \o t) /\ (s \o t)[i] = s[i]
    OBVIOUS
  <2>. QED
    BY <2>1 DEF Elements
<1>3. Elements(t) \subseteq Elements(s \o t)
  <2>. SUFFICES ASSUME NEW i \in 1..Len(t)
                PROVE  t[i] \in Elements(s \o t)
    BY DEF Elements
  <2>1. Len(s) + i \in 1..Len(s \o t) /\ (s \o t)[Len(s) + i] = t[i]
    OBVIOUS
  <2>. QED
    BY <2>1 DEF Elements
<1>. QED
  BY <1>1, <1>2, <1>3

LEMMA ElementsHeadTail ==
  ASSUME NEW S, NEW s \in Seq(S), s # <<>>
  PROVE  /\ Head(s) \in S /\ Tail(s) \in Seq(S)
         /\ Elements(s) = {Head(s)} \cup Elements(Tail(s))
<1>1. Head(s) \in S /\ Tail(s) \in Seq(S)
  OBVIOUS
<1>2. Elements(s) \subseteq {Head(s)} \cup Elements(Tail(s))
  <2>. SUFFICES ASSUME NEW i \in 1..Len(s), i # 1
                PROVE  s[i] \in Elements(Tail(s))
    BY DEF Elements
  <2>1. i - 1 \in 1..Len(Tail(s)) /\ Tail(s)[i - 1] = s[i]
    OBVIOUS
  <2>. QED
    BY <2>1 DEF Elements
<1>3. Head(s) \in Elements(s)
  <2>1. 1 \in 1..Len(s) /\ s[1] = Head(s)
    OBVIOUS
  <2>. QED
    BY <2>1 DEF Elements
<1>4. Elements(Tail(s)) \subseteq Elements(s)
  <2>. SUFFICES ASSUME NEW i \in 1..Len(Tail(s))
                PROVE  Tail(s)[i] \in Elements(s)
    BY DEF Elements
  <2>1. i + 1 \in 1..Len(s) /\ Tail(s)[i] = s[i + 1]
    OBVIOUS
  <2>. QED
    BY <2>1 DEF Elements
<1>. QED
  BY <1>1, <1>2, <1>3, <1>4

-----------------------------------------------------------------------------
(* The reachable versions: they have the requirements they are reached     *)
(* from, they are closed under requirements, they are in every closed set, *)
(* and more requirements reach more.                                       *)
LEMMA ReachableBase ==
  ASSUME NEW s \in Seq(Nodes)
  PROVE  Elements(s) \subseteq Reachable(s)
<1>1. Elements(s) \subseteq Nodes
  BY ElementsInSet
<1>. QED
  BY <1>1 DEF Reachable, Closed

LEMMA ReachableStep ==
  ASSUME TypeOK, NEW s, NEW n \in Reachable(s)
  PROVE  Elements(graph[n]) \subseteq Reachable(s)
<1>1. n \in Nodes
  BY DEF Reachable
<1>2. graph[n] \in Seq(Nodes)
  BY <1>1 DEF TypeOK
<1>3. Elements(graph[n]) \subseteq Nodes
  BY <1>2, ElementsInSet
<1>. QED
  BY <1>3 DEF Reachable, Closed

LEMMA ReachableLeast ==
  ASSUME NEW s, NEW S \in SUBSET Nodes, Closed(S, s)
  PROVE  Reachable(s) \subseteq S
BY DEF Reachable

LEMMA ReachableMore ==
  ASSUME TypeOK
  PROVE  Reachable(root[1]) \subseteq Reachable(root[1] \o root[2])
<1>1. Elements(root[1]) \subseteq Elements(root[1] \o root[2])
  BY ElementsConcat DEF TypeOK
<1>. QED
  BY <1>1 DEF Reachable, Closed

(* When its queue is empty, build_list has visited what is reachable.      *)
LEMMA WalkDone ==
  ASSUME TypeOK, WalkInv, phase # "failed", queue = <<>>
  PROVE  visited = Reachable(Goal)
<1>1. Elements(queue) = {}
  BY ElementsEmpty
<1>2. visited \subseteq Reachable(Goal)
  BY DEF WalkInv, WalkSound
<1>3. Closed(visited, Goal)
  BY <1>1 DEF WalkInv, WalkWhole, Closed
<1>4. Reachable(Goal) \subseteq visited
  BY <1>3, ReachableLeast DEF TypeOK
<1>. QED
  BY <1>2, <1>4

(* The list meets the requirements of every version in it.                 *)
LEMMA ListMeets ==
  ASSUME TypeOK, LargestRequired, phase \in {"deps", "reach", "done"},
         NEW p \in Keys(list), NEW n \in Elements(graph[<<p, list[p]>>])
  PROVE  n \in Nodes /\ list[n[1]] >= n[2]
<1>1. <<p, list[p]>> \in Reachable(root[1] \o root[2])
  BY DEF LargestRequired, IsLargest, Keys
<1>2. n \in Reachable(root[1] \o root[2])
  BY <1>1, ReachableStep
<1>. QED
  BY <1>2 DEF LargestRequired, IsLargest, Reachable

LEMMA NodeParts ==
  ASSUME NEW n \in Nodes
  PROVE  n[1] \in Pomes /\ n[2] \in Nat /\ n[2] > 0
BY SelectionAssumption

(* What the selected version of a locked Pome requires is locked.          *)
LEMMA RequiredAreLocked ==
  ASSUME TypeOK, LargestRequired, phase \in {"deps", "reach", "done"}, NEW p \in Keys(list)
  PROVE  RequiredBySelected(p) \subseteq Keys(list)
<1>. SUFFICES ASSUME NEW n \in Elements(graph[<<p, list[p]>>])
              PROVE  n[1] \in Keys(list)
  BY DEF RequiredBySelected
<1>1. n \in Nodes /\ list[n[1]] >= n[2]
  BY ListMeets
<1>. QED
  BY <1>1, NodeParts DEF Keys, TypeOK, IsSelection, NoVersion

(* The tests' requirements do not lower what [dependencies] select.        *)
LEMMA ListAbove ==
  ASSUME TypeOK, WalkInv, LargestRequired, phase \in {"deps", "reach", "done"}, queue = <<>>
  PROVE  \A p \in Pomes : list[p] >= selected[p]
<1>. SUFFICES ASSUME NEW p \in Pomes PROVE list[p] >= selected[p]
  OBVIOUS
<1>1. list[p] \in Nat /\ selected[p] \in Nat
  BY DEF TypeOK, IsSelection
<1>2. CASE selected[p] = NoVersion
  BY <1>1, <1>2 DEF NoVersion
<1>3. CASE selected[p] # NoVersion
  <2>1. <<p, selected[p]>> \in visited
    BY <1>3 DEF WalkInv, WalkLargest, IsLargest
  <2>2. visited = Reachable(root[1])
    BY WalkDone DEF Goal
  <2>3. <<p, selected[p]>> \in Reachable(root[1] \o root[2])
    BY <2>1, <2>2, ReachableMore
  <2>. QED
    BY <2>3 DEF LargestRequired, IsLargest
<1>. QED
  BY <1>2, <1>3

-----------------------------------------------------------------------------
(* Initially.                                                              *)
LEMMA Initially == Init => IInv
<1>. SUFFICES ASSUME Init PROVE IInv
  OBVIOUS
<1>1. /\ graph \in [Nodes -> Seq(Nodes)]
      /\ root[1] \in Seq(Nodes) /\ root[2] \in Seq(Nodes)
  BY SelectionAssumption DEF Init
<1>2. TypeOK
  <2>1. root[1] \o root[2] \in Seq(Nodes)
    BY <1>1
  <2>2. IsSelection(NothingSelected)
    BY DEF IsSelection, NothingSelected, NoVersion
  <2>. QED
    BY <1>1, <2>1, <2>2 DEF Init, TypeOK, Phases
<1>3. WalkSound /\ WalkWhole /\ WalkLargest
  <2>1. Goal = root[1] \o root[2] /\ queue = Goal /\ visited = {} /\ Goal \in Seq(Nodes)
    BY <1>1 DEF Init, Goal
  <2>2. WalkSound
    BY <2>1, ReachableBase DEF WalkSound
  <2>3. WalkWhole
    BY <2>1 DEF WalkWhole
  <2>4. WalkLargest
    BY <2>1 DEF Init, WalkLargest, IsLargest, NothingSelected
  <2>. QED
    BY <2>2, <2>3, <2>4
<1>. QED
  BY <1>2, <1>3 DEF Init, IInv, WalkInv, WalkEnded, LargestRequired, ReachInv, DoneInv

(* While the graph and the project's requirements stay as they are, so     *)
(* does what they reach.                                                   *)
LEMMA SameReachable ==
  ASSUME UNCHANGED <<graph, root>>
  PROVE  /\ Reachable(root[1])' = Reachable(root[1])
         /\ Reachable(root[1] \o root[2])' = Reachable(root[1] \o root[2])
         /\ (Goal' = Goal => Reachable(Goal)' = Reachable(Goal))
BY DEF Reachable, Closed

(* Visiting a version keeps the selection the largest of those visited.    *)
LEMMA RaisedIsLargest ==
  ASSUME TypeOK, NEW n \in Nodes, IsLargest(selected, visited)
  PROVE  IsSelection(Raised(n)) /\ IsLargest(Raised(n), visited \cup {n})
<1>1. /\ n[1] \in Pomes /\ n[2] \in Nat /\ n[2] > 0 /\ n = <<n[1], n[2]>>
  BY SelectionAssumption
<1>2. selected \in [Pomes -> Nat] /\ \A p \in Pomes : selected[p] # NoVersion => <<p, selected[p]>> \in Nodes
  BY DEF TypeOK, IsSelection
<1>3. \A m \in visited : m[1] \in Pomes /\ m[2] \in Nat
  BY NodeParts DEF TypeOK
<1>4. CASE selected[n[1]] >= n[2]
  BY <1>1, <1>2, <1>3, <1>4 DEF Raised, IsLargest, IsSelection
<1>5. CASE ~(selected[n[1]] >= n[2])
  <2>1. Raised(n) = [selected EXCEPT ![n[1]] = n[2]]
    BY <1>5 DEF Raised
  <2>2. Raised(n)[n[1]] = n[2] /\ n[2] > selected[n[1]]
    BY <1>1, <1>2, <1>5, <2>1
  <2>3. \A p \in Pomes \ {n[1]} : Raised(n)[p] = selected[p]
    BY <1>2, <2>1
  <2>4. IsSelection(Raised(n))
    BY <1>1, <1>2, <2>1, <2>2, <2>3 DEF IsSelection
  <2>5. \A m \in visited \cup {n} : Raised(n)[m[1]] >= m[2]
    <3>. TAKE m \in visited \cup {n}
    <3>1. CASE m[1] = n[1]
      BY <1>1, <1>2, <1>3, <2>2, <3>1 DEF IsLargest
    <3>2. CASE m[1] # n[1]
      BY <1>3, <2>3, <3>2 DEF IsLargest
    <3>. QED
      BY <3>1, <3>2
  <2>6. \A p \in Pomes : Raised(n)[p] # NoVersion => <<p, Raised(n)[p]>> \in visited \cup {n}
    <3>. TAKE p \in Pomes
    <3>1. CASE p = n[1]
      BY <1>1, <2>2, <3>1
    <3>2. CASE p # n[1]
      BY <2>3, <3>2 DEF IsLargest
    <3>. QED
      BY <3>1, <3>2
  <2>. QED
    BY <2>4, <2>5, <2>6 DEF IsLargest
<1>. QED
  BY <1>4, <1>5

LEMMA SkipStep == IInv /\ Skip => IInv'
<1>. SUFFICES ASSUME IInv, Skip PROVE IInv'
  OBVIOUS
<1>1. Tail(queue) \in Seq(Nodes) /\ Elements(queue) = {Head(queue)} \cup Elements(Tail(queue))
  BY ElementsHeadTail DEF IInv, TypeOK, Skip
<1>2. visited \cup Elements(queue) = (visited \cup Elements(queue))'
  BY <1>1 DEF Skip, Elements
<1>3. TypeOK'
  BY <1>1 DEF IInv, TypeOK, Skip, IsSelection
<1>4. WalkInv'
  <2>1. Goal' = Goal /\ phase \in {"all", "deps"} /\ Elements(Goal)' = Elements(Goal)
    BY DEF Skip, Goal, Building, Elements
  <2>2. Reachable(Goal)' = Reachable(Goal)
    BY <2>1, SameReachable DEF Skip
  <2>3. WalkSound'
    BY <1>2, <2>1, <2>2 DEF IInv, WalkInv, WalkSound
  <2>4. WalkWhole'
    BY <1>2, <2>1 DEF IInv, WalkInv, WalkWhole, Skip, Elements
  <2>5. WalkLargest'
    BY <2>1 DEF IInv, WalkInv, WalkLargest, IsLargest, Skip
  <2>. QED
    BY <2>3, <2>4, <2>5 DEF WalkInv
<1>5. LargestRequired'
  BY SameReachable DEF IInv, LargestRequired, IsLargest, Skip
<1>. QED
  BY <1>3, <1>4, <1>5 DEF IInv, Skip, Building, WalkEnded, ReachInv, DoneInv

LEMMA VisitStep == IInv /\ Visit => IInv'
<1>. SUFFICES ASSUME IInv, Visit PROVE IInv'
  OBVIOUS
<1>. DEFINE n == Head(queue)
<1>1. /\ n \in Nodes /\ Tail(queue) \in Seq(Nodes)
      /\ Elements(queue) = {n} \cup Elements(Tail(queue))
  BY ElementsHeadTail DEF IInv, TypeOK, Visit
<1>2. graph[n] \in Seq(Nodes)
  BY <1>1 DEF IInv, TypeOK
<1>3. Elements(queue') = Elements(Tail(queue)) \cup Elements(graph[n])
  <2>1. Elements(Tail(queue) \o graph[n]) = Elements(Tail(queue)) \cup Elements(graph[n])
    <3>1. \A s, t \in Seq(Nodes) : Elements(s \o t) = Elements(s) \cup Elements(t)
      BY ElementsConcat
    <3>. QED
      BY <1>1, <1>2, <3>1, Zenon
  <2>2. queue' = Tail(queue) \o graph[n]
    BY DEF Visit
  <2>. QED
    BY <2>1, <2>2
<1>4. visited' = visited \cup {n} /\ selected' = Raised(n) /\ UNCHANGED <<graph, root, phase, list>>
  BY DEF Visit
<1>5. phase \in {"all", "deps"} /\ Goal' = Goal
  BY DEF Visit, Goal, Building
<1>6. TypeOK /\ WalkSound /\ WalkWhole /\ WalkLargest
  BY <1>5 DEF IInv, WalkInv
<1>7. IsSelection(selected') /\ IsLargest(selected', visited')
  BY <1>1, <1>4, <1>6, RaisedIsLargest DEF WalkLargest
<1>8. TypeOK'
  <2>1. queue' \in Seq(Nodes)
    BY <1>1, <1>2 DEF Visit
  <2>. QED
    BY <1>1, <1>7, <2>1 DEF IInv, TypeOK, Visit, IsSelection
<1>9. WalkInv'
  <2>1. visited' \cup Elements(queue') = visited \cup Elements(queue) \cup Elements(graph[n])
    BY <1>1, <1>3, <1>4
  <2>2. Elements(queue)' = Elements(queue') /\ Elements(Goal)' = Elements(Goal)
    BY <1>5 DEF Elements
  <2>3. Reachable(Goal)' = Reachable(Goal)
    BY <1>4, <1>5, SameReachable
  <2>4. WalkSound'
    <3>1. n \in Reachable(Goal)
      BY <1>1, <1>6 DEF WalkSound
    <3>2. Elements(graph[n]) \subseteq Reachable(Goal)
      BY <1>6, <3>1, ReachableStep
    <3>. QED
      BY <1>6, <2>1, <2>2, <2>3, <3>2 DEF WalkSound
  <2>5. WalkWhole'
    <3>1. \A m \in visited' : Elements(graph[m]) \subseteq visited' \cup Elements(queue')
      BY <1>4, <1>6, <2>1 DEF WalkWhole
    <3>2. Elements(Goal) \subseteq visited' \cup Elements(queue')
      BY <1>6, <2>1 DEF WalkWhole
    <3>3. \A m : Elements(graph[m])' = Elements(graph[m])
      BY <1>4 DEF Elements
    <3>. QED
      BY <2>2, <3>1, <3>2, <3>3 DEF WalkWhole
  <2>6. WalkLargest'
    BY <1>7 DEF WalkLargest, IsLargest
  <2>. QED
    BY <2>4, <2>5, <2>6 DEF WalkInv
<1>10. LargestRequired'
  BY <1>4, SameReachable DEF IInv, LargestRequired, IsLargest
<1>. QED
  BY <1>4, <1>5, <1>8, <1>9, <1>10 DEF IInv, WalkEnded, ReachInv, DoneInv

LEMMA ListedStep == IInv /\ Listed => IInv'
<1>. SUFFICES ASSUME IInv, Listed PROVE IInv'
  OBVIOUS
<1>. USE DEF IInv
<1>1. /\ phase = "all" /\ queue = <<>> /\ phase' = "deps" /\ list' = selected
      /\ selected' = NothingSelected /\ visited' = {} /\ queue' = root[1]
      /\ UNCHANGED <<graph, root>>
  BY DEF Listed
<1>2. TypeOK'
  <2>1. IsSelection(NothingSelected)
    BY DEF IsSelection, NothingSelected, NoVersion
  <2>. QED
    BY <2>1 DEF TypeOK, Listed, IsSelection, Phases
<1>3. WalkInv'
  <2>1. Goal' = root[1] /\ root[1] \in Seq(Nodes)
    BY <1>1 DEF Goal, TypeOK
  <2>2. Elements(queue)' = Elements(root[1]) /\ Elements(Goal)' = Elements(root[1])
    BY <1>1, <2>1 DEF Elements
  <2>3. Reachable(Goal)' = Reachable(root[1])
    BY <1>1, <2>1 DEF Reachable, Closed
  <2>4. WalkSound'
    BY <1>1, <2>1, <2>2, <2>3, ReachableBase DEF WalkSound
  <2>5. WalkWhole'
    BY <1>1, <2>2 DEF WalkWhole
  <2>6. WalkLargest'
    BY <1>1 DEF WalkLargest, IsLargest, NothingSelected
  <2>. QED
    BY <2>4, <2>5, <2>6 DEF WalkInv
<1>4. LargestRequired'
  <2>1. visited = Reachable(root[1] \o root[2])
    BY <1>1, WalkDone DEF Goal
  <2>2. IsLargest(selected, Reachable(root[1] \o root[2]))
    BY <1>1, <2>1 DEF WalkInv, WalkLargest
  <2>. QED
    BY <1>1, <2>2, SameReachable DEF LargestRequired, IsLargest
<1>. QED
  BY <1>1, <1>2, <1>3, <1>4 DEF WalkEnded, ReachInv, DoneInv

(* The walk is over and what it found stays as it is.                      *)
LEMMA WalkKept ==
  ASSUME IInv, phase \in {"deps", "reach"}, phase' \in {"reach", "done"},
         UNCHANGED <<graph, root, selected, visited, queue, list>>
  PROVE  WalkInv' /\ LargestRequired'
<1>1. Goal' = Goal /\ Goal = root[1]
  BY DEF Goal
<1>2. Reachable(Goal)' = Reachable(Goal)
  BY <1>1, SameReachable
<1>3. WalkInv'
  BY <1>1, <1>2 DEF IInv, WalkInv, WalkSound, WalkWhole, WalkLargest, IsLargest, Elements
<1>4. LargestRequired'
  BY SameReachable DEF IInv, LargestRequired, IsLargest
<1>. QED
  BY <1>3, <1>4

LEMMA SameSufficient ==
  ASSUME UNCHANGED <<graph, root, list>>, NEW CONSTANT T
  PROVE  Sufficient(T)' <=> Sufficient(T)
<1>1. Reachable(root[1])' = Reachable(root[1])
  BY SameReachable
<1>. QED
  BY <1>1 DEF Sufficient, RequiredBySelected, Elements

LEMMA DepsListedStep == IInv /\ DepsListed => IInv'
<1>. SUFFICES ASSUME IInv, DepsListed PROVE IInv'
  OBVIOUS
<1>. USE DEF IInv
<1>1. /\ phase = "deps" /\ queue = <<>> /\ phase' = "reach"
      /\ seen' = Keys(selected) /\ pending' = Keys(selected)
      /\ UNCHANGED <<graph, root, selected, visited, queue, list>>
  BY DEF DepsListed
<1>2. TypeOK'
  BY DEF TypeOK, DepsListed, Phases, IsSelection, Keys
<1>3. WalkInv' /\ LargestRequired'
  BY <1>1, WalkKept
<1>4. Keys(selected) \subseteq Keys(list)
  <2>1. \A p \in Pomes : list[p] >= selected[p]
    BY <1>1, ListAbove
  <2>. QED
    BY <2>1 DEF Keys, TypeOK, IsSelection, NoVersion
<1>5. \A T \in SUBSET Pomes : Sufficient(T) => Keys(selected) \subseteq T
  <2>. SUFFICES ASSUME NEW T \in SUBSET Pomes, Sufficient(T), NEW p \in Keys(selected)
                PROVE  p \in T
    OBVIOUS
  <2>1. <<p, selected[p]>> \in visited
    BY <1>1 DEF WalkInv, WalkLargest, IsLargest, Keys
  <2>2. visited = Reachable(root[1])
    BY <1>1, WalkDone DEF Goal
  <2>3. <<p, selected[p]>> \in Reachable(root[1])
    BY <2>1, <2>2
  <2>. QED
    BY <2>3 DEF Sufficient
<1>6. ReachInv'
  <2>1. Keys(selected)' = Keys(selected) /\ Keys(list)' = Keys(list)
    BY <1>1 DEF Keys
  <2>2. \A T \in SUBSET Pomes : Sufficient(T)' => seen' \subseteq T
    BY <1>1, <1>5, SameSufficient
  <2>. QED
    BY <1>1, <1>4, <2>1, <2>2 DEF ReachInv
<1>. QED
  BY <1>1, <1>2, <1>3, <1>6 DEF WalkEnded, DoneInv

LEMMA ReachStep == IInv /\ Reach => IInv'
<1>. SUFFICES ASSUME IInv, phase = "reach", NEW p \in pending,
                     seen' = seen \cup RequiredBySelected(p),
                     pending' = (pending \ {p}) \cup (RequiredBySelected(p) \ seen),
                     UNCHANGED <<graph, root, phase, selected, visited, queue, list>>
              PROVE  IInv'
  BY DEF Reach
<1>. USE DEF IInv
<1>1. p \in seen /\ p \in Keys(list)
  BY DEF ReachInv
<1>2. RequiredBySelected(p) \subseteq Keys(list)
  BY <1>1, RequiredAreLocked
<1>3. TypeOK'
  BY <1>2 DEF TypeOK, IsSelection, Keys
<1>4. WalkInv' /\ LargestRequired'
  BY WalkKept
<1>5. ReachInv'
  <2>1. Keys(selected)' = Keys(selected) /\ Keys(list)' = Keys(list)
    BY DEF Keys
  <2>2. \A q : RequiredBySelected(q)' = RequiredBySelected(q)
    BY DEF RequiredBySelected, Elements
  <2>3. \A T \in SUBSET Pomes : Sufficient(T)' => seen' \subseteq T
    <3>. SUFFICES ASSUME NEW T \in SUBSET Pomes, Sufficient(T)'
                  PROVE  seen' \subseteq T
      OBVIOUS
    <3>1. Sufficient(T)
      BY SameSufficient
    <3>2. seen \subseteq T
      BY <3>1 DEF ReachInv
    <3>3. RequiredBySelected(p) \subseteq T
      BY <1>1, <3>1, <3>2 DEF Sufficient
    <3>. QED
      BY <3>2, <3>3
  <2>4. \A q \in seen' \ pending' : RequiredBySelected(q) \subseteq seen'
    BY DEF ReachInv
  <2>. QED
    BY <1>2, <2>1, <2>2, <2>3, <2>4 DEF ReachInv
<1>. QED
  BY <1>3, <1>4, <1>5 DEF WalkEnded, DoneInv

LEMMA ResolvedStep == IInv /\ Resolved => IInv'
<1>. SUFFICES ASSUME IInv, Resolved PROVE IInv'
  OBVIOUS
<1>. USE DEF IInv
<1>1. /\ phase = "reach" /\ pending = {} /\ phase' = "done"
      /\ UNCHANGED <<graph, root, selected, visited, queue, list, seen, pending>>
  BY DEF Resolved
<1>2. TypeOK'
  BY <1>1 DEF TypeOK, Phases, IsSelection
<1>3. WalkInv' /\ LargestRequired'
  BY <1>1, WalkKept
<1>4. ReachInv'
  <2>1. \A T \in SUBSET Pomes : Sufficient(T)' => seen' \subseteq T
    BY <1>1, SameSufficient DEF ReachInv
  <2>2. Keys(selected)' = Keys(selected) /\ Keys(list)' = Keys(list)
    BY <1>1 DEF Keys
  <2>3. \A q : RequiredBySelected(q)' = RequiredBySelected(q)
    BY <1>1 DEF RequiredBySelected, Elements
  <2>. QED
    BY <1>1, <2>1, <2>2, <2>3 DEF ReachInv
<1>. QED
  BY <1>1, <1>2, <1>3, <1>4 DEF WalkEnded, DoneInv

LEMMA FailStep == IInv /\ RequirementsFail => IInv'
BY DEF IInv, RequirementsFail, TypeOK, Phases, IsSelection, WalkInv, WalkEnded,
       LargestRequired, ReachInv, DoneInv

LEMMA StutterStep == IInv /\ UNCHANGED vars => IInv'
<1>. SUFFICES ASSUME IInv, UNCHANGED vars PROVE IInv'
  OBVIOUS
<1>. USE DEF vars
<1>1. Reachable(root[1])' = Reachable(root[1])
      /\ Reachable(root[1] \o root[2])' = Reachable(root[1] \o root[2])
      /\ Reachable(Goal)' = Reachable(Goal)
  BY SameReachable DEF Goal
<1>2. TypeOK'
  BY DEF IInv, TypeOK, IsSelection
<1>3. WalkInv'
  <2>1. Goal' = Goal
    BY DEF Goal
  <2>2. WalkSound' <=> WalkSound
    BY <1>1 DEF WalkSound, Elements
  <2>3. WalkWhole' <=> WalkWhole
    BY <2>1 DEF WalkWhole, Elements
  <2>4. WalkLargest' <=> WalkLargest
    BY DEF WalkLargest, IsLargest
  <2>. QED
    BY <2>2, <2>3, <2>4 DEF IInv, WalkInv
<1>4. LargestRequired'
  BY <1>1 DEF IInv, LargestRequired, IsLargest
<1>5. ReachInv'
  BY SameSufficient DEF IInv, ReachInv, Keys, RequiredBySelected, Elements
<1>. QED
  BY <1>2, <1>3, <1>4, <1>5 DEF IInv, WalkEnded, DoneInv

LEMMA Inductive == IInv /\ [Next]_vars => IInv'
<1>. SUFFICES ASSUME IInv, [Next]_vars PROVE IInv'
  OBVIOUS
<1>1. CASE Skip
  BY <1>1, SkipStep
<1>2. CASE Visit
  BY <1>2, VisitStep
<1>3. CASE Listed
  BY <1>3, ListedStep
<1>4. CASE DepsListed
  BY <1>4, DepsListedStep
<1>5. CASE Reach
  BY <1>5, ReachStep
<1>6. CASE Resolved
  BY <1>6, ResolvedStep
<1>7. CASE RequirementsFail
  BY <1>7, FailStep
<1>8. CASE Ended \/ UNCHANGED vars
  BY <1>8, StutterStep DEF Ended
<1>. QED
  BY <1>1, <1>2, <1>3, <1>4, <1>5, <1>6, <1>7, <1>8 DEF Next, Step

LEMMA Invariance == Spec => []IInv
BY Initially, Inductive, PTL DEF Spec

-----------------------------------------------------------------------------
(* The types.                                                              *)
THEOREM TypeCorrect == Spec => []TypeOK
BY Invariance, PTL DEF IInv

(* build_list finds, for every requirement graph and every order of the    *)
(* requirements, the largest version that is required anywhere of each     *)
(* Pome the project reaches, and nothing else.                             *)
THEOREM ListIsLargest == Spec => []LargestRequired
BY Invariance, PTL DEF IInv

(* What resolve locks meets every requirement of what it locks.            *)
THEOREM LockMeetsRequirements == Spec => []RequirementsMet
<1>1. IInv => RequirementsMet
  <2>. SUFFICES ASSUME IInv, phase = "done" PROVE RequirementsMet
    BY DEF RequirementsMet
  <2>1. root[1] \o root[2] \in Seq(Nodes)
    BY DEF IInv, TypeOK
  <2>2. \A n \in Elements(root[1] \o root[2]) : list[n[1]] >= n[2]
    BY <2>1, ReachableBase DEF IInv, LargestRequired, IsLargest
  <2>3. \A p \in Keys(list) : \A n \in Elements(graph[<<p, list[p]>>]) : list[n[1]] >= n[2]
    BY ListMeets DEF IInv
  <2>. QED
    BY <2>2, <2>3 DEF RequirementsMet
<1>. QED
  BY <1>1, Invariance, PTL

(* The Pomes not marked dev suffice for a build without the tests.         *)
THEOREM BuildIsComplete == Spec => []BuildComplete
<1>1. IInv => BuildComplete
  <2>. SUFFICES ASSUME IInv, phase = "done" PROVE BuildComplete
    BY DEF BuildComplete
  <2>. USE DEF IInv
  <2>1. pending = {} /\ queue = <<>> /\ seen \subseteq Keys(list) /\ Keys(selected) \subseteq seen
    BY DEF DoneInv, WalkEnded, ReachInv
  <2>2. \A n \in Elements(root[1]) : n[1] \in seen
    <3>. TAKE n \in Elements(root[1])
    <3>1. visited = Reachable(root[1])
      BY <2>1, WalkDone DEF Goal
    <3>2. n \in visited
      BY <3>1, ReachableBase DEF TypeOK
    <3>3. selected[n[1]] >= n[2]
      BY <3>2 DEF WalkInv, WalkLargest, IsLargest
    <3>4. n \in Nodes
      BY <3>2 DEF TypeOK
    <3>. QED
      BY <2>1, <3>3, <3>4, NodeParts DEF Keys, TypeOK, IsSelection, NoVersion
  <2>3. \A p \in seen : \A n \in Elements(graph[<<p, list[p]>>]) : n[1] \in seen
    <3>. TAKE p \in seen
    <3>1. RequiredBySelected(p) \subseteq seen
      BY <2>1 DEF ReachInv
    <3>2. list[p] # NoVersion
      BY <2>1 DEF Keys
    <3>. QED
      BY <3>1, <3>2 DEF RequiredBySelected
  <2>. QED
    BY <2>1, <2>2, <2>3 DEF BuildComplete
<1>. QED
  BY <1>1, Invariance, PTL

(* None of them is superfluous.                                            *)
THEOREM BuildIsMinimal == Spec => []BuildMinimal
<1>1. IInv => BuildMinimal
  BY DEF IInv, ReachInv, BuildMinimal, Sufficient
<1>. QED
  BY <1>1, Invariance, PTL

(* Requirements of the tests never lower a version of the build.           *)
THEOREM TestsNeverLower == Spec => []DevNeverLowers
<1>1. IInv => DevNeverLowers
  <2>. SUFFICES ASSUME IInv, phase \in {"reach", "done"} PROVE DevNeverLowers
    BY DEF DevNeverLowers
  <2>1. queue = <<>>
    BY DEF IInv, WalkEnded
  <2>. QED
    BY <2>1, ListAbove DEF IInv, DevNeverLowers
<1>. QED
  BY <1>1, Invariance, PTL

(* The lock is right, for every requirement graph: the largest versions,   *)
(* which meet every requirement, none lowered by the tests.                *)
THEOREM LockIsRight == Spec => []LockRight
BY ListIsLargest, LockMeetsRequirements, TestsNeverLower, PTL DEF LockRight

(* What a build without the tests gets is all it needs and no more, for    *)
(* every requirement graph.                                                *)
THEOREM BuildIsExact == Spec => []BuildExact
BY BuildIsComplete, BuildIsMinimal, PTL DEF BuildExact

-----------------------------------------------------------------------------
(* Orders, as sets of pairs.                                               *)
StrictOrder(A, R) ==
  /\ \A a \in A : <<a, a>> \notin R
  /\ \A a, b \in A : a = b \/ <<a, b>> \in R \/ <<b, a>> \in R
  /\ \A a, b, c \in A : <<a, b>> \in R /\ <<b, c>> \in R => <<a, c>> \in R

(* The answer o of a comparison of a with b is that of the order.          *)
Answers(o, R, a, b) ==
  \/ o = "less" /\ <<a, b>> \in R
  \/ o = "greater" /\ <<b, a>> \in R
  \/ o = "equal" /\ a = b

(* Numbers, and sequences by their first difference.                       *)
LessThan == {p \in Int \X Int : p[1] < p[2]}
Before(R, x, y, i) ==
  /\ \A j \in 1..(i - 1) : j \in 1..Len(x) /\ x[j] = y[j]
  /\ i = Len(x) + 1 \/ (i \in 1..Len(x) /\ <<x[i], y[i]>> \in R)
ByFirst(A, R) == {p \in Seq(A) \X Seq(A) : \E i \in 1..Len(p[2]) : Before(R, p[1], p[2], i)}

LEMMA NumbersOrdered == StrictOrder(Int, LessThan)
BY DEF StrictOrder, LessThan

LEMMA NumbersCompared == ASSUME NEW a \in Int, NEW b \in Int PROVE Answers(Compare(a, b), LessThan, a, b)
BY DEF Answers, LessThan, Compare

(* The least of a set of positions.                                        *)
LEMMA LeastExists ==
  ASSUME NEW D \in SUBSET Nat, D # {}
  PROVE  \E i \in D : \A j \in D : i <= j
<1>1. PICK i \in D : \A j \in D : ~(<<j, i>> \in OpToRel(<, Nat))
  BY NatLessThanWellFounded, WFMin
<1>2. ASSUME NEW j \in D PROVE i <= j
  <2>1. i \in Nat /\ j \in Nat
    OBVIOUS
  <2>2. j < i => <<j, i>> \in OpToRel(<, Nat)
    BY ONLY <2>1 DEF OpToRel
  <2>3. ~(j < i)
    BY <1>1, <2>2
  <2>. QED
    BY ONLY <2>1, <2>3
<1>. QED
  BY <1>2

(* Sequences that agree as far as both go are told apart by their length.  *)
LEMMA AgreeingOrdered ==
  ASSUME NEW A, NEW R, NEW x \in Seq(A), NEW y \in Seq(A), Len(x) <= Len(y),
         \A i \in 1..Len(x) : x[i] = y[i]
  PROVE  x = y \/ (Len(x) < Len(y) /\ <<x, y>> \in ByFirst(A, R))
<1>1. CASE Len(x) = Len(y)
  BY <1>1
<1>2. CASE Len(x) < Len(y)
  <2>1. Len(x) + 1 \in 1..Len(y) /\ Before(R, x, y, Len(x) + 1)
    BY <1>2 DEF Before
  <2>. QED
    BY <1>2, <2>1 DEF ByFirst
<1>. QED
  BY <1>1, <1>2

(* Sequences with a first difference are ordered by it.                    *)
LEMMA DifferingOrdered ==
  ASSUME NEW A, NEW R, NEW x \in Seq(A), NEW y \in Seq(A), NEW i \in 1..Len(x), i \in 1..Len(y),
         \A j \in 1..(i - 1) : x[j] = y[j], <<x[i], y[i]>> \in R
  PROVE  <<x, y>> \in ByFirst(A, R)
<1>1. Before(R, x, y, i)
  BY DEF Before
<1>. QED
  BY <1>1 DEF ByFirst

LEMMA SequencesOrdered ==
  ASSUME NEW A, NEW R, StrictOrder(A, R)
  PROVE  StrictOrder(Seq(A), ByFirst(A, R))
<1>1. ASSUME NEW x \in Seq(A) PROVE <<x, x>> \notin ByFirst(A, R)
  <2>. SUFFICES ASSUME NEW i \in 1..Len(x), Before(R, x, x, i) PROVE FALSE
    BY DEF ByFirst
  <2>1. x[i] \in A /\ <<x[i], x[i]>> \in R
    BY DEF Before
  <2>. QED
    BY <2>1 DEF StrictOrder
<1>2. ASSUME NEW x \in Seq(A), NEW y \in Seq(A)
      PROVE  x = y \/ <<x, y>> \in ByFirst(A, R) \/ <<y, x>> \in ByFirst(A, R)
  <2>. DEFINE D == {i \in Nat : i \in 1..Len(x) /\ i \in 1..Len(y) /\ x[i] # y[i]}
  <2>1. CASE D = {}
    <3>1. CASE Len(x) <= Len(y)
      <4>1. \A i \in 1..Len(x) : x[i] = y[i]
        BY <2>1, <3>1
      <4>. QED
        BY <3>1, <4>1, AgreeingOrdered
    <3>2. CASE ~(Len(x) <= Len(y))
      <4>1. Len(y) <= Len(x) /\ \A i \in 1..Len(y) : y[i] = x[i]
        BY <2>1, <3>2
      <4>. QED
        BY <4>1, AgreeingOrdered
    <3>. QED
      BY <3>1, <3>2
  <2>2. CASE D # {}
    <3>1. PICK i \in D : \A j \in D : i <= j
      BY <2>2, LeastExists
    <3>2. \A j \in 1..(i - 1) : x[j] = y[j] /\ y[j] = x[j]
      BY <3>1
    <3>3. x[i] \in A /\ y[i] \in A /\ x[i] # y[i] /\ i \in 1..Len(x) /\ i \in 1..Len(y)
      BY <3>1
    <3>4. <<x[i], y[i]>> \in R \/ <<y[i], x[i]>> \in R
      BY <3>3 DEF StrictOrder
    <3>. QED
      BY <3>2, <3>3, <3>4, DifferingOrdered
  <2>. QED
    BY <2>1, <2>2
<1>3. ASSUME NEW x \in Seq(A), NEW y \in Seq(A), NEW z \in Seq(A),
             <<x, y>> \in ByFirst(A, R), <<y, z>> \in ByFirst(A, R)
      PROVE  <<x, z>> \in ByFirst(A, R)
  <2>1. PICK i \in 1..Len(y) : Before(R, x, y, i)
    BY <1>3 DEF ByFirst
  <2>2. PICK k \in 1..Len(z) : Before(R, y, z, k)
    BY <1>3 DEF ByFirst
  <2>3. CASE i < k
    <3>1. i \in 1..Len(z) /\ y[i] = z[i] /\ \A j \in 1..(i - 1) : y[j] = z[j]
      BY <2>2, <2>3 DEF Before
    <3>2. Before(R, x, z, i)
      BY <2>1, <3>1 DEF Before
    <3>. QED
      BY <3>1, <3>2 DEF ByFirst
  <2>4. CASE k < i
    <3>1. k \in 1..Len(x) /\ x[k] = y[k] /\ \A j \in 1..(k - 1) : j \in 1..Len(x) /\ x[j] = y[j]
      BY <2>1, <2>4 DEF Before
    <3>2. k \in 1..Len(y) /\ <<y[k], z[k]>> \in R /\ \A j \in 1..(k - 1) : y[j] = z[j]
      BY <2>2, <2>4 DEF Before
    <3>3. Before(R, x, z, k)
      BY <3>1, <3>2 DEF Before
    <3>. QED
      BY <3>3 DEF ByFirst
  <2>5. CASE i = k
    <3>1. \A j \in 1..(i - 1) : j \in 1..Len(x) /\ x[j] = z[j]
      BY <2>1, <2>2, <2>5 DEF Before
    <3>2. CASE i = Len(x) + 1
      <4>1. Before(R, x, z, i)
        BY <3>1, <3>2 DEF Before
      <4>. QED
        BY <2>5, <4>1 DEF ByFirst
    <3>3. CASE i \in 1..Len(x) /\ <<x[i], y[i]>> \in R
      <4>1. <<y[i], z[i]>> \in R /\ y[i] \in A /\ z[i] \in A /\ x[i] \in A
        BY <2>2, <2>5, <3>3 DEF Before
      <4>2. <<x[i], z[i]>> \in R
        BY <3>3, <4>1 DEF StrictOrder
      <4>3. Before(R, x, z, i)
        BY <3>1, <3>3, <4>2 DEF Before
      <4>. QED
        BY <2>5, <4>3 DEF ByFirst
    <3>. QED
      BY <2>1, <3>2, <3>3 DEF Before
  <2>. QED
    BY <2>3, <2>4, <2>5
<1>. QED
  BY <1>1, <1>2, <1>3 DEF StrictOrder
-----------------------------------------------------------------------------
(* Text.                                                                   *)
Texts == Seq(Int)
TextLess == ByFirst(Int, LessThan)

LEMMA TextsOrdered == StrictOrder(Texts, TextLess)
BY NumbersOrdered, SequencesOrdered DEF Texts, TextLess

(* What the least of the positions in D is, if there is one.               *)
LEMMA LeastChosen ==
  ASSUME NEW D \in SUBSET Nat, D # {}, NEW i, i = CHOOSE m \in D : \A j \in D : m <= j
  PROVE  i \in D /\ \A j \in D : i <= j
BY LeastExists

(* CompareText answers with the order of text.                             *)
LEMMA TextCompared ==
  ASSUME NEW x \in Texts, NEW y \in Texts
  PROVE  Answers(CompareText(x, y), TextLess, x, y)
<1>. DEFINE short == IF Len(x) < Len(y) THEN Len(x) ELSE Len(y)
            D == {i \in 1..short : x[i] # y[i]}
<1>1. /\ short \in Nat /\ D \in SUBSET Nat /\ x \in Seq(Int) /\ y \in Seq(Int)
      /\ Len(x) \in Nat /\ Len(y) \in Nat
  BY DEF Texts
<1>2. CASE D = {}
  <2>1. CompareText(x, y) = Compare(Len(x), Len(y))
    BY <1>2 DEF CompareText
  <2>0. \A i \in 1..short : x[i] = y[i]
    BY <1>2
  <2>2. Len(x) <= Len(y) => \A i \in 1..Len(x) : x[i] = y[i]
    BY <1>1, <2>0
  <2>3. Len(y) <= Len(x) => \A i \in 1..Len(y) : y[i] = x[i]
    BY <1>1, <2>0
  <2>4. Len(x) <= Len(y) => x = y \/ (Len(x) < Len(y) /\ <<x, y>> \in TextLess)
    BY <1>1, <2>2, AgreeingOrdered DEF TextLess
  <2>5. Len(y) <= Len(x) => y = x \/ (Len(y) < Len(x) /\ <<y, x>> \in TextLess)
    BY <1>1, <2>3, AgreeingOrdered DEF TextLess
  <2>. QED
    BY <1>1, <2>1, <2>4, <2>5 DEF Compare, Answers
<1>3. CASE D # {}
  <2>1. PICK i : i = CHOOSE m \in D : \A j \in D : m <= j
    OBVIOUS
  <2>2. CompareText(x, y) = Compare(x[i], y[i])
    BY <1>3, <2>1 DEF CompareText
  <2>3. i \in D /\ \A j \in D : i <= j
    <3>. HIDE DEF D
    <3>. QED
      BY <1>1, <1>3, <2>1, LeastChosen
  <2>4. i \in 1..Len(x) /\ i \in 1..Len(y) /\ x[i] # y[i] /\ \A j \in 1..(i - 1) : x[j] = y[j] /\ y[j] = x[j]
    BY <1>1, <2>3
  <2>5. x[i] \in Int /\ y[i] \in Int
    BY <1>1, <2>4
  <2>6. <<x[i], y[i]>> \in LessThan => <<x, y>> \in TextLess
    BY <1>1, <2>4, DifferingOrdered DEF TextLess
  <2>7. <<y[i], x[i]>> \in LessThan => <<y, x>> \in TextLess
    BY <1>1, <2>4, DifferingOrdered DEF TextLess
  <2>8. Answers(Compare(x[i], y[i]), LessThan, x[i], y[i])
    BY <2>5, NumbersCompared
  <2>. QED
    BY <2>2, <2>4, <2>6, <2>7, <2>8 DEF Answers
<1>. QED
  BY <1>2, <1>3

-----------------------------------------------------------------------------
(* Identifiers: a number is below text, and numbers are ordered by their   *)
(* length first.                                                           *)
IdLess ==
  {p \in Texts \X Texts :
     \/ /\ IsNumeric(p[1]) /\ IsNumeric(p[2])
        /\ Len(p[1]) < Len(p[2]) \/ (Len(p[1]) = Len(p[2]) /\ <<p[1], p[2]>> \in TextLess)
     \/ IsNumeric(p[1]) /\ ~IsNumeric(p[2])
     \/ ~IsNumeric(p[1]) /\ ~IsNumeric(p[2]) /\ <<p[1], p[2]>> \in TextLess}

LEMMA IdsOrdered == StrictOrder(Texts, IdLess)
<1>1. \A x \in Texts : Len(x) \in Nat /\ IsNumeric(x) \in BOOLEAN
  BY DEF Texts, IsNumeric
<1>2. ASSUME NEW x \in Texts, NEW y \in Texts
      PROVE  <<x, y>> \in IdLess <=>
               \/ /\ IsNumeric(x) /\ IsNumeric(y)
                  /\ Len(x) < Len(y) \/ (Len(x) = Len(y) /\ <<x, y>> \in TextLess)
               \/ IsNumeric(x) /\ ~IsNumeric(y)
               \/ ~IsNumeric(x) /\ ~IsNumeric(y) /\ <<x, y>> \in TextLess
  BY DEF IdLess
<1>3. ASSUME NEW x \in Texts PROVE <<x, x>> \notin IdLess
  <2>1. <<x, x>> \notin TextLess /\ Len(x) \in Nat
    BY <1>1, TextsOrdered DEF StrictOrder
  <2>. QED
    BY <1>2, <2>1
<1>4. ASSUME NEW x \in Texts, NEW y \in Texts
      PROVE  x = y \/ <<x, y>> \in IdLess \/ <<y, x>> \in IdLess
  <2>1. x = y \/ <<x, y>> \in TextLess \/ <<y, x>> \in TextLess
    BY TextsOrdered DEF StrictOrder
  <2>2. Len(x) \in Nat /\ Len(y) \in Nat
    BY <1>1
  <2>. QED
    BY <1>2, <2>1, <2>2
<1>5. ASSUME NEW x \in Texts, NEW y \in Texts, NEW z \in Texts,
             <<x, y>> \in IdLess, <<y, z>> \in IdLess
      PROVE  <<x, z>> \in IdLess
  <2>1. <<x, y>> \in TextLess /\ <<y, z>> \in TextLess => <<x, z>> \in TextLess
    BY TextsOrdered DEF StrictOrder
  <2>2. Len(x) \in Nat /\ Len(y) \in Nat /\ Len(z) \in Nat
    BY <1>1
  <2>. QED
    BY <1>2, <1>5, <2>1, <2>2
<1>. QED
  BY <1>3, <1>4, <1>5 DEF StrictOrder

LEMMA IdsCompared ==
  ASSUME NEW x \in Texts, NEW y \in Texts
  PROVE  Answers(CompareIds(x, y), IdLess, x, y)
<1>1. Len(x) \in Nat /\ Len(y) \in Nat
  BY DEF Texts
<1>2. Answers(CompareText(x, y), TextLess, x, y)
  BY TextCompared
<1>3. CASE IsNumeric(x) /\ IsNumeric(y)
  <2>1. CompareIds(x, y) = Then(Compare(Len(x), Len(y)), CompareText(x, y))
    BY <1>3 DEF CompareIds
  <2>. HIDE DEF CompareIds
  <2>2. CASE Len(x) < Len(y)
    BY <1>1, <1>3, <2>1, <2>2 DEF Compare, Then, Answers, IdLess
  <2>3. CASE Len(y) < Len(x)
    BY <1>1, <1>3, <2>1, <2>3 DEF Compare, Then, Answers, IdLess
  <2>4. CASE Len(x) = Len(y)
    <3>1. CompareIds(x, y) = CompareText(x, y)
      BY <1>1, <2>1, <2>4 DEF Compare, Then
    <3>. QED
      BY <1>2, <1>3, <2>4, <3>1 DEF Answers, IdLess
  <2>. QED
    BY <1>1, <2>2, <2>3, <2>4
<1>4. CASE ~IsNumeric(x) /\ ~IsNumeric(y)
  <2>1. CompareIds(x, y) = CompareText(x, y)
    BY <1>4 DEF CompareIds
  <2>. QED
    BY <1>2, <1>4, <2>1 DEF Answers, IdLess
<1>5. CASE IsNumeric(x) /\ ~IsNumeric(y)
  BY <1>5 DEF CompareIds, Answers, IdLess
<1>6. CASE ~IsNumeric(x) /\ IsNumeric(y)
  BY <1>6 DEF CompareIds, Answers, IdLess
<1>. QED
  BY <1>3, <1>4, <1>5, <1>6

-----------------------------------------------------------------------------
(* Prereleases: a release, which has none, is above them.                  *)
Prereleases == Seq(Texts)
PreLess ==
  {p \in Prereleases \X Prereleases :
     p[1] # <<>> /\ (p[2] = <<>> \/ <<p[1], p[2]>> \in ByFirst(Texts, IdLess))}

LEMMA PrereleasesOrdered == StrictOrder(Prereleases, PreLess)
<1>1. StrictOrder(Prereleases, ByFirst(Texts, IdLess))
  BY IdsOrdered, SequencesOrdered DEF Prereleases
<1>2. ASSUME NEW a \in Prereleases PROVE <<a, <<>>>> \notin ByFirst(Texts, IdLess)
  BY DEF ByFirst
<1>. HIDE DEF Prereleases
<1>. QED
  BY <1>1, <1>2 DEF StrictOrder, PreLess

LEMMA PrereleasesCompared ==
  ASSUME NEW a \in Prereleases, NEW b \in Prereleases
  PROVE  Answers(ComparePrerelease(a, b), PreLess, a, b)
<1>. DEFINE short == IF Len(a) < Len(b) THEN Len(a) ELSE Len(b)
            D == {i \in 1..short : CompareIds(a[i], b[i]) # "equal"}
            L == ByFirst(Texts, IdLess)
<1>1. /\ short \in Nat /\ D \in SUBSET Nat /\ a \in Seq(Texts) /\ b \in Seq(Texts)
      /\ Len(a) \in Nat /\ Len(b) \in Nat
  BY DEF Prereleases
<1>2. ASSUME NEW i \in 1..short PROVE /\ a[i] \in Texts /\ b[i] \in Texts
                                      /\ Answers(CompareIds(a[i], b[i]), IdLess, a[i], b[i])
  <2>1. a[i] \in Texts /\ b[i] \in Texts
    BY <1>1
  <2>. QED
    BY <2>1, IdsCompared
<1>3. \A i \in 1..short : i \notin D => a[i] = b[i]
  BY <1>2 DEF Answers
<1>4. CASE a = <<>> \/ b = <<>>
  <2>1. ComparePrerelease(a, b) = Compare(Len(b), Len(a))
    BY <1>4 DEF ComparePrerelease
  <2>2. (a = <<>> <=> Len(a) = 0) /\ (b = <<>> <=> Len(b) = 0)
    BY <1>1
  <2>. QED
    BY <1>1, <1>4, <2>1, <2>2 DEF Compare, Answers, PreLess
<1>5. CASE a # <<>> /\ b # <<>> /\ D = {}
  <2>1. ComparePrerelease(a, b) = Compare(Len(a), Len(b))
    BY <1>5 DEF ComparePrerelease
  <2>2. Len(a) <= Len(b) => \A i \in 1..Len(a) : a[i] = b[i]
    BY <1>1, <1>3, <1>5
  <2>3. Len(b) <= Len(a) => \A i \in 1..Len(b) : b[i] = a[i]
    BY <1>1, <1>3, <1>5
  <2>. HIDE DEF D, short
  <2>4. Len(a) <= Len(b) => a = b \/ (Len(a) < Len(b) /\ <<a, b>> \in L)
    BY <1>1, <2>2, AgreeingOrdered
  <2>5. Len(b) <= Len(a) => b = a \/ (Len(b) < Len(a) /\ <<b, a>> \in L)
    BY <1>1, <2>3, AgreeingOrdered
  <2>. HIDE DEF L
  <2>6. Answers(Compare(Len(a), Len(b)), L, a, b)
    BY <1>1, <2>4, <2>5 DEF Compare, Answers
  <2>. QED
    BY <1>5, <2>1, <2>6 DEF Answers, PreLess, L
<1>6. CASE a # <<>> /\ b # <<>> /\ D # {}
  <2>1. PICK i : i = CHOOSE m \in D : \A j \in D : m <= j
    OBVIOUS
  <2>2. ComparePrerelease(a, b) = CompareIds(a[i], b[i])
    BY <1>6, <2>1 DEF ComparePrerelease
  <2>3. i \in D /\ \A j \in D : i <= j
    <3>. HIDE DEF D
    <3>. QED
      BY <1>1, <1>6, <2>1, LeastChosen
  <2>4. /\ i \in 1..short /\ i \in 1..Len(a) /\ i \in 1..Len(b) /\ CompareIds(a[i], b[i]) # "equal"
        /\ \A j \in 1..(i - 1) : j \in 1..short /\ j \notin D
    BY <1>1, <2>3
  <2>. HIDE DEF D, short
  <2>5. \A j \in 1..(i - 1) : a[j] = b[j] /\ b[j] = a[j]
    BY <1>3, <2>4
  <2>6. <<a[i], b[i]>> \in IdLess => <<a, b>> \in L
    BY <1>1, <2>4, <2>5, DifferingOrdered
  <2>7. <<b[i], a[i]>> \in IdLess => <<b, a>> \in L
    BY <1>1, <2>4, <2>5, DifferingOrdered
  <2>8. Answers(CompareIds(a[i], b[i]), IdLess, a[i], b[i])
    BY <1>2, <2>4
  <2>. QED
    BY <1>6, <2>2, <2>4, <2>6, <2>7, <2>8 DEF Answers, PreLess
<1>. QED
  BY <1>4, <1>5, <1>6

-----------------------------------------------------------------------------
AllVersions == [core : Nat, pre : Prereleases]
VersionLess ==
  {p \in AllVersions \X AllVersions :
     p[1].core < p[2].core \/ (p[1].core = p[2].core /\ <<p[1].pre, p[2].pre>> \in PreLess)}

LEMMA VersionsOrdered == StrictOrder(AllVersions, VersionLess)
<1>1. \A v \in AllVersions : v.core \in Nat /\ v.pre \in Prereleases
  BY DEF AllVersions
<1>2. \A v, w \in AllVersions : v.core = w.core /\ v.pre = w.pre => v = w
  BY DEF AllVersions
<1>. HIDE DEF AllVersions
<1>. QED
  BY <1>1, <1>2, PrereleasesOrdered DEF StrictOrder, VersionLess

LEMMA VersionsCompared ==
  ASSUME NEW v \in AllVersions, NEW w \in AllVersions
  PROVE  Answers(CompareVersions(v, w), VersionLess, v, w)
<1>1. /\ v.core \in Nat /\ v.pre \in Prereleases /\ w.core \in Nat /\ w.pre \in Prereleases
      /\ v.core = w.core /\ v.pre = w.pre => v = w
  BY DEF AllVersions
<1>2. Answers(ComparePrerelease(v.pre, w.pre), PreLess, v.pre, w.pre)
  BY <1>1, PrereleasesCompared
<1>. QED
  BY <1>1, <1>2 DEF CompareVersions, Compare, Then, Answers, VersionLess

(* Ord for Version is a total order that agrees with equality, for all     *)
(* versions and prereleases (Version::cmp, compare_prerelease).            *)
THEOREM VersionsTotallyOrdered == TotalOrderOn(AllVersions)
<1>1. \A v, w \in AllVersions : Answers(CompareVersions(v, w), VersionLess, v, w)
  BY VersionsCompared
<1>. HIDE DEF AllVersions
<1>2. \A v, w \in AllVersions : ~(<<v, w>> \in VersionLess /\ <<w, v>> \in VersionLess)
  BY VersionsOrdered DEF StrictOrder
<1>3. ASSUME NEW v \in AllVersions, NEW w \in AllVersions
      PROVE  /\ CompareVersions(v, w) = "equal" <=> v = w
             /\ CompareVersions(v, w) = "less" <=> <<v, w>> \in VersionLess
             /\ CompareVersions(v, w) = "greater" <=> <<w, v>> \in VersionLess
  BY <1>1, <1>2, VersionsOrdered DEF Answers, StrictOrder
<1>. QED
  BY <1>3, VersionsOrdered DEF TotalOrderOn, StrictOrder
-----------------------------------------------------------------------------
(* Numbers: what a numeric identifier is written for.  Induction by steps. *)
LEMMA StepByStep ==
  ASSUME NEW N \in Nat, NEW T, 0 \in T, \A i \in 1..N : i - 1 \in T => i \in T
  PROVE  0..N \subseteq T
  <1> DEFINE B == (0..N) \ T
  <1> SUFFICES ASSUME B # {} PROVE FALSE
    OBVIOUS
  <1>1. B \subseteq Nat
    OBVIOUS
  <1>2. PICK x \in B : \A y \in B : <<y, x>> \notin OpToRel(<, Nat)
    <2> HIDE DEF B
    <2> QED
      BY ONLY B # {}, <1>1, NatLessThanWellFounded, WFMin
  <1>3. x \in 1..N /\ x - 1 \in 0..N
    OBVIOUS
  <1>4. x - 1 \in B
    BY <1>3
  <1>5. <<x - 1, x>> \in OpToRel(<, Nat)
    BY <1>3 DEF OpToRel
  <1> QED
    BY <1>2, <1>4, <1>5

(* A function that is defined by its first value and by its steps F.       *)
Steps(g, N, S, a, F) ==
  g \in [0..N -> S] /\ g[0] = a /\ \A i \in 1..N : g[i] = F[i][g[i - 1]]

LEMMA StepsExist ==
  ASSUME NEW N \in Nat, NEW S, NEW a \in S, NEW F \in [1..N -> [S -> S]]
  PROVE  \E g : Steps(g, N, S, a, F)
  <1> DEFINE T == {m \in 0..N : \E g : Steps(g, m, S, a, F)}
  <1>1. 0 \in T
    <2> DEFINE g == [i \in 0..0 |-> a]
    <2>1. Steps(g, 0, S, a, F)
      BY DEF Steps
    <2> HIDE DEF g
    <2> QED
      BY <2>1
  <1>2. ASSUME NEW m \in 1..N, m - 1 \in T PROVE m \in T
    <2>1. PICK g : Steps(g, m - 1, S, a, F)
      BY <1>2
    <2> DEFINE h == [i \in 0..m |-> IF i = m THEN F[m][g[m - 1]] ELSE g[i]]
    <2>2. g[m - 1] \in S
      BY <2>1 DEF Steps
    <2>3. F[m][g[m - 1]] \in S
      BY <2>2
    <2>4. h \in [0..m -> S] /\ h[0] = a
      BY <2>1, <2>3 DEF Steps
    <2>5. ASSUME NEW i \in 1..m PROVE h[i] = F[i][h[i - 1]]
      <3>1. CASE i = m
        BY <3>1
      <3>2. CASE i # m
        <4>1. h[i] = g[i] /\ h[i - 1] = g[i - 1] /\ i \in 1..(m - 1)
          BY <3>2
        <4> HIDE DEF h
        <4> QED
          BY <2>1, <4>1 DEF Steps
      <3> QED
        BY <3>1, <3>2
    <2>6. Steps(h, m, S, a, F)
      <3> HIDE DEF h
      <3> QED
        BY <2>4, <2>5 DEF Steps
    <2> HIDE DEF h
    <2> QED
      BY <2>6
  <1>3. 0..N \subseteq T
    <2> HIDE DEF T
    <2> QED
      BY <1>1, <1>2, StepByStep
  <1> QED
    BY <1>3

(* The value of the first digits of s, r[i] that of the first i.           *)
Reads(r, s) ==
  /\ r \in [0..Len(s) -> Int] /\ r[0] = 0
  /\ \A i \in 1..Len(s) : r[i] = NDigits * r[i - 1] + (s[i] - 1)

LEMMA ValueRead ==
  ASSUME NEW s \in Texts
  PROVE  \E r : Reads(r, s) /\ Value(s) = r[Len(s)]
<1>. DEFINE n == Len(s)
            Rec(r) == r = [k \in 0..n |-> IF k = 0 THEN 0 ELSE NDigits * r[k - 1] + (s[k] - 1)]
            F == [k \in 1..n |-> [v \in Int |-> NDigits * v + (s[k] - 1)]]
<1>1. n \in Nat /\ \A k \in 1..n : s[k] \in Int
  BY DEF Texts
<1>2. NDigits \in Int
  BY CharsAssumption
<1>3. F \in [1..n -> [Int -> Int]]
  BY <1>1, <1>2
<1>4. PICK g : Steps(g, n, Int, 0, F)
  <2>1. 0 \in Int
    OBVIOUS
  <2>. HIDE DEF F, n
  <2>. QED
    BY ONLY <1>1, <1>3, <2>1, StepsExist
<1>5. ASSUME NEW k \in 1..n PROVE g[k] = NDigits * g[k - 1] + (s[k] - 1)
  <2>1. g[k - 1] \in Int /\ g[k] = F[k][g[k - 1]]
    <3>. HIDE DEF F
    <3>1. k - 1 \in 0..n
      BY <1>1
    <3>. QED
      BY <1>4, <3>1 DEF Steps
  <2>. QED
    BY <2>1
<1>6. g \in [0..n -> Int] /\ g[0] = 0
  <2>. HIDE DEF F
  <2>. QED
    BY <1>4 DEF Steps
<1>7. Rec(g)
  <2>1. ASSUME NEW k \in 0..n PROVE g[k] = IF k = 0 THEN 0 ELSE NDigits * g[k - 1] + (s[k] - 1)
    <3>1. CASE k = 0
      BY <1>6, <3>1
    <3>2. CASE k # 0
      <4>1. k \in 1..n
        BY <1>1, <3>2
      <4>. QED
        BY <1>5, <3>2, <4>1
    <3>. QED
      BY <3>1, <3>2
  <2>2. g = [k \in 0..n |-> g[k]]
    BY <1>6
  <2>. QED
    BY <2>1, <2>2
<1>8. PICK r : r = CHOOSE h : Rec(h)
  OBVIOUS
<1>9. Rec(r)
  <2>. HIDE DEF Rec
  <2>. QED
    BY <1>7, <1>8
<1>10. Value(s) = r[n]
  BY <1>8 DEF Value
<1>11. r[0] = 0 /\ \A k \in 1..n : r[k] = NDigits * r[k - 1] + (s[k] - 1)
  <2>1. \A k \in 0..n : r[k] = IF k = 0 THEN 0 ELSE NDigits * r[k - 1] + (s[k] - 1)
    BY <1>9, Zenon
  <2>2. 0 \in 0..n /\ \A k \in 1..n : k \in 0..n /\ k # 0
    BY <1>1
  <2>. QED
    BY <2>1, <2>2, Zenon
<1>12. DOMAIN r = 0..n /\ r = [k \in 0..n |-> r[k]]
  BY <1>9, Zenon
<1>13. \A k \in 0..n : r[k] \in Int
  <2>. DEFINE T == {k \in 0..n : r[k] \in Int}
  <2>1. 0 \in T
    BY <1>1, <1>11
  <2>2. ASSUME NEW k \in 1..n, k - 1 \in T PROVE k \in T
    BY <1>1, <1>2, <1>11, <2>2, SMTT(30)
  <2>3. 0..n \subseteq T
    <3>. HIDE DEF T, n
    <3>. QED
      BY <1>1, <2>1, <2>2, StepByStep
  <2>. QED
    BY <2>3
<1>14. r \in [0..n -> Int]
  BY <1>12, <1>13
<1>15. Reads(r, s)
  BY <1>11, <1>14 DEF Reads
<1>. QED
  BY <1>10, <1>15

LEMMA Scaled ==
  ASSUME NEW n \in Nat, NEW a \in Int, NEW b \in Int, a <= b
  PROVE  n * a <= n * b
<1>1. n * (b - a) >= 0
  OBVIOUS
<1>. QED
  BY <1>1

(* A number that is ahead by one stays ahead, whatever digits follow.      *)
LEMMA StaysAhead ==
  ASSUME NEW a \in Int, NEW b \in Int, a + 1 <= b, NEW u \in Digits, NEW v \in Digits
  PROVE  (NDigits * a + (u - 1)) + 1 <= NDigits * b + (v - 1)
<1>1. NDigits * (a + 1) <= NDigits * b
  BY Scaled, CharsAssumption
<1>2. NDigits * (a + 1) = NDigits * a + NDigits
  BY CharsAssumption
<1>3. NDigits * a \in Int /\ NDigits * b \in Int
  BY CharsAssumption
<1>. QED
  BY <1>1, <1>2, <1>3, CharsAssumption DEF Digits

LEMMA DigitsOf ==
  ASSUME NEW s \in Texts, IsNumeric(s)
  PROVE  /\ Len(s) \in Nat /\ Len(s) >= 1 /\ \A i \in 1..Len(s) : s[i] \in Digits
         /\ Len(s) >= 2 => s[1] # 1
<1>1. Len(s) \in Nat /\ DOMAIN s = 1..Len(s) /\ (s # <<>> => Len(s) >= 1)
  BY DEF Texts
<1>2. s # <<>> /\ (\A i \in DOMAIN s : s[i] \in Digits) /\ (s = <<1>> \/ s[1] # 1)
  BY DEF IsNumeric
<1>3. Len(s) >= 2 => s # <<1>>
  <2>1. Len(<<1>>) = 1
    OBVIOUS
  <2>. QED
    BY <1>1, <2>1
<1>. QED
  BY <1>1, <1>2, <1>3

LEMMA Ahead ==
  ASSUME NEW x \in Texts, IsNumeric(x), NEW y \in Texts, IsNumeric(y), NEW r, Reads(r, x),
         NEW t, Reads(t, y), NEW d \in Nat, Len(y) = Len(x) + d, NEW k \in 0..Len(x),
         r[k] + 1 <= t[k + d]
  PROVE  r[Len(x)] + 1 <= t[Len(y)]
<1>1. /\ Len(x) \in Nat /\ \A i \in 1..Len(x) : x[i] \in Digits
      /\ Len(y) \in Nat /\ \A i \in 1..Len(y) : y[i] \in Digits
  BY DigitsOf
<1>. DEFINE N == Len(x) - k
            T == {i \in 0..N : r[k + i] + 1 <= t[k + i + d]}
<1>2. N \in Nat /\ 0 \in T
  BY <1>1
<1>3. ASSUME NEW i \in 1..N, i - 1 \in T PROVE i \in T
  <2>. DEFINE m == k + i
  <2>1. /\ m \in 1..Len(x) /\ m - 1 \in 0..Len(x) /\ m + d \in 1..Len(y) /\ (m + d) - 1 \in 0..Len(y)
        /\ k + (i - 1) = m - 1 /\ k + (i - 1) + d = (m + d) - 1 /\ k + i + d = m + d
    BY <1>1
  <2>2. r[m - 1] + 1 <= t[(m + d) - 1]
    BY <1>3, <2>1
  <2>3. r[m - 1] \in Int /\ t[(m + d) - 1] \in Int /\ x[m] \in Digits /\ y[m + d] \in Digits
    BY <1>1, <2>1 DEF Reads
  <2>4. r[m] = NDigits * r[m - 1] + (x[m] - 1) /\ t[m + d] = NDigits * t[(m + d) - 1] + (y[m + d] - 1)
    BY <2>1 DEF Reads
  <2>5. r[m] + 1 <= t[m + d]
    BY <2>2, <2>3, <2>4, StaysAhead
  <2>. QED
    BY <2>1, <2>5
<1>4. 0..N \subseteq T
  <2>. HIDE DEF N, T
  <2>. QED
    BY <1>2, <1>3, StepByStep
<1>5. N \in T
  <2>1. N \in 0..N
    BY <1>2
  <2>. QED
    BY ONLY <1>4, <2>1
<1>6. k + N = Len(x) /\ k + N + d = Len(y)
  BY <1>1
<1>. QED
  BY <1>5, <1>6

(* The digits of a number of several digits do not begin with a zero.      *)
LEMMA LongIsPositive ==
  ASSUME NEW y \in Texts, IsNumeric(y), Len(y) >= 2, NEW t, Reads(t, y), NEW d \in 1..Len(y)
  PROVE  t[d] >= 1
<1>1. Len(y) \in Nat /\ (\A i \in 1..Len(y) : y[i] \in Digits) /\ y[1] # 1
  BY DigitsOf
<1>. DEFINE N == d - 1
            T == {i \in 0..N : t[i + 1] >= 1}
<1>3. N \in Nat
  BY <1>1
<1>4. t[1] >= 1
  <2>1. t[1] = NDigits * t[0] + (y[1] - 1) /\ t[0] = 0
    BY <1>1 DEF Reads
  <2>2. NDigits * 0 = 0 /\ y[1] \in Digits
    BY <1>1, CharsAssumption
  <2>. QED
    BY <1>1, <2>1, <2>2 DEF Digits
<1>5. ASSUME NEW i \in 1..N, i - 1 \in T PROVE i \in T
  <2>1. i + 1 \in 1..Len(y) /\ (i + 1) - 1 = i /\ (i - 1) + 1 = i /\ i \in 0..Len(y)
    BY <1>1
  <2>2. t[i] >= 1 /\ t[i] \in Int /\ y[i + 1] \in Digits
    BY <1>1, <1>5, <2>1 DEF Reads
  <2>3. t[i + 1] = NDigits * t[i] + (y[i + 1] - 1)
    BY <2>1 DEF Reads
  <2>4. NDigits * 1 <= NDigits * t[i]
    BY <2>2, Scaled, CharsAssumption
  <2>5. NDigits * t[i] \in Int /\ NDigits * 1 = NDigits
    BY <2>2, CharsAssumption
  <2>. QED
    BY <2>2, <2>3, <2>4, <2>5, CharsAssumption DEF Digits
<1>6. 0..N \subseteq T
  <2>1. 0 \in T
    BY <1>3, <1>4
  <2>. HIDE DEF N, T
  <2>. QED
    BY <1>3, <1>5, <2>1, StepByStep
<1>7. N \in T /\ N + 1 = d
  BY <1>3, <1>6
<1>. QED
  BY <1>7

LEMMA LessValue ==
  ASSUME NEW x \in Texts, IsNumeric(x), NEW y \in Texts, IsNumeric(y), <<x, y>> \in IdLess
  PROVE  Value(x) < Value(y) /\ Value(x) \in Int /\ Value(y) \in Int
<1>1. PICK r : Reads(r, x) /\ Value(x) = r[Len(x)]
  BY ValueRead
<1>2. PICK t : Reads(t, y) /\ Value(y) = t[Len(y)]
  BY ValueRead
<1>3. /\ Len(x) \in Nat /\ \A i \in 1..Len(x) : x[i] \in Digits
      /\ Len(y) \in Nat /\ \A i \in 1..Len(y) : y[i] \in Digits
      /\ Len(x) >= 1
  BY DigitsOf
<1>4. r[Len(x)] \in Int /\ t[Len(y)] \in Int
  BY <1>1, <1>2, <1>3 DEF Reads
<1>5. CASE Len(x) < Len(y)
  <2>1. PICK d \in 1..Len(y) : Len(y) = Len(x) + d
    <3>1. Len(y) - Len(x) \in 1..Len(y) /\ Len(y) = Len(x) + (Len(y) - Len(x))
      BY <1>3, <1>5
    <3>. QED
      BY <3>1
  <2>2. t[d] >= 1
    BY <1>2, <1>3, <1>5, LongIsPositive
  <2>3. 0 \in 0..Len(x) /\ 0 + d = d /\ d \in Nat /\ d \in 0..Len(y)
    BY <1>3
  <2>4. t \in [0..Len(y) -> Int] /\ r[0] = 0
    BY <1>1, <1>2 DEF Reads
  <2>5. r[0] = 0 /\ 0 \in 0..Len(x) /\ 0 + d = d /\ d \in Nat /\ t[d] \in Int
    BY ONLY <2>3, <2>4
  <2>6. r[0] + 1 <= t[0 + d]
    BY <2>2, <2>5
  <2>7. r[Len(x)] + 1 <= t[Len(y)]
    BY <1>1, <1>2, <2>1, <2>5, <2>6, Ahead
  <2>. QED
    BY <1>1, <1>2, <1>4, <2>7
<1>6. CASE Len(x) = Len(y) /\ <<x, y>> \in TextLess
  <2>1. PICK i \in 1..Len(y) : Before(LessThan, x, y, i)
    BY <1>6 DEF TextLess, ByFirst
  <2>2. /\ i \in 1..Len(x) /\ x[i] < y[i] /\ x[i] \in Int /\ y[i] \in Int
        /\ \A j \in 1..(i - 1) : j \in 1..Len(x) /\ x[j] = y[j]
    BY <1>3, <1>6, <2>1 DEF Before, LessThan
  <2>. DEFINE N == i - 1
              T == {j \in 0..N : r[j] = t[j]}
  <2>3. N \in Nat /\ 0 \in T
    BY <1>1, <1>2, <2>2 DEF Reads
  <2>4. ASSUME NEW j \in 1..N, j - 1 \in T PROVE j \in T
    <3>1. j \in 1..Len(x) /\ j \in 1..Len(y) /\ x[j] = y[j] /\ r[j - 1] = t[j - 1]
      BY <1>6, <2>2, <2>4
    <3>2. r[j] = NDigits * r[j - 1] + (x[j] - 1) /\ t[j] = NDigits * t[j - 1] + (y[j] - 1)
      BY <1>1, <1>2, <3>1 DEF Reads
    <3>. QED
      BY <3>1, <3>2
  <2>5. 0..N \subseteq T
    <3>. HIDE DEF N, T
    <3>. QED
      BY <2>3, <2>4, StepByStep
  <2>6. r[i - 1] = t[i - 1]
    BY <2>3, <2>5
  <2>7. /\ r[i] = NDigits * r[i - 1] + (x[i] - 1) /\ t[i] = NDigits * t[i - 1] + (y[i] - 1)
        /\ i - 1 \in 0..Len(x)
    BY <1>1, <1>2, <1>3, <2>2 DEF Reads
  <2>8. r[i - 1] \in Int /\ NDigits * r[i - 1] \in Int
    <3>1. r \in [0..Len(x) -> Int] /\ i - 1 \in 0..Len(x)
      BY <1>1, <2>7 DEF Reads
    <3>2. r[i - 1] \in Int
      BY ONLY <3>1
    <3>. QED
      BY ONLY <3>2, CharsAssumption
  <2>9. r[i] + 1 <= t[i + 0] /\ i \in 0..Len(x) /\ Len(y) = Len(x) + 0
    BY <1>3, <1>6, <2>2, <2>6, <2>7, <2>8
  <2>10. r[Len(x)] + 1 <= t[Len(y)]
    BY <1>1, <1>2, <2>9, Ahead
  <2>. QED
    BY <1>1, <1>2, <1>4, <2>10
<1>. QED
  BY <1>5, <1>6 DEF IdLess

(* Numeric identifiers are ordered by their value, for numbers of any      *)
(* length, although only their lengths and digits are compared             *)
(* (compare_prerelease).                                                   *)
THEOREM NumbersOrderedByValue == NumericByValue(Texts)
<1>. SUFFICES ASSUME NEW x \in Texts, NEW y \in Texts, IsNumeric(x), IsNumeric(y)
              PROVE  CompareIds(x, y) = Compare(Value(x), Value(y))
  BY DEF NumericByValue
<1>1. Answers(CompareIds(x, y), IdLess, x, y)
  BY IdsCompared
<1>2. CASE CompareIds(x, y) = "less"
  <2>1. Value(x) < Value(y)
    BY <1>1, <1>2, LessValue DEF Answers
  <2>. QED
    BY <1>2, <2>1 DEF Compare
<1>3. CASE CompareIds(x, y) = "greater"
  <2>1. Value(y) < Value(x) /\ Value(x) \in Int /\ Value(y) \in Int
    BY <1>1, <1>3, LessValue DEF Answers
  <2>. QED
    BY <1>3, <2>1 DEF Compare
<1>4. CASE CompareIds(x, y) = "equal"
  <2>1. x = y
    BY <1>1, <1>4 DEF Answers
  <2>2. Value(x) \in Int
    <3>1. PICK r : Reads(r, x) /\ Value(x) = r[Len(x)]
      BY ValueRead
    <3>2. Len(x) \in 0..Len(x)
      BY DEF Texts
    <3>. QED
      BY <3>1, <3>2 DEF Reads
  <2>. QED
    BY <1>4, <2>1, <2>2 DEF Compare
<1>. QED
  BY <1>1, <1>2, <1>3, <1>4 DEF Answers

(* The identifiers and versions that the run compares are among them.      *)
LEMMA SomeAreTexts == Ids \subseteq Texts
<1>1. Chars \subseteq Int
  BY CharsAssumption DEF Chars
<1>2. \A c \in Chars : <<c>> \in Texts
  BY <1>1 DEF Texts
<1>3. Chars \X Chars \subseteq Texts
  <2>1. \A c, d \in Int : <<c, d>> \in Texts
    BY DEF Texts
  <2>. SUFFICES ASSUME NEW s \in Chars \X Chars PROVE s \in Texts
    OBVIOUS
  <2>2. PICK c \in Chars, d \in Chars : s = <<c, d>>
    OBVIOUS
  <2>3. c \in Int /\ d \in Int
    BY <1>1
  <2>. HIDE DEF Texts
  <2>. QED
    BY ONLY <2>1, <2>2, <2>3
<1>. QED
  BY <1>2, <1>3 DEF Ids

LEMMA SomeAreVersions == SomeVersions \subseteq AllVersions
<1>1. \A i \in SomeIds : i \in Texts
  BY SomeAreTexts DEF SomeIds
<1>2. \A i \in {<<1>>, <<2, 1>>, <<4>>} : i \in Texts
  <2>1. <<1>> \in Texts /\ <<2, 1>> \in Texts /\ <<4>> \in Texts
    BY DEF Texts
  <2>. HIDE DEF Texts
  <2>. QED
    BY <2>1
<1>. HIDE DEF SomeIds, Texts
<1>3. <<>> \in Prereleases
  BY DEF Prereleases
<1>4. \A i \in SomeIds : <<i>> \in Prereleases
  BY <1>1 DEF Prereleases
<1>5. \A i \in {<<1>>, <<2, 1>>, <<4>>}, j \in SomeIds : <<i, j>> \in Prereleases
  <2>. TAKE i \in {<<1>>, <<2, 1>>, <<4>>}, j \in SomeIds
  <2>1. i \in Texts /\ j \in Texts
    BY <1>1, <1>2
  <2>. QED
    BY ONLY <2>1 DEF Prereleases
<1>6. {<<>>} \cup {<<i>> : i \in SomeIds} \subseteq Prereleases
  BY <1>3, <1>4
<1>7. {<<i, j>> : i \in {<<1>>, <<2, 1>>, <<4>>}, j \in SomeIds} \subseteq Prereleases
  BY <1>5
<1>8. 1..2 \subseteq Nat /\ {1} \subseteq Nat
  OBVIOUS
<1>. HIDE DEF Prereleases
<1>9. [core : 1..2, pre : {<<>>} \cup {<<i>> : i \in SomeIds}] \subseteq AllVersions
  BY <1>6, <1>8 DEF AllVersions
<1>10. [core : {1}, pre : {<<i, j>> : i \in {<<1>>, <<2, 1>>, <<4>>}, j \in SomeIds}] \subseteq AllVersions
  BY <1>7, <1>8 DEF AllVersions
<1>. QED
  BY <1>9, <1>10 DEF SomeVersions

(* The largest version that a resolution selects is one and the same, for  *)
(* any number of digits and letters (Version::cmp).                        *)
THEOREM SelectionIsUnique == Spec => []LargestIsUnique
<1>1. TotalOrderOn(SomeVersions)
  <2>1. PICK S, V : S = SomeVersions /\ V = AllVersions
    OBVIOUS
  <2>2. S \subseteq V /\ TotalOrderOn(V)
    BY <2>1, SomeAreVersions, VersionsTotallyOrdered
  <2>3. TotalOrderOn(S)
    BY ONLY <2>2 DEF TotalOrderOn
  <2>. QED
    BY <2>1, <2>3
<1>2. NumericByValue(Ids)
  BY SomeAreTexts, NumbersOrderedByValue DEF NumericByValue
<1>3. LargestIsUnique
  BY <1>1, <1>2 DEF LargestIsUnique, TotalOrder
<1>. QED
  BY <1>3, PTL
===============================================================================
