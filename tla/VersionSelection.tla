-------------------------- MODULE VersionSelection --------------------------
(***************************************************************************)
(* Minimal version selection of the package manager: build_list and        *)
(* reached of emela-pome/src/mvs.rs, run one after the other by resolve    *)
(* (project.rs) to find the versions a project locks and the Pomes its     *)
(* build gets without the tests.                                           *)
(*                                                                         *)
(* A version of a Pome is a number: its rank in the order of version.rs.   *)
(* The requirements of a version come from its Pome.toml; reading it may   *)
(* fail, and that ends the resolution with an error.                       *)
(***************************************************************************)
EXTENDS Integers, Sequences, FiniteSets

CONSTANTS
  Pomes,   \* the source paths
  Nodes,   \* the versions that exist, as pairs <<path, version>>
  Graphs,  \* the requirement graphs: a sequence of versions for each version
  Roots    \* the requirements of the project: pairs of the sequences written
           \* in [dependencies] and in [dev-dependencies]

ASSUME SelectionAssumption ==
  /\ Nodes \subseteq Pomes \X (Nat \ {0})
  /\ \A g \in Graphs : g \in [Nodes -> Seq(Nodes)]
  /\ \A r \in Roots : r[1] \in Seq(Nodes) /\ r[2] \in Seq(Nodes)

VARIABLES
  graph,      \* graph[n]: what the Pome.toml of version n requires
  root,       \* the project's requirements
  phase,      \* the loop of resolve that runs, or how it ended
  selected,   \* selected[p]: the version selected so far, NoVersion for none
  visited,    \* the versions visited
  queue,      \* the versions to visit
  list,       \* the build list of all requirements, once it is known
  seen,       \* the Pomes reached from [dependencies]
  pending     \* those whose requirements are still to be read (a Vec in the
              \* code; nothing depends on its order)

vars == <<graph, root, phase, selected, visited, queue, list, seen, pending>>

NoVersion == 0
NothingSelected == [p \in Pomes |-> NoVersion]
Phases == {"all", "deps", "reach", "done", "failed"}

Elements(s) == {s[i] : i \in 1..Len(s)}

(* resolve asks for the list of [dependencies] and [dev-dependencies]      *)
(* together first.                                                         *)
Init ==
  /\ graph \in Graphs
  /\ root \in Roots
  /\ phase = "all"
  /\ selected = NothingSelected
  /\ visited = {}
  /\ queue = root[1] \o root[2]
  /\ list = NothingSelected
  /\ seen = {}
  /\ pending = {}

Building == phase \in {"all", "deps"}

-----------------------------------------------------------------------------
(* Mutant: looks at the front of the queue without taking it off.          *)
SkipPeeking ==
  /\ Building /\ queue # <<>> /\ Head(queue) \in visited
  /\ UNCHANGED vars

(* build_list: a version visited before is dropped.                        *)
Skip ==
  /\ Building /\ queue # <<>> /\ Head(queue) \in visited
  /\ queue' = Tail(queue)
  /\ UNCHANGED <<graph, root, phase, selected, visited, list, seen, pending>>

(* The selection after visiting n: the larger version stays.               *)
Raised(n) ==
  IF selected[n[1]] >= n[2] THEN selected ELSE [selected EXCEPT ![n[1]] = n[2]]

(* Mutant: only versions that are selected are asked for requirements.     *)
VisitSelectedOnly ==
  /\ Building /\ queue # <<>> /\ Head(queue) \notin visited
  /\ LET n == Head(queue) IN
       /\ visited' = visited \cup {n}
       /\ selected' = Raised(n)
       /\ queue' = IF Raised(n) = selected THEN Tail(queue) ELSE Tail(queue) \o graph[n]
  /\ UNCHANGED <<graph, root, phase, list, seen, pending>>

(* build_list: the first visit of a version; its requirements are queued   *)
(* whether or not it is selected.                                          *)
Visit ==
  /\ Building /\ queue # <<>> /\ Head(queue) \notin visited
  /\ LET n == Head(queue) IN
       /\ visited' = visited \cup {n}
       /\ selected' = Raised(n)
       /\ queue' = Tail(queue) \o graph[n]
  /\ UNCHANGED <<graph, root, phase, list, seen, pending>>

(* The build list of all requirements is complete; reached starts with the *)
(* build list of [dependencies] alone.                                     *)
Listed ==
  /\ phase = "all" /\ queue = <<>>
  /\ phase' = "deps"
  /\ list' = selected
  /\ selected' = NothingSelected
  /\ visited' = {}
  /\ queue' = root[1]
  /\ UNCHANGED <<graph, root, seen, pending>>

Keys(sel) == {p \in Pomes : sel[p] # NoVersion}

(* reached goes on from the Pomes of that list.                            *)
DepsListed ==
  /\ phase = "deps" /\ queue = <<>>
  /\ phase' = "reach"
  /\ seen' = Keys(selected)
  /\ pending' = Keys(selected)
  /\ UNCHANGED <<graph, root, selected, visited, queue, list>>

(* Mutant: the requirements of the version [dependencies] alone selects.   *)
RequiredOfOwn(p) ==
  IF selected[p] = NoVersion THEN {} ELSE {n[1] : n \in Elements(graph[<<p, selected[p]>>])}

(* The Pomes that the selected version of p requires.                      *)
RequiredBySelected(p) ==
  IF list[p] = NoVersion THEN {} ELSE {n[1] : n \in Elements(graph[<<p, list[p]>>])}

(* reached: one Pome popped, what it requires added.                       *)
Reach ==
  /\ phase = "reach"
  /\ \E p \in pending :
       /\ seen' = seen \cup RequiredBySelected(p)
       /\ pending' = (pending \ {p}) \cup (RequiredBySelected(p) \ seen)
  /\ UNCHANGED <<graph, root, phase, selected, visited, queue, list>>

(* resolve: what is not reached is locked as dev.                          *)
Resolved ==
  /\ phase = "reach" /\ pending = {}
  /\ phase' = "done"
  /\ UNCHANGED <<graph, root, selected, visited, queue, list, seen, pending>>

(* The requirements of a version cannot be read: the error is passed on.   *)
RequirementsFail ==
  /\ \/ Building /\ queue # <<>> /\ Head(queue) \notin visited
     \/ phase = "reach" /\ \E p \in pending : list[p] # NoVersion
  /\ phase' = "failed"
  /\ UNCHANGED <<graph, root, selected, visited, queue, list, seen, pending>>

(* The command is over.                                                    *)
Ended == phase \in {"done", "failed"} /\ UNCHANGED vars

Step == Skip \/ Visit \/ Listed \/ DepsListed \/ Reach \/ Resolved \/ RequirementsFail
Next == Step \/ Ended

Spec == Init /\ [][Next]_vars

(* The command is one thread that goes on until it is over.                *)
FairSpec == Spec /\ WF_vars(Step)

-----------------------------------------------------------------------------
(* A selection: of each Pome a version that exists, or none.               *)
IsSelection(sel) ==
  /\ sel \in [Pomes -> Nat]
  /\ \A p \in Pomes : sel[p] # NoVersion => <<p, sel[p]>> \in Nodes

TypeOK ==
  /\ graph \in [Nodes -> Seq(Nodes)]
  /\ root[1] \in Seq(Nodes) /\ root[2] \in Seq(Nodes)
  /\ phase \in Phases
  /\ IsSelection(selected)
  /\ IsSelection(list)
  /\ visited \subseteq Nodes
  /\ queue \in Seq(Nodes)
  /\ seen \subseteq Pomes
  /\ pending \subseteq Pomes

(* A set of versions that has the requirements s and, with a version, all  *)
(* that it requires; the versions in every such set are the ones that the  *)
(* requirements s reach.                                                   *)
Closed(S, s) ==
  /\ Elements(s) \subseteq S
  /\ \A n \in S : Elements(graph[n]) \subseteq S
Reachable(s) == {n \in Nodes : \A S \in SUBSET Nodes : Closed(S, s) => n \in S}

IsLargest(sel, S) ==
  /\ \A n \in S : sel[n[1]] >= n[2]
  /\ \A p \in Pomes : sel[p] # NoVersion => <<p, sel[p]>> \in S

(* The list that is locked has, of every Pome that the project reaches     *)
(* through any version, selected in the end or not, the largest version    *)
(* required anywhere, and nothing else (build_list).                       *)
LargestRequired ==
  phase \in {"deps", "reach", "done"} => IsLargest(list, Reachable(root[1] \o root[2]))

(* What is locked can be built: every requirement of the project and of a  *)
(* selected version is met by the selected version of that Pome.           *)
RequirementsMet ==
  phase = "done" =>
    /\ \A n \in Elements(root[1] \o root[2]) : list[n[1]] >= n[2]
    /\ \A p \in Keys(list) : \A n \in Elements(graph[<<p, list[p]>>]) : list[n[1]] >= n[2]

(* Requirements of the tests never lower a version that the project would  *)
(* get without them.                                                       *)
DevNeverLowers ==
  phase \in {"reach", "done"} => \A p \in Pomes : list[p] >= selected[p]

(* The lock: the largest versions, which meet every requirement, and none  *)
(* below what the project gets without its tests (resolve).                *)
LockRight == LargestRequired /\ RequirementsMet /\ DevNeverLowers

(* A build without the tests finds all it needs among the Pomes not marked *)
(* dev: they are locked, and what their selected versions require is among *)
(* them too, also when a dev-dependency raised the version (reached).      *)
BuildComplete ==
  phase = "done" =>
    /\ \A n \in Elements(root[1]) : n[1] \in seen
    /\ seen \subseteq Keys(list)
    /\ \A p \in seen : \A n \in Elements(graph[<<p, list[p]>>]) : n[1] \in seen

(* And it gets no more: a set of Pomes that has all that [dependencies]    *)
(* reach, and what the selected versions of its Pomes require, has every   *)
(* Pome not marked dev.                                                    *)
BuildMinimal ==
  phase = "done" =>
    \A T \in SUBSET Pomes :
      /\ {n[1] : n \in Reachable(root[1])} \subseteq T
      /\ \A p \in T : RequiredBySelected(p) \subseteq T
      => seen \subseteq T

(* What a build without the tests gets is all it needs and no more.        *)
BuildExact == BuildComplete /\ BuildMinimal

(* Resolution ends, also when versions require each other in a cycle.      *)
Terminates == <>(phase \in {"done", "failed"})
=============================================================================
