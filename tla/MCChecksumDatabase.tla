------------------------- MODULE MCChecksumDatabase -------------------------
(* Instances of ChecksumDatabase for TLC.  The lookups are explored with   *)
(* small tiles and few records; the reader of tiles is also evaluated by   *)
(* itself on trees with partial and full tiles at three levels.            *)
EXTENDS ChecksumDatabase, TLC

CONSTANT MaxTree  \* the largest of these trees

ASSUME TreeAssumption == MaxTree \in Nat

Clients2 == Permutations(Clients)

Whole == [i \in 1..MaxTree |-> <<i, 1>>]
Prefix(n) == SubSeq(Whole, 1, n)

ReaderExact ==
  /\ \A size \in 1..MaxTree : \A n \in 0..size :
       ReadRoot(TilesOf(Whole, size), n) = Root(Prefix(n))
  /\ \A size \in 1..MaxTree : \A index \in 0..size : \A r \in {index, index + 1} :
       VerifyInclusion(TilesOf(Whole, size), size, Root(Prefix(size)), index, <<r, 1>>)
         <=> (index < size /\ r = index + 1)

(* What lookups rest on: from the tiles of a log, however far it has       *)
(* grown, TreeReader rebuilds the roots of all its smaller trees, and      *)
(* finds each record at its index and no other (range, subtree).           *)
TilesGiveRoots == lookups = 0 /\ ~forked => ReaderExact
=============================================================================
