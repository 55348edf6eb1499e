---------------------------- MODULE MerkleTiles ----------------------------
(***************************************************************************)
(* The checksum database's tree as the client rebuilds it from tiles:      *)
(* TreeReader, verify_inclusion and verify_consistency of                  *)
(* emela-pome/src/sumdb/tlog.rs.                                           *)
(*                                                                         *)
(* A log is a sequence of records, a hash a term: the hash of a record or  *)
(* of two hashes, so that different trees have different roots, as with a  *)
(* hash without collisions.  The reader works on the tiles it was served,  *)
(* each by a request of its own: a function from the level and index of a  *)
(* tile to its hashes.  Nothing says that they come from one log.          *)
(***************************************************************************)
EXTENDS Integers, Sequences

CONSTANT TILE_HEIGHT  \* 8 in the source: a tile has 2^8 hashes

ASSUME TileAssumption == TILE_HEIGHT \in Nat \ {0}

Pow2[k \in Nat] == IF k = 0 THEN 1 ELSE 2 * Pow2[k - 1]  \* 1 << k

TILE_WIDTH == Pow2[TILE_HEIGHT]

RecordHash(r) == <<"record", r>>
EmptyHash == <<"empty">>
Missing == <<"missing">>  \* no hash: a tile that the database does not have
NodeHash(l, r) == IF l = Missing \/ r = Missing THEN Missing ELSE <<"node", l, r>>

IsPowerOfTwo(w) == \E k \in 0..w : w = Pow2[k]
Log2(w) == CHOOSE k \in 0..w : w = Pow2[k]

(* 1 << (63 - leading_zeros(w - 1)): the largest power of two below w.     *)
Split(w) == CHOOSE k \in 1..w : k < w /\ 2 * k >= w /\ IsPowerOfTwo(k)

(* The ranges lo..hi-1 of leaves among the first n, as <<lo, hi>>.         *)
Spans(n) == {s \in (0..n) \X (0..n) : s[1] < s[2]}

-----------------------------------------------------------------------------
(* The tree of RFC 6962, as the database builds it and signs its root.     *)
TreeHashes(log) ==
  LET hash[s \in Spans(Len(log))] ==
        IF s[2] - s[1] = 1 THEN RecordHash(log[s[2]])
        ELSE LET k == s[1] + Split(s[2] - s[1])
             IN  NodeHash(hash[<<s[1], k>>], hash[<<k, s[2]>>])
  IN  hash
TreeHash(log, lo, hi) == IF lo = hi THEN EmptyHash ELSE TreeHashes(log)[<<lo, hi>>]
Root(log) == TreeHash(log, 0, Len(log))

(* The tile that the database serves: width hashes of complete subtrees of *)
(* its level; none of them if the log has not grown that far.              *)
ServeTile(log, level, index, width) ==
  LET size == Pow2[level * TILE_HEIGHT]
      first == index * TILE_WIDTH
  IN  [i \in 1..width |->
         IF (first + width) * size <= Len(log)
         THEN TreeHash(log, (first + i - 1) * size, (first + i) * size)
         ELSE Missing]

-----------------------------------------------------------------------------
Least(a, b) == IF a < b THEN a ELSE b

(* Mutant: the width of the tile from the size of the tree at every level. *)
TileWidthOfLeaves(size, level, index) == Least(size - index * TILE_WIDTH, TILE_WIDTH)

(* How many hashes the tile of a level has in the tree of a size.          *)
TileWidth(size, level, index) ==
  Least((size \div Pow2[level * TILE_HEIGHT]) - index * TILE_WIDTH, TILE_WIDTH)

(* The hashes of pairs of neighbours, and of their pairs, and so on.       *)
Pairs(hs) == [i \in 1..(Len(hs) \div 2) |-> NodeHash(hs[2 * i - 1], hs[2 * i])]
Folded(hs, times) ==
  LET hashes[h \in 0..times] == IF h = 0 THEN hs ELSE Pairs(hashes[h - 1])
  IN  hashes[times]

(* The tiles that a tree of a size has, as <<level, index>>, and what one  *)
(* log has there.                                                          *)
TileIds(size) ==
  {t \in (0..(size \div TILE_HEIGHT)) \X (0..size) : TileWidth(size, t[1], t[2]) > 0}
TilesOf(log, size) ==
  [t \in TileIds(size) |-> ServeTile(log, t[1], t[2], TileWidth(size, t[1], t[2]))]

(* Whether each hash of a tile is that of the tile below it.  The reader   *)
(* does not compare them: it takes from each tile what it needs.           *)
LevelsAgree(tiles) ==
  \A t \in DOMAIN tiles : t[1] > 0 =>
    \A i \in 1..Len(tiles[t]) :
      tiles[t][i] = Folded(tiles[<<t[1] - 1, t[2] * TILE_WIDTH + (i - 1)>>], TILE_HEIGHT)[1]

(* TreeReader::subtree: the complete subtree of a height, folded from some *)
(* hashes of one tile.                                                     *)
Subtree(tiles, height, index) ==
  LET level == height \div TILE_HEIGHT
      span == Pow2[height % TILE_HEIGHT]
      first == index * span
      tile == first \div TILE_WIDTH
      start == first - tile * TILE_WIDTH
  IN  Folded([i \in 1..span |-> tiles[<<level, tile>>][start + i]], height % TILE_HEIGHT)[1]

(* TreeReader::range: the hashes of ranges of the first n leaves, read     *)
(* from tiles, with one leaf replaced by a given hash (none is when at is  *)
(* -1).                                                                    *)
Ranges(tiles, n, at, leaf) ==
  LET range[s \in Spans(n)] ==
        LET width == s[2] - s[1]
            replaced == s[1] <= at /\ at < s[2]
            k == s[1] + Split(width)
        IN  IF replaced /\ width = 1 THEN leaf
            ELSE IF ~replaced /\ IsPowerOfTwo(width) /\ s[1] % width = 0
            THEN Subtree(tiles, Log2(width), s[1] \div width)
            ELSE NodeHash(range[<<s[1], k>>], range[<<k, s[2]>>])
  IN  range
Range(tiles, n, at, leaf) == Ranges(tiles, n, at, leaf)[<<0, n>>]

(* TreeReader::root *)
ReadRoot(tiles, n) == IF n = 0 THEN EmptyHash ELSE Range(tiles, n, -1, EmptyHash)

(* Mutant: the leaf is read from the tiles like the others.                *)
InclusionFromTiles(tiles, size, root, index, record) ==
  index < size /\ Range(tiles, size, -1, RecordHash(record)) = root

(* verify_inclusion: the record is leaf index of the tree with that root.  *)
VerifyInclusion(tiles, size, root, index, record) ==
  index < size /\ Range(tiles, size, index, RecordHash(record)) = root

(* verify_consistency: the old tree is a prefix of the new one; both roots *)
(* are rebuilt from the tiles of the new tree.                             *)
VerifyConsistency(tiles, oldSize, oldRoot, newSize, newRoot) ==
  /\ oldSize <= newSize
  /\ ReadRoot(tiles, newSize) = newRoot
  /\ ReadRoot(tiles, oldSize) = oldRoot
=============================================================================
