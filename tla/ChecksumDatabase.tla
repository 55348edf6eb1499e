-------------------------- MODULE ChecksumDatabase --------------------------
(***************************************************************************)
(* Lookups in the checksum database: SumdbClient of                        *)
(* emela-pome/src/fetch/sumdb.rs, run by several emela commands that share *)
(* a cache.                                                                *)
(*                                                                         *)
(* The database is append-only until it forks: then it also shows another  *)
(* history, which agrees with the first only up to some record, and may    *)
(* answer anything.  A signed checkpoint is the tree it was signed for, of *)
(* which clients see the size and the root; a lookup may be answered with  *)
(* an older checkpoint, and each tile is a request of its own.  A record   *)
(* is a version and what was recorded of it (1 in the log, 2 where the     *)
(* other history differs).                                                 *)
(***************************************************************************)
EXTENDS Integers, Sequences, MerkleTiles

CONSTANTS
  Clients,     \* the commands
  MaxSize,     \* how far each history may grow
  MaxLookups   \* how many lookups are made

ASSUME DatabaseAssumption == MaxSize \in Nat \ {0} /\ MaxLookups \in Nat

VARIABLES
  log,       \* the records of the database
  other,     \* the other history it shows, once it has forked
  forked,
  kept,      \* the cache's latest file: a checkpoint, <<>> if there is none
  client,    \* what each command does
  accepted,  \* the lookups that were trusted: [record, index, tree]
  lookups,   \* how many were made
  stale,     \* whether kept changed between a client's read and its use
  torn       \* whether checkpoints were compared with tiles of different histories

vars == <<log, other, forked, kept, client, accepted, lookups, stale, torn>>

Records == (1..MaxSize) \X {1, 2}
Histories == IF forked THEN {log, other} ELSE {log}
NoFile == <<>>

Idle == [at |-> "idle", record |-> <<0, 0>>, index |-> 0, tree |-> <<>>, seen |-> NoFile]
Refused == [Idle EXCEPT !.at = "refused"]

Init ==
  /\ log = << <<1, 1>> >> /\ other = <<>> /\ forked = FALSE
  /\ kept = NoFile
  /\ client = [c \in Clients |-> Idle]
  /\ accepted = {} /\ lookups = 0 /\ stale = FALSE /\ torn = FALSE

-----------------------------------------------------------------------------
(* The database ingests another version.                                   *)
Ingest ==
  /\ \/ /\ Len(log) < MaxSize
        /\ log' = Append(log, <<Len(log) + 1, 1>>) /\ UNCHANGED other
     \/ /\ forked /\ Len(other) < MaxSize
        /\ other' = Append(other, <<Len(other) + 1, 2>>) /\ UNCHANGED log
  /\ UNCHANGED <<forked, kept, client, accepted, lookups, stale, torn>>

(* It starts to show a history in which a record is not the same.          *)
Fork ==
  /\ ~forked /\ forked' = TRUE
  /\ \E k \in 1..Len(log) : other' = Append(SubSeq(log, 1, k - 1), <<k, 2>>)
  /\ UNCHANGED <<log, kept, client, accepted, lookups, stale, torn>>

(* What it answers to a lookup of a version: an honest database has one    *)
(* record of it; one that has forked may say anything.                     *)
Answers(version) ==
  LET Of(history) == {SubSeq(history, 1, n) : n \in 1..Len(history)}
      trees == UNION {Of(h) : h \in Histories}
  IN  IF forked
      THEN [record : {version} \X {1, 2}, index : 0..MaxSize, tree : trees]
      ELSE {a \in [record : {<<version, 1>>}, index : {version - 1}, tree : trees] :
              version <= Len(a.tree)}

(* Tiles::tile: the tiles of a tree of a size, each asked for by itself    *)
(* and answered from any history the database has.                         *)
Served(size) ==
  {[t \in TileIds(size) |-> ServeTile(from[t], t[1], t[2], TileWidth(size, t[1], t[2]))] :
     from \in [TileIds(size) -> Histories]}

(* SumdbClient::lookup up to verify_inclusion.  (An answer about another   *)
(* version, or without a valid signature, is refused at once; none is      *)
(* modelled.)                                                              *)
Lookup(c) ==
  /\ client[c].at \in {"idle", "refused"} /\ lookups < MaxLookups
  /\ lookups' = lookups + 1
  /\ \E version \in 1..MaxSize : \E a \in Answers(version) : \E tiles \in Served(Len(a.tree)) :
       client' = [client EXCEPT ![c] =
         IF VerifyInclusion(tiles, Len(a.tree), Root(a.tree), a.index, a.record)
         THEN [at |-> "verified", record |-> a.record, index |-> a.index,
               tree |-> a.tree, seen |-> NoFile]
         ELSE Refused]
  /\ UNCHANGED <<log, other, forked, kept, accepted, stale, torn>>

(* SumdbClient::advance: the checkpoint kept so far is read.               *)
ReadSeen(c) ==
  /\ client[c].at = "verified"
  /\ client' = [client EXCEPT ![c].at = "read", ![c].seen = kept]
  /\ UNCHANGED <<log, other, forked, kept, accepted, lookups, stale, torn>>

(* Mutant: an older checkpoint is not compared with the one kept.          *)
ConsistentIfNewer(tiles, seen, new) ==
  \/ Len(new) <= Len(seen)
  \/ VerifyConsistency(tiles, Len(seen), Root(seen), Len(new), Root(new))

(* Mutant: the checkpoint kept is always taken for the older one.          *)
ConsistentInOrder(tiles, seen, new) ==
  VerifyConsistency(tiles, Len(seen), Root(seen), Len(new), Root(new))

(* advance: the smaller tree must be a prefix of the larger one.           *)
Consistent(tiles, seen, new) ==
  IF Len(seen) <= Len(new)
  THEN VerifyConsistency(tiles, Len(seen), Root(seen), Len(new), Root(new))
  ELSE VerifyConsistency(tiles, Len(new), Root(new), Len(seen), Root(seen))

(* advance: the file after the check, with the larger checkpoint written   *)
(* if the new one is larger.                                               *)
Keep(seen, new) == IF seen = NoFile \/ Len(new) > Len(seen) THEN new ELSE kept

(* The tree whose tiles advance reads: the larger one.                     *)
Larger(seen, new) == IF Len(seen) <= Len(new) THEN Len(new) ELSE Len(seen)

(* advance: check and write, and lookup returns the record.                *)
Advance(c) ==
  LET new == client[c].tree
      seen == client[c].seen
  IN  /\ client[c].at = "read"
      /\ \E tiles \in Served(Larger(seen, new)) :
           IF seen = NoFile \/ Consistent(tiles, seen, new)
           THEN /\ kept' = Keep(seen, new)
                /\ accepted' = accepted \cup
                     {[record |-> client[c].record, index |-> client[c].index, tree |-> new]}
                /\ client' = [client EXCEPT ![c] = Idle]
                /\ torn' = (torn \/ (seen # NoFile /\ ~LevelsAgree(tiles)))
           ELSE /\ client' = [client EXCEPT ![c] = Refused]
                /\ UNCHANGED <<kept, accepted, torn>>
      /\ stale' = (stale \/ seen # kept)
      /\ UNCHANGED <<log, other, forked, lookups>>

(* The command fails, or is killed, at a request or before its write.      *)
Abandon(c) ==
  /\ client[c].at \in {"verified", "read"}
  /\ client' = [client EXCEPT ![c] = Idle]
  /\ UNCHANGED <<log, other, forked, kept, accepted, lookups, stale, torn>>

(* All lookups are over.                                                   *)
Finished ==
  /\ lookups = MaxLookups /\ \A c \in Clients : client[c].at \in {"idle", "refused"}
  /\ UNCHANGED vars

Next ==
  \/ Ingest \/ Fork
  \/ \E c \in Clients : Lookup(c) \/ ReadSeen(c) \/ Advance(c) \/ Abandon(c)
  \/ Finished

Spec == Init /\ [][Next]_vars

-----------------------------------------------------------------------------
IsLog(s) == Len(s) <= MaxSize /\ \A i \in DOMAIN s : s[i] \in Records /\ s[i][1] = i

TypeOK ==
  /\ IsLog(log) /\ IsLog(other) /\ IsLog(kept)
  /\ forked \in BOOLEAN /\ stale \in BOOLEAN /\ torn \in BOOLEAN
  /\ \A c \in Clients :
       /\ client[c].at \in {"idle", "verified", "read", "refused"}
       /\ IsLog(client[c].tree) /\ IsLog(client[c].seen)
  /\ lookups \in 0..MaxLookups

IsPrefixOf(s, t) == Len(s) <= Len(t) /\ \A i \in DOMAIN s : s[i] = t[i]

(* A record that is trusted is in the tree that the database signed, at    *)
(* the place it was said to be, whatever the database answered and         *)
(* whichever tiles it served (verify_inclusion).  The state has its type.  *)
AcceptedInTree == TypeOK /\
  \A a \in accepted : a.index < Len(a.tree) /\ a.tree[a.index + 1] = a.record

(* A database that keeps its promises is never suspected: not while it     *)
(* grows between two requests, not when it answers with an older           *)
(* checkpoint, not when several commands advance the same file.            *)
HonestNeverRefused == ~forked => \A c \in Clients : client[c].at # "refused"

(* As long as no command overtakes another, and the tiles of each check    *)
(* belong together, the trusted trees are one history: a database that     *)
(* shows two of them is caught at the first lookup that would mix them     *)
(* (advance).                                                              *)
OneHistory ==
  ~stale /\ ~torn => \A a \in accepted, b \in accepted :
                       IsPrefixOf(a.tree, b.tree) \/ IsPrefixOf(b.tree, a.tree)

(* So no version is ever trusted with two contents.                        *)
OneContentPerVersion ==
  ~stale /\ ~torn => \A a \in accepted, b \in accepted :
                       a.record[1] = b.record[1] => a.record = b.record

(* And the checkpoint kept in the cache is the largest one accepted,       *)
(* whatever the tiles were.                                                *)
KeptIsLargest == ~stale => \A a \in accepted : Len(a.tree) <= Len(kept)

(* The cache remembers one history, all of it, and nothing is trusted that *)
(* is not in it (advance).                                                 *)
OneHistoryKept == OneHistory /\ OneContentPerVersion /\ KeptIsLargest

(* What tlog.rs and sumdb.rs say of a database that shows two histories:   *)
(* the tiles are trusted only once they rebuild the signed root, so that a *)
(* later lookup catches it.  No command overtakes another here either.     *)
ForkIsCaught ==
  ~stale => \A a \in accepted, b \in accepted :
              IsPrefixOf(a.tree, b.tree) \/ IsPrefixOf(b.tree, a.tree)

(* What cache.rs says of the file latest: it is the largest checkpoint     *)
(* seen, whichever commands were at work.                                  *)
LargestSeen == \A a \in accepted : Len(a.tree) <= Len(kept)
=============================================================================
