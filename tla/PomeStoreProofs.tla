---------------------------- MODULE PomeStoreProofs ----------------------------
(* The package manager's files and cache are right for any number of       *)
(* commands, Pomes, versions and contents: the inductive invariant of      *)
(* PomeStore, and the properties that follow from it.                      *)
EXTENDS PomeStore, WellFoundedInduction, TLAPS

LockFile == [Pomes -> Locked \cup {None}]
Places ==
  {"idle", "open", "opened", "walk", "get", "written", "done", "build", "built"} \cup Holding
Process ==
  [at : Places, op : Operations, toml : [Pomes -> 0..MaxVersion], lock : LockFile \cup {None},
   next : [Pomes -> 0..MaxVersion], found : [Keys -> (SUBSET Keys) \cup {None}],
   made : LockFile, getting : Got \cup {None}, todo : SUBSET Pomes,
   used : [Pomes -> Contents \cup {None}]]

-----------------------------------------------------------------------------
(* What is said of the shared files, and of the memory r of a command,     *)
(* given the records rec.                                                  *)

(* A content, or a manifest, of a published version is the recorded one,   *)
(* and a manifest is that of some content.                                 *)
Agrees(rec, k, x) == k[1] \notin Private => rec[k] # None /\ x = rec[k]
SomeManifest(k, m) == \E x \in Contents : m = Manifest[k][x]
AgreesManifest(rec, k, m) ==
  /\ k[1] \notin Private => rec[k] # None /\ m = Manifest[k][rec[k]]
  /\ SomeManifest(k, m)
LockAgrees(rec, l) ==
  l # None => \A p \in Pomes : l[p] # None => Agrees(rec, <<p, l[p].version>>, l[p].content)

(* A lock meets the requirements of the versions in it, of those private   *)
(* ones that require the same whatever their tags point to.                *)
LockClosed(l) ==
  l # None => \A p \in Pomes : l[p] # None /\ Fixed(<<p, l[p].version>>) =>
    \A k \in Manifest[<<p, l[p].version>>][l[p].content] :
      l[k[1]] # None /\ l[k[1]].version >= k[2]

(* The files and the manifest a command holds were compared.               *)
Compared(rec, r) ==
  /\ (r.getting # None) <=> (r.at \in Holding)
  /\ r.at \in Holding \ {"keep"} => Agrees(rec, r.getting.key, r.getting.content)
  /\ r.at = "keep" =>
       AgreesManifest(rec, r.getting.key, Manifest[r.getting.key][r.getting.content])

(* The walk: its manifests were compared, it ends with all that they       *)
(* require, and what is made of them is the largest versions.              *)
FoundIn(r) == {k \in Keys : r.found[k] # None}
Making == {"get", "store", "storenew", "rename", "renamenew", "keepnew", "written"}
Building == {"build", "storebuild", "renamebuild"}
Walked(rec, r) ==
  /\ \A k \in FoundIn(r) : AgreesManifest(rec, k, r.found[k])
  /\ r.at \in Making => \A k \in FoundIn(r) : r.found[k] \subseteq FoundIn(r)
  /\ r.at \notin Making => r.made = NoLock
  /\ \A p \in Pomes : r.made[p] # None => <<p, r.made[p].version>> \in Largest(FoundIn(r))
  /\ r.at \in {"storenew", "renamenew", "keepnew"} => r.getting.key \in Largest(FoundIn(r))
  /\ r.at = "written" => \A k \in Largest(FoundIn(r)) : r.made[k[1]] # None

(* A build: what Pome.toml requires is still to be compared, or it is met  *)
(* by the lock and, like what the directories used require, used or still  *)
(* to do.                                                                  *)
Built(rec, r) ==
  /\ r.at \in Building \cup {"built"} =>
       /\ r.todo # {} => r.lock # None
       /\ \A p \in Pomes : r.toml[p] # 0 =>
            \/ r.next[p] = r.toml[p]
            \/ MetBy(r.lock, <<p, r.toml[p]>>) /\ (p \in r.todo \/ r.used[p] # None)
       /\ \A p \in Pomes : r.used[p] # None =>
            /\ r.lock # None /\ r.lock[p] # None
            /\ Agrees(rec, <<p, r.lock[p].version>>, r.used[p])
            /\ \A k \in Manifest[<<p, r.lock[p].version>>][r.used[p]] :
                 k[1] \in r.todo \/ r.used[k[1]] # None
  /\ r.at = "built" => r.todo = {} /\ r.next = NoToml
  /\ r.at \notin Building \cup {"built"} => r.used = NoLock /\ r.todo = {}

ProcessInv(rec, r) ==
  /\ LockAgrees(rec, r.lock) /\ LockClosed(r.lock) /\ LockAgrees(rec, r.made)
  /\ Compared(rec, r) /\ Walked(rec, r) /\ Built(rec, r)

Shared ==
  /\ served \in [Keys -> (SUBSET Contents) \ {{}}] /\ record \in [Keys -> Contents \cup {None}]
  /\ dirs \in [Keys -> Contents \cup {None}] /\ manifests \in [Keys -> (SUBSET Keys) \cup {None}]
  /\ toml \in [Pomes -> 0..MaxVersion]
  /\ lock \in LockFile \cup {None}
  /\ \A k \in Keys : dirs[k] # None => Agrees(record, k, dirs[k])
  /\ \A k \in Keys : manifests[k] # None => AgreesManifest(record, k, manifests[k])
  /\ LockAgrees(record, lock) /\ LockClosed(lock)

Inv == Shared /\ cmd \in [Commands -> Process] /\ \A c \in Commands : ProcessInv(record, cmd[c])

-----------------------------------------------------------------------------
(* Records are only added, which keeps what is said with them.             *)
Grows(rec, new) ==
  new \in [Keys -> Contents \cup {None}] /\ \A k \in Keys : rec[k] # None => new[k] = rec[k]

LEMMA LockKeys ==
  ASSUME NEW l \in LockFile, NEW p \in Pomes, l[p] # None
  PROVE  l[p] \in Locked /\ <<p, l[p].version>> \in Keys /\ l[p].content \in Contents
BY DEF LockFile, Locked, Keys

LEMMA AgreesGrows ==
  ASSUME NEW rec, NEW new, Grows(rec, new), NEW k \in Keys
  PROVE  /\ \A x : Agrees(rec, k, x) => Agrees(new, k, x)
         /\ \A m : AgreesManifest(rec, k, m) => AgreesManifest(new, k, m)
BY DEF Grows, Agrees, AgreesManifest

LEMMA LockAgreesGrows ==
  ASSUME NEW rec, NEW new, Grows(rec, new), NEW l \in LockFile \cup {None}, LockAgrees(rec, l)
  PROVE  LockAgrees(new, l)
<1>. SUFFICES ASSUME l # None, NEW p \in Pomes, l[p] # None
              PROVE  Agrees(new, <<p, l[p].version>>, l[p].content)
  BY DEF LockAgrees
<1>1. <<p, l[p].version>> \in Keys
  BY LockKeys
<1>. QED
  BY <1>1, AgreesGrows DEF LockAgrees

LEMMA ProcessInvGrows ==
  ASSUME NEW rec, NEW new, Grows(rec, new), NEW r \in Process, ProcessInv(rec, r)
  PROVE  ProcessInv(new, r)
<1>1. LockAgrees(new, r.lock) /\ LockAgrees(new, r.made)
  BY LockAgreesGrows DEF ProcessInv, Process
<1>2. Compared(new, r)
  <2>1. r.at \in Holding => r.getting.key \in Keys
    BY DEF ProcessInv, Compared, Process, Got
  <2>2. "keep" \in Holding
    BY DEF Holding
  <2>. QED
    BY <2>1, <2>2, AgreesGrows DEF ProcessInv, Compared
<1>3. Walked(new, r)
  <2>1. \A k \in FoundIn(r) : AgreesManifest(new, k, r.found[k])
    BY AgreesGrows DEF ProcessInv, Walked, FoundIn
  <2>. QED
    BY <2>1 DEF ProcessInv, Walked
<1>4. Built(new, r)
  <2>1. ASSUME NEW p \in Pomes, r.lock # None, r.lock[p] # None,
               Agrees(rec, <<p, r.lock[p].version>>, r.used[p])
        PROVE  Agrees(new, <<p, r.lock[p].version>>, r.used[p])
    <3>1. <<p, r.lock[p].version>> \in Keys
      BY <2>1, LockKeys DEF Process
    <3>. QED
      BY <2>1, <3>1, AgreesGrows
  <2>. QED
    BY <2>1 DEF ProcessInv, Built
<1>. QED
  BY <1>1, <1>2, <1>3, <1>4 DEF ProcessInv

(* A step that leaves the cache and the lock alone.                        *)
LEMMA SharedGrows ==
  ASSUME Shared, Grows(record, record'), UNCHANGED <<dirs, manifests, lock>>,
         served' \in [Keys -> (SUBSET Contents) \ {{}}], toml' \in [Pomes -> 0..MaxVersion]
  PROVE  Shared'
<1>1. LockAgrees(record', lock')
  BY LockAgreesGrows DEF Shared
<1>2. \A k \in Keys : dirs'[k] # None => Agrees(record', k, dirs'[k])
  BY AgreesGrows DEF Shared
<1>3. \A k \in Keys : manifests'[k] # None => AgreesManifest(record', k, manifests'[k])
  BY AgreesGrows DEF Shared
<1>4. LockClosed(lock')
  BY DEF Shared
<1>. QED
  BY <1>1, <1>2, <1>3, <1>4 DEF Shared, Grows, LockAgrees, LockClosed, Agrees, AgreesManifest

LEMMA Same == ASSUME Shared, UNCHANGED record PROVE Grows(record, record')
BY DEF Shared, Grows

(* A step of one command.                                                  *)
LEMMA OneCommand ==
  ASSUME Inv, NEW c \in Commands, NEW r \in Process, cmd' = [cmd EXCEPT ![c] = r],
         Grows(record, record'), ProcessInv(record', r), Shared'
  PROVE  Inv'
<1>1. cmd' \in [Commands -> Process]
  BY DEF Inv
<1>2. ASSUME NEW d \in Commands PROVE ProcessInv(record', cmd'[d])
  <2>1. CASE d = c
    BY <2>1 DEF Inv
  <2>2. CASE d # c
    <3>1. cmd'[d] = cmd[d] /\ cmd[d] \in Process /\ ProcessInv(record, cmd[d])
      BY <2>2 DEF Inv
    <3>. QED
      BY <3>1, ProcessInvGrows
  <2>. QED
    BY <2>1, <2>2
<1>3. (\A d \in Commands : ProcessInv(record, cmd[d]))'
  BY <1>2
<1>. QED
  BY <1>1, <1>3 DEF Inv

-----------------------------------------------------------------------------
(* One lemma for each action.                                              *)

LEMMA NoneFacts ==
  /\ None \notin Contents /\ None \notin Locked /\ None \notin Got /\ None \notin LockFile
  /\ None \notin SUBSET Keys
BY NoneAssumption DEF LockFile

LEMMA BlankInv ==
  ASSUME NEW rec, NEW r \in Process, r.at \in {"idle", "open", "done"}, r.lock = None,
         r.made = NoLock, r.getting = None, r.found = [k \in Keys |-> None], r.used = NoLock, r.todo = {}
  PROVE  ProcessInv(rec, r)
<1>1. LockAgrees(rec, r.lock) /\ LockClosed(r.lock) /\ LockAgrees(rec, r.made)
  BY DEF LockAgrees, LockClosed, NoLock
<1>2. Compared(rec, r)
  BY DEF Compared, Holding
<1>3. Walked(rec, r)
  BY DEF Walked, FoundIn, Making, NoLock
<1>4. Built(rec, r)
  BY DEF Built, Building
<1>. QED
  BY <1>1, <1>2, <1>3, <1>4 DEF ProcessInv

LEMMA FreshProcess ==
  /\ Fresh \in Process /\ Fresh.at = "idle" /\ Fresh.lock = None
  /\ Fresh.made = NoLock /\ Fresh.getting = None
  /\ Fresh.found = [k \in Keys |-> None] /\ Fresh.used = NoLock /\ Fresh.todo = {}
<1>1. /\ NoToml \in [Pomes -> 0..MaxVersion] /\ NoLock \in LockFile
      /\ NoLock \in [Pomes -> Contents \cup {None}] /\ <<"install">> \in Operations
  BY StoreAssumption DEF NoToml, NoLock, LockFile, Operations
<1>2. [k \in Keys |-> None] \in [Keys -> (SUBSET Keys) \cup {None}]
  OBVIOUS
<1>. QED
  BY <1>1, <1>2 DEF Fresh, Process, Places

LEMMA FailInv ==
  ASSUME NEW rec
  PROVE  Fresh \in Process /\ ProcessInv(rec, Fresh)
BY FreshProcess, BlankInv

LEMMA DoneInv ==
  ASSUME NEW rec
  PROVE  /\ [Fresh EXCEPT !.at = "done"] \in Process
         /\ ProcessInv(rec, [Fresh EXCEPT !.at = "done"])
<1>. DEFINE r == [Fresh EXCEPT !.at = "done"]
<1>1. r \in Process
  BY FreshProcess DEF Process, Places
<1>2. r.at = "done" /\ r.lock = None /\ r.made = NoLock /\ r.getting = None
      /\ r.found = [k \in Keys |-> None] /\ r.used = NoLock /\ r.todo = {}
  BY FreshProcess DEF Process
<1>. HIDE DEF r
<1>3. ProcessInv(rec, r)
  BY <1>1, <1>2, BlankInv
<1>. QED
  BY <1>1, <1>3 DEF r

LEMMA StartedInv ==
  ASSUME NEW rec, NEW op \in Operations
  PROVE  /\ [Fresh EXCEPT !.at = "open", !.op = op] \in Process
         /\ ProcessInv(rec, [Fresh EXCEPT !.at = "open", !.op = op])
<1>. DEFINE r == [Fresh EXCEPT !.at = "open", !.op = op]
<1>1. r \in Process
  BY FreshProcess DEF Process, Places
<1>2. r.at = "open" /\ r.lock = None /\ r.made = NoLock /\ r.getting = None
      /\ r.found = [k \in Keys |-> None] /\ r.used = NoLock /\ r.todo = {}
  BY FreshProcess DEF Process
<1>. HIDE DEF r
<1>3. ProcessInv(rec, r)
  BY <1>1, <1>2, BlankInv
<1>. QED
  BY <1>1, <1>3 DEF r

LEMMA FailKeeps ==
  ASSUME Inv, NEW c \in Commands, Fail(c), UNCHANGED <<sources, cache, project>>
  PROVE  Inv'
<1>1. Grows(record, record')
  BY Same DEF Inv, sources
<1>2. Shared'
  BY <1>1, SharedGrows DEF Inv, Shared, sources, cache, project
<1>. QED
  BY <1>1, <1>2, FailInv, OneCommand DEF Fail

LEMMA StartKeeps == ASSUME Inv, NEW c \in Commands, Start(c) PROVE Inv'
<1>. PICK op \in Operations : cmd' = [cmd EXCEPT ![c] = [Fresh EXCEPT !.at = "open", !.op = op]]
  BY DEF Start
<1>1. Grows(record, record')
  BY Same DEF Inv, Start, sources
<1>2. Shared'
  BY <1>1, SharedGrows DEF Inv, Shared, Start, sources, cache, project
<1>. QED
  BY <1>1, <1>2, StartedInv, OneCommand

LEMMA ReadTomlKeeps == ASSUME Inv, NEW c \in Commands, ReadToml(c) PROVE Inv'
<1>. DEFINE q == cmd[c]
            r == [q EXCEPT !.at = "opened", !.toml = toml]
<1>1. Grows(record, record')
  BY Same DEF Inv, ReadToml, sources
<1>2. Shared'
  BY <1>1, SharedGrows DEF Inv, Shared, ReadToml, sources, cache, project
<1>3. q \in Process /\ ProcessInv(record', q) /\ q.at = "open"
  BY <1>1, ProcessInvGrows DEF Inv, ReadToml
<1>4. cmd' = [cmd EXCEPT ![c] = r]
  BY DEF ReadToml
<1>5. r \in Process
  BY <1>3 DEF Process, Places, Inv, Shared
<1>6. ProcessInv(record', r)
  BY <1>3 DEF ProcessInv, Compared, Holding, Walked, FoundIn, Making, Built, Building, Process
<1>. QED
  BY <1>1, <1>2, <1>4, <1>5, <1>6, OneCommand

LEMMA EditedToml ==
  ASSUME NEW op \in Operations, NEW t \in [Pomes -> 0..MaxVersion]
  PROVE  Edited(op, t) \in [Pomes -> 0..MaxVersion]
<1>1. CASE op \in {<<o>> : o \in {"install", "update", "build"}}
  BY <1>1, StoreAssumption DEF Edited
<1>2. CASE op \in {<<"add", k>> : k \in Keys}
  BY <1>2, StoreAssumption DEF Edited, Keys, Versions
<1>3. CASE op \in {<<"remove", p>> : p \in Pomes}
  BY <1>3, StoreAssumption DEF Edited
<1>. QED
  BY <1>1, <1>2, <1>3 DEF Operations

LEMMA ReadLockKeeps == ASSUME Inv, NEW c \in Commands, ReadLock(c) PROVE Inv'
<1>. DEFINE q == cmd[c]
            new == Edited(q.op, q.toml)
<1>1. Grows(record, record') /\ UNCHANGED <<sources, cache, project>>
  BY Same DEF Inv, ReadLock, sources
<1>2. Shared'
  BY <1>1, SharedGrows DEF Inv, Shared, sources, cache, project
<1>3. q \in Process /\ ProcessInv(record', q) /\ q.at = "opened"
  BY <1>1, ProcessInvGrows DEF Inv, ReadLock
<1>4. LockAgrees(record', lock) /\ LockClosed(lock) /\ lock \in LockFile \cup {None}
  BY <1>1, LockAgreesGrows DEF Inv, Shared
<1>5. CASE Fail(c)
  BY <1>1, <1>5, FailKeeps
<1>6. new \in [Pomes -> 0..MaxVersion] /\ q.op \in Operations
  BY <1>3, EditedToml DEF Process
<1>7. q.op[1] = "build" => new = q.toml
  BY DEF Edited
<1>. HIDE DEF new
<1>8. ASSUME NEW at \in {"build", "walk"}, at = "build" => new = q.toml,
             cmd' = [cmd EXCEPT ![c].at = at, ![c].lock = lock, ![c].next = new]
      PROVE  Inv'
  <2>. DEFINE r == [q EXCEPT !.at = at, !.lock = lock, !.next = new]
  <2>1. cmd' = [cmd EXCEPT ![c] = r]
    BY <1>8
  <2>2. r \in Process
    BY <1>3, <1>4, <1>6 DEF Process, Places
  <2>3. /\ r.lock = lock /\ r.made = q.made /\ r.used = q.used /\ r.next = new /\ r.toml = q.toml
        /\ r.getting = q.getting /\ r.found = q.found /\ r.at = at /\ r.todo = q.todo
    BY <1>3 DEF Process
  <2>4. q.used = NoLock /\ q.todo = {}
    BY <1>3 DEF ProcessInv, Built, Building
  <2>. HIDE DEF r, q
  <2>5. Compared(record', r) /\ Walked(record', r)
    BY <1>3, <2>3 DEF ProcessInv, Compared, Holding, Walked, FoundIn, Making
  <2>6. Built(record', r)
    BY <1>3, <1>8, <2>3, <2>4 DEF Built, Building, NoLock
  <2>7. ProcessInv(record', r)
    BY <1>3, <1>4, <2>3, <2>5, <2>6 DEF ProcessInv
  <2>. QED
    BY <1>1, <1>2, <2>1, <2>2, <2>7, OneCommand
<1>9. \/ Fail(c)
      \/ q.op[1] = "build" /\ cmd' = [cmd EXCEPT ![c].at = "build", ![c].lock = lock, ![c].next = new]
      \/ cmd' = [cmd EXCEPT ![c].at = "walk", ![c].lock = lock, ![c].next = new]
  BY DEF ReadLock, new
<1>. QED
  BY <1>5, <1>7, <1>8, <1>9

(* A step of no command.                                                   *)
LEMMA NoCommand ==
  ASSUME Inv, Shared', UNCHANGED <<record, cmd>>
  PROVE  Inv'
<1>1. (\A c \in Commands : ProcessInv(record, cmd[c]))'
  BY DEF Inv
<1>. QED
  BY <1>1 DEF Inv

LEMMA MoveTagKeeps == ASSUME Inv, MoveTag PROVE Inv'
<1>. PICK k \in Keys, x \in Contents :
       served' = [served EXCEPT ![k] = IF k[1] \in Private THEN {x} ELSE @ \cup {x}]
  BY DEF MoveTag
<1>1. served' \in [Keys -> (SUBSET Contents) \ {{}}]
  BY DEF Inv, Shared
<1>2. Grows(record, record')
  BY Same DEF Inv, MoveTag
<1>3. Shared'
  BY <1>1, <1>2, SharedGrows DEF Inv, Shared, MoveTag, cache, project
<1>. QED
  BY <1>3, NoCommand DEF MoveTag

LEMMA EditTomlKeeps == ASSUME Inv, EditToml PROVE Inv'
<1>. PICK k \in Keys : toml' = [toml EXCEPT ![k[1]] = k[2]]
  BY DEF EditToml
<1>1. toml' \in [Pomes -> 0..MaxVersion]
  BY DEF Inv, Shared, Keys, Versions
<1>2. Grows(record, record')
  BY Same DEF Inv, EditToml, sources
<1>3. Shared'
  BY <1>1, <1>2, SharedGrows DEF Inv, Shared, EditToml, cache, sources
<1>. QED
  BY <1>3, NoCommand DEF EditToml, sources

(* What was compared with the record is the recorded content from then on. *)
LEMMA CheckedGrows ==
  ASSUME Shared, NEW k \in Keys, NEW same \in SUBSET Contents, Checked(k, same)
  PROVE  /\ Grows(record, record')
         /\ k[1] \notin Private => record'[k] \in same /\ record'[k] # None
<1>1. CASE k[1] \in Private
  BY <1>1, Same DEF Checked
<1>2. CASE k[1] \notin Private
  <2>. PICK x \in same : Lookup(k, x)
    BY <1>2 DEF Checked
  <2>. QED
    BY NoneFacts DEF Lookup, Shared, Grows
<1>. QED
  BY <1>1, <1>2

LEMMA PendingKeys ==
  ASSUME NEW c \in Commands, cmd[c] \in Process
  PROVE  Pending(c) \subseteq Keys
BY DEF Pending, Requirements, Found, Process

(* A manifest that agrees with the record may be added to those found.     *)
LEMMA FoundMore ==
  ASSUME NEW rec, NEW q \in Process, ProcessInv(rec, q), q.at \in {"walk", "keep"},
         NEW k \in Keys, NEW m \in SUBSET Keys, AgreesManifest(rec, k, m),
         NEW r \in Process, r.at = "walk", r.lock = q.lock, r.made = q.made, r.used = q.used,
         r.todo = q.todo, r.getting = None, r.found = [q.found EXCEPT ![k] = m]
  PROVE  ProcessInv(rec, r)
<1>1. Compared(rec, r)
  BY DEF Compared, Holding
<1>2. Walked(rec, r)
  <2>1. \A j \in FoundIn(r) : AgreesManifest(rec, j, r.found[j])
    BY DEF FoundIn, ProcessInv, Walked, Process
  <2>2. r.made = NoLock
    BY DEF ProcessInv, Walked, Making
  <2>. QED
    BY <2>1, <2>2 DEF Walked, Making, NoLock
<1>3. Built(rec, r)
  BY DEF ProcessInv, Built, Building
<1>. QED
  BY <1>1, <1>2, <1>3 DEF ProcessInv

LEMMA CachedManifestKeeps == ASSUME Inv, NEW c \in Commands, CachedManifest(c) PROVE Inv'
<1>. DEFINE q == cmd[c]
<1>1. Grows(record, record') /\ UNCHANGED <<sources, cache, project>>
  BY Same DEF Inv, CachedManifest, sources
<1>2. Shared'
  BY <1>1, SharedGrows DEF Inv, Shared, sources, cache, project
<1>3. q \in Process /\ ProcessInv(record', q) /\ q.at = "walk"
  BY <1>1, ProcessInvGrows DEF Inv, CachedManifest
<1>4. Pending(c) \subseteq Keys
  BY <1>3, PendingKeys
<1>5. CASE Fail(c)
  BY <1>1, <1>5, FailKeeps
<1>6. ASSUME NEW k \in Keys, NEW m, m = manifests[k], m # None,
             cmd' = [cmd EXCEPT ![c].found[k] = m]
      PROVE  Inv'
  <2>. DEFINE r == [q EXCEPT !.found = [q.found EXCEPT ![k] = m]]
  <2>1. cmd' = [cmd EXCEPT ![c] = r]
    BY <1>6
  <2>2. m \in SUBSET Keys /\ AgreesManifest(record', k, m)
    BY <1>1, <1>6, AgreesGrows DEF Inv, Shared
  <2>3. r \in Process
    BY <1>3, <2>2 DEF Process
  <2>4. /\ r.at = "walk" /\ r.lock = q.lock /\ r.made = q.made /\ r.used = q.used
        /\ r.todo = q.todo
        /\ r.getting = q.getting /\ r.found = [q.found EXCEPT ![k] = m]
    BY <1>3 DEF Process
  <2>5. q.getting = None
    BY <1>3 DEF ProcessInv, Compared, Holding
  <2>. HIDE DEF q, r
  <2>6. ProcessInv(record', r)
    BY <1>3, <2>2, <2>3, <2>4, <2>5, FoundMore
  <2>. QED
    BY <1>1, <1>2, <2>1, <2>3, <2>6, OneCommand
<1>7. Fail(c) \/ \E k \in Pending(c) : manifests[k] # None /\ cmd' = [cmd EXCEPT ![c].found[k] = manifests[k]]
  BY DEF CachedManifest
<1>. QED
  BY <1>4, <1>5, <1>6, <1>7

(* A command that begins to get a version holds something that agrees.     *)
LEMMA FetchManifestKeeps == ASSUME Inv, NEW c \in Commands, FetchManifest(c) PROVE Inv'
<1>. DEFINE q == cmd[c]
<1>1. q \in Process /\ ProcessInv(record, q) /\ q.at = "walk" /\ Pending(c) \subseteq Keys
  BY PendingKeys DEF Inv, FetchManifest
<1>2. PICK k \in Keys : \E x \in served[k] :
        /\ IF IsLocked(q.lock, k)
           THEN Manifest[k][x] = Manifest[k][q.lock[k[1]].content] /\ UNCHANGED record
           ELSE Checked(k, {y \in Contents : Manifest[k][y] = Manifest[k][x]})
        /\ cmd' = [cmd EXCEPT ![c].at = "keep", ![c].getting = [key |-> k, content |-> x]]
  BY <1>1 DEF FetchManifest
<1>3. PICK x \in served[k] :
        /\ IF IsLocked(q.lock, k)
           THEN Manifest[k][x] = Manifest[k][q.lock[k[1]].content] /\ UNCHANGED record
           ELSE Checked(k, {y \in Contents : Manifest[k][y] = Manifest[k][x]})
        /\ cmd' = [cmd EXCEPT ![c].at = "keep", ![c].getting = [key |-> k, content |-> x]]
  BY <1>2
<1>. DEFINE r == [q EXCEPT !.at = "keep", !.getting = [key |-> k, content |-> x]]
<1>4. cmd' = [cmd EXCEPT ![c] = r]
  BY <1>3
<1>5. x \in Contents
  BY <1>2 DEF Inv, Shared
<1>6. Grows(record, record') /\ AgreesManifest(record', k, Manifest[k][x])
  <2>1. CASE IsLocked(q.lock, k)
    <3>1. q.lock \in LockFile /\ q.lock[k[1]] # None /\ <<k[1], q.lock[k[1]].version>> = k
      BY <1>1, <1>2, <2>1 DEF IsLocked, Process, Keys
    <3>2. Agrees(record, k, q.lock[k[1]].content) /\ UNCHANGED record
      BY <1>1, <1>2, <1>3, <2>1, <3>1, NoneFacts DEF ProcessInv, LockAgrees, Keys
    <3>. QED
      BY <1>3, <1>5, <2>1, <3>2, Same DEF Inv, Agrees, AgreesManifest, SomeManifest
  <2>2. CASE ~IsLocked(q.lock, k)
    BY <1>2, <1>3, <1>5, <2>2, CheckedGrows DEF Inv, AgreesManifest, SomeManifest
  <2>. QED
    BY <2>1, <2>2
<1>7. Shared'
  BY <1>6, SharedGrows DEF Inv, Shared, FetchManifest, cache, project
<1>8. r \in Process
  BY <1>1, <1>2, <1>5 DEF Process, Places, Holding, Got
<1>9. ProcessInv(record', q)
  BY <1>1, <1>6, ProcessInvGrows
<1>10. /\ r.at = "keep" /\ r.lock = q.lock /\ r.made = q.made /\ r.used = q.used
       /\ r.todo = q.todo
       /\ r.getting = [key |-> k, content |-> x] /\ r.found = q.found
  BY <1>1 DEF Process
<1>. HIDE DEF r, q
<1>11. Compared(record', r)
  BY <1>2, <1>5, <1>6, <1>10, NoneFacts DEF Compared, Holding, Got
<1>12. Walked(record', r) /\ Built(record', r)
  BY <1>1, <1>9, <1>10 DEF ProcessInv, Walked, FoundIn, Making, Built, Building
<1>13. ProcessInv(record', r)
  BY <1>9, <1>10, <1>11, <1>12 DEF ProcessInv
<1>. QED
  BY <1>4, <1>6, <1>7, <1>8, <1>13, OneCommand

(* A version that was got may be put in the lock that is made.             *)
LEMMA MadeMore ==
  ASSUME NEW rec, NEW q \in Process, ProcessInv(rec, q), q.at \in {"get", "keepnew"},
         NEW k \in Largest(FoundIn(q)), NEW e \in Locked, e.version = k[2],
         Agrees(rec, k, e.content),
         NEW r \in Process, r.at = "get", r.lock = q.lock, r.used = q.used,
         r.todo = q.todo, r.getting = None, r.found = q.found, r.made = [q.made EXCEPT ![k[1]] = e]
  PROVE  ProcessInv(rec, r)
<1>1. k \in Keys /\ k = <<k[1], k[2]>> /\ k[1] \in Pomes /\ FoundIn(r) = FoundIn(q)
  BY DEF Largest, FoundIn, Keys
<1>2. Compared(rec, r)
  BY DEF Compared, Holding
<1>3. Built(rec, r)
  BY DEF ProcessInv, Built, Building
<1>4. ASSUME NEW p \in Pomes, r.made[p] # None
      PROVE  /\ Agrees(rec, <<p, r.made[p].version>>, r.made[p].content)
             /\ <<p, r.made[p].version>> \in Largest(FoundIn(r))
  <2>1. q.made \in LockFile
    BY DEF Process
  <2>2. CASE p = k[1]
    BY <1>1, <2>1, <2>2 DEF LockFile
  <2>3. CASE p # k[1]
    <3>1. r.made[p] = q.made[p]
      BY <1>1, <2>1, <2>3 DEF LockFile
    <3>2. q.made # None
      BY <2>1, NoneFacts
    <3>. QED
      BY <1>1, <1>4, <3>1, <3>2 DEF ProcessInv, LockAgrees, Walked
  <2>. QED
    BY <2>2, <2>3
<1>5. LockAgrees(rec, r.made)
  BY <1>4 DEF LockAgrees
<1>6. Walked(rec, r)
  BY <1>1, <1>4 DEF ProcessInv, Walked, Making
<1>. QED
  BY <1>2, <1>3, <1>5, <1>6 DEF ProcessInv

LEMMA KeepManifestKeeps == ASSUME Inv, NEW c \in Commands, KeepManifest(c) PROVE Inv'
<1>. DEFINE q == cmd[c]
            g == q.getting
            k == g.key
            m == Manifest[k][g.content]
            e == [version |-> k[2], content |-> g.content]
            walk == [q EXCEPT !.at = "walk", !.found = [q.found EXCEPT ![k] = m],
                              !.getting = None]
            get == [q EXCEPT !.at = "get", !.getting = None,
                             !.made = [q.made EXCEPT ![k[1]] = e]]
<1>1. q \in Process /\ ProcessInv(record, q) /\ q.at \in {"keep", "keepnew"}
  BY DEF Inv, KeepManifest
<1>2. g \in Got
  BY <1>1 DEF Process, ProcessInv, Compared, Holding
<1>3. k \in Keys /\ g.content \in Contents /\ m \in SUBSET Keys
  BY <1>2, StoreAssumption DEF Got
<1>4. AgreesManifest(record, k, m)
  BY <1>1, <1>3 DEF ProcessInv, Compared, Holding, Agrees, AgreesManifest, SomeManifest
<1>5. Grows(record, record') /\ record' = record /\ manifests' = [manifests EXCEPT ![k] = m]
  BY Same DEF Inv, KeepManifest, sources
<1>. HIDE DEF m
<1>6. Shared'
  <2>1. manifests' \in [Keys -> (SUBSET Keys) \cup {None}]
    BY <1>3, <1>5 DEF Inv, Shared
  <2>2. ASSUME NEW j \in Keys, manifests'[j] # None
        PROVE  AgreesManifest(record', j, manifests'[j])
    BY <1>3, <1>4, <1>5, <2>2 DEF Inv, Shared
  <2>3. UNCHANGED <<served, record, dirs, toml, lock>>
    BY DEF KeepManifest, sources, project
  <2>4. (\A j \in Keys : manifests[j] # None => AgreesManifest(record, j, manifests[j]))'
    BY <2>2
  <2>. QED
    BY <2>1, <2>3, <2>4 DEF Inv, Shared, LockAgrees, LockClosed, Agrees
<1>7. CASE q.at = "keep" /\ cmd' = [cmd EXCEPT ![c] = walk]
  <2>1. walk \in Process
    BY <1>1, <1>3 DEF Process, Places
  <2>2. /\ walk.at = "walk" /\ walk.lock = q.lock /\ walk.made = q.made /\ walk.used = q.used
        /\ walk.todo = q.todo
        /\ walk.getting = None /\ walk.found = [q.found EXCEPT ![k] = m]
    BY <1>1 DEF Process
  <2>. HIDE DEF walk, q, k
  <2>3. ProcessInv(record', walk)
    BY <1>1, <1>3, <1>4, <1>5, <1>7, <2>1, <2>2, FoundMore
  <2>. QED
    BY <1>5, <1>6, <1>7, <2>1, <2>3, OneCommand
<1>8. CASE q.at = "keepnew" /\ cmd' = [cmd EXCEPT ![c] = get]
  <2>1. k[1] \in Pomes /\ e \in Locked /\ e.version = k[2] /\ e.content = g.content
    BY <1>3 DEF Keys, Locked
  <2>2. k \in Largest(FoundIn(q)) /\ Agrees(record, k, e.content)
    BY <1>1, <1>8, <2>1 DEF ProcessInv, Walked, Compared, Holding
  <2>3. get \in Process
    BY <1>1, <2>1 DEF Process, Places, LockFile
  <2>4. /\ get.at = "get" /\ get.lock = q.lock /\ get.used = q.used
        /\ get.todo = q.todo /\ get.getting = None
        /\ get.found = q.found /\ get.made = [q.made EXCEPT ![k[1]] = e]
    BY <1>1 DEF Process
  <2>. HIDE DEF get, q, k, e
  <2>5. ProcessInv(record', get)
    BY <1>1, <1>5, <1>8, <2>1, <2>2, <2>3, <2>4, MadeMore
  <2>. QED
    BY <1>5, <1>6, <1>8, <2>3, <2>5, OneCommand
<1>9. CASE q.at = "keep"
  <2>1. cmd' = [cmd EXCEPT ![c].at = "walk", ![c].found[k] = m, ![c].getting = None]
    BY <1>9 DEF KeepManifest, m
  <2>2. cmd' = [cmd EXCEPT ![c] = walk]
    BY <2>1
  <2>. QED
    BY <1>7, <1>9, <2>2
<1>10. CASE q.at = "keepnew"
  <2>1. cmd' = [cmd EXCEPT ![c].at = "get", ![c].getting = None, ![c].made[k[1]] = e]
    BY <1>10 DEF KeepManifest
  <2>2. cmd' = [cmd EXCEPT ![c] = get]
    BY <2>1
  <2>. QED
    BY <1>8, <1>10, <2>2
<1>. QED
  BY <1>1, <1>9, <1>10

LEMMA EndWalkKeeps == ASSUME Inv, NEW c \in Commands, EndWalk(c) PROVE Inv'
<1>. DEFINE q == cmd[c]
            r == [q EXCEPT !.at = "get"]
<1>1. Grows(record, record') /\ UNCHANGED <<sources, cache, project>>
  BY Same DEF Inv, EndWalk, sources
<1>2. Shared'
  BY <1>1, SharedGrows DEF Inv, Shared, sources, cache, project
<1>3. q \in Process /\ ProcessInv(record', q) /\ q.at = "walk"
  BY <1>1, ProcessInvGrows DEF Inv, EndWalk
<1>4. cmd' = [cmd EXCEPT ![c] = r]
  BY DEF EndWalk, Goto
<1>5. r \in Process
  BY <1>3 DEF Process, Places
<1>6. /\ r.at = "get" /\ r.lock = q.lock /\ r.made = q.made /\ r.used = q.used
      /\ r.todo = q.todo
      /\ r.getting = q.getting /\ r.found = q.found
  BY <1>3 DEF Process
<1>7. \A k \in FoundIn(q) : q.found[k] \subseteq FoundIn(q)
  <2>1. FoundIn(q) = Found(c)
    BY DEF FoundIn, Found
  <2>2. UNION {q.found[k] : k \in FoundIn(q)} \subseteq FoundIn(q)
    BY <2>1 DEF EndWalk, Pending
  <2>. QED
    BY <2>2
<1>. HIDE DEF r, q
<1>8. Compared(record', r) /\ Built(record', r)
  BY <1>3, <1>6 DEF ProcessInv, Compared, Holding, Built, Building, Making
<1>9. Walked(record', r)
  BY <1>3, <1>6, <1>7 DEF ProcessInv, Walked, FoundIn, Making, NoLock
<1>10. ProcessInv(record', r)
  BY <1>3, <1>6, <1>8, <1>9 DEF ProcessInv
<1>. QED
  BY <1>1, <1>2, <1>4, <1>5, <1>10, OneCommand

LEMMA MissingKeys ==
  ASSUME NEW c \in Commands
  PROVE  Missing(c) \subseteq Largest(FoundIn(cmd[c])) /\ Missing(c) \subseteq Keys
BY DEF Missing, Largest, FoundIn, Found

(* A step that only moves a command on, and what it holds.                 *)
LEMMA Moves ==
  ASSUME NEW rec, NEW q \in Process, ProcessInv(rec, q), NEW r \in Process,
         r.lock = q.lock, r.made = q.made, r.used = q.used, r.found = q.found,
         r.toml = q.toml, r.next = q.next, r.todo = q.todo, Compared(rec, r),
         \/ q.at \in Making /\ r.at \in Making \ {"written"}
            /\ (r.at \in {"storenew", "renamenew", "keepnew"} =>
                  r.getting.key \in Largest(FoundIn(q)))
         \/ q.at \in Building /\ r.at \in Building
  PROVE  ProcessInv(rec, r)
<1>1. CASE q.at \in Making
  BY <1>1 DEF ProcessInv, Walked, FoundIn, Making, Built, Building
<1>2. CASE q.at \in Building
  BY <1>2 DEF ProcessInv, Walked, FoundIn, Making, Built, Building
<1>. QED
  BY <1>1, <1>2

(* ensure, of a version in the lock that was read.                         *)
LEMMA EnsureKeeps ==
  ASSUME Inv, NEW c \in Commands, NEW k \in Keys, IsLocked(cmd[c].lock, k), NEW then,
         <<cmd[c].at, then>> \in {<<"get", "store">>, <<"build", "storebuild">>},
         Ensure(c, k, then), UNCHANGED <<cache, project>>
  PROVE  Inv'
<1>. DEFINE q == cmd[c]
<1>1. q \in Process /\ ProcessInv(record, q)
  BY DEF Inv
<1>2. PICK x \in served[k] :
        /\ x = q.lock[k[1]].content
        /\ cmd' = [cmd EXCEPT ![c].at = then, ![c].getting = [key |-> k, content |-> x]]
  BY DEF Ensure
<1>. DEFINE r == [q EXCEPT !.at = then, !.getting = [key |-> k, content |-> x]]
<1>3. cmd' = [cmd EXCEPT ![c] = r]
  BY <1>2
<1>4. x \in Contents
  BY <1>2 DEF Inv, Shared
<1>5. Grows(record, record') /\ record' = record
  BY Same DEF Inv, Ensure
<1>6. Shared'
  BY <1>5, SharedGrows DEF Inv, Shared, Ensure, cache, project
<1>7. Agrees(record, k, x)
  <2>1. q.lock \in LockFile /\ q.lock[k[1]] # None /\ <<k[1], q.lock[k[1]].version>> = k
        /\ k[1] \in Pomes
    BY <1>1 DEF IsLocked, Process, Keys
  <2>. QED
    BY <1>1, <1>2, <2>1, NoneFacts DEF ProcessInv, LockAgrees
<1>8. r \in Process
  BY <1>1, <1>4 DEF Process, Places, Holding, Got
<1>9. /\ r.at = then /\ r.lock = q.lock /\ r.made = q.made /\ r.used = q.used
      /\ r.found = q.found /\ r.toml = q.toml /\ r.todo = q.todo
      /\ r.next = q.next
      /\ r.getting = [key |-> k, content |-> x]
  BY <1>1 DEF Process
<1>10. <<q.at, then>> \in {<<"get", "store">>, <<"build", "storebuild">>}
  OBVIOUS
<1>. HIDE DEF r, q
<1>11. Compared(record, r)
  BY <1>4, <1>7, <1>9, <1>10, NoneFacts DEF Compared, Holding, Got
<1>12. ProcessInv(record', r)
  BY <1>1, <1>5, <1>8, <1>9, <1>10, <1>11, Moves DEF Making, Building
<1>. QED
  BY <1>3, <1>5, <1>6, <1>8, <1>12, OneCommand

LEMMA KeepLockedKeeps == ASSUME Inv, NEW c \in Commands, KeepLocked(c) PROVE Inv'
<1>. DEFINE q == cmd[c]
<1>1. q \in Process /\ ProcessInv(record, q) /\ q.at = "get"
  BY DEF Inv, KeepLocked
<1>2. PICK k \in Missing(c) :
        /\ IsLocked(q.lock, k)
        /\ \/ cmd' = [cmd EXCEPT ![c].made[k[1]] = q.lock[k[1]]] /\ UNCHANGED <<served, record>>
           \/ Ensure(c, k, "store")
  BY DEF KeepLocked
<1>. DEFINE e == q.lock[k[1]]
            r == [q EXCEPT !.made = [q.made EXCEPT ![k[1]] = e]]
<1>9. k \in Keys /\ k \in Largest(FoundIn(q))
  BY MissingKeys
<1>3. CASE Ensure(c, k, "store")
  <2>1. UNCHANGED <<cache, project>>
    BY DEF KeepLocked
  <2>2. <<q.at, "store">> \in {<<"get", "store">>, <<"build", "storebuild">>}
    BY <1>1
  <2>. QED
    BY <1>2, <1>3, <1>9, <2>1, <2>2, EnsureKeeps
<1>4. CASE cmd' = [cmd EXCEPT ![c].made[k[1]] = e] /\ UNCHANGED <<served, record>>
  <2>1. cmd' = [cmd EXCEPT ![c] = r]
    BY <1>4
  <2>2. Grows(record, record') /\ record' = record
    BY <1>4, Same DEF Inv
  <2>3. Shared'
    BY <1>4, <2>2, SharedGrows DEF Inv, Shared, KeepLocked, cache, project
  <2>4. /\ q.lock \in LockFile /\ e \in Locked /\ <<k[1], e.version>> = k /\ e.version = k[2]
        /\ k[1] \in Pomes
    BY <1>1, <1>2, <1>9 DEF IsLocked, Process, Keys, LockFile
  <2>5. Agrees(record, k, e.content)
    BY <1>1, <2>4, NoneFacts DEF ProcessInv, LockAgrees
  <2>6. r \in Process
    BY <1>1, <2>4 DEF Process, LockFile
  <2>7. /\ r.at = "get" /\ r.lock = q.lock /\ r.used = q.used
        /\ r.todo = q.todo /\ r.getting = q.getting
        /\ r.found = q.found /\ r.made = [q.made EXCEPT ![k[1]] = e]
    BY <1>1 DEF Process
  <2>8. q.getting = None
    BY <1>1 DEF ProcessInv, Compared, Holding
  <2>. HIDE DEF r, q, e
  <2>9. ProcessInv(record', r)
    BY <1>1, <1>9, <2>2, <2>4, <2>5, <2>6, <2>7, <2>8, MadeMore
  <2>. QED
    BY <2>1, <2>2, <2>3, <2>6, <2>9, OneCommand
<1>. QED
  BY <1>2, <1>3, <1>4

LEMMA DownloadKeeps == ASSUME Inv, NEW c \in Commands, Download(c) PROVE Inv'
<1>. DEFINE q == cmd[c]
<1>1. q \in Process /\ ProcessInv(record, q) /\ q.at = "get"
  BY DEF Inv, Download
<1>12. PICK k \in Missing(c) : \E x \in served[k] :
        /\ Checked(k, {x})
        /\ cmd' = [cmd EXCEPT ![c].at = "storenew", ![c].getting = [key |-> k, content |-> x]]
  BY DEF Download
<1>2. PICK x \in served[k] :
        /\ Checked(k, {x})
        /\ cmd' = [cmd EXCEPT ![c].at = "storenew", ![c].getting = [key |-> k, content |-> x]]
  BY <1>12
<1>3. k \in Keys /\ k \in Largest(FoundIn(q))
  BY MissingKeys
<1>. DEFINE r == [q EXCEPT !.at = "storenew", !.getting = [key |-> k, content |-> x]]
<1>4. cmd' = [cmd EXCEPT ![c] = r]
  BY <1>2
<1>5. x \in Contents
  BY <1>3 DEF Inv, Shared
<1>6. Grows(record, record') /\ Agrees(record', k, x)
  BY <1>2, <1>3, <1>5, CheckedGrows DEF Inv, Agrees
<1>7. Shared'
  BY <1>6, SharedGrows DEF Inv, Shared, Download, cache, project
<1>8. r \in Process
  BY <1>1, <1>3, <1>5 DEF Process, Places, Holding, Got
<1>9. ProcessInv(record', q)
  BY <1>1, <1>6, ProcessInvGrows
<1>10. /\ r.at = "storenew" /\ r.lock = q.lock /\ r.made = q.made /\ r.used = q.used
       /\ r.found = q.found /\ r.toml = q.toml /\ r.todo = q.todo
       /\ r.next = q.next
       /\ r.getting = [key |-> k, content |-> x]
  BY <1>1 DEF Process
<1>. HIDE DEF r, q
<1>11. Compared(record', r)
  BY <1>3, <1>5, <1>6, <1>10, NoneFacts DEF Compared, Holding, Got
<1>13. ProcessInv(record', r)
  BY <1>1, <1>3, <1>8, <1>9, <1>10, <1>11, Moves DEF Making
<1>. QED
  BY <1>4, <1>6, <1>7, <1>8, <1>13, OneCommand

Storing == {"store", "storenew", "storebuild"}
Renaming == {"rename", "renamenew", "renamebuild"}

LEMMA PutEndsKeeps ==
  ASSUME Inv, NEW c \in Commands, cmd[c].at \in Storing \cup Renaming, PutEnds(c), Shared',
         UNCHANGED record
  PROVE  Inv'
<1>. DEFINE q == cmd[c]
            keepnew == [q EXCEPT !.at = "keepnew"]
            get == [q EXCEPT !.at = "get", !.getting = None]
            build == [q EXCEPT !.at = "build", !.getting = None]
<1>1. q \in Process /\ ProcessInv(record, q) /\ q.at \in Storing \cup Renaming
      /\ q.at \in {"storenew", "renamenew", "store", "rename", "storebuild", "renamebuild"}
  BY DEF Inv, Storing, Renaming
<1>2. Grows(record, record') /\ record' = record /\ Shared'
  BY Same DEF Inv
<1>4. CASE q.at \in {"storenew", "renamenew"}
  <2>1. cmd' = [cmd EXCEPT ![c] = keepnew]
    BY <1>4 DEF PutEnds, Goto
  <2>2. keepnew \in Process
    BY <1>1 DEF Process, Places, Holding
  <2>3. /\ keepnew.at = "keepnew" /\ keepnew.lock = q.lock /\ keepnew.made = q.made
        /\ keepnew.used = q.used /\ keepnew.found = q.found /\ keepnew.toml = q.toml
        /\ keepnew.todo = q.todo /\ keepnew.next = q.next /\ keepnew.getting = q.getting
    BY <1>1 DEF Process
  <2>4. q.getting.key \in Largest(FoundIn(q))
    BY <1>1, <1>4 DEF ProcessInv, Walked
  <2>. HIDE DEF keepnew, q
  <2>5. Compared(record, keepnew)
    BY <1>1, <1>4, <2>3 DEF ProcessInv, Compared, Holding
  <2>6. ProcessInv(record', keepnew)
    BY <1>1, <1>2, <1>4, <2>2, <2>3, <2>4, <2>5, Moves DEF Making
  <2>. QED
    BY <1>2, <2>1, <2>2, <2>6, OneCommand
<1>5. CASE q.at \in {"store", "rename"}
  <2>1. cmd' = [cmd EXCEPT ![c] = get]
    <3>1. cmd' = [cmd EXCEPT ![c].at = "get", ![c].getting = None]
      BY <1>5 DEF PutEnds
    <3>. QED
      BY <3>1
  <2>2. get \in Process
    BY <1>1 DEF Process, Places
  <2>3. /\ get.at = "get" /\ get.lock = q.lock /\ get.made = q.made
        /\ get.used = q.used /\ get.found = q.found /\ get.toml = q.toml
        /\ get.todo = q.todo /\ get.next = q.next /\ get.getting = None
    BY <1>1 DEF Process
  <2>. HIDE DEF get, q
  <2>4. Compared(record, get)
    BY <2>3 DEF Compared, Holding
  <2>5. ProcessInv(record', get)
    BY <1>1, <1>2, <1>5, <2>2, <2>3, <2>4, Moves DEF Making
  <2>. QED
    BY <1>2, <2>1, <2>2, <2>5, OneCommand
<1>6. CASE q.at \in {"storebuild", "renamebuild"}
  <2>1. cmd' = [cmd EXCEPT ![c] = build]
    <3>1. cmd' = [cmd EXCEPT ![c].at = "build", ![c].getting = None]
      BY <1>1, <1>6 DEF PutEnds
    <3>. QED
      BY <3>1
  <2>2. build \in Process
    BY <1>1 DEF Process, Places
  <2>3. /\ build.at = "build" /\ build.lock = q.lock /\ build.made = q.made
        /\ build.used = q.used /\ build.found = q.found /\ build.toml = q.toml
        /\ build.todo = q.todo /\ build.next = q.next /\ build.getting = None
    BY <1>1 DEF Process
  <2>. HIDE DEF build, q
  <2>4. Compared(record, build)
    BY <2>3 DEF Compared, Holding
  <2>5. ProcessInv(record', build)
    BY <1>1, <1>2, <1>6, <2>2, <2>3, <2>4, Moves DEF Building
  <2>. QED
    BY <1>2, <2>1, <2>2, <2>5, OneCommand
<1>. QED
  BY <1>1, <1>4, <1>5, <1>6

LEMMA FindDirKeeps == ASSUME Inv, NEW c \in Commands, FindDir(c) PROVE Inv'
<1>. DEFINE q == cmd[c]
<1>1. q \in Process /\ ProcessInv(record, q) /\ q.at \in Storing /\ UNCHANGED <<sources, cache, project>>
  BY DEF Inv, FindDir, Storing
<1>2. Grows(record, record') /\ record' = record
  BY <1>1, Same DEF Inv, sources
<1>3. Shared'
  BY <1>1, <1>2, SharedGrows DEF Inv, Shared, sources, cache, project
<1>4. CASE PutEnds(c)
  BY <1>1, <1>2, <1>3, <1>4, PutEndsKeeps
<1>5. ASSUME NEW at, <<q.at, at>> \in {<<"store", "rename">>, <<"storenew", "renamenew">>,
                                       <<"storebuild", "renamebuild">>}, Goto(c, at)
      PROVE  Inv'
  <2>. DEFINE r == [q EXCEPT !.at = at]
  <2>1. cmd' = [cmd EXCEPT ![c] = r]
    BY <1>5 DEF Goto
  <2>2. r \in Process
    BY <1>1, <1>5 DEF Process, Places, Holding
  <2>3. /\ r.at = at /\ r.lock = q.lock /\ r.made = q.made /\ r.used = q.used /\ r.found = q.found
        /\ r.toml = q.toml /\ r.todo = q.todo /\ r.next = q.next /\ r.getting = q.getting
    BY <1>1 DEF Process
  <2>4. <<q.at, at>> \in {<<"store", "rename">>, <<"storenew", "renamenew">>,
                          <<"storebuild", "renamebuild">>}
    BY <1>5
  <2>. HIDE DEF r, q
  <2>5. Compared(record, r)
    BY <1>1, <2>3, <2>4 DEF ProcessInv, Compared, Holding
  <2>6. at = "renamenew" => q.getting.key \in Largest(FoundIn(q))
    BY <1>1, <2>4 DEF ProcessInv, Walked
  <2>7. ProcessInv(record', r)
    BY <1>1, <1>2, <2>2, <2>3, <2>4, <2>5, <2>6, Moves DEF Making, Building
  <2>. QED
    BY <1>2, <1>3, <2>1, <2>2, <2>7, OneCommand
<1>6. \/ PutEnds(c)
      \/ \E at : <<q.at, at>> \in {<<"store", "rename">>, <<"storenew", "renamenew">>,
                                   <<"storebuild", "renamebuild">>} /\ Goto(c, at)
  BY <1>1 DEF FindDir, Storing
<1>. QED
  BY <1>4, <1>5, <1>6

LEMMA RenameDirKeeps == ASSUME Inv, NEW c \in Commands, RenameDir(c) PROVE Inv'
<1>. DEFINE q == cmd[c]
            g == q.getting
<1>1. q \in Process /\ ProcessInv(record, q) /\ q.at \in Renaming
  BY DEF Inv, RenameDir, Renaming
<1>2. g \in Got /\ Agrees(record, g.key, g.content)
  BY <1>1 DEF Process, ProcessInv, Compared, Holding, Renaming
<1>3. g.key \in Keys /\ g.content \in Contents
  BY <1>2 DEF Got
<1>4. record' = record
  BY DEF RenameDir, sources
<1>5. Shared'
  <2>1. dirs' = [dirs EXCEPT ![g.key] = g.content] \/ dirs' = dirs
    BY DEF RenameDir, Renamed
  <2>2. dirs' \in [Keys -> Contents \cup {None}]
    BY <1>3, <2>1 DEF Inv, Shared
  <2>3. ASSUME NEW k \in Keys, dirs'[k] # None PROVE Agrees(record', k, dirs'[k])
    BY <1>2, <1>3, <1>4, <2>1, <2>3 DEF Inv, Shared
  <2>4. (\A k \in Keys : dirs[k] # None => Agrees(record, k, dirs[k]))'
    BY <2>3
  <2>5. UNCHANGED <<served, record, manifests, toml, lock>>
    BY DEF RenameDir, sources, project
  <2>. QED
    BY <2>2, <2>4, <2>5 DEF Inv, Shared, LockAgrees, LockClosed, Agrees, AgreesManifest
<1>. QED
  BY <1>1, <1>4, <1>5, PutEndsKeeps DEF RenameDir

(* Every key has a largest one of its Pome.                                *)
LEMMA LargestExists ==
  ASSUME NEW S \in SUBSET Keys, NEW j \in S
  PROVE  \E k \in Largest(S) : k[1] = j[1]
<1>. DEFINE Below == {n \in Nat : \E v \in Versions : <<j[1], v>> \in S /\ n = MaxVersion - v}
<1>1. \A v \in Versions : MaxVersion - v \in Nat
  BY StoreAssumption DEF Versions
<1>2. MaxVersion - j[2] \in Below
  <2>1. j[2] \in Versions /\ j = <<j[1], j[2]>>
    BY DEF Keys
  <2>. QED
    BY <1>1, <2>1
<1>3. PICK n \in Below : \A m \in Below : ~(<<m, n>> \in OpToRel(<, Nat))
  BY <1>2, NatLessThanWellFounded, WFMin
<1>4. ASSUME NEW m \in Below PROVE n <= m
  <2>1. m \in Nat /\ n \in Nat
    OBVIOUS
  <2>2. m < n => <<m, n>> \in OpToRel(<, Nat)
    BY ONLY <2>1 DEF OpToRel
  <2>3. ~(m < n)
    BY <1>3, <2>2
  <2>. QED
    BY ONLY <2>1, <2>3
<1>5. PICK v \in Versions : <<j[1], v>> \in S /\ n = MaxVersion - v
  BY <1>3
<1>6. ASSUME NEW k \in S, k[1] = j[1] PROVE k[2] <= v
  <2>1. k[2] \in Versions /\ <<j[1], k[2]>> \in S
    BY <1>6 DEF Keys
  <2>2. MaxVersion - k[2] \in Below
    BY <1>1, <2>1
  <2>. QED
    BY <1>4, <1>5, <2>1, <2>2, StoreAssumption, SMTT(30) DEF Versions
<1>. QED
  BY <1>5, <1>6 DEF Largest

LEMMA WriteTomlKeeps == ASSUME Inv, NEW c \in Commands, WriteToml(c) PROVE Inv'
<1>. DEFINE q == cmd[c]
            r == [q EXCEPT !.at = "written"]
<1>1. q \in Process /\ ProcessInv(record, q) /\ q.at = "get"
  BY DEF Inv, WriteToml
<1>2. Grows(record, record') /\ record' = record
  BY Same DEF Inv, WriteToml, sources
<1>3. Shared'
  <2>1. toml' \in [Pomes -> 0..MaxVersion]
    BY <1>1 DEF WriteToml, Process, Inv, Shared
  <2>. QED
    BY <1>2, <2>1, SharedGrows DEF Inv, Shared, WriteToml, sources, cache
<1>4. cmd' = [cmd EXCEPT ![c] = r]
  BY DEF WriteToml, Goto
<1>5. r \in Process
  BY <1>1 DEF Process, Places
<1>6. /\ r.at = "written" /\ r.lock = q.lock /\ r.made = q.made /\ r.used = q.used
      /\ r.todo = q.todo
      /\ r.getting = q.getting /\ r.found = q.found
  BY <1>1 DEF Process
<1>7. \A k \in Largest(FoundIn(q)) : q.made[k[1]] # None
  BY DEF WriteToml, Missing, Found, FoundIn
<1>. HIDE DEF r, q
<1>8. Compared(record, r) /\ Built(record, r)
  BY <1>1, <1>6 DEF ProcessInv, Compared, Holding, Built, Building, Making
<1>9. Walked(record, r)
  BY <1>1, <1>6, <1>7 DEF ProcessInv, Walked, FoundIn, Making
<1>10. ProcessInv(record', r)
  BY <1>1, <1>2, <1>6, <1>8, <1>9 DEF ProcessInv
<1>. QED
  BY <1>2, <1>3, <1>4, <1>5, <1>10, OneCommand

(* The lock that is written meets what the fixed versions in it            *)
(* require: their manifests were walked, and of each Pome it has the       *)
(* largest version that was found.                                         *)
LEMMA MadeClosed ==
  ASSUME NEW rec, NEW q \in Process, ProcessInv(rec, q), q.at = "written"
  PROVE  LockClosed(q.made)
<1>. SUFFICES ASSUME NEW p \in Pomes, q.made[p] # None, Fixed(<<p, q.made[p].version>>),
                     NEW k \in Manifest[<<p, q.made[p].version>>][q.made[p].content]
              PROVE  q.made[k[1]] # None /\ q.made[k[1]].version >= k[2]
  BY DEF LockClosed
<1>. DEFINE j == <<p, q.made[p].version>>
            S == FoundIn(q)
<1>1. q.made \in LockFile /\ q.made # None
  BY NoneFacts DEF Process
<1>2. j \in Keys /\ j[1] = p /\ q.made[p].content \in Contents
  BY <1>1, LockKeys
<1>3. Agrees(rec, j, q.made[p].content) /\ j \in Largest(S)
  BY <1>1 DEF ProcessInv, LockAgrees, Walked
<1>4. j \in S /\ AgreesManifest(rec, j, q.found[j])
  BY <1>3 DEF ProcessInv, Walked, Largest
<1>5. k \in q.found[j]
  BY <1>2, <1>3, <1>4 DEF Agrees, AgreesManifest, SomeManifest, Fixed
<1>. HIDE DEF j
<1>6. k \in S
  BY <1>4, <1>5 DEF ProcessInv, Walked, Making
<1>7. PICK m \in Largest(S) : m[1] = k[1]
  BY <1>6, LargestExists DEF FoundIn
<1>8. k \in Keys /\ k[1] \in Pomes /\ k[2] \in Versions
  BY <1>6 DEF FoundIn, Keys
<1>9. q.made[k[1]] # None
  BY <1>7 DEF ProcessInv, Walked
<1>10. <<k[1], q.made[k[1]].version>> \in Largest(S)
  BY <1>8, <1>9 DEF ProcessInv, Walked
<1>11. k[2] <= q.made[k[1]].version
  BY <1>6, <1>10 DEF Largest
<1>12. q.made[k[1]].version \in Versions
  BY <1>1, <1>8, <1>9, LockKeys DEF Locked
<1>. QED
  BY <1>8, <1>9, <1>11, <1>12, StoreAssumption DEF Versions

LEMMA WriteLockKeeps == ASSUME Inv, NEW c \in Commands, WriteLock(c) PROVE Inv'
<1>. DEFINE q == cmd[c]
<1>1. q \in Process /\ ProcessInv(record, q) /\ q.at = "written"
  BY DEF Inv, WriteLock
<1>2. Grows(record, record') /\ record' = record
  BY Same DEF Inv, WriteLock, sources
<1>3. LockClosed(q.made) /\ LockAgrees(record, q.made) /\ q.made \in LockFile
  BY <1>1, MadeClosed DEF ProcessInv, Process
<1>4. lock' \in {q.made, lock}
  BY DEF WriteLock, NewLock
<1>5. lock' \in LockFile \cup {None} /\ LockClosed(lock') /\ LockAgrees(record, lock')
  BY <1>3, <1>4 DEF Inv, Shared
<1>6. Shared'
  <2>1. UNCHANGED <<served, record, dirs, manifests, toml>>
    BY DEF WriteLock, sources, cache
  <2>2. LockClosed(lock)' /\ LockAgrees(record, lock)'
    BY <1>5, <2>1 DEF LockClosed, LockAgrees, Agrees
  <2>. QED
    BY <1>5, <2>1, <2>2 DEF Inv, Shared, Agrees, AgreesManifest
<1>7. cmd' = [cmd EXCEPT ![c] = [Fresh EXCEPT !.at = "done"]]
  BY DEF WriteLock
<1>. QED
  BY <1>2, <1>6, <1>7, DoneInv, OneCommand

LEMMA EndBuildKeeps == ASSUME Inv, NEW c \in Commands, EndBuild(c) PROVE Inv'
<1>. DEFINE q == cmd[c]
            r == [q EXCEPT !.at = "built"]
<1>1. Grows(record, record') /\ UNCHANGED <<sources, cache, project>>
  BY Same DEF Inv, EndBuild, sources
<1>2. Shared'
  BY <1>1, SharedGrows DEF Inv, Shared, sources, cache, project
<1>3. q \in Process /\ ProcessInv(record', q) /\ q.at = "build" /\ q.todo = {} /\ q.next = NoToml
  BY <1>1, ProcessInvGrows DEF Inv, EndBuild
<1>4. cmd' = [cmd EXCEPT ![c] = r]
  BY DEF EndBuild, Goto
<1>5. r \in Process
  BY <1>3 DEF Process, Places
<1>6. /\ r.at = "built" /\ r.lock = q.lock /\ r.made = q.made /\ r.used = q.used
      /\ r.getting = q.getting /\ r.found = q.found /\ r.toml = q.toml /\ r.todo = q.todo
      /\ r.next = q.next
  BY <1>3 DEF Process
<1>. HIDE DEF r, q
<1>7. Compared(record', r) /\ Walked(record', r) /\ Built(record', r)
  BY <1>3, <1>6 DEF ProcessInv, Compared, Holding, Walked, FoundIn, Making, Built, Building
<1>8. ProcessInv(record', r)
  BY <1>3, <1>6, <1>7 DEF ProcessInv
<1>. QED
  BY <1>1, <1>2, <1>4, <1>5, <1>8, OneCommand

LEMMA TakeDirectKeeps == ASSUME Inv, NEW c \in Commands, TakeDirect(c) PROVE Inv'
<1>. DEFINE q == cmd[c]
<1>1. Grows(record, record') /\ UNCHANGED <<sources, cache, project>>
  BY Same DEF Inv, TakeDirect, sources
<1>2. Shared'
  BY <1>1, SharedGrows DEF Inv, Shared, sources, cache, project
<1>3. q \in Process /\ ProcessInv(record', q) /\ q.at = "build" /\ q.todo = {}
  BY <1>1, ProcessInvGrows DEF Inv, TakeDirect
<1>4. CASE Fail(c)
  BY <1>1, <1>4, FailKeeps
<1>5. ASSUME NEW k \in Requirements(q.next), MetBy(q.lock, k), NEW todo,
             todo = (IF q.used[k[1]] = None THEN {k[1]} ELSE {}),
             cmd' = [cmd EXCEPT ![c].next[k[1]] = 0, ![c].todo = todo]
      PROVE  Inv'
  <2>. DEFINE next == [q.next EXCEPT ![k[1]] = 0]
              r == [q EXCEPT !.next = next, !.todo = todo]
  <2>1. cmd' = [cmd EXCEPT ![c] = r]
    BY <1>5
  <2>2. k[1] \in Pomes /\ q.next[k[1]] = k[2] /\ k = <<k[1], k[2]>>
    BY DEF Requirements, Keys
  <2>3. todo \in SUBSET Pomes /\ next \in [Pomes -> 0..MaxVersion]
    BY <1>3, <1>5, <2>2, StoreAssumption DEF Process
  <2>4. r \in Process
    BY <1>3, <2>3 DEF Process
  <2>5. /\ r.at = "build" /\ r.lock = q.lock /\ r.made = q.made /\ r.used = q.used
        /\ r.getting = q.getting /\ r.found = q.found /\ r.toml = q.toml /\ r.todo = todo
        /\ r.next = next
    BY <1>3 DEF Process
  <2>. HIDE DEF r
  <2>6. Compared(record', r) /\ Walked(record', r)
    <3>. HIDE DEF q
    <3>. QED
      BY <1>3, <2>5 DEF ProcessInv, Compared, Holding, Walked, FoundIn, Making
  <2>7. ASSUME NEW p \in Pomes, r.toml[p] # 0
        PROVE  \/ r.next[p] = r.toml[p]
               \/ MetBy(r.lock, <<p, r.toml[p]>>) /\ (p \in r.todo \/ r.used[p] # None)
    <3>1. \/ q.next[p] = q.toml[p]
          \/ MetBy(q.lock, <<p, q.toml[p]>>) /\ q.used[p] # None
      BY <1>3, <2>5, <2>7 DEF ProcessInv, Built, Building
    <3>2. CASE p # k[1]
      <4>1. next[p] = q.next[p]
        BY <1>3, <3>2 DEF Process
      <4>. QED
        BY <2>5, <3>1, <4>1
    <3>3. CASE p = k[1]
      <4>1. q.next[p] = q.toml[p] => MetBy(q.lock, <<p, q.toml[p]>>)
        BY <1>5, <2>2, <3>3
      <4>2. p \in todo \/ q.used[p] # None
        BY <1>5, <3>3
      <4>. QED
        BY <2>5, <3>1, <4>1, <4>2
    <3>. QED
      BY <3>2, <3>3
  <2>8. ASSUME NEW p \in Pomes, r.used[p] # None
        PROVE  /\ r.lock # None /\ r.lock[p] # None
               /\ Agrees(record', <<p, r.lock[p].version>>, r.used[p])
               /\ \A j \in Manifest[<<p, r.lock[p].version>>][r.used[p]] :
                    j[1] \in r.todo \/ r.used[j[1]] # None
    BY <1>3, <2>5, <2>8 DEF ProcessInv, Built, Building
  <2>9. r.lock # None
    BY <1>5, <2>5 DEF MetBy
  <2>10. Built(record', r)
    BY <2>5, <2>7, <2>8, <2>9 DEF Built, Building
  <2>11. ProcessInv(record', r)
    BY <1>3, <2>5, <2>6, <2>10 DEF ProcessInv
  <2>. QED
    BY <1>1, <1>2, <2>1, <2>4, <2>11, OneCommand
<1>6. \/ Fail(c)
      \/ \E k \in Requirements(q.next) :
           /\ MetBy(q.lock, k)
           /\ cmd' = [cmd EXCEPT ![c].next[k[1]] = 0,
                                 ![c].todo = IF q.used[k[1]] = None THEN {k[1]} ELSE {}]
  BY DEF TakeDirect
<1>. QED
  BY <1>4, <1>5, <1>6

LEMMA AbortKeeps == ASSUME Inv, NEW c \in Commands, Abort(c) PROVE Inv'
BY FailKeeps DEF Abort

(* A Pome the build comes to is taken from its directory.                  *)
LEMMA UsePome ==
  ASSUME Inv, NEW c \in Commands, cmd[c].at = "build", NEW p \in cmd[c].todo,
         cmd[c].lock # None, cmd[c].lock[p] # None,
         NEW x \in Contents, dirs[<<p, cmd[c].lock[p].version>>] = x,
         NEW u, u = [cmd[c].used EXCEPT ![p] = x],
         NEW todo, todo = (cmd[c].todo \cup
                            {k[1] : k \in Manifest[<<p, cmd[c].lock[p].version>>][u[p]]})
                          \ {o \in Pomes : u[o] # None},
         cmd' = [cmd EXCEPT ![c].used = u, ![c].todo = todo],
         UNCHANGED <<sources, cache, project>>
  PROVE  Inv'
<1>. DEFINE q == cmd[c]
            r == [q EXCEPT !.used = u, !.todo = todo]
            key == <<p, q.lock[p].version>>
<1>1. Grows(record, record') /\ record' = record
  BY Same DEF Inv, sources
<1>2. Shared'
  BY <1>1, SharedGrows DEF Inv, Shared, sources, cache, project
<1>3. q \in Process /\ ProcessInv(record, q) /\ q.at = "build" /\ p \in Pomes
  BY DEF Inv, Process
<1>4. cmd' = [cmd EXCEPT ![c] = r]
  OBVIOUS
<1>5. key \in Keys /\ Agrees(record, key, x)
  <2>1. key \in Keys
    BY <1>3, LockKeys DEF Process
  <2>. QED
    BY <2>1, NoneFacts DEF Inv, Shared
<1>6. Manifest[key][x] \in SUBSET Keys
  BY <1>5, StoreAssumption
<1>7. u \in [Pomes -> Contents \cup {None}] /\ u[p] = x
  BY <1>3 DEF Process
<1>8. todo \in SUBSET Pomes
  <2>1. \A k \in Manifest[key][x] : k[1] \in Pomes
    BY <1>6 DEF Keys
  <2>2. q.todo \subseteq Pomes
    BY <1>3 DEF Process
  <2>. QED
    BY <1>7, <2>1, <2>2, SMTT(30)
<1>9. r \in Process
  BY <1>3, <1>7, <1>8 DEF Process
<1>10. /\ r.at = "build" /\ r.lock = q.lock /\ r.made = q.made /\ r.used = u
       /\ r.getting = q.getting /\ r.found = q.found /\ r.toml = q.toml /\ r.todo = todo
       /\ r.next = q.next
  BY <1>3 DEF Process
<1>11. Compared(record, r) /\ Walked(record, r)
  <2>. HIDE DEF r, q
  <2>. QED
    BY <1>3, <1>10 DEF ProcessInv, Compared, Holding, Walked, FoundIn, Making
<1>12. Built(record, r)
  <2>1. r.lock # None
    BY <1>10
  <2>2. \A o \in Pomes : q.used[o] # None => u[o] # None
    BY <1>3, NoneFacts DEF Process
  <2>3. \A o \in Pomes : o \in q.todo \/ q.used[o] # None => o \in todo \/ u[o] # None
    BY <2>2
  <2>4. \A o \in Pomes : r.toml[o] # 0 =>
          \/ r.next[o] = r.toml[o]
          \/ MetBy(r.lock, <<o, r.toml[o]>>) /\ (o \in r.todo \/ r.used[o] # None)
    BY <1>3, <1>10, <2>3 DEF ProcessInv, Built, Building
  <2>5. ASSUME NEW o \in Pomes, u[o] # None
        PROVE  /\ q.lock[o] # None
               /\ Agrees(record, <<o, q.lock[o].version>>, u[o])
               /\ \A k \in Manifest[<<o, q.lock[o].version>>][u[o]] :
                    k[1] \in todo \/ u[k[1]] # None
    <3>1. CASE o = p
      <4>1. \A k \in Manifest[key][x] : k[1] \in Pomes
        BY <1>6 DEF Keys
      <4>2. \A k \in Manifest[key][x] : k[1] \in todo \/ u[k[1]] # None
        BY <1>7, <4>1
      <4>. QED
        BY <1>5, <1>7, <3>1, <4>2
    <3>2. CASE o # p
      <4>1. u[o] = q.used[o]
        BY <1>3, <3>2 DEF Process
      <4>2. /\ q.lock[o] # None
            /\ Agrees(record, <<o, q.lock[o].version>>, u[o])
            /\ \A k \in Manifest[<<o, q.lock[o].version>>][u[o]] :
                 k[1] \in q.todo \/ q.used[k[1]] # None
        BY <1>3, <2>5, <4>1 DEF ProcessInv, Built, Building
      <4>3. <<o, q.lock[o].version>> \in Keys /\ u[o] \in Contents
        BY <1>3, <1>7, <2>5, <4>2, LockKeys DEF Process
      <4>4. \A k \in Manifest[<<o, q.lock[o].version>>][u[o]] : k[1] \in Pomes
        BY <4>3, StoreAssumption DEF Keys
      <4>. QED
        BY <2>3, <4>2, <4>4
    <3>. QED
      BY <3>1, <3>2
  <2>. HIDE DEF r, q
  <2>. QED
    BY <1>10, <2>1, <2>4, <2>5 DEF Built, Building
<1>13. ProcessInv(record', r)
  <2>. HIDE DEF r, q
  <2>. QED
    BY <1>1, <1>3, <1>10, <1>11, <1>12 DEF ProcessInv
<1>. QED
  BY <1>1, <1>2, <1>4, <1>9, <1>13, OneCommand

LEMMA BuildPomeKeeps == ASSUME Inv, NEW c \in Commands, BuildPome(c) PROVE Inv'
<1>. DEFINE q == cmd[c]
<1>1. q \in Process /\ ProcessInv(record, q) /\ q.at = "build"
  BY DEF Inv, BuildPome
<1>2. PICK p \in q.todo :
        LET u == [q.used EXCEPT ![p] = Ensured(c, p)] IN
        \/ Fail(c) /\ UNCHANGED <<served, record>>
        \/ /\ q.lock[p] # None /\ Ensured(c, p) # None /\ UNCHANGED <<served, record>>
           /\ cmd' = [cmd EXCEPT ![c].used = u,
                        ![c].todo = (q.todo \cup {k[1] : k \in Manifest[<<p, q.lock[p].version>>][u[p]]})
                                      \ {o \in Pomes : u[o] # None}]
        \/ q.lock[p] # None /\ Ensure(c, <<p, q.lock[p].version>>, "storebuild")
  BY DEF BuildPome
<1>. DEFINE key == <<p, q.lock[p].version>>
            u == [q.used EXCEPT ![p] = Ensured(c, p)]
            todo == (q.todo \cup {k[1] : k \in Manifest[key][u[p]]}) \ {o \in Pomes : u[o] # None}
<1>3. q.lock # None /\ q.lock \in LockFile /\ p \in Pomes
  BY <1>1 DEF ProcessInv, Built, Building, Process
<1>4. UNCHANGED <<cache, project>>
  BY DEF BuildPome
<1>5. CASE Fail(c) /\ UNCHANGED <<served, record>>
  BY <1>4, <1>5, FailKeeps DEF sources
<1>6. CASE q.lock[p] # None /\ Ensured(c, p) # None /\ UNCHANGED <<served, record>>
           /\ cmd' = [cmd EXCEPT ![c].used = u, ![c].todo = todo]
  <2>1. key \in Keys
    BY <1>3, <1>6, LockKeys
  <2>2. Ensured(c, p) \in Contents /\ dirs[key] = Ensured(c, p)
    BY <1>6, <2>1 DEF Ensured, Inv, Shared
  <2>3. UNCHANGED <<sources, cache, project>>
    BY <1>4, <1>6 DEF sources
  <2>. HIDE DEF u
  <2>4. u = [q.used EXCEPT ![p] = Ensured(c, p)]
    BY DEF u
  <2>5. todo = (q.todo \cup {k[1] : k \in Manifest[key][u[p]]}) \ {o \in Pomes : u[o] # None}
    OBVIOUS
  <2>. HIDE DEF todo
  <2>. QED
    BY <1>1, <1>2, <1>3, <1>6, <2>2, <2>3, <2>4, <2>5, UsePome, ZenonT(30)
<1>7. CASE q.lock[p] # None /\ Ensure(c, key, "storebuild")
  <2>1. key \in Keys
    BY <1>3, <1>7, LockKeys
  <2>2. IsLocked(q.lock, key)
    BY <1>3, <1>7 DEF IsLocked
  <2>3. <<q.at, "storebuild">> \in {<<"get", "store">>, <<"build", "storebuild">>}
    BY <1>1
  <2>. QED
    BY <1>4, <1>7, <2>1, <2>2, <2>3, EnsureKeeps
<1>. QED
  BY <1>2, <1>5, <1>6, <1>7

-----------------------------------------------------------------------------
LEMMA InitInv == Init => Inv
<1>. SUFFICES ASSUME Init PROVE Inv
  OBVIOUS
<1>1. First \in Contents
  BY StoreAssumption DEF First
<1>2. Shared
  BY <1>1, StoreAssumption DEF Init, Shared, NoToml, LockAgrees, LockClosed
<1>. QED
  BY <1>2, FailInv DEF Init, Inv

LEMMA StepInv == Inv /\ [Next]_vars => Inv'
<1>. SUFFICES ASSUME Inv, [Next]_vars PROVE Inv'
  OBVIOUS
<1>1. CASE MoveTag
  BY <1>1, MoveTagKeeps
<1>2. CASE EditToml
  BY <1>2, EditTomlKeeps
<1>3. ASSUME NEW c \in Commands, Step(c) PROVE Inv'
  BY <1>3, StartKeeps, ReadTomlKeeps, ReadLockKeeps, CachedManifestKeeps, FetchManifestKeeps,
     KeepManifestKeeps, EndWalkKeeps, KeepLockedKeeps, DownloadKeeps, FindDirKeeps, RenameDirKeeps,
     WriteTomlKeeps, WriteLockKeeps, TakeDirectKeeps, BuildPomeKeeps, EndBuildKeeps, AbortKeeps DEF Step
<1>4. CASE UNCHANGED vars
  <2>1. Shared'
    BY <1>4, SharedGrows, Same DEF vars, Inv, Shared
  <2>. QED
    BY <1>4, <2>1, NoCommand DEF vars
<1>. QED
  BY <1>1, <1>2, <1>3, <1>4 DEF Next

LEMMA Invariance == Spec => []Inv
BY InitInv, StepInv, PTL DEF Spec

(* The cache, the files and the memory of the commands have their types,   *)
(* and a command holds something it fetched exactly between getting it and *)
(* putting it away.                                                        *)
THEOREM TypeCorrect == Spec => []TypeOK
<1>1. Inv => TypeOK
  BY DEF Inv, Shared, TypeOK, ProcessInv, Compared, Process, LockFile
<1>. QED
  BY <1>1, Invariance, PTL

(* Cache and lock hold only recorded content of versions that are not      *)
(* private, for any number of commands and however tags move.              *)
THEOREM OnlyRecordedCopies == Spec => []CopiesRecorded
<1>1. ASSUME Inv PROVE CopiesRecorded
  <2>. SUFFICES ASSUME NEW k \in Public
                PROVE  /\ dirs[k] \in {None, record[k]}
                       /\ manifests[k] # None =>
                            record[k] # None /\ manifests[k] = Manifest[k][record[k]]
                       /\ IsLocked(lock, k) => lock[k[1]].content = record[k]
    BY DEF CopiesRecorded
  <2>1. k \in Keys /\ k[1] \notin Private /\ k[1] \in Pomes
    BY DEF Public, Keys
  <2>2. ASSUME IsLocked(lock, k) PROVE lock[k[1]].content = record[k]
    <3>1. <<k[1], lock[k[1]].version>> = k
      BY <2>1, <2>2 DEF IsLocked, Keys
    <3>. QED
      BY <1>1, <2>1, <2>2, <3>1 DEF IsLocked, Inv, Shared, LockAgrees, Agrees
  <2>. QED
    BY <1>1, <2>1, <2>2 DEF Inv, Shared, Agrees, AgreesManifest
<1>. QED
  BY <1>1, Invariance, PTL

LEMMA UsedKeys ==
  ASSUME Inv, NEW c \in Commands, NEW k \in Used(c)
  PROVE  /\ k \in Keys /\ k[1] \in Pomes /\ cmd[c].used[k[1]] \in Contents
         /\ cmd[c].lock \in LockFile /\ cmd[c].lock[k[1]] # None
         /\ k = <<k[1], cmd[c].lock[k[1]].version>>
         /\ cmd[c].at \in Building \cup {"built"}
         /\ Agrees(record, k, cmd[c].used[k[1]])
<1>. DEFINE q == cmd[c]
<1>1. q \in Process /\ Built(record, q)
  BY DEF Inv, ProcessInv
<1>2. PICK p \in Pomes : q.used[p] # None /\ k = <<p, q.lock[p].version>>
  BY DEF Used
<1>3. q.at \in Building \cup {"built"}
  BY <1>1, <1>2 DEF Built, NoLock
<1>4. q.lock \in LockFile /\ q.lock[p] # None /\ Agrees(record, k, q.used[p])
  BY <1>1, <1>2, <1>3 DEF Built, Process
<1>. QED
  BY <1>1, <1>2, <1>3, <1>4, LockKeys DEF Process

(* A build that succeeds meets the requirements of Pome.toml and of the    *)
(* Pomes it uses, for any number of commands, Pomes, versions and          *)
(* contents, except of private versions whose requirements change.         *)
THEOREM BuildsMeetRequirements == Spec => []BuildMeetsRequirements
<1>1. ASSUME Inv PROVE BuildMeetsRequirements
  <2>. SUFFICES ASSUME NEW c \in Commands, cmd[c].at = "built",
                       NEW k \in Requires(c, {j \in Used(c) : Fixed(j)})
                PROVE  Meets(c, k)
    BY DEF BuildMeetsRequirements
  <2>. DEFINE q == cmd[c]
  <2>1. q \in Process /\ ProcessInv(record, q) /\ q.at = "built"
    BY <1>1 DEF Inv
  <2>2. Built(record, q) /\ q.todo = {} /\ q.next = NoToml
    BY <2>1 DEF ProcessInv, Built
  <2>3. CASE k \in Requirements(q.toml)
    <3>1. k[1] \in Pomes /\ q.toml[k[1]] = k[2] /\ k[2] # 0 /\ k = <<k[1], k[2]>>
      BY <2>3, StoreAssumption DEF Requirements, Keys, Versions
    <3>2. MetBy(q.lock, k) /\ q.used[k[1]] # None
      BY <2>1, <2>2, <3>1 DEF Built, NoToml
    <3>. QED
      BY <3>2 DEF Meets, MetBy
  <2>4. ASSUME NEW j \in Used(c), Fixed(j), k \in Manifest[j][q.used[j[1]]]
        PROVE  Meets(c, k)
    <3>1. /\ j \in Keys /\ j[1] \in Pomes /\ q.used[j[1]] \in Contents
          /\ q.lock \in LockFile /\ q.lock[j[1]] # None
          /\ j = <<j[1], q.lock[j[1]].version>> /\ Agrees(record, j, q.used[j[1]])
      BY <1>1, UsedKeys
    <3>2. q.lock # None /\ q.lock[j[1]].content \in Contents
          /\ Agrees(record, j, q.lock[j[1]].content)
      BY <2>1, <3>1, LockKeys, NoneFacts DEF ProcessInv, LockAgrees
    <3>3. Manifest[j][q.used[j[1]]] = Manifest[j][q.lock[j[1]].content]
      BY <2>4, <3>1, <3>2 DEF Fixed, Agrees
    <3>4. q.lock[k[1]].version >= k[2]
      BY <2>1, <2>4, <3>1, <3>2, <3>3 DEF ProcessInv, LockClosed
    <3>5. q.used[k[1]] # None
      BY <2>1, <2>2, <2>4, <3>1, NoneFacts DEF Built
    <3>. QED
      BY <3>4, <3>5 DEF Meets
  <2>. QED
    BY <2>3, <2>4 DEF Requires
<1>. QED
  BY <1>1, Invariance, PTL

LEMMA DirsStay ==
  ASSUME Inv, [Next]_vars, NEW k \in Keys, dirs[k] # None
  PROVE  dirs'[k] = dirs[k]
<1>1. ASSUME NEW c \in Commands, RenameDir(c) PROVE dirs'[k] = dirs[k]
  BY <1>1 DEF RenameDir, Renamed, Inv, Shared
<1>2. UNCHANGED dirs \/ \E c \in Commands : RenameDir(c)
  BY ZenonT(30) DEF Next, Step, vars, cache, MoveTag, EditToml, Start, ReadToml, ReadLock,
     CachedManifest, FetchManifest, KeepManifest, EndWalk, KeepLocked, Download, FindDir,
     WriteToml, WriteLock, TakeDirect, BuildPome, EndBuild, Abort
<1>. QED
  BY <1>1, <1>2

(* A step leaves what a command uses alone, or forgets it, or takes a Pome *)
(* from its directory.                                                     *)
SameUse(c) == cmd'[c].used = cmd[c].used /\ cmd'[c].lock = cmd[c].lock
TakesFrom(c, p) ==
  /\ Ensured(c, p) # None /\ UNCHANGED dirs /\ cmd'[c].lock = cmd[c].lock
  /\ cmd'[c].used = [cmd[c].used EXCEPT ![p] = Ensured(c, p)]

LEMMA UseSteps ==
  ASSUME Inv, [Next]_vars, NEW c \in Commands
  PROVE  SameUse(c) \/ cmd'[c].used = NoLock \/ \E p \in Pomes : TakesFrom(c, p)
<1>1. cmd \in [Commands -> Process] /\ Fresh \in Process /\ Fresh.used = NoLock
  BY FreshProcess DEF Inv
<1>2. ASSUME UNCHANGED cmd PROVE SameUse(c)
  BY <1>2 DEF SameUse
<1>3. ASSUME NEW d \in Commands, Fail(d) PROVE SameUse(c) \/ cmd'[c].used = NoLock
  BY <1>1, <1>3 DEF Fail, SameUse
<1>4. ASSUME NEW d \in Commands, Start(d) \/ WriteLock(d) PROVE SameUse(c) \/ cmd'[c].used = NoLock
  <2>1. ASSUME NEW r, r.used = NoLock, cmd' = [cmd EXCEPT ![d] = r]
        PROVE  SameUse(c) \/ cmd'[c].used = NoLock
    BY <1>1, <2>1 DEF SameUse
  <2>2. [Fresh EXCEPT !.at = "done"].used = NoLock
        /\ \A op : [Fresh EXCEPT !.at = "open", !.op = op].used = NoLock
    BY <1>1 DEF Process
  <2>. QED
    BY <1>4, <2>1, <2>2 DEF Start, WriteLock
<1>5. ASSUME NEW d \in Commands, NEW at, Goto(d, at) PROVE SameUse(c)
  BY <1>1, <1>5 DEF Goto, SameUse, Process
<1>6. ASSUME NEW d \in Commands, NEW at, NEW g, cmd' = [cmd EXCEPT ![d].at = at, ![d].getting = g]
      PROVE  SameUse(c)
  BY <1>1, <1>6 DEF SameUse, Process
<1>7. ASSUME NEW d \in Commands, ReadToml(d) PROVE SameUse(c)
  BY <1>1, <1>7 DEF ReadToml, SameUse, Process
<1>8. ASSUME NEW d \in Commands, ReadLock(d) PROVE SameUse(c) \/ cmd'[c].used = NoLock
  <2>1. cmd[d].used = NoLock
    BY <1>8 DEF ReadLock, Inv, ProcessInv, Built, Building
  <2>2. ASSUME NEW at, NEW l, NEW n, cmd' = [cmd EXCEPT ![d].at = at, ![d].lock = l, ![d].next = n]
        PROVE  SameUse(c) \/ cmd'[c].used = NoLock
    BY <1>1, <2>1, <2>2 DEF SameUse, Process
  <2>. QED
    BY <1>3, <1>8, <2>2 DEF ReadLock
<1>9. ASSUME NEW d \in Commands, CachedManifest(d) PROVE SameUse(c) \/ cmd'[c].used = NoLock
  <2>1. ASSUME NEW k, NEW m, cmd' = [cmd EXCEPT ![d].found[k] = m] PROVE SameUse(c)
    BY <1>1, <2>1 DEF SameUse, Process
  <2>. QED
    BY <1>3, <1>9, <2>1 DEF CachedManifest
<1>10. ASSUME NEW d \in Commands, FetchManifest(d) \/ Download(d) PROVE SameUse(c)
  BY <1>6, <1>10 DEF FetchManifest, Download
<1>11. ASSUME NEW d \in Commands, KeepManifest(d) PROVE SameUse(c)
  <2>1. ASSUME NEW k, NEW m, cmd' = [cmd EXCEPT ![d].at = "walk", ![d].found[k] = m, ![d].getting = None]
        PROVE  SameUse(c)
    BY <1>1, <2>1 DEF SameUse, Process
  <2>2. ASSUME NEW p, NEW e, cmd' = [cmd EXCEPT ![d].at = "get", ![d].getting = None, ![d].made[p] = e]
        PROVE  SameUse(c)
    BY <1>1, <2>2 DEF SameUse, Process
  <2>. QED
    BY <1>11, <2>1, <2>2 DEF KeepManifest
<1>12. ASSUME NEW d \in Commands, KeepLocked(d) PROVE SameUse(c)
  <2>1. ASSUME NEW p, NEW e, cmd' = [cmd EXCEPT ![d].made[p] = e] PROVE SameUse(c)
    BY <1>1, <2>1 DEF SameUse, Process
  <2>. QED
    BY <1>6, <1>12, <2>1 DEF KeepLocked, Ensure
<1>13. ASSUME NEW d \in Commands, EndWalk(d) \/ WriteToml(d) \/ EndBuild(d) PROVE SameUse(c)
  BY <1>5, <1>13 DEF EndWalk, WriteToml, EndBuild
<1>14. ASSUME NEW d \in Commands, FindDir(d) \/ RenameDir(d) PROVE SameUse(c)
  BY <1>5, <1>6, <1>14 DEF FindDir, RenameDir, PutEnds
<1>15. ASSUME NEW d \in Commands, TakeDirect(d) PROVE SameUse(c) \/ cmd'[c].used = NoLock
  <2>1. ASSUME NEW p, NEW n, NEW w, cmd' = [cmd EXCEPT ![d].next[p] = n, ![d].todo = w]
        PROVE  SameUse(c)
    BY <1>1, <2>1 DEF SameUse, Process
  <2>. QED
    BY <1>3, <1>15, <2>1 DEF TakeDirect
<1>16. ASSUME NEW d \in Commands, BuildPome(d)
       PROVE  SameUse(c) \/ cmd'[c].used = NoLock \/ \E p \in Pomes : TakesFrom(c, p)
  <2>1. PICK p \in cmd[d].todo :
          \/ Fail(d) \/ \E k : Ensure(d, k, "storebuild")
          \/ /\ Ensured(d, p) # None
             /\ \E w : cmd' = [cmd EXCEPT ![d].used = [cmd[d].used EXCEPT ![p] = Ensured(d, p)],
                                          ![d].todo = w]
    BY <1>16 DEF BuildPome
  <2>2. p \in Pomes /\ UNCHANGED dirs
    BY <1>1, <1>16 DEF BuildPome, Process, cache
  <2>3. ASSUME NEW w, Ensured(d, p) # None,
               cmd' = [cmd EXCEPT ![d].used = [cmd[d].used EXCEPT ![p] = Ensured(d, p)], ![d].todo = w]
        PROVE  SameUse(c) \/ TakesFrom(c, p)
    <3>1. CASE c = d
      BY <1>1, <2>2, <2>3, <3>1 DEF TakesFrom, Process
    <3>2. CASE c # d
      BY <1>1, <2>3, <3>2 DEF SameUse
    <3>. QED
      BY <3>1, <3>2
  <2>. QED
    BY <1>3, <1>6, <2>1, <2>2, <2>3 DEF Ensure
<1>17. ASSUME NEW d \in Commands, Step(d)
       PROVE  SameUse(c) \/ cmd'[c].used = NoLock \/ \E p \in Pomes : TakesFrom(c, p)
  BY <1>3, <1>4, <1>7, <1>8, <1>9, <1>10, <1>11, <1>12, <1>13, <1>14, <1>15, <1>16, <1>17
     DEF Step, Abort
<1>. QED
  BY <1>2, <1>17 DEF Next, vars, MoveTag, EditToml

(* The files a build took its Pomes from stay as it read them, for any     *)
(* number of commands between exists() and the rename of put_dir.          *)
THEOREM BuiltFilesStay == Spec => []BuildFilesStay
<1>1. ASSUME Inv, BuildFilesStay, [Next]_vars PROVE BuildFilesStay'
  <2>. SUFFICES ASSUME NEW c \in Commands, NEW o \in Pomes, cmd'[c].used[o] # None
                PROVE  dirs'[<<o, cmd'[c].lock[o].version>>] = cmd'[c].used[o]
    BY DEF BuildFilesStay, Used
  <2>. DEFINE k == <<o, cmd[c].lock[o].version>>
  <2>1. ASSUME cmd[c].used[o] # None PROVE dirs'[k] = cmd[c].used[o]
    <3>1. k \in Used(c) /\ k[1] = o
      BY <2>1 DEF Used
    <3>2. k \in Keys /\ cmd[c].used[o] \in Contents /\ dirs[k] = cmd[c].used[o]
      BY <1>1, <3>1, UsedKeys DEF BuildFilesStay
    <3>. QED
      BY <1>1, <3>2, DirsStay, NoneFacts
  <2>2. CASE SameUse(c)
    BY <2>1, <2>2 DEF SameUse
  <2>3. CASE cmd'[c].used = NoLock
    BY <2>3 DEF NoLock
  <2>4. ASSUME NEW p \in Pomes, TakesFrom(c, p) PROVE dirs'[k] = cmd'[c].used[o]
    <3>1. cmd[c].used \in [Pomes -> Contents \cup {None}]
      BY <1>1 DEF Inv, Process
    <3>2. CASE o = p
      BY <2>4, <3>1, <3>2 DEF TakesFrom, Ensured
    <3>3. CASE o # p
      BY <2>1, <2>4, <3>1, <3>3 DEF TakesFrom
    <3>. QED
      BY <3>2, <3>3
  <2>5. (\E p \in Pomes : TakesFrom(c, p)) => cmd'[c].lock = cmd[c].lock
    BY DEF TakesFrom
  <2>. QED
    BY <1>1, <2>2, <2>3, <2>4, <2>5, UseSteps
<1>2. Init => BuildFilesStay
  BY FreshProcess DEF Init, BuildFilesStay, Used, NoLock
<1>3. Inv /\ BuildFilesStay /\ [Next]_vars => BuildFilesStay'
  BY <1>1
<1>. QED
  BY <1>2, <1>3, Invariance, PTL DEF Spec

-----------------------------------------------------------------------------
(* What a command that nothing ran beside leaves.  The walk finds what the *)
(* manifests it has read reach from its Pome.toml, and nothing else.       *)
Idles == {"idle", "done", "built"}
Walks == {"walk", "keep"} \cup Making
Required(r) == Requirements(r.next) \cup UNION {r.found[k] : k \in FoundIn(r)}
ClosedUnder(S, r) ==
  Requirements(r.next) \subseteq S /\ \A k \in S \cap FoundIn(r) : r.found[k] \subseteq S
Reaches(r) == \A S \in SUBSET Keys : ClosedUnder(S, r) => FoundIn(r) \subseteq S
WalkInv(r) ==
  /\ \A k \in FoundIn(r) : SomeManifest(k, r.found[k])
  /\ r.at \in {"open", "opened"} => FoundIn(r) = {}
  /\ r.at \in Walks => Reaches(r)
  /\ r.at = "keep" => r.getting.key \in Required(r) \ FoundIn(r)
  /\ r.at \in Making => Requirements(r.next) \subseteq FoundIn(r)

(* The files are as the command read or wrote them, and when it is done    *)
(* the lock l is the one of Pome.toml t, given the records rec.            *)
Stating(rec, k) == Manifest[k][IF rec[k] = None THEN First ELSE rec[k]]
Reaching(t, rec) ==
  LET Closed == {S \in SUBSET Keys :
                   Requirements(t) \subseteq S /\ \A k \in S : Stating(rec, k) \subseteq S}
  IN  {k \in Keys : \A S \in Closed : k \in S}
Listed(l) == {<<p, l[p].version>> : p \in {q \in Pomes : l[q] # None}}
LeftIn(l, t, rec) == l # None /\ Listed(l) = Largest(Reaching(t, rec))
Owns(r, t, l, rec) ==
  /\ r.at \in {"opened"} \cup (Walks \ {"written"}) => r.toml = t
  /\ r.at = "written" => r.next = t
  /\ r.at \in Walks => r.lock = l
  /\ r.at = "done" => LeftIn(l, t, rec)
AloneInv ==
  /\ alone \in [Commands -> BOOLEAN]
  /\ \A c \in Commands : alone[c] =>
       (\A d \in Commands \ {c} : cmd[d].at \in Idles) /\ Owns(cmd[c], toml, lock, record)
ManifestsInv == \A k \in Keys : manifests[k] # None => SomeManifest(k, manifests[k])
History == ManifestsInv /\ (\A c \in Commands : WalkInv(cmd[c])) /\ AloneInv

(* A step of a command that was running: no other command is alone.        *)
LEMMA OwnStep ==
  ASSUME Inv, History, NEW c \in Commands, cmd[c].at \notin Idles, alone' = alone,
         NEW r, cmd' = [cmd EXCEPT ![c] = r], WalkInv(r), ManifestsInv',
         alone[c] => Owns(r, toml', lock', record')
  PROVE  History'
<1>1. cmd'[c] = r /\ \A d \in Commands \ {c} : cmd'[d] = cmd[d]
  BY DEF Inv
<1>2. \A d \in Commands : WalkInv(cmd'[d])
  BY <1>1 DEF History
<1>3. \A d \in Commands : alone[d] => d = c
  BY DEF History, AloneInv
<1>4. alone[c] => \A d \in Commands \ {c} : cmd'[d].at \in Idles
  BY <1>1 DEF History, AloneInv
<1>5. AloneInv'
  BY <1>1, <1>3, <1>4 DEF History, AloneInv
<1>6. (\A d \in Commands : WalkInv(cmd[d]))'
  BY <1>2
<1>. QED
  BY <1>5, <1>6 DEF History

(* A command that has failed or is done remembers nothing.                 *)
LEMMA BlankWalk ==
  ASSUME NEW r, r.at \in {"idle", "open", "done"}, r.found = [k \in Keys |-> None]
  PROVE  WalkInv(r)
<1>1. FoundIn(r) = {}
  BY DEF FoundIn
<1>. QED
  BY <1>1 DEF WalkInv, Walks, Making

LEMMA FailOwn ==
  ASSUME Inv, History, NEW c \in Commands, cmd[c].at \notin Idles, alone' = alone, Fail(c),
         UNCHANGED manifests
  PROVE  History'
<1>1. Fresh.at = "idle" /\ WalkInv(Fresh)
  BY FreshProcess, BlankWalk
<1>2. \A t, l, rec : Owns(Fresh, t, l, rec)
  BY <1>1 DEF Owns, Walks, Making
<1>3. ManifestsInv'
  BY DEF History, ManifestsInv
<1>. QED
  BY <1>1, <1>2, <1>3, OwnStep DEF Fail

(* A command that goes on with the same walk, or with a build.             *)
LEMMA SameWalk ==
  ASSUME NEW q, WalkInv(q), NEW r, r.found = q.found, r.next = q.next,
         q.at \in Making, r.at \in Making \cup {"done"}
  PROVE  WalkInv(r)
<1>1. FoundIn(r) = FoundIn(q)
  BY DEF FoundIn
<1>2. Reaches(q) => Reaches(r)
  BY <1>1 DEF Reaches, ClosedUnder
<1>3. q.at \in Walks
  BY DEF Walks
<1>. QED
  BY <1>1, <1>2, <1>3 DEF WalkInv, Walks, Making

LEMMA SameBuild ==
  ASSUME NEW q, WalkInv(q), NEW r, r.found = q.found, r.at \in Building \cup {"built"}
  PROVE  WalkInv(r)
<1>1. FoundIn(r) = FoundIn(q)
  BY DEF FoundIn
<1>. QED
  BY <1>1 DEF WalkInv, Walks, Making, Building

(* The walk has read the manifest m of a version k that is required.       *)
LEMMA WalkMore ==
  ASSUME NEW q \in Process, WalkInv(q), q.at \in {"walk", "keep"}, NEW k \in Keys,
         k \in Required(q), k \notin FoundIn(q), NEW m \in SUBSET Keys, SomeManifest(k, m),
         NEW r, r.at = "walk", r.next = q.next, r.found = [q.found EXCEPT ![k] = m]
  PROVE  WalkInv(r)
<1>1. m # None
  BY NoneFacts
<1>2. r.found[k] = m /\ FoundIn(r) = FoundIn(q) \cup {k} /\ \A j \in FoundIn(q) : r.found[j] = q.found[j]
  BY <1>1 DEF FoundIn, Process
<1>3. Reaches(q)
  BY DEF WalkInv, Walks
<1>4. ASSUME NEW S \in SUBSET Keys, ClosedUnder(S, r) PROVE FoundIn(r) \subseteq S
  <2>1. ClosedUnder(S, q)
    BY <1>2, <1>4 DEF ClosedUnder
  <2>2. FoundIn(q) \subseteq S
    BY <1>3, <2>1 DEF Reaches
  <2>3. k \in S
    BY <2>1, <2>2 DEF Required, ClosedUnder
  <2>. QED
    BY <1>2, <2>2, <2>3
<1>5. \A j \in FoundIn(r) : SomeManifest(j, r.found[j])
  BY <1>2 DEF WalkInv
<1>. QED
  BY <1>4, <1>5 DEF WalkInv, Reaches, Making

LEMMA StartOwn == ASSUME Inv, History, NEW c \in Commands, Start(c) PROVE History'
<1>1. PICK op \in Operations : cmd' = [cmd EXCEPT ![c] = [Fresh EXCEPT !.at = "open", !.op = op]]
  BY DEF Start
<1>2. PICK r : r = [Fresh EXCEPT !.at = "open", !.op = op]
  OBVIOUS
<1>3. r.at = "open" /\ r.found = [k \in Keys |-> None]
  BY <1>2, FreshProcess DEF Process
<1>4. cmd'[c] = r /\ \A d \in Commands \ {c} : cmd'[d] = cmd[d]
  BY <1>1, <1>2 DEF Inv
<1>5. \A d \in Commands : WalkInv(cmd'[d])
  BY <1>3, <1>4, BlankWalk DEF History
<1>6. \A t, l, rec : Owns(r, t, l, rec)
  BY <1>3 DEF Owns, Walks, Making
<1>7. /\ alone' = [d \in Commands |-> d = c /\ \A e \in Commands \ {c} : cmd[e].at \in Idles]
      /\ manifests' = manifests
  BY DEF Start, Idles, cache
<1>8. AloneInv'
  <2>1. alone' \in [Commands -> BOOLEAN]
    BY <1>7
  <2>2. ASSUME NEW d \in Commands, alone'[d]
        PROVE  (\A e \in Commands \ {d} : cmd'[e].at \in Idles) /\ Owns(cmd'[d], toml', lock', record')
    <3>1. d = c /\ \A e \in Commands \ {c} : cmd[e].at \in Idles
      BY <1>7, <2>2
    <3>. QED
      BY <1>4, <1>6, <3>1
  <2>. QED
    BY <2>1, <2>2 DEF AloneInv
<1>9. (\A d \in Commands : WalkInv(cmd[d]))'
  BY <1>5
<1>. QED
  BY <1>7, <1>8, <1>9 DEF History, ManifestsInv

LEMMA ReadTomlOwn == ASSUME Inv, History, NEW c \in Commands, ReadToml(c) PROVE History'
<1>. DEFINE q == cmd[c]
            r == [q EXCEPT !.at = "opened", !.toml = toml]
<1>1. /\ q.at = "open" /\ q \in Process /\ WalkInv(q) /\ cmd' = [cmd EXCEPT ![c] = r]
      /\ alone' = alone /\ manifests' = manifests /\ toml' = toml /\ q.at \notin Idles
  BY DEF ReadToml, Inv, History, cache, project, Idles
<1>2. r.at = "opened" /\ r.toml = toml /\ r.found = q.found
  BY <1>1 DEF Process
<1>. HIDE DEF q, r
<1>3. FoundIn(r) = FoundIn(q) /\ FoundIn(q) = {}
  BY <1>1, <1>2 DEF FoundIn, WalkInv
<1>4. WalkInv(r)
  BY <1>2, <1>3 DEF WalkInv, Walks, Making
<1>5. Owns(r, toml', lock', record')
  BY <1>1, <1>2 DEF Owns, Walks, Making
<1>6. ManifestsInv'
  BY <1>1 DEF History, ManifestsInv
<1>. QED
  BY <1>1, <1>4, <1>5, <1>6, OwnStep DEF q

LEMMA ReadLockOwn == ASSUME Inv, History, NEW c \in Commands, ReadLock(c) PROVE History'
<1>. DEFINE q == cmd[c]
<1>1. /\ q.at = "opened" /\ q \in Process /\ WalkInv(q) /\ alone' = alone /\ manifests' = manifests
      /\ toml' = toml /\ lock' = lock /\ q.at \notin Idles
  BY DEF ReadLock, Inv, History, cache, project, Idles
<1>2. ManifestsInv'
  BY <1>1 DEF History, ManifestsInv
<1>3. CASE Fail(c)
  BY <1>1, <1>3, FailOwn
<1>4. ASSUME NEW u, cmd' = [cmd EXCEPT ![c].at = "build", ![c].lock = lock, ![c].next = u] PROVE History'
  <2>. DEFINE r == [q EXCEPT !.at = "build", !.lock = lock, !.next = u]
  <2>1. cmd' = [cmd EXCEPT ![c] = r]
    BY <1>1, <1>4
  <2>2. r.at = "build" /\ r.found = q.found
    BY <1>1 DEF Process
  <2>. HIDE DEF q, r
  <2>3. WalkInv(r)
    BY <1>1, <2>2, SameBuild DEF Building
  <2>4. Owns(r, toml', lock', record')
    BY <2>2 DEF Owns, Walks, Making
  <2>. QED
    BY <1>1, <1>2, <2>1, <2>3, <2>4, OwnStep DEF q
<1>5. ASSUME NEW u, cmd' = [cmd EXCEPT ![c].at = "walk", ![c].lock = lock, ![c].next = u] PROVE History'
  <2>. DEFINE r == [q EXCEPT !.at = "walk", !.lock = lock, !.next = u]
  <2>1. cmd' = [cmd EXCEPT ![c] = r]
    BY <1>1, <1>5
  <2>2. r.at = "walk" /\ r.found = q.found /\ r.lock = lock /\ r.toml = q.toml
    BY <1>1 DEF Process
  <2>3. alone[c] => Owns(q, toml, lock, record)
    BY DEF History, AloneInv
  <2>. HIDE DEF q, r
  <2>4. FoundIn(r) = {}
    BY <1>1, <2>2 DEF FoundIn, WalkInv
  <2>5. WalkInv(r)
    BY <2>2, <2>4 DEF WalkInv, Reaches, Making
  <2>6. alone[c] => Owns(r, toml', lock', record')
    BY <1>1, <2>2, <2>3 DEF Owns, Walks, Making
  <2>. QED
    BY <1>1, <1>2, <2>1, <2>5, <2>6, OwnStep DEF q
<1>. QED
  BY <1>3, <1>4, <1>5 DEF ReadLock

LEMMA PendingRequired ==
  ASSUME NEW c \in Commands, cmd[c] \in Process
  PROVE  Pending(c) = Required(cmd[c]) \ FoundIn(cmd[c])
BY DEF Pending, Required, Found, FoundIn

LEMMA CachedManifestOwn == ASSUME Inv, History, NEW c \in Commands, CachedManifest(c) PROVE History'
<1>. DEFINE q == cmd[c]
<1>1. /\ q.at = "walk" /\ q \in Process /\ WalkInv(q) /\ alone' = alone /\ manifests' = manifests
      /\ toml' = toml /\ lock' = lock /\ q.at \notin Idles
  BY DEF CachedManifest, Inv, History, cache, project, Idles
<1>2. ManifestsInv'
  BY <1>1 DEF History, ManifestsInv
<1>3. Pending(c) \subseteq Keys /\ Pending(c) = Required(q) \ FoundIn(q)
  BY <1>1, PendingKeys, PendingRequired
<1>4. CASE Fail(c)
  BY <1>1, <1>4, FailOwn
<1>5. ASSUME NEW k \in Pending(c), NEW m, m = manifests[k], m # None,
             cmd' = [cmd EXCEPT ![c].found[k] = m]
      PROVE  History'
  <2>. DEFINE r == [q EXCEPT !.found = [q.found EXCEPT ![k] = m]]
  <2>1. cmd' = [cmd EXCEPT ![c] = r]
    BY <1>5
  <2>2. m \in SUBSET Keys /\ SomeManifest(k, m)
    BY <1>3, <1>5 DEF Inv, Shared, History, ManifestsInv
  <2>3. /\ r.at = "walk" /\ r.lock = q.lock /\ r.toml = q.toml /\ r.next = q.next
        /\ r.found = [q.found EXCEPT ![k] = m]
    BY <1>1 DEF Process
  <2>4. alone[c] => Owns(q, toml, lock, record)
    BY DEF History, AloneInv
  <2>. HIDE DEF q, r
  <2>5. WalkInv(r)
    BY <1>1, <1>3, <1>5, <2>2, <2>3, WalkMore
  <2>6. alone[c] => Owns(r, toml', lock', record')
    BY <1>1, <2>3, <2>4 DEF Owns, Walks, Making
  <2>. QED
    BY <1>1, <1>2, <2>1, <2>5, <2>6, OwnStep DEF q
<1>6. Fail(c) \/ \E k \in Pending(c) : manifests[k] # None /\ cmd' = [cmd EXCEPT ![c].found[k] = manifests[k]]
  BY DEF CachedManifest
<1>. QED
  BY <1>4, <1>5, <1>6

(* A command that gets something, or puts it away, in the same walk.       *)
LEMMA SameOwn ==
  ASSUME Inv, History, NEW c \in Commands, NEW q, q = cmd[c], q.at \notin Idles, NEW r,
         cmd' = [cmd EXCEPT ![c] = r], alone' = alone, ManifestsInv', WalkInv(r),
         UNCHANGED <<toml, lock>>, r.toml = q.toml, r.lock = q.lock,
         r.at \in Walks \ {"written"} => q.at \in Walks \ {"written"},
         r.at \notin {"opened", "written", "done"}
  PROVE  History'
<1>1. alone[c] => Owns(q, toml, lock, record)
  BY DEF History, AloneInv
<1>2. alone[c] => Owns(r, toml', lock', record')
  BY <1>1 DEF Owns
<1>. QED
  BY <1>2, OwnStep

LEMMA FetchManifestOwn == ASSUME Inv, History, NEW c \in Commands, FetchManifest(c) PROVE History'
<1>. DEFINE q == cmd[c]
<1>1. /\ q.at = "walk" /\ q \in Process /\ WalkInv(q) /\ alone' = alone /\ manifests' = manifests
      /\ UNCHANGED <<toml, lock>> /\ q.at \notin Idles
  BY DEF FetchManifest, Inv, History, cache, project, Idles
<1>2. ManifestsInv'
  BY <1>1 DEF History, ManifestsInv
<1>4. PICK k \in Pending(c) : \E x :
        cmd' = [cmd EXCEPT ![c].at = "keep", ![c].getting = [key |-> k, content |-> x]]
  BY DEF FetchManifest
<1>3. k \in Required(q) \ FoundIn(q)
  BY <1>1, PendingRequired
<1>11. PICK x : cmd' = [cmd EXCEPT ![c].at = "keep", ![c].getting = [key |-> k, content |-> x]]
  BY <1>4
<1>. DEFINE r == [q EXCEPT !.at = "keep", !.getting = [key |-> k, content |-> x]]
<1>5. cmd' = [cmd EXCEPT ![c] = r]
  BY <1>11
<1>6. /\ r.at = "keep" /\ r.lock = q.lock /\ r.toml = q.toml /\ r.next = q.next /\ r.found = q.found
      /\ r.getting.key = k
  BY <1>1 DEF Process
<1>7. q = cmd[c]
  OBVIOUS
<1>. HIDE DEF q, r
<1>8. FoundIn(r) = FoundIn(q) /\ Required(r) = Required(q)
  BY <1>6 DEF FoundIn, Required
<1>9. Reaches(r)
  BY <1>1, <1>6, <1>8 DEF WalkInv, Reaches, ClosedUnder, Walks
<1>10. WalkInv(r)
  BY <1>1, <1>3, <1>6, <1>8, <1>9 DEF WalkInv, Making
<1>. QED
  BY <1>1, <1>2, <1>5, <1>6, <1>7, <1>10, SameOwn DEF Walks, Making

LEMMA KeepManifestOwn == ASSUME Inv, History, NEW c \in Commands, KeepManifest(c) PROVE History'
<1>. DEFINE q == cmd[c]
            g == q.getting
            m == Manifest[g.key][g.content]
<1>1. /\ q.at \in {"keep", "keepnew"} /\ q \in Process /\ WalkInv(q) /\ ProcessInv(record, q)
      /\ alone' = alone /\ UNCHANGED <<toml, lock>> /\ q.at \notin Idles
      /\ manifests' = [manifests EXCEPT ![g.key] = m]
  BY DEF KeepManifest, Inv, History, project, Idles
<1>2. g \in Got
  BY <1>1 DEF ProcessInv, Compared, Holding, Process
<1>3. g.key \in Keys /\ g.content \in Contents
  BY <1>2 DEF Got
<1>4. m \in SUBSET Keys /\ SomeManifest(g.key, m)
  BY <1>3, StoreAssumption DEF SomeManifest
<1>5. ManifestsInv'
  BY <1>1, <1>3, <1>4 DEF History, ManifestsInv, Inv, Shared
<1>6. q = cmd[c]
  OBVIOUS
<1>7. CASE q.at = "keep"
  <2>. DEFINE r == [q EXCEPT !.at = "walk", !.found = [q.found EXCEPT ![g.key] = m], !.getting = None]
  <2>0. cmd' = [cmd EXCEPT ![c].at = "walk", ![c].found[g.key] = m, ![c].getting = None]
    BY <1>7 DEF KeepManifest
  <2>1. cmd' = [cmd EXCEPT ![c] = r]
    BY <2>0
  <2>. HIDE DEF m
  <2>2. /\ r.at = "walk" /\ r.lock = q.lock /\ r.toml = q.toml /\ r.next = q.next
        /\ r.found = [q.found EXCEPT ![g.key] = m]
    BY <1>1 DEF Process
  <2>3. g.key \in Required(q) /\ g.key \notin FoundIn(q)
    BY <1>1, <1>7 DEF WalkInv
  <2>. HIDE DEF q, r, g
  <2>4. WalkInv(r)
    BY <1>1, <1>3, <1>4, <1>7, <2>2, <2>3, WalkMore
  <2>. QED
    BY <1>1, <1>5, <1>6, <1>7, <2>1, <2>2, <2>4, SameOwn DEF Walks, Making
<1>8. CASE q.at = "keepnew"
  <2>. DEFINE x == [q.made EXCEPT ![g.key[1]] = [version |-> g.key[2], content |-> g.content]]
              r == [q EXCEPT !.at = "get", !.getting = None, !.made = x]
  <2>0. cmd' = [cmd EXCEPT ![c].at = "get", ![c].getting = None,
                  ![c].made[g.key[1]] = [version |-> g.key[2], content |-> g.content]]
    BY <1>8 DEF KeepManifest
  <2>1. cmd' = [cmd EXCEPT ![c] = r]
    BY <2>0
  <2>. HIDE DEF x
  <2>2. /\ r.at = "get" /\ r.lock = q.lock /\ r.toml = q.toml /\ r.next = q.next /\ r.found = q.found
    BY <1>1 DEF Process
  <2>. HIDE DEF q, r, g, m
  <2>3. WalkInv(r)
    BY <1>1, <1>8, <2>2, SameWalk DEF Making
  <2>. QED
    BY <1>1, <1>5, <1>6, <1>8, <2>1, <2>2, <2>3, SameOwn DEF Walks, Making
<1>. QED
  BY <1>1, <1>7, <1>8

LEMMA EndWalkOwn == ASSUME Inv, History, NEW c \in Commands, EndWalk(c) PROVE History'
<1>. DEFINE q == cmd[c]
            r == [q EXCEPT !.at = "get"]
<1>1. /\ q.at = "walk" /\ q \in Process /\ WalkInv(q) /\ alone' = alone /\ manifests' = manifests
      /\ UNCHANGED <<toml, lock>> /\ q.at \notin Idles /\ cmd' = [cmd EXCEPT ![c] = r]
  BY DEF EndWalk, Goto, Inv, History, cache, project, Idles
<1>2. ManifestsInv'
  BY <1>1 DEF History, ManifestsInv
<1>3. Required(q) \subseteq FoundIn(q)
  BY <1>1, PendingRequired DEF EndWalk
<1>4. r.at = "get" /\ r.lock = q.lock /\ r.toml = q.toml /\ r.next = q.next /\ r.found = q.found
  BY <1>1 DEF Process
<1>5. q = cmd[c]
  OBVIOUS
<1>. HIDE DEF q, r
<1>6. FoundIn(r) = FoundIn(q) /\ Requirements(r.next) \subseteq FoundIn(q)
  BY <1>3, <1>4 DEF FoundIn, Required
<1>7. Reaches(r)
  BY <1>1, <1>4, <1>6 DEF WalkInv, Reaches, ClosedUnder, Walks
<1>8. WalkInv(r)
  BY <1>1, <1>4, <1>6, <1>7 DEF WalkInv
<1>. QED
  BY <1>1, <1>2, <1>4, <1>5, <1>8, SameOwn DEF Walks, Making

(* A command that is getting versions, or building, goes on.               *)
LEMMA GoesOn ==
  ASSUME Inv, History, NEW c \in Commands, NEW q, q = cmd[c], NEW r, cmd' = [cmd EXCEPT ![c] = r],
         alone' = alone, UNCHANGED <<manifests, toml, lock>>,
         r.toml = q.toml, r.lock = q.lock, r.found = q.found,
         \/ r.next = q.next /\ q.at \in Making \ {"written"} /\ r.at \in Making \ {"written"}
         \/ q.at \in Building /\ r.at \in Building \cup {"built"}
  PROVE  History'
<1>1. ManifestsInv'
  BY DEF History, ManifestsInv
<1>2. WalkInv(r)
  BY SameWalk, SameBuild DEF History
<1>. QED
  BY <1>1, <1>2, SameOwn, ZenonT(30) DEF Walks, Making, Building, Idles

LEMMA EnsureOwn ==
  ASSUME Inv, History, NEW c \in Commands, NEW k, NEW then, Ensure(c, k, then), alone' = alone,
         UNCHANGED <<manifests, toml, lock>>,
         \/ cmd[c].at = "get" /\ then = "store"
         \/ cmd[c].at = "build" /\ then = "storebuild"
  PROVE  History'
<1>. DEFINE q == cmd[c]
<1>1. q \in Process
  BY DEF Inv
<1>2. PICK g : cmd' = [cmd EXCEPT ![c].at = then, ![c].getting = g]
  BY DEF Ensure
<1>. DEFINE r == [q EXCEPT !.at = then, !.getting = g]
<1>3. cmd' = [cmd EXCEPT ![c] = r]
  BY <1>2
<1>4. r.at = then /\ r.toml = q.toml /\ r.lock = q.lock /\ r.next = q.next /\ r.found = q.found
  BY <1>1 DEF Process
<1>5. q = cmd[c]
  OBVIOUS
<1>. HIDE DEF q, r
<1>. QED
  BY <1>3, <1>4, <1>5, GoesOn DEF Making, Building

LEMMA GetOwn ==
  ASSUME Inv, History, NEW c \in Commands, KeepLocked(c) \/ Download(c) \/ FindDir(c) \/ RenameDir(c)
  PROVE  History'
<1>. DEFINE q == cmd[c]
<1>1. q \in Process /\ q = cmd[c] /\ alone' = alone /\ UNCHANGED <<manifests, toml, lock>>
  BY DEF Inv, KeepLocked, Download, FindDir, RenameDir, cache, project
<1>2. ASSUME NEW x, q.at = "get", cmd' = [cmd EXCEPT ![c].made = x] PROVE History'
  <2>. DEFINE r == [q EXCEPT !.made = x]
  <2>1. cmd' = [cmd EXCEPT ![c] = r]
    BY <1>2
  <2>2. r.at = q.at /\ r.toml = q.toml /\ r.lock = q.lock /\ r.next = q.next /\ r.found = q.found
    BY <1>1 DEF Process
  <2>. HIDE DEF q, r
  <2>. QED
    BY <1>1, <1>2, <2>1, <2>2, GoesOn DEF Making
<1>3. ASSUME NEW a, NEW x, cmd' = [cmd EXCEPT ![c].at = a, ![c].getting = x],
             \/ q.at \in Making \ {"written"} /\ a \in Making \ {"written"}
             \/ q.at \in Building /\ a \in Building
      PROVE  History'
  <2>. DEFINE r == [q EXCEPT !.at = a, !.getting = x]
  <2>1. cmd' = [cmd EXCEPT ![c] = r]
    BY <1>3
  <2>2. r.at = a /\ r.toml = q.toml /\ r.lock = q.lock /\ r.next = q.next /\ r.found = q.found
    BY <1>1 DEF Process
  <2>. HIDE DEF q, r
  <2>3. \/ q.at \in Making \ {"written"} /\ r.at \in Making \ {"written"}
        \/ q.at \in Building /\ r.at \in Building
    BY ONLY <1>3, <2>2
  <2>. QED
    BY <1>1, <2>1, <2>2, <2>3, GoesOn
<1>4. CASE KeepLocked(c)
  <2>1. CASE \E k : Ensure(c, k, "store")
    BY <1>1, <1>4, <2>1, EnsureOwn DEF KeepLocked
  <2>2. CASE \E k : cmd' = [cmd EXCEPT ![c].made[k[1]] = cmd[c].lock[k[1]]]
    <3>1. PICK k : cmd' = [cmd EXCEPT ![c].made[k[1]] = cmd[c].lock[k[1]]]
      BY <2>2
    <3>2. cmd' = [cmd EXCEPT ![c].made = [cmd[c].made EXCEPT ![k[1]] = cmd[c].lock[k[1]]]]
      BY <3>1
    <3>. QED
      BY <1>2, <1>4, <3>2 DEF KeepLocked
  <2>. QED
    BY <1>4, <2>1, <2>2 DEF KeepLocked
<1>5. CASE Download(c)
  <2>1. q.at = "get" /\ \E x : cmd' = [cmd EXCEPT ![c].at = "storenew", ![c].getting = x]
    BY <1>5 DEF Download
  <2>. QED
    BY <1>3, <2>1 DEF Making
<1>6. ASSUME NEW a, cmd' = [cmd EXCEPT ![c].at = a],
             \/ q.at \in Making \ {"written"} /\ a \in Making \ {"written"}
             \/ q.at \in Building /\ a \in Building
      PROVE  History'
  <2>. DEFINE r == [q EXCEPT !.at = a]
  <2>1. cmd' = [cmd EXCEPT ![c] = r]
    BY <1>6
  <2>2. r.at = a /\ r.toml = q.toml /\ r.lock = q.lock /\ r.next = q.next /\ r.found = q.found
    BY <1>1 DEF Process
  <2>. HIDE DEF q, r
  <2>3. \/ q.at \in Making \ {"written"} /\ r.at \in Making \ {"written"}
        \/ q.at \in Building /\ r.at \in Building
    BY ONLY <1>6, <2>2
  <2>. QED
    BY <1>1, <2>1, <2>2, <2>3, GoesOn
<1>7. ASSUME q.at \in Storing \cup Renaming, PutEnds(c) PROVE History'
  <2>1. CASE q.at \in {"storenew", "renamenew"}
    BY <1>6, <1>7, <2>1 DEF PutEnds, Goto, Making
  <2>2. CASE q.at \in {"store", "rename"}
    <3>1. cmd' = [cmd EXCEPT ![c].at = "get", ![c].getting = None]
      BY <1>7, <2>2 DEF PutEnds
    <3>. QED
      BY <1>3, <2>2, <3>1 DEF Making
  <2>3. CASE q.at \in {"storebuild", "renamebuild"}
    <3>1. cmd' = [cmd EXCEPT ![c].at = "build", ![c].getting = None]
      BY <1>7, <2>3 DEF PutEnds
    <3>. QED
      BY <1>3, <2>3, <3>1 DEF Building
  <2>. QED
    BY <1>7, <2>1, <2>2, <2>3 DEF Storing, Renaming
<1>8. CASE FindDir(c)
  <2>1. \/ PutEnds(c)
        \/ q.at = "store" /\ Goto(c, "rename")
        \/ q.at = "storenew" /\ Goto(c, "renamenew")
        \/ q.at = "storebuild" /\ Goto(c, "renamebuild")
    BY <1>8 DEF FindDir
  <2>. QED
    BY <1>6, <1>7, <1>8, <2>1 DEF FindDir, Goto, Storing, Making, Building
<1>9. CASE RenameDir(c)
  BY <1>7, <1>9 DEF RenameDir, Renaming
<1>. QED
  BY <1>4, <1>5, <1>8, <1>9

LEMMA BuildOwn ==
  ASSUME Inv, History, NEW c \in Commands, TakeDirect(c) \/ BuildPome(c) \/ EndBuild(c)
  PROVE  History'
<1>. DEFINE q == cmd[c]
<1>1. /\ q \in Process /\ q = cmd[c] /\ alone' = alone /\ UNCHANGED <<manifests, toml, lock>>
      /\ q.at = "build" /\ q.at \notin Idles
  BY DEF Inv, TakeDirect, BuildPome, EndBuild, cache, project, Idles
<1>2. CASE Fail(c)
  BY <1>1, <1>2, FailOwn
<1>3. ASSUME NEW k, Ensure(c, k, "storebuild") PROVE History'
  BY <1>1, <1>3, EnsureOwn
<1>4. ASSUME NEW u, NEW w, cmd' = [cmd EXCEPT ![c].used = u, ![c].todo = w] PROVE History'
  <2>. DEFINE r == [q EXCEPT !.used = u, !.todo = w]
  <2>1. cmd' = [cmd EXCEPT ![c] = r]
    BY <1>4
  <2>2. r.at = q.at /\ r.toml = q.toml /\ r.lock = q.lock /\ r.next = q.next /\ r.found = q.found
    BY <1>1 DEF Process
  <2>. HIDE DEF q, r
  <2>. QED
    BY <1>1, <2>1, <2>2, GoesOn DEF Building
<1>5. CASE EndBuild(c)
  <2>. DEFINE r == [q EXCEPT !.at = "built"]
  <2>1. cmd' = [cmd EXCEPT ![c] = r]
    BY <1>5 DEF EndBuild, Goto
  <2>2. r.at = "built" /\ r.toml = q.toml /\ r.lock = q.lock /\ r.next = q.next /\ r.found = q.found
    BY <1>1 DEF Process
  <2>. HIDE DEF q, r
  <2>. QED
    BY <1>1, <2>1, <2>2, GoesOn DEF Building
<1>6. CASE BuildPome(c)
  <2>1. \/ Fail(c) \/ \E k : Ensure(c, k, "storebuild")
        \/ \E u, w : cmd' = [cmd EXCEPT ![c].used = u, ![c].todo = w]
    BY <1>6 DEF BuildPome
  <2>. QED
    BY <1>2, <1>3, <1>4, <2>1
<1>7. CASE TakeDirect(c)
  <2>1. CASE \E k, w : cmd' = [cmd EXCEPT ![c].next[k[1]] = 0, ![c].todo = w]
    <3>1. PICK k, w : cmd' = [cmd EXCEPT ![c].next[k[1]] = 0, ![c].todo = w]
      BY <2>1
    <3>. DEFINE r == [q EXCEPT !.next = [q.next EXCEPT ![k[1]] = 0], !.todo = w]
    <3>2. cmd' = [cmd EXCEPT ![c] = r]
      BY <3>1
    <3>3. r.at = q.at /\ r.toml = q.toml /\ r.lock = q.lock /\ r.found = q.found
      BY <1>1 DEF Process
    <3>. HIDE DEF q, r
    <3>. QED
      BY <1>1, <3>2, <3>3, GoesOn DEF Building
  <2>. QED
    BY <1>2, <1>7, <2>1 DEF TakeDirect
<1>. QED
  BY <1>5, <1>6, <1>7

(* apply writes Pome.toml: it is the one the command made, since the one   *)
(* it read is still there.                                                 *)
LEMMA WriteTomlOwn == ASSUME Inv, History, NEW c \in Commands, WriteToml(c) PROVE History'
<1>. DEFINE q == cmd[c]
            r == [q EXCEPT !.at = "written"]
<1>1. /\ q.at = "get" /\ q \in Process /\ WalkInv(q) /\ alone' = alone /\ manifests' = manifests
      /\ lock' = lock /\ q.at \notin Idles /\ cmd' = [cmd EXCEPT ![c] = r]
      /\ toml' = IF q.next # q.toml THEN q.next ELSE toml
  BY DEF WriteToml, Goto, Inv, History, cache, Idles
<1>2. ManifestsInv'
  BY <1>1 DEF History, ManifestsInv
<1>3. r.at = "written" /\ r.lock = q.lock /\ r.next = q.next /\ r.found = q.found
  BY <1>1 DEF Process
<1>4. alone[c] => Owns(q, toml, lock, record)
  BY DEF History, AloneInv
<1>5. q = cmd[c]
  OBVIOUS
<1>. HIDE DEF q, r
<1>6. WalkInv(r)
  BY <1>1, <1>3, SameWalk DEF Making
<1>7. alone[c] => q.toml = toml /\ q.lock = lock
  BY <1>1, <1>4 DEF Owns, Walks, Making
<1>8. alone[c] => Owns(r, toml', lock', record')
  BY <1>1, <1>3, <1>7 DEF Owns, Walks, Making
<1>. QED
  BY <1>1, <1>2, <1>5, <1>6, <1>8, OwnStep

(* A private version has no record, so that what it requires is known only *)
(* if it is the same whatever its tag points to.                           *)
SteadyPrivate == \A k \in Keys : Fixed(k)

(* Of each Pome there is one largest version.                              *)
LEMMA LargestUnique ==
  ASSUME NEW S \in SUBSET Keys, NEW j \in Largest(S), NEW k \in Largest(S), j[1] = k[1]
  PROVE  j = k
<1>1. j \in Keys /\ k \in Keys /\ j[2] \in Nat /\ k[2] \in Nat
  BY StoreAssumption DEF Largest, Keys, Versions
<1>2. j[2] = k[2]
  BY <1>1 DEF Largest
<1>. QED
  BY <1>1, <1>2 DEF Keys

(* The manifest the walk read of a version is the one that is stated.      *)
LEMMA FoundStated ==
  ASSUME SteadyPrivate, NEW rec \in [Keys -> Contents \cup {None}], NEW q \in Process,
         ProcessInv(rec, q), WalkInv(q), NEW k \in FoundIn(q)
  PROVE  q.found[k] = Stating(rec, k)
<1>1. k \in Keys /\ AgreesManifest(rec, k, q.found[k]) /\ SomeManifest(k, q.found[k])
  BY DEF FoundIn, ProcessInv, Walked, WalkInv
<1>2. CASE k[1] \notin Private
  BY <1>1, <1>2 DEF AgreesManifest, Stating
<1>3. CASE k[1] \in Private
  <2>1. First \in Contents
    BY StoreAssumption DEF First
  <2>2. PICK x \in Contents : q.found[k] = Manifest[k][x]
    BY <1>1 DEF SomeManifest
  <2>3. PICK y \in Contents : Stating(rec, k) = Manifest[k][y]
    BY <1>1, <2>1 DEF Stating
  <2>. QED
    BY <1>1, <1>3, <2>2, <2>3 DEF SteadyPrivate, Fixed
<1>. QED
  BY <1>2, <1>3

(* The walk ends with exactly the versions that are reached.               *)
LEMMA FoundReached ==
  ASSUME SteadyPrivate, NEW rec \in [Keys -> Contents \cup {None}], NEW q \in Process,
         ProcessInv(rec, q), WalkInv(q), q.at = "written"
  PROVE  FoundIn(q) = Reaching(q.next, rec)
<1>. DEFINE F == FoundIn(q)
<1>1. F \in SUBSET Keys /\ Requirements(q.next) \subseteq F /\ Reaches(q)
  BY DEF FoundIn, WalkInv, Walks, Making
<1>2. \A k \in F : q.found[k] = Stating(rec, k)
  BY FoundStated
<1>3. \A k \in F : q.found[k] \subseteq F
  BY DEF ProcessInv, Walked, Making
<1>4. ASSUME NEW k \in Reaching(q.next, rec) PROVE k \in F
  BY <1>1, <1>2, <1>3 DEF Reaching
<1>5. ASSUME NEW k \in F, NEW S \in SUBSET Keys, Requirements(q.next) \subseteq S,
             \A j \in S : Stating(rec, j) \subseteq S
      PROVE  k \in S
  <2>1. ClosedUnder(S, q)
    BY <1>2, <1>5 DEF ClosedUnder
  <2>. QED
    BY <1>1, <1>5, <2>1 DEF Reaches
<1>6. \A k \in F : k \in Reaching(q.next, rec)
  BY <1>1, <1>5 DEF Reaching
<1>. QED
  BY <1>4, <1>6

(* The lock that was made lists the largest of them.                       *)
LEMMA MadeListed ==
  ASSUME SteadyPrivate, NEW rec \in [Keys -> Contents \cup {None}], NEW q \in Process,
         ProcessInv(rec, q), WalkInv(q), q.at = "written"
  PROVE  LeftIn(q.made, q.next, rec)
<1>. DEFINE F == FoundIn(q)
<1>1. q.made \in LockFile /\ q.made # None /\ F \in SUBSET Keys
  BY NoneFacts DEF Process, FoundIn
<1>2. \A p \in Pomes : q.made[p] # None => <<p, q.made[p].version>> \in Largest(F)
  BY DEF ProcessInv, Walked
<1>3. \A k \in Largest(F) : q.made[k[1]] # None
  BY DEF ProcessInv, Walked
<1>4. F = Reaching(q.next, rec)
  BY FoundReached
<1>5. ASSUME NEW k \in Largest(F) PROVE k \in Listed(q.made)
  <2>1. k[1] \in Pomes /\ q.made[k[1]] # None
    BY <1>1, <1>3 DEF Largest, Keys
  <2>2. PICK j \in Largest(F) : j = <<k[1], q.made[k[1]].version>>
    BY <1>2, <2>1
  <2>3. j = k
    BY <1>1, <2>2, LargestUnique
  <2>. QED
    BY <2>1, <2>2, <2>3 DEF Listed
<1>6. \A k \in Listed(q.made) : k \in Largest(F)
  BY <1>2 DEF Listed
<1>. QED
  BY <1>1, <1>4, <1>5, <1>6 DEF LeftIn

(* apply writes the lock: it is the one that was made, or equal to it.     *)
LEMMA WriteLockOwn ==
  ASSUME SteadyPrivate, Inv, History, NEW c \in Commands, WriteLock(c)
  PROVE  History'
<1>. DEFINE q == cmd[c]
            r == [Fresh EXCEPT !.at = "done"]
<1>1. /\ q.at = "written" /\ q \in Process /\ WalkInv(q) /\ ProcessInv(record, q)
      /\ alone' = alone /\ manifests' = manifests /\ toml' = toml /\ record' = record
      /\ q.at \notin Idles /\ cmd' = [cmd EXCEPT ![c] = r]
      /\ lock' = IF q.lock # q.made THEN q.made ELSE lock
  BY DEF WriteLock, NewLock, Inv, History, cache, sources, Idles
<1>2. ManifestsInv'
  BY <1>1 DEF History, ManifestsInv
<1>3. r.at = "done" /\ r.found = [k \in Keys |-> None]
  BY FreshProcess DEF Process
<1>4. alone[c] => Owns(q, toml, lock, record)
  BY DEF History, AloneInv
<1>5. record \in [Keys -> Contents \cup {None}]
  BY DEF Inv, Shared
<1>6. q = cmd[c]
  OBVIOUS
<1>. HIDE DEF q, r
<1>7. WalkInv(r)
  BY <1>3, BlankWalk
<1>8. LeftIn(q.made, q.next, record)
  BY <1>1, <1>5, MadeListed
<1>9. alone[c] => q.next = toml /\ q.lock = lock
  BY <1>1, <1>4 DEF Owns, Walks, Making
<1>10. alone[c] => LeftIn(lock', toml', record')
  BY <1>1, <1>8, <1>9
<1>11. alone[c] => Owns(r, toml', lock', record')
  BY <1>3, <1>10 DEF Owns, Walks, Making
<1>. QED
  BY <1>1, <1>2, <1>6, <1>7, <1>11, OwnStep

LEMMA InitHistory == Init => History
<1>. SUFFICES ASSUME Init PROVE History
  OBVIOUS
<1>1. WalkInv(Fresh)
  BY FreshProcess, BlankWalk
<1>2. \A c \in Commands : cmd[c] = Fresh /\ alone[c] = FALSE
  BY DEF Init
<1>. QED
  BY <1>1, <1>2 DEF Init, History, ManifestsInv, AloneInv

LEMMA StepHistory == ASSUME SteadyPrivate, Inv, History, [Next]_vars PROVE History'
<1>1. ASSUME UNCHANGED <<manifests, cmd, alone, toml, lock, record>> PROVE History'
  BY <1>1 DEF History, ManifestsInv, AloneInv
<1>2. CASE MoveTag
  BY <1>1, <1>2 DEF MoveTag, cache, project
<1>3. CASE EditToml
  <2>1. alone' = [c \in Commands |-> FALSE] /\ UNCHANGED <<manifests, cmd>>
    BY <1>3 DEF EditToml, cache
  <2>. QED
    BY <2>1 DEF History, ManifestsInv, AloneInv
<1>4. ASSUME NEW c \in Commands, Abort(c) PROVE History'
  BY <1>4, FailOwn DEF Abort, Idles, cache
<1>5. ASSUME NEW c \in Commands, Step(c) PROVE History'
  BY <1>4, <1>5, StartOwn, ReadTomlOwn, ReadLockOwn, CachedManifestOwn, FetchManifestOwn,
     KeepManifestOwn, EndWalkOwn, GetOwn, WriteTomlOwn, WriteLockOwn, BuildOwn DEF Step
<1>6. CASE UNCHANGED vars
  BY <1>1, <1>6 DEF vars
<1>. QED
  BY <1>2, <1>3, <1>5, <1>6 DEF Next

LEMMA HistoryLeaves == Inv /\ History => LeavesConsistent
<1>. SUFFICES ASSUME Inv, History, NEW c \in Commands, cmd[c].at = "done", alone[c]
              PROVE  /\ lock # None
                     /\ {<<p, lock[p].version>> : p \in {q \in Pomes : lock[q] # None}} = Largest(Reached)
  BY DEF LeavesConsistent
<1>1. Owns(cmd[c], toml, lock, record)
  BY DEF History, AloneInv
<1>2. LeftIn(lock, toml, record)
  BY <1>1 DEF Owns
<1>3. Reached = Reaching(toml, record)
  BY DEF Reached, Reaching, Stated, Stating
<1>. QED
  BY <1>2, <1>3 DEF LeftIn, Listed

(* A command that succeeds and that nothing ran beside leaves the lock of  *)
(* Pome.toml, for any number of commands, Pomes, versions and contents and *)
(* whatever was left half done before, if what private versions require    *)
(* does not change with their tags (apply, resolve, build_list).           *)
THEOREM LocksAreConsistent == SteadyPrivate => (Spec => []LeavesConsistent)
<1>1. ASSUME SteadyPrivate PROVE Spec => []LeavesConsistent
  <2>1. Inv /\ History /\ [Next]_vars => History'
    BY <1>1, StepHistory
  <2>. QED
    BY <2>1, InitHistory, HistoryLeaves, Invariance, PTL DEF Spec
<1>. QED
  BY <1>1
=============================================================================
