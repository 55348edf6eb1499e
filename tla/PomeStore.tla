------------------------------ MODULE PomeStore ------------------------------
(***************************************************************************)
(* The emela pome commands and the builds of a project: Project and        *)
(* resolve of emela-pome/src/project.rs, Fetcher and Cache of fetch/mod.rs *)
(* and fetch/cache.rs, project_dependencies of emela-driver/src/pome.rs.   *)
(*                                                                         *)
(* Several commands run at once on one project and one cache; each may end *)
(* at any point, by a failed request or write or because it is killed.     *)
(* The tag of a version may move, and proxies may go on serving what it    *)
(* was; of private Pomes the repository itself is asked.  Files are        *)
(* written to a temporary name and renamed, so reading and writing one is  *)
(* a step.  A manifest is the set of its requirements; the content of a    *)
(* version stands for its hash.  [dev-dependencies] are in                 *)
(* VersionSelection, the lookups of the checksum database in               *)
(* ChecksumDatabase; [replace] is not used.                                *)
(***************************************************************************)
EXTENDS Integers, FiniteSets

CONSTANTS
  Commands,    \* the emela processes
  Pomes,
  MaxVersion,  \* versions are 1..MaxVersion
  Contents,    \* what a tag may point to
  Manifest,    \* the requirements in each content of each version
  Private,     \* the Pomes under EMELA_POMEPRIVATE
  None,
  MaxRuns,     \* how many commands are run, and edits made by hand
  MaxMoves     \* how many times a tag moves

Versions == 1..MaxVersion
Keys == Pomes \X Versions
First == CHOOSE c \in Contents : TRUE

ASSUME StoreAssumption ==
  /\ MaxVersion \in Nat \ {0} /\ MaxRuns \in Nat /\ MaxMoves \in Nat
  /\ Private \subseteq Pomes /\ Contents # {}
  /\ Manifest \in [Keys -> [Contents -> SUBSET Keys]]

Locked == [version : Versions, content : Contents]
Got == [key : Keys, content : Contents]

(* None is no other value.                                                 *)
ASSUME NoneAssumption ==
  /\ None \notin Contents /\ \A S \in SUBSET Keys : S # None
  /\ None \notin Locked /\ None \notin Got
  /\ None \notin [Pomes -> Locked \cup {None}]

VARIABLES
  served,     \* the contents a source may answer for a version
  record,     \* the checksum database: the content recorded of a version
  dirs,       \* the cache: the files of a version
  manifests,  \* the cache: the Pome.toml of a version
  toml,       \* [dependencies] of Pome.toml: the version required, 0 if none
  lock,       \* Pome.lock: None, or what it has of each Pome
  cmd,        \* what each command does
  alone,      \* whether nothing else touched the project since a command began
  runs, moves

project == <<toml, lock>>
cache == <<dirs, manifests>>
sources == <<served, record>>
vars == <<served, record, dirs, manifests, toml, lock, cmd, alone, runs, moves>>

Requirements(t) == {k \in Keys : t[k[1]] = k[2]}
NoToml == [p \in Pomes |-> 0]
NoLock == [p \in Pomes |-> None]
Operations ==
  {<<op>> : op \in {"install", "update", "build"}}
    \cup {<<"add", k>> : k \in Keys} \cup {<<"remove", p>> : p \in Pomes}

(* What a command holds in memory: the files as it read them, the new      *)
(* Pome.toml (of a build: the requirements not compared yet), the          *)
(* manifests it has read, the new lock, the version it is getting, and the *)
(* Pomes a build has still to take or has used.                            *)
Fresh == [at |-> "idle", op |-> <<"install">>, toml |-> NoToml, lock |-> None,
          next |-> NoToml, found |-> [k \in Keys |-> None], made |-> NoLock,
          getting |-> None, todo |-> {}, used |-> NoLock]

Init ==
  /\ served = [k \in Keys |-> {First}] /\ record = [k \in Keys |-> None]
  /\ dirs = [k \in Keys |-> None] /\ manifests = [k \in Keys |-> None]
  /\ toml = NoToml /\ lock = None
  /\ cmd = [c \in Commands |-> Fresh] /\ alone = [c \in Commands |-> FALSE]
  /\ runs = 0 /\ moves = 0

Goto(c, at) == cmd' = [cmd EXCEPT ![c].at = at]
Fail(c) == cmd' = [cmd EXCEPT ![c] = Fresh]

(* The version a lock has of a key's Pome is the key's.                    *)
IsLocked(l, k) == l # None /\ l[k[1]] # None /\ l[k[1]].version = k[2]

-----------------------------------------------------------------------------
(* Outside the program: a tag moves, and the user edits Pome.toml.         *)
MoveTag ==
  /\ moves < MaxMoves /\ moves' = moves + 1
  /\ \E k \in Keys, x \in Contents :
       /\ x \notin served[k]
       /\ served' = [served EXCEPT ![k] = IF k[1] \in Private THEN {x} ELSE @ \cup {x}]
  /\ UNCHANGED <<record, cache, project, cmd, alone, runs>>

EditToml ==
  /\ runs < MaxRuns /\ runs' = runs + 1
  /\ \E k \in Keys : toml' = [toml EXCEPT ![k[1]] = k[2]]
  /\ alone' = [c \in Commands |-> FALSE]
  /\ UNCHANGED <<sources, cache, lock, cmd, moves>>

(* The database answers for a version with what it recorded of it, which   *)
(* is what the tag was when it was first asked.                            *)
Lookup(k, answer) ==
  /\ answer \in IF record[k] = None THEN served[k] ELSE {record[k]}
  /\ record' = [record EXCEPT ![k] = answer]

(* Mutant: the lookup is made and its answer is not compared.              *)
CheckedAsked(k, same) ==
  \/ k[1] \in Private /\ UNCHANGED record
  \/ k[1] \notin Private /\ \E r \in Contents : Lookup(k, r)

(* Fetcher::lookup: private Pomes are not looked up, of any other the      *)
(* record must be one of same.                                             *)
Checked(k, same) ==
  \/ k[1] \in Private /\ UNCHANGED record
  \/ k[1] \notin Private /\ \E r \in same : Lookup(k, r)

-----------------------------------------------------------------------------
Start(c) ==
  /\ cmd[c].at \in {"idle", "done", "built"}
  /\ runs < MaxRuns /\ runs' = runs + 1
  /\ \E op \in Operations : cmd' = [cmd EXCEPT ![c] = [Fresh EXCEPT !.at = "open", !.op = op]]
  /\ alone' = [d \in Commands |->
                 d = c /\ \A e \in Commands \ {c} : cmd[e].at \in {"idle", "done", "built"}]
  /\ UNCHANGED <<sources, cache, project, moves>>

ReadToml(c) ==
  /\ cmd[c].at = "open"
  /\ cmd' = [cmd EXCEPT ![c].at = "opened", ![c].toml = toml]
  /\ UNCHANGED <<sources, cache, project, alone, runs, moves>>

(* The text of the new Pome.toml, from the one that was read: add sets a   *)
(* requirement, update raises each to the latest version.                  *)
Edited(op, t) ==
  CASE op[1] = "add"    -> [t EXCEPT ![op[2][1]] = op[2][2]]
    [] op[1] = "remove" -> [t EXCEPT ![op[2]] = 0]
    [] op[1] = "update" -> [p \in Pomes |-> IF t[p] = 0 THEN 0 ELSE MaxVersion]
    [] OTHER            -> t

(* A build without dependencies does not read the lock; any other needs    *)
(* one, and compares it later.                                             *)
ReadLock(c) ==
  /\ cmd[c].at = "opened"
  /\ LET op == cmd[c].op
         t == cmd[c].toml
         ok == CASE op[1] = "build"  -> t = NoToml \/ lock # None
                 [] op[1] = "remove" -> t[op[2]] # 0
                 [] OTHER            -> TRUE
     IN  IF ok
         THEN cmd' = [cmd EXCEPT ![c].at = IF op[1] = "build" THEN "build" ELSE "walk",
                                 ![c].lock = lock, ![c].next = Edited(op, t)]
         ELSE Fail(c)
  /\ UNCHANGED <<sources, cache, project, alone, runs, moves>>

-----------------------------------------------------------------------------
(* build_list, reading the Pome.toml of every version it comes to.         *)
Found(c) == {k \in Keys : cmd[c].found[k] # None}
Pending(c) ==
  (Requirements(cmd[c].next) \cup UNION {cmd[c].found[k] : k \in Found(c)}) \ Found(c)
Largest(keys) == {k \in keys : \A j \in keys : j[1] = k[1] => j[2] <= k[2]}
Missing(c) == {k \in Largest(Found(c)) : cmd[c].made[k[1]] = None}

(* Fetcher::manifest of a version whose Pome.toml is cached: it is compared *)
(* with the lock if the lock has the version, else trusted.                *)
CachedManifest(c) ==
  /\ cmd[c].at = "walk"
  /\ \E k \in Pending(c) :
       /\ manifests[k] # None
       /\ IF IsLocked(cmd[c].lock, k) => manifests[k] = Manifest[k][cmd[c].lock[k[1]].content]
          THEN cmd' = [cmd EXCEPT ![c].found[k] = manifests[k]]
          ELSE Fail(c)
  /\ UNCHANGED <<sources, cache, project, alone, runs, moves>>

(* Otherwise it is fetched, and compared with the lock, or with the record *)
(* if the lock does not have the version.                                  *)
FetchManifest(c) ==
  /\ cmd[c].at = "walk"
  /\ \E k \in Pending(c) :
       /\ manifests[k] = None
       /\ \E x \in served[k] :
            LET m == Manifest[k][x] IN
            /\ IF IsLocked(cmd[c].lock, k)
               THEN m = Manifest[k][cmd[c].lock[k[1]].content] /\ UNCHANGED record
               ELSE Checked(k, {r \in Contents : Manifest[k][r] = m})
            /\ cmd' = [cmd EXCEPT ![c].at = "keep",
                                  ![c].getting = [key |-> k, content |-> x]]
  /\ UNCHANGED <<served, cache, project, alone, runs, moves>>

(* put_file, after the walk fetched a manifest or download put a version.  *)
KeepManifest(c) ==
  /\ cmd[c].at \in {"keep", "keepnew"}
  /\ LET g == cmd[c].getting
         m == Manifest[g.key][g.content]
     IN  /\ manifests' = [manifests EXCEPT ![g.key] = m]
         /\ IF cmd[c].at = "keep"
            THEN cmd' = [cmd EXCEPT ![c].at = "walk", ![c].found[g.key] = m,
                                    ![c].getting = None]
            ELSE cmd' = [cmd EXCEPT ![c].at = "get", ![c].getting = None,
                           ![c].made[g.key[1]] = [version |-> g.key[2], content |-> g.content]]
  /\ UNCHANGED <<sources, dirs, project, alone, runs, moves>>

EndWalk(c) ==
  /\ cmd[c].at = "walk" /\ Pending(c) = {}
  /\ Goto(c, "get")
  /\ UNCHANGED <<sources, cache, project, alone, runs, moves>>

-----------------------------------------------------------------------------
(* Fetcher::ensure, for resolve and for a build: what the cache has is     *)
(* taken; otherwise the files are fetched and compared with the lock.      *)
Ensured(c, p) == dirs[<<p, cmd[c].lock[p].version>>]
Ensure(c, k, then) ==
  /\ dirs[k] = None
  /\ \E x \in served[k] :
       /\ x = cmd[c].lock[k[1]].content
       /\ cmd' = [cmd EXCEPT ![c].at = then, ![c].getting = [key |-> k, content |-> x]]
  /\ UNCHANGED <<record, served>>

(* resolve keeps a version the old lock has, once it is in the cache.      *)
KeepLocked(c) ==
  /\ cmd[c].at = "get"
  /\ \E k \in Missing(c) :
       /\ IsLocked(cmd[c].lock, k)
       /\ \/ /\ Ensured(c, k[1]) # None
             /\ cmd' = [cmd EXCEPT ![c].made[k[1]] = cmd[c].lock[k[1]]]
             /\ UNCHANGED <<served, record>>
          \/ Ensure(c, k, "store")
  /\ UNCHANGED <<cache, project, alone, runs, moves>>

(* Fetcher::download of any other: the files are fetched and compared with *)
(* the record.                                                             *)
Download(c) ==
  /\ cmd[c].at = "get"
  /\ \E k \in Missing(c) :
       /\ ~IsLocked(cmd[c].lock, k)
       /\ \E x \in served[k] :
            /\ Checked(k, {x})
            /\ cmd' = [cmd EXCEPT ![c].at = "storenew",
                                  ![c].getting = [key |-> k, content |-> x]]
  /\ UNCHANGED <<served, cache, project, alone, runs, moves>>

(* put_dir ends: its caller goes on.                                       *)
PutEnds(c) ==
  CASE cmd[c].at \in {"storenew", "renamenew"} -> Goto(c, "keepnew")
    [] cmd[c].at \in {"store", "rename"} ->
         cmd' = [cmd EXCEPT ![c].at = "get", ![c].getting = None]
    [] OTHER -> cmd' = [cmd EXCEPT ![c].at = "build", ![c].getting = None]

(* put_dir of a version that is there does nothing; of any other it writes *)
(* the files under a temporary name.                                       *)
FindDir(c) ==
  /\ cmd[c].at \in {"store", "storenew", "storebuild"}
  /\ IF dirs[cmd[c].getting.key] # None
     THEN PutEnds(c)
     ELSE Goto(c, CASE cmd[c].at = "store" -> "rename" [] cmd[c].at = "storenew" -> "renamenew"
                    [] OTHER -> "renamebuild")
  /\ UNCHANGED <<sources, cache, project, alone, runs, moves>>

(* Mutant: what is there by then is replaced.                              *)
RenamedOver(g) == [dirs EXCEPT ![g.key] = g.content]

(* Then it renames them.  That fails if another command put the version    *)
(* there since, which stays.                                               *)
Renamed(g) == IF dirs[g.key] = None THEN [dirs EXCEPT ![g.key] = g.content] ELSE dirs
RenameDir(c) ==
  /\ cmd[c].at \in {"rename", "renamenew", "renamebuild"}
  /\ dirs' = Renamed(cmd[c].getting)
  /\ PutEnds(c)
  /\ UNCHANGED <<sources, manifests, project, alone, runs, moves>>

-----------------------------------------------------------------------------
(* apply: Pome.toml is written if its text changed, then the lock if it is *)
(* not the one that was read.                                              *)
WriteToml(c) ==
  /\ cmd[c].at = "get" /\ Missing(c) = {}
  /\ Goto(c, "written")
  /\ toml' = IF cmd[c].next # cmd[c].toml THEN cmd[c].next ELSE toml
  /\ UNCHANGED <<sources, cache, lock, alone, runs, moves>>

(* Mutant: a lock is written only for the first time or a new Pome.toml.   *)
NewLockIfEdited(c) ==
  IF cmd[c].lock = None \/ cmd[c].next # cmd[c].toml THEN cmd[c].made ELSE lock

NewLock(c) == IF cmd[c].lock # cmd[c].made THEN cmd[c].made ELSE lock
WriteLock(c) ==
  /\ cmd[c].at = "written"
  /\ cmd' = [cmd EXCEPT ![c] = [Fresh EXCEPT !.at = "done"]]
  /\ lock' = NewLock(c)
  /\ UNCHANGED <<sources, cache, toml, alone, runs, moves>>

-----------------------------------------------------------------------------
(* Mutant: a Pome in the lock is enough.                                   *)
ListedIn(l, k) == l # None /\ l[k[1]] # None

(* The lock has the Pome of k in the version required or a later one.      *)
MetBy(l, k) == l # None /\ l[k[1]] # None /\ l[k[1]].version >= k[2]

(* project_dependencies: the requirements of Pome.toml are compared with   *)
(* the lock one by one, each before its Pome is taken.                     *)
TakeDirect(c) ==
  /\ cmd[c].at = "build" /\ cmd[c].todo = {}
  /\ \E k \in Requirements(cmd[c].next) :
       IF MetBy(cmd[c].lock, k)
       THEN cmd' = [cmd EXCEPT ![c].next[k[1]] = 0,
                               ![c].todo = IF cmd[c].used[k[1]] = None THEN {k[1]} ELSE {}]
       ELSE Fail(c)
  /\ UNCHANGED <<sources, cache, project, alone, runs, moves>>

(* Builder::pome, for each Pome the build comes to, in some order: it must *)
(* be in the lock, and what it requires is read from its directory.        *)
BuildPome(c) ==
  /\ cmd[c].at = "build"
  /\ \E p \in cmd[c].todo :
       LET l == cmd[c].lock IN
       \/ l[p] = None /\ Fail(c) /\ UNCHANGED <<served, record>>
       \/ /\ l[p] # None /\ Ensured(c, p) # None
          /\ LET used == [cmd[c].used EXCEPT ![p] = Ensured(c, p)]
                 requires == {k[1] : k \in Manifest[<<p, l[p].version>>][used[p]]}
             IN  cmd' = [cmd EXCEPT ![c].used = used,
                           ![c].todo = (@ \cup requires) \ {q \in Pomes : used[q] # None}]
          /\ UNCHANGED <<served, record>>
       \/ l[p] # None /\ Ensure(c, <<p, l[p].version>>, "storebuild")
  /\ UNCHANGED <<cache, project, alone, runs, moves>>

EndBuild(c) ==
  /\ cmd[c].at = "build" /\ cmd[c].todo = {} /\ cmd[c].next = NoToml
  /\ Goto(c, "built")
  /\ UNCHANGED <<sources, cache, project, alone, runs, moves>>

(* A request or a write fails, something compared does not match, or the   *)
(* process is killed.  What it renamed into place stays.                   *)
Abort(c) ==
  /\ cmd[c].at \notin {"idle", "done", "built"}
  /\ Fail(c)
  /\ UNCHANGED <<sources, cache, project, alone, runs, moves>>

Step(c) ==
  \/ Start(c) \/ ReadToml(c) \/ ReadLock(c)
  \/ CachedManifest(c) \/ FetchManifest(c) \/ KeepManifest(c) \/ EndWalk(c)
  \/ KeepLocked(c) \/ Download(c) \/ FindDir(c) \/ RenameDir(c)
  \/ WriteToml(c) \/ WriteLock(c)
  \/ TakeDirect(c) \/ BuildPome(c) \/ EndBuild(c) \/ Abort(c)

Next == MoveTag \/ EditToml \/ \E c \in Commands : Step(c)

Spec == Init /\ [][Next]_vars

-----------------------------------------------------------------------------
Public == {k \in Keys : k[1] \notin Private}
Holding ==
  {"keep", "keepnew", "store", "storenew", "storebuild", "rename", "renamenew", "renamebuild"}

TypeOK ==
  /\ served \in [Keys -> (SUBSET Contents) \ {{}}] /\ record \in [Keys -> Contents \cup {None}]
  /\ dirs \in [Keys -> Contents \cup {None}] /\ manifests \in [Keys -> (SUBSET Keys) \cup {None}]
  /\ toml \in [Pomes -> 0..MaxVersion]
  /\ lock = None \/ lock \in [Pomes -> Locked \cup {None}]
  /\ \A c \in Commands :
       /\ (cmd[c].getting # None) <=> (cmd[c].at \in Holding)
       /\ cmd[c].made \in [Pomes -> Locked \cup {None}]

(* Whatever tags do, and whichever commands run at once or are cut short:  *)
(* of a version that is not private, the cache holds only the files and    *)
(* the Pome.toml that were recorded, and so does every lock (download,     *)
(* manifest and ensure with put_dir and put_file).                         *)
CopiesRecorded ==
  \A k \in Public :
    /\ dirs[k] \in {None, record[k]}
    /\ manifests[k] # None => record[k] # None /\ manifests[k] = Manifest[k][record[k]]
    /\ IsLocked(lock, k) => lock[k[1]].content = record[k]

(* A build that succeeds meets every requirement of Pome.toml and of the   *)
(* Pomes it uses, although it compares only the first with the lock, and   *)
(* whichever command wrote the lock it read (project_dependencies,         *)
(* Builder::pome).  Those of a private version that requires something     *)
(* else since its tag moved are left out: the lock may have been made from *)
(* what it required before, and nothing compares them.                     *)
Fixed(k) == k[1] \notin Private \/ \A x, y \in Contents : Manifest[k][x] = Manifest[k][y]
Used(c) == {<<p, cmd[c].lock[p].version>> : p \in {q \in Pomes : cmd[c].used[q] # None}}
Requires(c, keys) ==
  Requirements(cmd[c].toml) \cup UNION {Manifest[k][cmd[c].used[k[1]]] : k \in keys}
Meets(c, k) == cmd[c].used[k[1]] # None /\ cmd[c].lock[k[1]].version >= k[2]
BuildMeetsRequirements ==
  \A c \in Commands : cmd[c].at = "built" =>
    \A k \in Requires(c, {j \in Used(c) : Fixed(j)}) : Meets(c, k)

(* A command that succeeds and that nothing ran beside leaves the lock of  *)
(* Pome.toml as it is now: the largest versions of all it reaches and no   *)
(* other Pome, whatever earlier commands left half done (apply).           *)
Stated(k) == Manifest[k][IF record[k] = None THEN First ELSE record[k]]
Reached ==
  LET Closed == {S \in SUBSET Keys :
                   Requirements(toml) \subseteq S /\ \A k \in S : Stated(k) \subseteq S}
  IN  {k \in Keys : \A S \in Closed : k \in S}
LeavesConsistent ==
  \A c \in Commands : cmd[c].at = "done" /\ alone[c] =>
    /\ lock # None
    /\ {<<p, lock[p].version>> : p \in {q \in Pomes : lock[q] # None}} = Largest(Reached)

(* While a build runs and after it, the directories it took its Pomes from *)
(* hold what it read there, although commands that found the version       *)
(* missing, and fetched something else since its tag moved, may still be   *)
(* about to rename theirs: the sources are read after Pome.toml and        *)
(* nothing is locked (put_dir, Builder::pome).                             *)
BuildFilesStay ==
  \A c \in Commands : \A k \in Used(c) : dirs[k] = cmd[c].used[k[1]]

(* What a build uses has the content its lock names.                       *)
BuildAsLocked ==
  \A c \in Commands : cmd[c].at = "built" =>
    \A p \in Pomes : cmd[c].used[p] \in {None} \cup
      (IF cmd[c].lock = None \/ cmd[c].lock[p] = None THEN {} ELSE {cmd[c].lock[p].content})
==============================================================================
