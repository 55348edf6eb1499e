# Models of Emela

TLA+ modules, TLC configurations and TLAPS proofs for the parts of Emela
(`src/`) whose correctness depends on the order of events or on every path being
taken care of: the fiber scheduler with structured concurrency and interruption,
the completion of host calls, the package manager (version selection, the
checksum database, the cache and the lock), the language server's loop, and the
passes that insert reference counts. Paths below are relative to the repository.

## 1. The system

Emela is a language with effects and fibers. `crates/` holds a compiler (syntax,
name resolution, types, core and LIR representations, four code generators),
the runtimes that compiled programs run on, a driver and command line, a
formatter, a language server and a package manager (pome).

| Component | State | Operations | Hard behaviour | What makes it correct |
|---|---|---|---|---|
| JS fiber scheduler (`emela-codegen-js/src/runtime.mjs`) | job queue, waits, fibers, scopes, deferreds, host calls | scope, fork, join, await, interrupt, attempt, deferreds, with, yields, host calls, stall | wake-ups racing interruptions, releases that suspend, failures of siblings in one turn, the empty event loop | a continuation runs once, no lost wake-up, releases are not interrupted, scopes outlive their children, the run ends |
| C runtime: host tasks and event loop (`emela-codegen-c/src/emela_runtime.c` 2319-3270) | task table with generations, free list, flags, inbox, self-pipe, timers and descriptors | em_task_new, em_complete (any thread), em_register, em_task_end, em_task_cancel, em_loop_turn, em_run | completions by other threads at every point of the loop, late handles, cancellation that calls back | a handle never names another task, nothing is freed early or twice, no completion is lost |
| C fiber scheduler (same file, 1555-2310 and 3270-3900) | as in JS, with continuations on the heap | as in JS | as in JS, and reference counts | as in JS |
| Suspend operations (`$performOp`, `em_perform`) | used, the waiting caller and implementation | resume, failure, drop | a resume after a drop or a failure | exactly one result reaches the caller |
| Virtual time (TestClock) | sleepers ordered by time | sleep, wake on a stall | sleepers interrupted while being woken | woken in order of time |
| Constant cells (`$constant`, `em_const_enter`) | unset, running, set | first use | cycles, a failure while initialising | initialised once, cycles are defects |
| WASM scheduler (`emela-codegen-wasm/src/emit`) | as in JS | as in JS | async imports | as in JS |
| Embedded runtime (`emela-codegen-emb/src/runtime`) | static pools | as in C | pools at their limit | as in C |
| Version selection (`emela-pome/src/mvs.rs`, `version.rs`) | selected versions, visited ones, the queue | build_list, reached | cycles, versions raised after they were visited, prereleases | the largest version required of everything reached, nothing else, tests lower nothing |
| Checksum database client (`emela-pome/src/fetch/sumdb.rs`, `sumdb/tlog.rs`) | the checkpoint kept in the cache, tiles | lookup, inclusion, advance with consistency | a database that forks or answers late, commands that share the file, partial tiles | what is trusted is in one signed history |
| Cache, lock and commands (`emela-pome/src/project.rs`, `fetch/mod.rs`, `fetch/cache.rs`, `emela-driver/src/pome.rs`) | `Pome.toml`, `Pome.lock`, cached manifests and directories | install, add, remove, update, builds | two commands at once, commands cut short, tags that move | only recorded copies are used, builds meet what they read, the lock fits `Pome.toml` |
| Language server (`emela-lsp/src/server.rs`, `overlay.rs`) | open documents and versions, the overlay, what was published | open, change, save, close, requests, analyze, publish | edits during the analysis, several spellings of a URI | at rest the editor shows the diagnostics of what it has |
| Reference counting (`emela-lir/src/heap`) | - (passes), then the counts of a running function | explicit_defects, state_machines, insert_rc, rc_check | branches, loops, failures, defects, suspension, releases | nothing is read after it is freed, nothing leaks, releases run once on every way out |
| Front end, formatter, code generators | - (functions on trees) | - | - | - |
| Driver and command line | processes and files | build, run, test | exit codes | reports every outcome |

Interactions: compiled code calls the runtime's operations (`yield` requests in
JS, suspending calls in C); the runtime calls host functions and is called back
by the host (promises, `beforeExit`; completion functions, timers, threads);
the launcher (`emela-driver/src/run.rs`) starts a run and reports its result.
The commands of the package manager and the builds share files with each other
and ask proxies, repositories and the checksum database; the language server
reads the same sources through its overlay and shares nothing with a build. The
Heap IR passes produce what the C backend emits, which calls the C runtime.

The hazards of this code, each at its line and with the properties that cover
it, are listed in `PROJECT.json`.

## 2. Modules

`StructuredConcurrency` says what scopes promise, without a scheduler: fibers
are forked into open scopes, a scope returns when its body and its children have
ended, and the first failure among them is its result. `FiberScheduler` is shown
to implement it (`ImplementsScopes`, a refinement mapping that reads the abstract
state off the `$Fiber` and `$Scope` objects), and what it promises, `LifetimesNest`
and `NoFailureLost`, is checked of the scheduler's state through that mapping.
`StructuredConcurrencyProofs` proves it for every number of fibers and scopes.

`FiberScheduler` is the scheduler of `runtime.mjs`. One run is single-threaded:
`cur` is `$current`, `queue` the root's queue, `waits` its waiting continuations,
`fib`, `scope` and `deferred` the objects of the classes with the source's field
names. Programs are arbitrary: at each point a running fiber may call any
operation in `Ops`, or end the innermost construct it is in with any outcome.
Its stack of frames stands for the generator's frames that the runtime sees:
scope bodies, scopes waiting for their children, withs, suspending releases and
attempts. `flow` is the outcome travelling outward through them. Each action is
one operation, together with everything it does to other fibers: ending a fiber
(`FinishChild`) reports to the scope, interrupts siblings and the body, drops
their waits, aborts their host calls, and wakes the closer and the watchers, in
the source's order. Steps of the queue are `Begin`, `Resume`, `Go` and `Throw`;
steps of the host are `Settle`, `Later` and `Stalled` (the `beforeExit` handler,
emitted again only after a host callback ran). `MCFiberScheduler` gives the
number of operations per fiber. `FiberSchedulerProofs` proves its safety
properties and the refinement for any number of fibers, scopes and operations.

`HostTasks` is the C runtime's side of external functions: `TaskNew`, `Register`,
`CompleteInCall`, `EndDone`/`EndDead`/`EndWaits` follow one call; `CompleteThere`
and `Wake` are the two halves of a completion by another thread (the lock is
released before the byte is written); `TurnBegin` ... `TurnEnd` are the steps of
`em_loop_turn` that other threads can come between; `Stall`, `Unwound`, `EndRun`
and `NewRun` are `em_run`. Fibers are abstracted to whether one is runnable. A
callback may complete any task, also one completed before, and the callback of a
cancellation may complete its task inside the cancellation. A callback that
registers its own task again leaves the set of registrations as it was.
`CRuntimeProofs` proves its safety invariants for any number of calls.

`SuspendOps` is `$performOp` and what it needs of the scheduler. Continuation 0
is the main one of the run's first fiber, continuation k the implementation of
the k-th call. They nest on the JavaScript stack (`stack`): a call runs its
implementation inside it (`Perform`), a resume runs the caller inside it (`Pass`),
and so does a Deferred completed by a continuation of the same fiber
(`Complete`). The local `sync` of `$performOp` is read off the state: the call has
not returned while its caller is at "perform" (`Returns` is the return). Other
fibers and the host act when the stack is empty: they call `resume`, wake what
waits for something else, interrupt the body of a scope on this fiber
(`Interrupt`), or find the run stalled (`RootInterrupt`). `Inner` follows the
`onDrop` of callers down the chain of implementations they wait for, and `Close`
is one turn of the loop of `$Root#interrupt`. What continuations compute, and
with which outcome they end, is arbitrary. One scope at a time may be interrupted;
the model stops when the run is over, as later resumes do nothing.
`SuspendOpsProofs` proves its properties for any number of calls.

`VersionSelection` runs the two loops of `build_list` and then `reached`, as
`resolve` does, over a requirement graph chosen at the start; `Roots` are the
project's dependencies and dev-dependencies, a version is its rank, and reading
any `Pome.toml` may fail. `VersionOrder` is the order of `version.rs` on versions
with prereleases; `MCVersionSelection` gives the graphs and checks that the order
is total, which is what makes taking ranks sound. `VersionSelectionProofs` proves
what selection promises for every graph, and that the order is total for all
versions.

`MerkleTiles` is the reader of the database's tree: subtrees folded from tiles and
partial tiles, ranges, inclusion and consistency. A hash is a
term, so there are no collisions. The reader is given a function from tiles to their
hashes, and nothing says that they belong to one log: it takes each hash from the
tile of its own level and does not compare it with the level below (`LevelsAgree`,
disagreement 2). `ChecksumDatabase` is the client: `Lookup` verifies an answer
against the checkpoint it came with, `ReadSeen` reads the checkpoint in the cache and
`Advance` compares and replaces it, as two steps that another command can come between; `Abandon` is a failed request. The database
(external) grows, may answer with an older checkpoint, and after `Fork` shows a
second history, answers anything and serves each tile from either history
(`Served`: each tile is a request of its own). Two ghosts remember the cases in
which a fork is not caught: `stale`, that a command overtook another, and `torn`,
that checkpoints were compared with tiles whose levels do not agree. Signatures are
taken as checked.
`ChecksumDatabaseProofs` proves both modules right for every tile height and size.

`PomeStore` has the commands and builds as processes on shared files. A command
reads `Pome.toml` and the lock, walks the manifests in any order (`CachedManifest`,
`FetchManifest`, `KeepManifest`), keeps what is locked and downloads the rest
(`KeepLocked`, `Download`), then writes `Pome.toml` and the lock. `put_dir` is two
steps, `FindDir` (`exists()`) and `RenameDir`, with other commands in between. A build
reads both files, compares each dependency with the lock (`TakeDirect`), takes its
directory and goes on to what that requires (`BuildPome`), which it does not
compare. `Abort` ends a command between
any two steps. Tags move (`MoveTag`), proxies may serve old and new content;
versions that are not private are compared with what the database recorded first
(`Checked`), private ones are not. `EditToml` is a user's edit. Left out:
`[replace]`, `[external]` allow, dev-dependencies, the choice of proxies, and the
commands that change nothing (list, verify). `PomeStoreProofs` has the proofs.

`LanguageServer` is the server's loop (`Receive` while draining, `Analyze`, a second
drain that discards a result edits made stale, `Publish`, wait) and an editor
(external) that opens, types, saves, closes, asks and leaves at any time. `shown`
is what an editor has that keeps diagnostics by URI, `byFile` what one has that
takes all URIs of a file for one: publishing must be right for both. The editor
opens a file under one URI at a time. The server asks for `didSave` without the text
(`includeText` is false), so the branch for one with a text (`server.rs:643-647`) is
not taken. `LanguageServerProofs` proves the safety
properties for any project and any number of messages.

`HeapCode` is the Heap IR as far as ownership and the ways out of a function go,
with the frames that say where control is. `DefectPaths` is `explicit_defects` on
it; `RefCounts` adds liveness, `state_machines` (what a suspended call saves) and
`insert_rc`; `BalanceCheck` is the verifier's `rc_check`. `HeapMachine` runs the
result the way the C backend emits it over a heap of counted objects: a callee may
keep, drop or return its arguments, fail, raise a defect, come back suspended and be
resumed or interrupted, and the caller may drop the closure once the call is
suspended. A call made in place by code that does not suspend may also come back with
the interruption that `em_sync_leave` finds (`Grades`). Data is abstracted: an array
has one element, and of a handler that is retired the order of releases is kept, not
its `released` flag and `em_last_retired`, which only name the handler in notes added
to failures (`emela_runtime.c:995-998`). `MCHeapMachine` gives 816 functions in four
families: straight code (aliases, views, in-place updates), blocks, loops, and withs,
with functions that suspend and functions that do not.

`OwnedPaths` is not code of the repository: it is a check in the manner of
`rc_check` that follows every path and also knows whether the caller still lends
the environment, whether a defect is pending, which handlers are open and how many
holds there are. A function is accepted if some set of places holds its entry, has
only places whose next step is right by what is known there, and is left by none of
their ways. It is the hypothesis of the theorems about `HeapMachine`, and the run
shows that the code the passes make meets it. The passes are recursive on syntax:
they and `MCHeapMachine` use `RECURSIVE` operators and have no theorems;
`HeapCode`, `OwnedPaths` and `HeapMachine` do not.

Definitions marked *Mutant* are the broken variants used to test the properties:
with the definition after it replaced by the mutant, the property named in
`PROJECT.json` fails.

## 3. Runs

| Run | Bounds | Checks |
|---|---|---|
| fiber_scheduler | 3 fibers, 2 scopes, 1 deferred, 4 + 2 + 1 operations, nesting 3 | the scheduler implements the scopes, so that nothing outlives its scope or main (`LifetimesNest`) and failures are reported (`NoFailureLost`); continuations run once (`OneContinuation`, with the types); no lost wake-up; no sleep through an interruption; interruptions stay in their scope; releases uninterrupted |
| fiber_unwinding | 3 fibers, 1 scope, 1 deferred, 4 + 2 + 2 operations, nesting 2 | the run ends, also when its fibers wait for each other, and interrupted fibers end, unless a release waits again while the stalled run is unwound (fairness) |
| fiber_abandoned | 2 fibers, 1 scope, 4 + 2 operations, nesting 2 | that exception, violating `RunEnds`: disagreement 3 of section 5 |
| host_tasks | 2 calls, 2 completions each, 2 runs | handles and the free list (`TableRight`); frees (`RecordsSafe`); no completion dropped, no sleep on one (`NothingLost`); completions arrive (fairness) |
| suspend_ops | 2 calls | one result per caller, none lost (`ExactlyOneResult`); generators are not re-entered; unwinding knows every wait and goes from the inside out (`UnwindsInOrder`); defects of closed implementations are reported |
| version_selection | 3 Pomes, 5 versions, every graph over them | the lock's versions are the largest required, meet every requirement and are not lowered by the tests (`LockRight`); the build is complete and minimal (`BuildExact`); the order of versions is total; the loops end (fairness) |
| checksum_database | 2 commands, histories of 4 records, 2 lookups, tiles of 4 hashes | what is trusted is in the signed tree; one history, one content per version, the largest checkpoint kept (`OneHistoryKept`), as long as no command overtakes another and the levels of the tiles agree; an honest database is never refused; roots rebuilt from tiles are right up to 21 records |
| checksum_mixed_tiles | 1 command, otherwise as checksum_database | a fork that is not caught, violating `ForkIsCaught`: disagreement 2 of section 5 |
| pome_store | 2 commands, 2 Pomes (1 private) with 2 versions of 2 contents that require each other, 3 commands and edits, 1 moved tag | copies are the recorded ones; builds meet every requirement of what they use; a command leaves the lock of its Pome.toml; the directories a build took stay what it read |
| language_server | 2 files, 3 URIs, 2 texts, 5 messages | diagnostics name their text; what is shown at rest is current, by URI and by file (`DiagnosticsCurrent`); answers are current; the server comes to rest (fairness) |
| heap_machine | 816 functions, parameter shared or not, 12 objects, 2 turns of a loop | reads are live; nothing leaks (`CountsExact`); releases in order on every way out; defects kept; the verifier and the path check accept what the passes make, and nothing is kept through a call that is not used after it (`WellCounted`) |
| pome_moved_tag | 1 command, otherwise as pome_store with 4 commands | disagreement 1 of section 5 |

Where a property is a conjunction of named parts, the parts are defined and
explained next to it. A type invariant that is not a conjunct of a property of its
run is proved.

Why the bounds suffice for the interesting cases: main and two children are enough
for a sibling to fail while another is queued, waiting, in a release or not begun,
for one child to interrupt or join the other and itself, and for a child to fail
while main waits for the children. Two scopes nest on one fiber or lie on two. Two
operations in a child are a suspension in a release, or a scope and a fork in it.
All of the safety properties of the scheduler are proved for any numbers (section 4);
the bounds matter for the ones that are not, that the run ends.
fiber_scheduler leaves out one operation, a host call that never settles; the proofs
have it, and so has fiber_unwinding. `HostEvery` = 2 makes every second yield go through the host, so both ways
of yielding occur. Two external calls are enough for a slot to be freed and taken
again while the old handle is still used, two completions for every order of a
first and a second one, two runs for a completion that arrives in a later run; the
safety properties are proved for any number of each. In fiber_unwinding main's
four operations are enough for fibers that wait for each other, or for host calls that
never settle, and are unwound as stalled, and for releases that suspend while they
are interrupted or unwound. One that suspends in a way no host callback will end,
while a stalled run is unwound, is left so when the process exits: `Abandoned` says
exactly that, and fiber_abandoned has the shortest such run. Two calls of operations are one after the other or a chain
(main waits for an implementation that waits for another), so that a drop takes
two continuations with it; the properties are proved for any number. `GenCount` is above the number of calls, as it is in
practice (2^32 on 64-bit targets).

Five versions of three Pomes are enough for a requirement that is found through a
version not selected in the end, for cycles of two and three, and for a version
raised after it was visited; the properties are proved for every graph. Tiles of
four hashes make 21 records need three levels with partial tiles at each, which
tiles of 2^8 would only reach at 65,793; histories of four records have a
consistency proof of every shape up to there, and the fourth record completes a tile,
so that a check reads two levels; two lookups let one command overtake another
between its two steps; the properties are proved for any number of
commands, records and lookups and any tile height, 8 included. Two commands with one moved tag are enough
for each to fetch what the other is about to store, and three commands and edits
for a command to find what an aborted one left. The private Pome has requirements
that the build reads from its directory and nobody compares. The properties are
proved for any number, `LeavesConsistent` if what private versions require does not
change with their tags, as in this instance, `BuildMeetsRequirements` of the
requirements that do not (disagreement 11). Five messages are an open, two edits
that fall into different phases of the loop, a close and a request; the third URI
is a second spelling of the first file; again the proofs are for any number. Two turns of a loop let a variable survive
a `recur` and be used after it; a run that recurs more often is not followed
("cut"), and nothing is claimed about its end. 12 objects are more than any of
these functions has at once.

Fairness. `FiberScheduler!FairSpec` is weak fairness of one step of the whole
scheduler: JavaScript runs one thing at a time and goes on as long as there is
something to do, code between suspension points is assumed to end (operations
are bounded) and host calls to settle. No fairness is assumed between the
actions. `HostTasks!FairSpec` is weak fairness of the runtime's thread and of a
thread that has completed a task and is about to write its byte; nothing forces
other threads to complete anything. `VersionSelection!FairSpec` is weak fairness of
a sequential loop. `LanguageServer!FairSpec` is weak fairness of the server's
thread; the editor is not forced to do anything, and is bounded: an editor that
never stops typing can postpone diagnostics for ever (section 5).

Deadlock is checked everywhere but in the runs of `PomeStore` and `LanguageServer`,
where nothing more may be asked for. In the others the end (the process' exit, the last run, the
resolution's result) is an explicit stuttering action.

## 4. Proofs

`StructuredConcurrencyProofs` (any number of fibers and scopes): type
correctness, `ScopeOutlivesChildren`, `NothingOutlivesMain` and `NoFailureLost`. The
numbers are hypotheses of the theorems (at least one fiber), so that they can be
instantiated for the scheduler. The inductive invariant adds to the
type: a live child's scope has not returned (*Alive*); the body of a scope that
has not returned runs on a live fiber (*Bodies*); a scope was opened by a fiber
older than its children, so that the chain of live parents descends to main
(*Ranked*); a scope that is not new was opened (*Opened*); and what first, out
and ret record is what the body and the children did (*Failed*). `MainEndsLast`
needs *Ranked*: a live fiber's scope has a live body on an older fiber, and the
oldest live fiber can only be main.

`CRuntimeProofs`, first half (any number of calls, completions and runs of
`HostTasks`, assuming only `GenCount > NTasks`): type correctness, `HandleNamesItsTask`, `NoUseAfterFree`,
`RetiredOnce`, `FreeListExact`, `NoLostCompletion` and `NoLostWake`. All but the
last follow from one inductive invariant, `Inv`, with one lemma per kind of step:

- *Slots*: a slot's generation is at least that of every handle that ever named
  it, two calls with the same slot have different generations, a slot's task has
  the slot's current generation, and a slot has been used at most as often as
  tasks were made. The last, with `GenCount > NTasks`, keeps the generation from
  wrapping around; without it the theorem is false, and the source documents the
  limit.
- *Lists*: the inbox, the batch taken from it and the retired list hold each task
  once, only completed ones, and are disjoint; a completed task that still waits
  or is registered is on its way in the inbox or the batch; the task being called
  is not in the batch, retired or waiting; the batch is empty outside the
  delivery. This is what makes it safe to retire a task in any of the four
  places the code does so.
- *Kept* and *TasksMade*: everything the runtime points to was made and is allocated.
  `Collect` keeps it because *Lists* says that a retired record is in no other list.
- `FreeListExact` itself, which makes the slot of a new task empty.

`NoLostWake` is inductive by itself, given the types: only emptying the pipe can
break it, and that leads to the phase in which the inbox is taken. `TableRight`,
`RecordsSafe` and `NothingLost` put these together.

`CRuntimeProofs`, second half (any functions, names, labels and nesting, a heap of
at least 4 objects, any number of turns):
`ReadsAreLive`, `CountsExact`, `ReleasedInOrder` and `DefectKept` of `HeapMachine`,
under the hypothesis `Accepted`: each of the functions is accepted by the check of
`OwnedPaths`. The inductive invariant `HeapInv` says that the run is at a place of
the accepted set and that the state *Fits* what is known there:

- *Sound*: the count of each object is the number of references to it from other
  objects, from variables as often as they own it, and from the caller, the pending
  defect and what is in hand. A variable that owns a reference has a value, the
  environment is there while the caller lends it, and so is the part just looked at.
- *Handlers*: the open handlers of the point are, in order, the objects held, and
  the last one was released exactly if the point says so.
- *Defects*: a defect is pending exactly if the point says so, and what the stashes
  hold is ordered (*Chain*): outside of the first defect there are only
  interruptions. So resuming the innermost stash never loses the gravest one.
- A let under way has its own form (*Mid*): what it consumed is in hand, and what it
  borrows is owned or lent. It is the form of a suspended call.

References are counted as members of finite families of sets, so that an assignment
moves one member and the sum is unchanged; `em_free` is followed object by object.
The four properties are false of arbitrary code, so some hypothesis is needed; that
`Accepted` is not empty, and that it is met by the passes, is `WellCounted` of the
run, for the 816 functions.

`VersionSelectionProofs` (every set of Pomes and versions, every graph and every
project): type correctness, `LargestRequired`, `RequirementsMet`, `BuildComplete`,
`BuildMinimal` and `DevNeverLowers`. The inductive invariant `IInv` says of the
loop of `build_list` that what it has visited or queued is what it was given and
what visited versions require, that every version it has met belongs to every set
closed under requirements, and that the version selected so far is the largest
met (*WalkInv*, *WalkEnded*); of `reached` that it has seen the dependencies,
that what it has seen and has not pending has all its requirements seen, and that
it has seen nothing a sufficient set does not hold (*ReachInv*, *DoneInv*).
Minimality is stated with "every closed set", so no induction over paths is
needed. `DevNeverLowers` compares the two loops: the versions reached from fewer
requirements are in every set closed under more.

`VersionSelectionProofs` also proves of `VersionOrder` that Ord for Version is a total
order that agrees with equality (`VersionsTotallyOrdered`), for prereleases of any
length over any alphabet, and that numeric identifiers are ordered by their value
although lengths and digits are compared (`NumbersOrderedByValue`). A comparison is
shown to answer with a strict order, given as a set of pairs, and strict orders are
closed under comparing by one key first (*ByFirst*). Values: a number that is ahead
at one digit stays ahead whatever digits follow. `SelectionIsUnique` is the invariant
`LargestIsUnique` for any number of digits and letters.

`ChecksumDatabaseProofs` (any tile height, any number of commands, records and
lookups): `AcceptedInTree`, `HonestNeverRefused`, `OneHistoryKept` and
`TilesGiveRoots`. It has two halves. The first is about the reader, by induction on
the width of a range. The tree and `range` split a range at the same place, and
`NodeHash` is injective, so a root rebuilt with a given leaf is the signed one only
if the tree has that leaf, whatever was read from tiles (`InclusionSound`). From the
tiles of a log, an aligned complete range is found inside one tile, within the width
that the tile has in a tree of the size read for (*AlignedInside*), and folding
neighbours of height e r times gives the subtree of height e + r (*FoldTree*), so that
what is read is the log's own hash, or is missing because the log is shorter
(*SubtreeRight*, *RangesRight*). Roots of two sequences are equal exactly if the
sequences are (*TreesEqual*). `verify_consistency` accepts any two trees that the log
of the tiles begins with (`ConsistencyComplete`). Conversely, `ConsistencySound` is
about any tiles, forged ones included, of which each hash is that of the tile one
level below: if two trees are accepted with them, one is a prefix of the other. That
hypothesis is not checked by the reader and cannot be dropped (disagreement 2); it
is empty for trees that fit in one tile, which gives `OneTileCatchesForks`: below
2^TILE_HEIGHT records commands that do not overtake each other trust one history,
whatever is served. The second half is the invariant of the commands: what a command verified, and what is
trusted, is in its signed tree (*Verified*); an unforked database has shown only
beginnings of its log, in answers and in the cache (*Honest*); as long as no
command overtook another the kept checkpoint is the largest, and as long as also all
compared tiles agreed every trusted tree begins it (*Kept*). `OneHistoryKept` has these
two provisos, `~stale` (disagreement 9) and `~torn` (disagreement 2);
`OneCommandKeepsTheLargest` shows that the first always holds with one command at a
time.

`FiberSchedulerProofs` (any numbers of fibers, scopes, deferreds and operations,
any nesting): `OneContinuation`, `NoLostWakeup`, `NoSleepThroughInterrupt`,
`InterruptStaysInScope`, `ReleaseUninterrupted` and the refinement
`ImplementsScopes`. The inductive invariant `Inv` (`SchedulerConsistent`) has one part
that always holds, *Nested*: a forked fiber is a child of its scope and younger than
the fiber that opened it, each scope has its frame on the stack of exactly one
fiber, the number that holds interruptions off is the number of releases and closing
scopes on the stack (*Held*), and a scope whose interruption is pending or unwinding
is one that the fiber is in (*Aimed*). The other part, *Scheduled*, holds until the
run is over: the waits of a fiber are numbered apart and nothing names a wait twice
(*Numbered*); every live fiber runs, is in the list of waits, or has exactly one task
of its own in the queue (*Placed*); a closer waits for a scope that has live children
(*Closing*, *Children*); no fiber that may be interrupted waits (*Awake*); and what a
fiber waits for knows that very wait (*WakesWaiting*). The invariant cannot be split:
that a wake-up finds its fiber needs the numbers, that they are apart needs the
places, and that a fiber is in one place only needs that an interruption removes the
wait it throws into. When the run is over `finish` has emptied the queue, and only
*Nested* and *Awake* remain. The largest steps are those that end a fiber, where a
failure interrupts the siblings one after the other (`InForkOrder`): the invariant is
shown for each prefix of that loop.

`SchedulerImplementsScopes` goes by cases on the step: forking, opening a scope,
ending a fiber and returning from a scope are the steps of the same name of
`StructuredConcurrency`, every other step leaves the abstract state unchanged.
`FiberLifetimesNest` and `FiberFailuresReported` then carry the theorems about the
abstract scopes over to the scheduler by instantiating `StructuredConcurrencyProofs`.

`SuspendOpsProofs` (any number of calls): `NoReentry`, `ExactlyOneResult`,
`UnwindsInOrder` and `ClosedDefectReported`. The invariant (`CallsAccountedFor`) is one
of two: while the run goes on (*Runs*) the continuations on the JavaScript stack are
exactly the ones that run or have called and not returned (*Stacked*), the list of
waits is exactly what waits and is live (*Listed*), a caller's wait is either for a
call that is open or has a result on its way (*Awaited*, *Passed*), implementations
are newer than their callers (*Inwards*, *Called*), and defects of closed ones are noted
(*Noted*); when it is over (*Ends*) what remains is what was given. Dropping a caller
closes a whole chain of implementations (`Inner`, `CloseAll`), so these lemmas are
inductions over the chain.

`LanguageServerProofs` (any files, URIs, texts and number of messages):
`VersionNamesText`, `DiagnosticsCurrent` and `AnswerIsCurrent`. The invariant
(`ServerFollowsEditor`) relates two ends of a channel: the messages in flight, applied
one after the other to the server's documents, give the editor's (*Connection*); that
is what makes a request's answer current. The overlay is the open documents
(*Overlay*); a result is of the documents the server has unless one of `dirty` and
`changed` says otherwise (*ResultFresh*); every diagnostic that an editor still shows
is in `published`, under the URI it was sent for (*Accounted*); and at rest what is
shown is what the documents give (*Settled*).

`PomeStoreProofs` (any number of commands, Pomes, versions, contents, runs and moved
tags): type correctness, `CopiesRecorded`, `BuildMeetsRequirements`,
`LeavesConsistent` and `BuildFilesStay`. The invariant `Inv`
speaks of the shared files and of
what each command holds in memory, given the records: contents and manifests of
published versions agree with the record (*LockAgrees*, *Compared*), a lock meets
the requirements of the published versions in it, and of the private ones that
require the same whatever their tag points to (*LockClosed*), a walk that has
ended holds all that its manifests require and what is made of them is the largest
(*Walked*), and a build has used or still has to do what it has read (*Built*).
Records only grow, so a step of one command leaves what another holds true: that
is one lemma, used by every action. `BuildFilesStay` adds that a directory a build has
used is there, whichever commands are between `exists()` and the rename, whose rename
then fails. `LeavesConsistent` needs more of a command that
nothing ran beside (*History*): the files are still as it read or wrote them
(*Owns*), and what it has walked is in every set closed under the requirements it has
found (*WalkInv*). `LocksAreConsistent` has a hypothesis, `SteadyPrivate`: what each
private version requires is the same whatever its tag points to (`Fixed`). A private version
has no record, so a manifest cached before its tag moved can state other
requirements than the tag does now, and then no lock is the one of `Pome.toml`
(disagreement 11).

Inductions over sequences and numbers are proved with a minimal counterexample: a
set of numbers that holds 0, and each number whose predecessor it holds, holds all
(*StepByStep*); recursive functions are defined step by step in the same way. This
takes the place of the library's theorems with an operator as parameter.

Only model-checked: liveness (out of the prover's reach, like `ENABLED`), and
`WellCounted`, that the passes make accepted code and keep nothing idle: that is an
induction on syntax over `RECURSIVE` operators.

## 5. Disagreements found

1. *A moved tag* (run `pome_moved_tag`): `Fetcher::ensure`
   (`emela-pome/src/fetch/mod.rs:264`) returns an existing directory of the cache
   without comparing it with the lock. After the tag of a private Pome moved, the
   lock can name the new content while the build uses the old one. The head of
   `fetch/mod.rs` (line 6) and `spec/language/04-modules.md:280` say that the content is
   checked against the hash in the lock.

2. *A fork that is not caught* (run `checksum_mixed_tiles`): `verify_consistency`
   (`sumdb/tlog.rs:149-178`, `211-214`) rebuilds both roots from the tiles of the larger
   tree, each fetched by a request of its own (`fetch/sumdb.rs:158-167`), and does not
   compare a hash with the tile one level below. With the tile of level 1 from one
   history and those of level 0 from another, trees of both pass and records of both
   are trusted. `tlog.rs:7-9`, `sumdb.rs:8-9` and `spec/tooling/pome.md:59` say that a
   fork is caught. It takes 256 records (a full tile); below, the check is exact
   (`OneTileCatchesForks`).
3. *Silent exit* (run `fiber_abandoned`): a release that suspends without host work
   while a stalled run is unwound is never unwound further, since `beforeExit` is not
   emitted again; the process exits without `interrupted` and 130. The comments at
   `runtime.mjs:280` and `run.rs:195` say that the handler is called again, and
   `spec/tooling/commands.md:55` that such a run ends with `interrupted`.

The following were met while modelling and have no run of their own:

4. *A second completion disappears*: when another thread completed the task first,
   one in place is only noted in `twice`, which `em_task_end` does not read in that
   case (`12-external.md:140`).
5. *Continuations not unwound with the run*: a stalled run throws into the newest
   wait first; if that is main's, main ends and `finish` empties the queue before
   older implementations are unwound (`spec/language/14-dynamics.md:60`).
6. *A release's defect is lost*: an implementation unwound with its caller reports
   a defect of its release to the dropped caller, and the run ends with
   `interrupted` (`14-dynamics.md:41`).
7. The registrations of a task completed by another thread stay until the inbox is
   delivered, so that a callback may still be called in that turn
   (`12-external.md:152`).
8. An implementation that was woken and is queued when its caller is interrupted is
   not unwound, since `onDrop` finds no live wait (the comment at
   `runtime.mjs:660`).
9. Two commands that race in `advance` (`sumdb.rs:92-126`) may leave a smaller
   checkpoint than one of them accepted, and two histories may be accepted
   meanwhile (`cache.rs:6`); the properties of `ChecksumDatabase` that this breaks
   are stated for commands that do not overtake each other (`stale`).
10. "A failed add leaves both files as they were" (`project.rs:4-5`) does not hold
    when the lock cannot be written after `Pome.toml` was (407-411). The next
    command repairs it (`LeavesConsistent`).
11. The cached manifest and the cached files of a private Pome may be of different
    contents, if its tag moved between the two requests. The lock is then made from
    the old requirements while builds use the new files, and `Builder::pome`
    (`emela-driver/src/pome.rs:174`) looks only whether what they require is in the
    lock, not in which version (`spec/language/04-modules.md:229`).
12. A file open under two URIs at once: closing one removes the overlay of the
    other (`server.rs:657-660`, `spec/tooling/lsp.md:27`).
13. Edits that never stop can postpone diagnostics for ever (`server.rs:201`): a
    result is discarded whenever an edit arrived during the analysis.
14. *Host work outlives an interruption*: at `yield $await(promise, controller)` the
    host function has been started; if an interruption is delivered there,
    `$advance` throws it without aborting the controller.
    `spec/language/12-external.md:51` promises the abort.

## 6. Not modelled, and the plan

In order:

1. `VirtualTime`: sleepers of both runtimes with interruption.
2. `ConstantCells`: both runtimes, cycles and failures.
3. The C scheduler's differences (a pending interruption at an external call,
   `later` and the end of a stalled run) as a variation of `FiberScheduler`, and
   `HostTasks` composed with it.
4. `FairYield`: budget and `HOST_EVERY`, with fibers that never stop.
5. `PomeStore` with `[replace]`, `[external]` allow and dev-dependencies; a language
   server with several projects.
6. The remaining passes of the Heap IR (`closures.rs`, `copy.rs`) before
   `HeapMachine`.
7. A proof that the passes make only code that `OwnedPaths` accepts, once they are
   functions of the program's positions, as was done for `MerkleTiles`.

Left out for good: the front end, the formatter and the code generators
(sequential functions on trees whose inputs are too rich for bounded checking;
they are most of the repository's lines), the Unicode and number routines of the
runtimes, what each request of the language server computes, and the driver's
file and process handling. Values, messages, notes added to
failures and the text of diagnostics are abstracted away everywhere.
