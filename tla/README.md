# A verification development for the Uranium language

Uranium is a scripting language: a C++ compiler and bytecode VM with a
cooperative task scheduler, a garbage-collected heap per VM thread, native
threads with channels and worker pools, a package manager and a task runner
(UMake). This directory holds TLA+ modules translated from that source, the TLC
configurations that check them on small instances, and theorems about them that
the TLAPS proof system checks for every value of the constants.

`PROJECT.json` is the index: it names, for every definition that models code,
the lines it stands for; for every run, its properties; for every property, a
mutant of the model that the run must reject; and the theorems and hazards.

Check a run with `tlc -config X.cfg M`, a proof with `tlapm M.tla`.

## 1. Inventory

| Component | State | Operations | Hard behaviours |
|---|---|---|---|
| Task scheduler (`vm.cpp` 2896-3667, 3741-3841, 5069-5135, 6020-6105) | `tasks`, `readyQueue`, `currentTask`, `rootTask`; per task: state, handlers, `awaiters`, `waitingOn`, resume value, outcome, wake-up time | `interpret`, `run`, `runTaskSlice`, `await`, timers, task creation, `resolveTask`, `failTask` | interleaved slices, wake-ups, timers against a busy queue, deadlock report, nested schedulers for `main` |
| Bytecode interpreter (`vm.cpp` 3843-6018) | operand stack, frames, handlers, open upvalues | calls, closures, exceptions, classes | the stack moves while pointers into it exist; handlers outlive frames |
| Garbage collector (`heap.cpp`) | list of objects, pools, marks, ages, remembered set, thresholds, incremental state | allocation, write barrier, young/full collection, incremental step | collection in the middle of mutation, two collectors on one list, incomplete remembered set |
| Threads, channels, pools (`thread_native.cpp`) | `g_threads`, `g_channels`, `g_workerPools`, `g_jobs` and their mutexes and condition variables | spawn, join, send, receive, try, poll, close; pool create, enqueue, wait, destroy | every interleaving, lost wake-ups, shutdown against use |
| Async library (`urlib/async`, `urlib/timer`) | closures over tasks | all, race, timeout, cancellation | built on polling and `await` |
| Package manager (`package_manager.cpp`) | manifest, lock file, installed trees, `uranium.dep`; the registry's trees and metadata | publish, lock, install, update, remove; version selection | failure or a kill halfway, a registry that publishers fill meanwhile, three files that must agree |
| UMake (`umake.cpp`) | target graph, visited sets, ready queue, job counters | sequential and parallel run | detached job threads, failure while others run |
| Source loader (`source_loader.cpp`) | modules loaded and in progress, export tables, symbol numbers | process, bind imports, emit | diamonds, cycles, private and clashing names |
| Compiler (`compiler.cpp`, `lexer.cpp`) | scopes, locals, upvalues, `currentLoop`, `currentTry`, chunk | one pass to bytecode | exits written in parts, now and where each try statement ends; slots of variables counted on paper, given back on every way out of a scope |
| Optimizer (`optimizer.cpp`) | chunk | folding, jumps, NOP compaction | rewriting across jump targets, relocation of handlers |
| Type system (`type_system.cpp`) | one table of subtypes for the whole process | registering and forgetting of subtypes, compatibility, matching of values, generic bindings | compiler and VM each check a call with rules of their own; the table is cleared by every compilation while programs run from it |
| URC/URA (`urc.cpp`) | file formats | write, read, embed | version and bounds tests |
| Language server and tools (`tooling.cpp`) | open documents | LSP loop, lint, format | message order |
| Native JIT, GUI, system/net/http/crypto/db/ffi natives, external bindings, SQLite, driver | | | machine code, platform calls, vendored code |

How they interact. `main.cpp` loads a program with the source loader, compiles
it and hands one function to `VM::interpret`. The VM runs slices of at most 512
instructions of the task at the head of the ready queue; before each
instruction it makes one step of the incremental collector and asks the loop
broker for permission; allocating instructions end with a possible
stop-the-world collection whose roots are the globals and the stacks of all
tasks. Threads started by `threadSpawn` run a VM and a heap of their own
(`thread_local`), so that the objects of `thread_native.cpp` are all that
threads share; values cross as deep copies. The package manager and UMake run
outside the VM.

What makes each part correct:

* **Scheduler.** A task settles once and every awaiter gets that outcome once;
  the queue holds exactly the tasks that are ready; no wake-up is lost; neither
  a task nor a timer starves; a deadlock is reported only when there is one;
  the result of a run is honest.
* **Heap.** Nothing reachable is destroyed, garbage is reclaimed, marks,
  generations and thresholds stay consistent between collections.
* **Channels.** Messages arrive once and in order; no receiver sleeps through a
  message or a close; a thread is joined once.
* **Pools.** A job runs once; shutdown drains the pool; waiters return.
* **Interpreter.** Frames, handlers and upvalues point into the live part of
  their task's stack, also after it moved.
* **Package manager.** Selection respects the ranges; a lock is closed; after a
  command that succeeds the installed trees are what the lock says, whatever
  failed before; a release with metadata is whole, if one publisher made it.
* **UMake.** A target runs once and after its dependencies; a failure stops the
  rest; the runner ends.
* **Loader.** Dependencies come first, each module once; cycles are refused;
  an imported name is bound to the one symbol that its module exports.
* **Compiler.** An exit arrives where it is meant to, after exactly the finally
  blocks on its way. A name means the variable of the innermost scope that
  declares it, the slot it is read from holds that variable whatever way the
  code took there, and a slot that a closure has captured is closed before it
  is given back.
* **Type system.** An instance belongs to its class, to what that inherits and to
  the contracts it declares, and to nothing else; compiler and VM judge a call
  alike.
* **Optimizer.** The rewritten chunk does what the original does.

## 2. Plan

Modules, in order of importance.

1. `Futures`, `TaskScheduler` - done.
2. `WorkerPool`, `ThreadChannels`; `ConcurrencyProofs` is about these and the
   scheduler - done.
3. `Heap`, `HeapProofs` - done.
4. `VmStack`, `VmStackProofs` - done.
5. `Build`, `UMake`, `UMakeProofs` - done.
6. `Semver`, `Packages`, `PackagesProofs` - done.
7. `SourceLoader`, `Exits`, `Scopes`, `Peephole` (these three composed in
   `CompilerPasses`), `Types`, all composed in `FrontEnd` - modelled;
   `FrontEndProofs` is about the loader, `Exits` and `Peephole`,
   `ScopesCodeProofs` and `ScopesProofs` about `Scopes`. The functions of
   `Types` recurse over types, which the prover cannot follow.
8. Not begun: the loop broker, the documents of the language server.

Composition: `TaskScheduler` implements `Futures`, and `UMake` implements
`Build`, by refinement mappings; `Packages` extends `Semver`; `CompilerPasses`
extends `Exits` and `Scopes` and takes an instance of `Peephole`; `FrontEnd`
extends it and `SourceLoader`, takes an instance of `Types`, and runs
the loader, then the compiler, then the optimizer, as `compileSourceProgram`
does.

## 3. What is modelled

### The task scheduler: `TaskScheduler`, `Futures`

`TaskScheduler` follows the VM thread through `interpret()` and `run()`; `pc`
says where it stands: `idle` (between two calls of `interpret`, e.g. REPL
lines), `poll` (`pollSleepingTasks`, one timer per step), `dispatch`
(`applyPendingResume`, choice of the next task), `slice` (`runTaskSlice`),
`entry` (between the script and its entry point) and `crashed` (a read of freed
memory). One action stands for one instruction kind that the scheduler can see
(await, return, throw, enter/leave try, spawn, sleep, runtime error, debugger
quit) or for one stage of the loop. Tasks are natural numbers in the order of
`tasks`; `Settle` is `resolveTask`/`failTask` with `wakeAwaiters`, `Restart` is
`resetScheduler`, which destroys every handle although globals may hold it.

The data of instructions is abstracted: a step may be any instruction, a value
is one of `Values`. The loop broker is part of `RuntimeError`, which may come at
any instruction.

`Futures` is what scripts may rely on: a future is pending, then settled once;
whoever awaits it is blocked until then and gets its outcome once. It knows no
queue, no timers and no slices. `TaskScheduler!Promise` maps the one to the
other (`FutureStatus`, `Abandoned`), and `ImplementsFutures` says that the
scheduler's behaviours are behaviours of `Futures`.

### Channels and threads: `ThreadChannels`

Each thread has a program counter over the critical sections of the natives;
everything under one lock is one action, a notification after the unlock is
another, and a condition variable may wake its waiters spuriously. Messages of a
channel are numbered, so that order, loss and duplication are visible.
`threadJoin` keeps `g_threadMutex` while it waits for the thread (from `Join`
to `JoinEnd`), so spawns and joins of others wait, too.

### Worker pools: `WorkerPool`

Clients (VM threads) create a pool, enqueue jobs, wait for them and destroy the
pool, at any moment and concurrently; workers take jobs, run them, announce the
result. Enqueueing registers the job before it looks at `stopping`, so a refused
job stays registered and queued for ever (`PushRefused`); nobody can have its id.
Two concurrent destructions may join a thread twice (`JoinTwice`): the exception
that `std::thread` throws is caught by the VM or ends the program (`crashed`).

### The heap: `Heap`

`heap` is the `Heap` object, a record on which the functions of `heap.cpp` are
operators (`Mark`, `Trace`, `Sweep`, `EndCollection`, `CollectGarbage`,
`CollectGarbageStep` with its stages). A step is one instruction: the
incremental step before it, its effect (allocate, store with or without write
barrier, load, drop, `gcCollect`), and the collection at its end. Objects are
cells of one type and size 1; the types of the code matter to it only for
finding references and pools. `StaticMethod` stands for the native method
objects that only C++ statics point to.

Reading a destroyed object has no defined behaviour, so the model ends there
(`Usable`, `SweepLost`, `FetchDestroyed`); it also ends with the first
incremental collection (`FirstIncremental`), after which little that is sure can
be said - see the findings.

One thing the runs show about documents: a young collection traces everything
that the roots reach, old or young (README.md:132 says it does not), and it is
this that makes it safe, because the remembered set alone would not be complete.

### Stacks, frames and exceptions: `VmStack`

`m` is the part of the VM that calls, closures and exceptions work on, a record
for which the functions of `vm.cpp` are operators (`Ensure`, `Push`,
`CaptureUpvalue`, `CloseUpvalues`, `Catch`, `FillArguments`). A pointer into a
stack carries the generation of the storage that it was taken from, so a pointer
that `ensureTaskStackCapacity` forgets to move shows. `handlers[t][k].frame`
counts frames from 1; the code counts them from 0. An action is one instruction
of some task: the scheduler may end a slice at any of them, so tasks interleave
freely. Which instructions follow one another is left open, but for what
compiled programs respect: a frame takes values from the part of the stack above
its slots and above the level of its innermost try block (`Within`), operands of
an instruction are temporaries (`Poppable`), and a closure captures locals of its
frame (`Locals`). `OP_POP` is not restricted to slots without open upvalues: the
compiler emits it for captured locals, too, where a `break` is read before the
closure (compiler.cpp:1092) and where a failed case of a match has shifted the
slots (see the findings). What such a pop leaves open is `lost`, a history. A lost
upvalue stays in the list of its task, above the top or on a slot that another
value takes; what a closure reads through it is any value (`Finds`), and what it
writes hits that slot (`Stored`). The properties say what remains true then: the
list stays in order and is emptied by the frames below, and all other variables
keep their values.

Two reads have no defined outcome, and the model ends there: of a slot whose
storage was freed by the very push that takes it (`ended` = `"moved"`), and of a
slot of a failed task through an upvalue that `failTask` left open
(`"abandoned"`).

`variable` is a history of each captured variable, from the assignments that the
program makes; `VariablesAreShared` compares it with what the frame and the
closures would read.

### UMake: `UMake`, `Build`

`UMake` holds the two executors of `umake.cpp`. The recursion of `executeTarget`
and of `dfs` is a stack of targets with the position of their next dependency
(`Begin`, `NextDependency`); where it has seen all dependencies of a target, the
sequential executor runs its commands (`BeginCommands` to `CommandFailed`), the
other only notes that it is reachable (`Reached`). The dispatching loop keeps the
mutex from its beginning to its wait, so a round is one step (`Drain`,
`Dispatch`); its wait has no predicate and may end spuriously. Jobs look at
`failed` before each command and report under the mutex (`JobDone`,
`JobFailed`). A command is a step that succeeds or fails; that its failure may be
ignored or come from the expansion of variables is in the choice.

`Build` is what a user may rely on, whichever executor runs: a target is begun
when all it needs is built and nothing is broken, it ends built, broken or, only
if another is broken, dropped, and the result names what happened after
everything has ended. It knows no stack, no queue and no counters.

### Packages: `Semver`, `Packages`

`Semver` has the comparison of versions and the two upper bounds that
`matchesVersionRequest` computes (`Matches`), beside what a range is for
(`Compatible`, the reference).

`Packages` is the registry with its publishers, and one project with its owner.
Everything is in files, so an action is a step that leaves something on disk: a
file copied, a metadata file or a lock written, a tree removed or placed
(`Place` on the way down of `installLockedDependencyGraph`, `Seal` on its way
up; `agenda` is the recursion). Any step may fail, or its process be killed, and
leaves what it had written, a metadata or lock file cut short being `Broken`
(`PublisherStops`, `CommandStops`). Nothing locks the registry: a command reads
whatever a publisher has copied so far, and two publishers may find the same
version new. A tree is the set of its files, each whole or cut short, because
`copy_file` truncates a file that is there (`OpenFile`) before it fills it
(`FillFile`); a publisher that stops in between leaves it cut short. If another
has opened the file meanwhile (`overrun`), filling it makes it whole or leaves it
to the other. A hash is what the publisher reads file by file (`HashFile`).
`contested` and `abandoned` are histories: of releases that two publishers were
at work on at once, and that one has left half copied. `ImportAnswers` is what an import then finds, through
`uranium.dep` first and the importer's lock after.

### From files to bytecode: `SourceLoader`, `Exits`, `Scopes`, `Types`, `Peephole`, `FrontEnd`

`SourceLoader` is `processModule`, whose recursion is `stack`, and `emitModule`,
whose recursion is `writing`. A file is its top-level declarations and its
imports. `Bind` binds what an import brings (`BoundNames`, `BoundSpaces`) and
refuses what disagrees.

`Exits` reads one program construct by construct, as the one-pass compiler does,
with one exit in it. What the constructs around an exit mean is the reference
(`Target`, `FinallysOnTheWay`); what the compiler does with it is `exit`: its
target is taken from `currentLoop` and `currentTry`, it is noted in a try
statement (`Transfer`) and goes on where that one ends (`Continuation`).
`PlainExit` names the exits that are compiled right.

`Scopes` reads one function statement by statement: variables, parameters,
nested functions, blocks, both loops with break and continue, matches and
switches. `fns` are the compilers of the functions that are open, with their
locals and upvalue descriptors as `addLocal`, `resolveLocal` and
`resolveUpvalue` keep them; `blocks` is the reference, what each construct that
is open declares (`Meaning`). Then `vm` runs the code that was written,
with branches taken in any way: the stack holds the variables themselves, so that
a slot can be compared with the variable that is meant. Left out are the
statements that add no way to gain or give back a slot (expressions, `if`), try
statements (their exits are in `Exits`), destructuring and the increment of a
`for`.

`Types` has the functions of `type_system.cpp` as operators over syntax trees of
types (`TypeExprs`; `Compatible`, `Matches`, `Infer`, `Substitute`), and follows the table they
read, `hierarchy`, through compilations and runs: threads compile a program,
class by class (`BeginClass` notes the superclass, `EndClass` the contracts), and
run it; the first thread is a REPL and keeps its classes from line to line; or it
runs a `.urc` file, which fills no table. One call at a time is followed from
the compiler (`CompileCall`) to the VM (`RunCall`); `args` are all values that the
static type of an argument can stand for. What a class conforms to by its
declarations, and since which compilation, is the reference (`above`, `since`).
Parser, compiler and table are shared by all threads: if two use them at
once, nothing is defined and the model ends (`raced`). Left out are maps
(checked as arrays are), the types that are related to no other (Bool, Function,
Task), class values, and the checks of the compiler at other places than calls.

`Peephole` first writes a chunk as the compiler does, then runs the passes of
`--O2` over it, one rewriting per step. `Outcome` runs code as
`runTaskSlice` does. Jumps go forward; there are no handlers.

`FrontEnd` puts the five behind one another (`CompilerPasses` holds what the
proofs share with it). The program text is abstracted:
the compiler reads any constructs, first for their exits, then for their
variables and then for their types, and the optimizer any chunk, and one program
that loads (`Compiled`) leads to them. In between the compiler refuses a global
name that is defined twice (`Redeclared`).

## 4. Runs

| Run | Instance | What it shows |
|---|---|---|
| `scheduler` | 3 handles, times 0..2, 2 handlers, slices of 2, one value, fair | `TypeOK`, `QueueExact`, `NoLostWakeup`, `StuckMeansCycle`, `ScriptResultHonest`, `SettledIsFinal`, `ImplementsFutures`, `NobodyStarves` (117,000 states) |
| `scheduler_main` | 3 handles | a violation, see the findings |
| `worker_pool` | 2 clients, 2 workers, 2 jobs, fair | `PoolWellFormed`, `DestroyedMeansDrained`, `AcceptedJobsSettle`, `CallsReturn` (92,000 states) |
| `thread_channels` | 4 threads, 1 channel, 3 messages, fair | `ChannelsWellFormed`, `ReceivedOnceInOrder`, `SleepersWillBeWoken`, `CloseReleasesReceivers` (86,000 states) |
| `umake_targets` | 9,325 graphs, 1 or 2 jobs, a known or unknown goal, 1 command per target, fair | `WellFormed`, `ImplementsBuild`, `Returns` (200,000 states) |
| `heap_collections` | 3 cells and the static method, 1 reference each, a full collection after 2 young ones | `WellFormed`, `StopTheWorldIsSafe`, `MarksAreCleared`, `GcCollectIsExact` (490,000 states) |
| `heap_steps` | the same | a violation, see the findings |
| `vm_stack` | a task with 4 slots, and at most 3 upvalues and handlers, alone or (3 slots, 1 upvalue, 1 handler) with one of 2 slots; 2 values, 2 frames, stacks of 2 slots at first | `WellFormed`, `PointersAreCurrent`, `OpenUpvaluesAreLocals`, `VariablesAreShared` (690,000 states) |
| `vm_growth` | the two tasks | a violation, see the findings |
| `packages` | 5 releases of 3 packages, one of them published meanwhile, 2 manifests, 2 commands; or 3 publishers of that release at once and no command | `WellFormed`, `LockIsSound`, `InstalledIsLocked` (600,000 states) |
| `frontend` | 10,200 programs of 4 files; 4 levels of nesting; functions of 4 statements with 2 names; chunks of 5 instructions with 3 jumps; 2 threads, 3 compilations, 14 annotations, 11 values, 6 generic functions | `WellFormed`, `LoadedInOrder`, `NamesAreBound`, `PlainExitsAreRight`, `SafeRewritesKeepMeaning`, `NamesMeanTheirVariables`, `CapturedAreClosed`, `TypesAreKnown`, `ChecksAgree`, `Terminates` (607,000 states) |
| `scopes_match` | functions of 4 statements with 2 names | a violation, see the findings |

`WellFormed` (`ChannelsWellFormed`, `PoolWellFormed`) is a module's type invariant
together with the invariant of its data structures, which the others rest on: `EachJobOnce` (`WorkerPool`),
`JoinedOnce` (`ThreadChannels`), `FullCollectionsAreCounted` (`Heap`),
`BlocksNest` (`VmStack`), `PublishedIsWhole` (`Packages`), `NestingIsTracked`
(`Exits`), and in `UMake` that at most `jobs` commands run at once, that no job
outlives the call and that a target is begun once. `CallsReturn` is
`WaitersReturn` and `DestroyReturns`; `NobodyStarves` is `ReadyGetsItsTurn` and
`DueTimerFires`; `LockIsSound` is `LockIsClosed` and `LockIsCompatible`;
`LoadedInOrder` is `CyclesAreFound` and `EmittedInOrder`.

The bounds, and why they are enough:

* `MaxTasks` = 3: a cycle of two awaiters beside the root, or two awaiters of one
  task, or an awaiter and a timer. Handles are not reused within a run, so a run
  has at most that many tasks; what is proved holds for any number. `MaxTime` = 2
  gives timers that are due, that are not, and two that fall due one after the
  other while others run. `SliceBudget` = 2 (512 in the code) makes preemption
  happen between any two instructions. `MaxHandlers` = 2: a handler that is left
  uncovers another one.
* `MaxJobs` = 2, `WorkerCount` = 2: two workers contend for one job, one job
  waits behind another, a job is refused while one runs. `MaxMessages` = 3 gives
  each of the receivers one and one to a poll. One channel: channels share
  nothing but the table they stand in.
* `Graphs` of `umake_targets`: every graph of three targets with up to two entries
  each, so every cycle, diamond, repeated and unknown name of that size; and a goal
  over three targets, where two jobs are too few for what is ready. `MaxCommands` =
  1 suffices for a failure in the middle of others' commands.
* `InitialCapacity` = 2 (256 in the code) and `MinCapacity` = 1 (64): the stack of
  the root task grows once, with frames, handlers and open upvalues on it. Three
  slots hold a method above the local of its caller, with a captured local in each;
  a fourth lets new values take the slots of locals that were popped
  while they were captured, with a frame above. Two frames and two handlers are all
  that an exception has to cross; both handlers and both upvalues at once are left
  out (`AloneOrSmall`, a `CONSTRAINT`). A spawned task and the root task beside it
  are small by the same bound: it is there to settle and to share a variable, for
  which one upvalue is enough. The two upvalues are interchangeable (`SYMMETRY`).
* `MaxCells` = 3, `MaxRefs` = 1: lists, cycles and an old object that refers to a
  young one that refers to another. The thresholds are small (`MinorLimit` = 2, 8
  in the code) so that both kinds of collection happen, several times in a row.

* `Releases` of `packages`: a package that is pulled in by another, a caret range of
  a 0.x version that must leave out the next minor one, a range whose newest
  answer changes while the project works, and a cycle of two that arises by it.
  `MaxCommands` = 2: a command meets what one that failed or succeeded left, and
  what was published or edited in between. One publisher is enough for a command
  to read a release halfway, and a release cut short by a second one does not differ
  for it: so once a release has had two publishers at a time, no commands follow
  (`NotBoth`, a `CONSTRAINT`). Three publishers, who are interchangeable, let one
  stop or end while two others are at work on the version.
* `Programs` of `frontend`: import graphs of an entry that imports two files, of
  two files with up to two imports and of one that may import back, so cycles of
  one to four files, on and off the first path, diamonds, an import listed twice,
  one that leads to the entry, one that leads nowhere; and diamonds with
  every kind of import and visibility and with names that clash. Two modules
  suffice for a clash, two paths for sharing. `MaxDepth` = 4 holds a loop in a try
  in a loop in a try, and each pair of try statements with a function or loop
  before, between or after them. `MaxCode` = 5 holds a rewriting in the room that
  an earlier one left, and a jump around it; with seven instructions the
  folding alone changes what code does (see section 7).
  `MaxText` = 4 holds a variable, a function in a function and a use of it
  there; a `for`, a function that captures its variable, and a break or continue
  before or after; a match with a case, and a variable and its use after it. Two names suffice for shadowing. `MaxFns` = 3 gives an upvalue of an
  upvalue; `MaxSlots` = 7 ends only runs that go round a loop whose failing
  match grows the stack. `Scopes` alone was also checked with `MaxText` = 5 (3.6
  million states).
* `MaxCompiles` = 3 and two threads: a line after a line of the REPL and a script
  that is compiled while it runs. `ClassPrograms` has a class with a contract
  and a subclass, the class again without the contract, and a subclass of a class
  of an earlier line. Calls about data are made in a program without classes,
  while nothing else is compiled: they do not depend on the table. What the
  operators say of 660 calls with literals, at compile time and at run time, was
  compared with the built interpreter and agrees.

`CHECK_DEADLOCK FALSE`: the interpreter may rest between two `interpret` calls,
clients and threads may be done or wait for others by the program's own fault,
the models of the heap and of the stacks end where the outcome is undefined, a run of UMake is
over when it returns, a project's commands come to an end (a bound), and a
front end is done with its program.

**Fairness.** `TaskScheduler` assumes weak fairness of `RunStep`: the VM thread
goes on while `run()` has something to do. Nothing is assumed of the user (a next
`interpret`) or of the clock but that `Idle` sleeps as long as it asks for.
`ThreadChannels` and `WorkerPool` assume that each thread goes on with what it has
begun (the operating system schedules it and a mutex is granted in the end), and
never that a program calls a native. `UMake` assumes that the thread of the call
and the jobs go on, and that every command ends. `FrontEnd`
assumes that the loader, which runs on one thread and waits for nobody, goes on.
`Packages` assumes nothing: a process may be killed.

## 5. Proofs

Every theorem holds for all values of the constants that the named assumption of
its module allows. Beside the types of numbers the assumptions say only what the
code gives: finitely many threads, targets, upvalues, files and releases, names
that stand for "none" and are no member of the set beside them (`Nil` and `Broken`
are no file set, no lock and no manifest; 0 is no client), and that what parses as
a manifest is one.

| Module | Theorem | Property of a run | Inductive invariant |
|---|---|---|---|
| `ConcurrencyProofs` | `SchedulerTypes`, `ReadyQueueIsExact`, `NoWakeupIsLost`, `DeadlockIsACycle`, `OutcomesAreFinal` | `TypeOK`, `QueueExact`, `NoLostWakeup`, `StuckMeansCycle`, `SettledIsFinal` | `SchedInv` |
| | `ScriptResultIsHonest` | `ScriptResultHonest` | `HonestInv` |
| | `SchedulerImplementsFutures` | `ImplementsFutures` | `FutureInv` |
| | `ChannelsAreWellFormed`, `MessagesArriveInOrder`, `NoReceiverIsForgotten` | `ChannelsWellFormed`, `ReceivedOnceInOrder`, `SleepersWillBeWoken` | `ChannelsTypeInv`, and each with itself |
| | `PoolIsWellFormed`, `DestructionDrains` | `PoolWellFormed`, `DestroyedMeansDrained` | `PoolInv` |
| `UMakeProofs` | `BuildIsWellFormed`, `UMakeImplementsBuild` | `WellFormed`, `ImplementsBuild` | `BuildInv` |
| `HeapProofs` | `StopTheWorldIsSound`, `NoMarkIsLeft`, `GcCollectLeavesNoGarbage`, `HeapIsWellFormed` | `StopTheWorldIsSafe`, `MarksAreCleared`, `GcCollectIsExact`, `WellFormed` | `HeapInv`, `HeapIsTyped` |
| `VmStackProofs` | `StacksAreWellFormed`, `NoPointerDangles`, `OpenListIsExact`, `ClosuresShareVariables` | `WellFormed`, `PointersAreCurrent`, `OpenUpvaluesAreLocals`, `VariablesAreShared` | `VmInv` |
| `PackagesProofs` | `PackagesAreWellFormed`, `LocksAreSound`, `InstallsAreLocked`; `MatchesIsCompatible` | `WellFormed`, `LockIsSound`, `InstalledIsLocked` | `RegistryInv`, `ProjectInv` |
| `FrontEndProofs` | `ProgramsLoadInOrder`, `ImportedNamesAreDefined`, `LoaderTypeCorrect` | `LoadedInOrder`, `NamesAreBound` | `LoaderInv` |
| | `PlainExitsAreCompiledRight`, `NestingIsAlwaysTracked`, `ExitsTypeCorrect` | `PlainExitsAreRight` | `NestInv`, `ExitInv` |
| | `SafeRewritesAreSafe`, `OptimizerTypeCorrect` | `SafeRewritesKeepMeaning` | `OptimizerInv` |
| `ScopesProofs`, on `ScopesCodeProofs` | `ScopesInvariant`, `NamesMeanVariables`, `CapturedClosed` | `NamesMeanTheirVariables`, `CapturedAreClosed` | `ScopesInv`, `Idle` |

**Scheduler.** `QueueExact` is not inductive alone: that a wake-up enqueues a task
that is not yet queued needs to know that the awaiters are `WAITING` and listed
once (`NoLostWakeup`); that the current task is neither queued nor waiting needs
`OneRunner`/`CurrentRuns`; and that a new handle is unknown to all lists needs
`HandlesBorn`/`RootBorn`. The cycle behind a deadlock is found without induction:
the waiting tasks form a set closed under `waitingOn`. An honest result rests on
when `run()` looks at the root task: before each dispatch it is not `FAILED`, and
the entry point is reached with "OK" only (`HonestInv`). The refinement is proved
step by step: each action is one action of `Futures` or a stutter, under the
invariants before and `FutureInv` (a value waits only for a task in the queue,
nobody awaits itself). That a mapped settlement wakes exactly those who await the
future is `NoLostWakeup` again; a reset maps to the abandonment of what is
pending.

**Channels.** A joiner holds `g_threadMutex` for the whole of its wait, which is
why no thread is joined twice (`JoinerHoldsMutex`). `SleepersWillBeWoken` is an
inequality between cardinalities: messages queued against notifications under
way and receivers awake (`Attended`). A step that takes a message in or out moves as
many helpers (`AttendedKept`), unless all are woken.

**Worker pools.** `PoolInv` says of each accepted job where it is: in the queue, once, or
with one worker, or settled after one run. That a job is pushed once needs
`PushesAreFresh` (between registering and pushing, a client alone has its id), and
that a destroyed pool is drained needs `EndsAreFinal` (a worker ends only when the
pool is stopping and its queue empty, and nothing is pushed thereafter).

**UMake.** `BuildInv` joins the recursion (`StackInv`: a chain of needs without
repetition; `SeenInv`: what is visited is closed under needs) with the tables of the
parallel executor (`TablesInv`: `runningTasks` and `completedTasks` are the
cardinalities of what they count, `inDegree[u]` is the number of needs of `u` that
have not ended). A cycle that is reported is one of the graph because the stack is
a chain (`BackEdgeIsCycle`), and when the loop ends without a failure, the goal is
built, because all that is over was visited and `completedTasks` has counted as many.

**Heap.** Reachability is defined without recursion (the intersection of all closed sets),
so its three laws (`ReachIsLeast`, `ReachHasSource`, `ReachIsClosed`) carry the
whole argument. `HeapInv` says that, until an incremental collection begins,
`Sound` holds: no marks, no grays, the remembered objects are old, and all that
the roots and the remembered set reach is on the list. `SoundByClosure` reduces
each instruction and each collection to naming a closed set of objects that
exist. A collection's effect is stated once (`Collected`,
`CollectGarbageCollects`), soundness and exactness both follow from it.
`WellFormed` also holds of the states of an incremental collection, unsafe as that is,
and has an invariant of its own, `HeapIsTyped`. Its heart is `Listed`: of two
objects on the list one is behind the other, nothing is behind itself, and what was destroyed
is not on the list. Without the order, `FirstOf` would not name an object
(`FirstIs`), and the sweep pointer would have no type; that the list stays in order when
the sweep makes it begin behind a destroyed object is the delicate case
(`SweepOneIs`). The bound on minor collections is one above the limit, because an
incremental collection that was begun below it can end above it: `HeapIsTyped` says
that this needs one that has ended. `HeapIsTyped` was checked with TLC on the
configuration of `heap` before it was proved.

**Stacks.** `VmInv` is a predicate of the VM's state, the lives of its tasks and
the values of its variables, so that each function of `vm.cpp` has a lemma of its own:
frames nest and so do handlers (`FramesNest`, `HandlersNest`), the open upvalues of
a task descend and lie in the slots of its frames (`OpenInOrder`), all that points into
a stack has its generation (`Current`), and a cell holds the value of its
variable, in its slot or closed (`CellInv`). Lost cells are exempt from having a
slot and a value, but not from the order of the list, and they stay above the
slots of the first frame, so that its return still closes them (`NothingStaysOpen`).
`VariablesAreShared` needs all of this: a cell that an instruction closes must be
the one of the slot that it gives back, and an assignment through a lost cell
must not hit the slot of another open cell (`FoundIs`).

**Packages.** `MatchesIsCompatible` says of all versions and requests that what
`matchesVersionRequest` accepts is what the request means, by one lemma for each
kind of range. `RegistryInv` says what a publisher that nobody gets in the way of has done:
the files that it is through with are whole, and it has hashed no others (`Alone`,
`Progress`). Of several in one release it says less: metadata that can be read
means that every file is there, and that the tree is whole if there was one
publisher only (`Described`); and a file is either whole or being written by
the last who opened it, unless one of them stopped halfway (`Secure`).
`PublishedIsWhole` follows from the three. A lock is closed because `Closure` reaches all that a release needs
within as many steps as there are releases (`Saturates`), and compatible because the
newest release that matches is one that matches (`NewestIs`, `MatchesIsCompatible`).
`Placing` is the invariant of an installation: a path of the unfolded lock that
is not there yet lies below one that the agenda will place. That an install ends with exactly
the unfolded graph follows when the agenda is empty.

**Loader.** `LoadInv` is the invariant of the recursion: the modules on the stack
are a path of imports, those that are loaded are closed under imports and lie on
no cycle, and the names that they bind come from the export tables of their
dependencies. `WritingInv` says the same of `emitModule`. That a program without a
refusal has no cycle at all needs no induction over paths, because `Below` is the
least set closed under imports.

**Exits.** `NestInv` is `NestingIsTracked` for all constructs that are open: each loop and
try statement remembers the innermost one around it (`enclosing`), which makes it
inductive, since ending one takes its value back. `ExitInv` says of a plain exit that is noted in a try statement: its target
and the functions around it are still open and outside of every guarded
statement, and what it owes is what it has run, the finally block of that statement
and those of the guarded statements around. The theorems are about `ExitsSpec`,
one program of any depth; `FrontEnd` takes the same steps, and checks them up to its bound.
`NestInv` and `ExitInv` were checked with TLC to depth 5 before they were proved.

**Optimizer.** `OptimizerInv` says that code and source are whole (`Whole`: cells are
instructions and their operands, and a jump that is patched leads forward, to an
instruction or to the end) and have the same outcome for every way the branches go.
`Outcome` is a run of the whole chunk, so that a rewriting keeps it is an argument
about two runs: `SameRuns` says that they have one outcome if from any point where they meet
they meet again, further on, or both end. Where code is not rewritten they meet
after each instruction. Where it is, they meet behind it, because the bytes between are
`NOP`s and, unless `unsafe`, no jump leads into them. A chain of jumps ends, because
they go forward, so that threading one more jump through it leads where the
chain did.  The theorems are about `Peephole!Spec`, the chunk of any size, with any number of
jumps and any height of the stack; `FrontEnd` takes the same steps.

**Scopes.** The compiler never sees the stack: it counts locals, and takes the count for
a slot. The proof gives the code the stack that the compiler means, and shows that the
machine follows it. `ScopesInv` has three parts.

* *One function* (`ScopesCodeProofs`). `Named`: the locals of a compiler are, in order, what
  the blocks of its function declare, each scope at most one local of a name, and only the
  last of them may be unfinished. `Laid`: there is a sequence `L` of stacks, one for
  each place of the code and one for its end, such that each instruction leads from
  one to the next (`Flow`), a jump that is patched leads to a place with the stack it
  comes with, and a jump that is not patched yet has the stack of the construct
  that will patch it: a loop, its breaks and its start have the slots of the scopes
  around it, and so on. So when a construct ends and its jumps are patched, both
  ways there agree. The stack at the end of the code is the slots of the locals
  (`Slots`), which is what makes the position of a local its slot.
  `OpenLaid` gives, in the same way, the set `O` of slots at each place that may have an
  open upvalue: no slot of it is popped, and at the end of the code it holds captured locals
  only. A loop goes round, so what is captured in its body is open at its start, too;
  that a break before it has popped such a slot is what `late` excludes. An operation of the
  compiler is shown to lead from one such function to another (`Leads`), and each statement is
  a chain of operations.
* *The open functions* (`ScopesProofs`). `Consistent` cuts the blocks into segments, one for
  each function (`Segmented`); the last local of each but the innermost is the function
  that is being read in it (`Nested`), each function is as above, and what a closure being read
  captures is no loop variable that a break has popped (`LeftAlone`). `UpvaluesDenote` gives
  the upvalues of each function the variables they stand for, along the chain of functions
  between; that it agrees with the recursive `Denoted` is an induction over these functions.
* *The run* (`RunOk`). The machine's stack is `L` at its place, and what is open lies
  within `O`, unless a failed case of a match has left values behind.

`NamesMeanTheirVariables` needs all of these: that the innermost declaration is the last local
of the name is `Named`, that the name is found in the right function is
`Consistent`, that an upvalue is of that variable is `UpvaluesDenote`, and that the slot holds it
when the code gets there, by whatever jump, is `Flow`. The only assumption is
`BoundsAssumption`, that the bound on names is a number; the other bounds only stop actions.
`ScopesInv` was checked with TLC, on functions of four statements, before it was proved, with
`L` and `O` computed from the code. The theorems are about `ScopesSpec`, functions of any
length with functions in them to any depth; `FrontEnd` takes the same steps.

Only model-checked:

* liveness (`NobodyStarves`, `AcceptedJobsSettle`, `CallsReturn`,
  `CloseReleasesReceivers`, `Returns`, `Terminates`), which is out of the prover's
  reach;
* `ScopesTypeOK`, a part of `FrontEnd!WellFormed`: the invariant above is about the
  fields that the compiler works with, and has sets for their types;
* `TypesAreKnown` and `ChecksAgree`, whose module is recursive, and with it
  `FrontEnd!WellFormed` as a whole, of which `LoaderTypeCorrect`,
  `ExitsTypeCorrect`, `NestingIsAlwaysTracked` and `OptimizerTypeCorrect` are parts.

## 6. Findings

* `scheduler_main`: a `main` that fails in its run is reported as OK. Its
  scheduler has no root task, and `run()` looks at no other.
* `heap_steps`: the incremental collector never marks the roots, so its sweep
  destroys what the program holds.
* `vm_growth`: `OP_GET_LOCAL` hands `push` a reference into the stack that `push`
  reallocates.
* `scopes_match`: a case of a match that binds a name or looks into an array, and
  whose test fails, leaves its slots on the stack: what is declared later is read
  from the wrong slots.

The following the models show, too, and each was reproduced on the built
interpreter but for those of `Packages` and of the debugger; the formulas that
state what the documents promise stand in the modules and are not run, since the
invariants that are run hold beside them.

* `Exits!ExitsAreRight` (process.md:24, "`throw`, `try/catch/finally`"): a
  `break` or `continue` of a loop that stands inside a try statement leaves the
  try statement (compiler.cpp:2952); a `return` in a function that is written
  inside a try block is compiled as an exit of that block; a throw in a catch
  block skips the statement's own finally; an exception that passes a
  try/finally without catch skips the next catch (compiler.cpp:1209-1211).
* `Scopes!Refuses` (the same line): a local function that calls itself is
  refused, as a variable that is read in its own initializer
  (compiler.cpp:911, 2788).
* `TaskScheduler!QuitEndsExecution` (doc/language.md:245, `q` ends the execution
  of the program at once): `q` in the debugger leaves the task RUNNING and the
  other tasks running on (vm.cpp:5966).
* `Packages!InstalledHasLockedIntegrity` (README.md:140, "Pinning resolutions
  with integrity hashes"): the integrity in the lock is compared with itself
  (package_manager.cpp:1170-1192), never with what is installed.
* `Packages!ImportsAreLocked` (process.md:103, "dependency-aware import
  resolution through lockfile"): `uranium.dep` answers the imports of nested
  packages, too, with the version of the project.
* `FrontEnd!ImportsCompile` (process.md:37): two modules that import the same
  name define one global twice, and the program is refused.
* `FrontEnd!OptimizedMeansTheSame` (doc/language.md:215-216): a folding that
  spans a NOP which a jump leads to (optimizer.cpp:362), at `--O1`, and the removal
  of a branch on a constant whose condition is still popped
  (optimizer.cpp:443-459), at `--O2`, change what a program does.
* `Packages!MetadataMatches` (process.md:221, "Publishing writes per-package registry
  metadata for integrity lookup"): two publishers of one version both find its
  directory empty (package_manager.cpp:1669), and the second truncates files of the
  first (package_manager.cpp:651) before or after these are hashed: the metadata is
  of a tree that the registry does not hold. If the second is killed there, the
  release stays so, and is locked and installed as soon as its manifest is whole.
  TLC finds it with two publishers and no command.
* `Scopes!OpenSlotsExist` (process.md:25, "closures / nested functions / upvalues"):
  a `break` that stands before the closure that captures the variable of its `for`
  pops the variable without closing it (compiler.cpp:1092), and the closure reads
  whatever takes the slot. TLC finds it with the constants of `scopes_match`.
* `Types!ContractsLast` and `Types!InstancesConform` (process.md:209, "classes can
  use `implements`"; tests/test_interfaces.ur): the contracts of classes are
  forgotten by the next line of the REPL and by a script that another thread
  compiles (compiler.cpp:3629), which TLC finds with the constants of `frontend`;
  and a contract is never known in a program from a `.urc` file (main.cpp:297).
* `Types!OneCompiles` (doc/language.md:186, `threadSpawn`): compiler and parser are
  statics of the process and not of the thread (compiler.cpp:181); eight threads
  that are spawned at once crash the interpreter.
* `Types!CompiledCallsRun` (process.md:198, types are checked when a program is
  compiled): an `Array<String>` passes for an `Array<int>`, since
  `isPrimitiveTypeMatch` decides before the arguments are compared
  (type_system.cpp:531-544), and the call fails at run time; so does
  `id([[1], ["s"]])` of a `fn id<T>(x: T)`, whose own inferred type the value does
  not match. The other way round, `this` is refused where its class is
  expected, and so is a call that stands before the class whose contract it needs.

Seen in the models, without a document that says otherwise: a global that holds a
task of an earlier scheduler makes `await` read freed memory (`AwaitFreed`); the
method objects of arrays are not roots (`FetchDestroyed`); a stop-the-world
collection leaves the incremental sweep standing at destroyed objects
(`SweepLost`); a task that fails leaves its captured variables open, and closures
that outlive it read slots that are no longer its own (`VmStack!GetUpvalue`); a
publisher that stops before the metadata leaves a version that nobody can publish
again, but that resolves and installs once its manifest is there; a thread nobody
joins ends the program at exit.

## 7. Not modelled, and why

Components not begun: the async library (closures over `await`, whose promises are
those of `Futures`), URC and URA files and the language server
(sequential code over one input). Parts of modelled components:

* Optimizer: `--O3` (`compactNops` moves code without the handlers' offsets,
  optimizer.cpp:467-534: a catch block is entered at the wrong place, reproduced),
  backward jumps, handlers, and the fast-path planner. Chunks of seven
  instructions are out of reach of the run that also holds the loader; by itself
  `Peephole` was checked with six.
* Compiler: expressions, methods of classes, destructuring, type checks of
  initializers, assignments and results; the hidden locals of try statements.
* Loader: parsing of lines, search paths, the rewriting of a module's text.
* Package manager: JSON, submodule paths, URA archives. A second project, or two
  commands at once in one project, which the code does not guard against either.
* VM: the loop broker, whose windows of wall-clock time may go backwards
  (vm.cpp:3465), classes and container opcodes.
* UMake: exit statuses, of which `main` keeps eight bits (umake.cpp:631).

For good: machine code emission (its correctness is about encodings), the GUI and
the natives that wrap one library call each (no state of their own), external
bindings, vendored SQLite, text layout of the formatter and of messages, the heap
limit and the destruction of the heap (the process ends), the values inside
messages (deep copies without identity), and `mutex` natives (a `std::mutex`
handed through).
