---------------------------- MODULE TaskScheduler ----------------------------
(***************************************************************************)
(* The cooperative task scheduler of the Uranium VM: VM::interpret,        *)
(* VM::run, VM::runTaskSlice and the helpers that create, suspend, wake,   *)
(* resolve and fail tasks (src/src/vm.cpp).  One OS thread runs the VM;    *)
(* the interleaving modelled is that of the tasks, the timers and the wall *)
(* clock.                                                                  *)
(*                                                                         *)
(* A task is a handle 1..MaxTasks in order of allocation (TaskPtr, never   *)
(* the id, which restarts at 1 whenever the scheduler is reset); NoTask is *)
(* nullptr.  A handle that resetScheduler destroyed stays "FREED": scripts *)
(* may still hold it in a global.  The operand stack, the frames and the   *)
(* instructions are abstracted to what the scheduler sees of them: whether *)
(* a task has a frame at all, and how many exception handlers it has.      *)
(***************************************************************************)
EXTENDS Naturals, Sequences

CONSTANTS
    MaxTasks,      \* bound: handles ever allocated by the VM
    MaxTime,       \* bound: the last instant of the wall clock
    MaxHandlers,   \* bound: nested try blocks of one task
    SliceBudget,   \* instructions of one time slice (512 in runTaskSlice)
    Values,        \* what scripts return and throw
    Nil,           \* the nil value
    ErrorValue     \* the trace string of a runtime error

ASSUME SchedulerAssumption ==
    /\ MaxTasks \in Nat \ {0}
    /\ MaxTime \in Nat
    /\ MaxHandlers \in Nat
    /\ SliceBudget \in Nat \ {0}

Tasks  == 1 .. MaxTasks
NoTask == 0

LiveStates    == {"READY", "RUNNING", "WAITING", "SLEEPING"}
SettledStates == {"COMPLETED", "FAILED"}
TaskStates    == LiveStates \cup SettledStates \cup {"UNBORN", "FREED"}

Results  == Values \cup {Nil, ErrorValue}
Outcomes == [isException : BOOLEAN, value : Results]
Fulfilled(v) == [isException |-> FALSE, value |-> v]
Rejected(v)  == [isException |-> TRUE,  value |-> v]

VARIABLES
    \* fields of TaskHandle, by handle
    state,         \* TaskHandle::state
    hasFrames,     \* frameCount > 0
    handlers,      \* handlerCount
    waitingOn,     \* TaskHandle::waitingOn
    awaiters,      \* TaskHandle::awaiters, in order of OP_AWAIT
    hasResume,     \* hasResumeValue
    resume,        \* resumeValue and resumeIsException
    outcome,       \* result (COMPLETED, SLEEPING) or failure (FAILED)
    wakeAt,        \* wakeAtMillis
    \* fields of VM
    allocated,     \* handles allocated since the VM was created
    readyQueue,
    currentTask,
    rootTask,
    \* the loop of run() and the C++ frames around it
    pc,            \* where the VM thread is
    phase,         \* which call of run() of interpret(): the script or its entry point
    budget,        \* instructionBudget
    result,        \* what interpret() returned last
    now,           \* currentUnixMillis()
    \* history
    quit,          \* some breakpoint of this run was answered with "quit"
    dangling       \* a destroyed TaskHandle was read

taskVars == <<state, hasFrames, handlers, waitingOn, awaiters, hasResume,
              resume, outcome, wakeAt>>
vars == <<taskVars, allocated, readyQueue, currentTask, rootTask, pc, phase,
          budget, result, now, quit, dangling>>

Locations == {"idle", "poll", "dispatch", "slice", "entry", "crashed"}

TypeOK ==
    /\ state \in [Tasks -> TaskStates]
    /\ hasFrames \in [Tasks -> BOOLEAN]
    /\ handlers \in [Tasks -> 0 .. MaxHandlers]
    /\ waitingOn \in [Tasks -> Tasks \cup {NoTask}]
    /\ awaiters \in [Tasks -> Seq(Tasks)]
    /\ hasResume \in [Tasks -> BOOLEAN]
    /\ resume \in [Tasks -> Outcomes]
    /\ outcome \in [Tasks -> Outcomes]
    /\ wakeAt \in [Tasks -> 0 .. MaxTime]
    /\ allocated \in 0 .. MaxTasks
    /\ readyQueue \in Seq(Tasks)
    /\ currentTask \in Tasks \cup {NoTask}
    /\ rootTask \in Tasks \cup {NoTask}
    /\ pc \in Locations
    /\ phase \in {"script", "main"}
    /\ budget \in 0 .. SliceBudget
    /\ result \in {"NONE", "OK", "RUNTIME_ERROR"}
    /\ now \in 0 .. MaxTime
    /\ quit \in BOOLEAN
    /\ dangling \in BOOLEAN

Elements(s) == {s[i] : i \in DOMAIN s}
Live(t) == state[t] \in LiveStates
Settled(t) == state[t] \in SettledStates

-----------------------------------------------------------------------------
(* Creating and settling tasks                                             *)

Init ==
    /\ state = [t \in Tasks |-> "UNBORN"]
    /\ hasFrames = [t \in Tasks |-> FALSE]
    /\ handlers = [t \in Tasks |-> 0]
    /\ waitingOn = [t \in Tasks |-> NoTask]
    /\ awaiters = [t \in Tasks |-> <<>>]
    /\ hasResume = [t \in Tasks |-> FALSE]
    /\ resume = [t \in Tasks |-> Fulfilled(Nil)]
    /\ outcome = [t \in Tasks |-> Fulfilled(Nil)]
    /\ wakeAt = [t \in Tasks |-> 0]
    /\ allocated = 0
    /\ readyQueue = <<>>
    /\ currentTask = NoTask
    /\ rootTask = NoTask
    /\ pc = "idle"
    /\ phase = "script"
    /\ budget = 0
    /\ result = "NONE"
    /\ now = 0
    /\ quit = FALSE
    /\ dangling = FALSE

\* resetScheduler() followed by the creation of handles: every TaskHandle of
\* the earlier run is destroyed, whatever globals still point to it, and the
\* new handles start with the fields the constructor and the caller give them.
Restart(newState, framed) ==
    /\ state' = [t \in Tasks |-> IF t \in DOMAIN newState THEN newState[t]
                                 ELSE IF t <= allocated THEN "FREED"
                                 ELSE "UNBORN"]
    /\ hasFrames' = [t \in Tasks |-> t \in framed]
    /\ handlers' = [t \in Tasks |-> 0]
    /\ waitingOn' = [t \in Tasks |-> NoTask]
    /\ awaiters' = [t \in Tasks |-> <<>>]
    /\ hasResume' = [t \in Tasks |-> FALSE]
    /\ resume' = [t \in Tasks |-> Fulfilled(Nil)]
    /\ wakeAt' = [t \in Tasks |-> 0]

\* Mutant: failTask without its call of wakeAwaiters.
MutSettleSilentFailure(u, o, q) ==
    LET woken == IF o.isException THEN {} ELSE Elements(awaiters[u]) IN
    /\ state' = [t \in Tasks |->
                   IF t \in woken THEN "READY"
                   ELSE IF t = u THEN (IF o.isException THEN "FAILED" ELSE "COMPLETED")
                   ELSE state[t]]
    /\ outcome' = [outcome EXCEPT ![u] = o]
    /\ hasFrames' = [hasFrames EXCEPT ![u] = FALSE]
    /\ handlers' = [handlers EXCEPT ![u] = 0]
    /\ waitingOn' = [t \in Tasks |-> IF t \in woken THEN NoTask ELSE waitingOn[t]]
    /\ hasResume' = [t \in Tasks |-> t \in woken \/ (hasResume[t] /\ t # u)]
    /\ resume' = [t \in Tasks |-> IF t \in woken THEN o ELSE resume[t]]
    /\ readyQueue' = q \o (IF o.isException THEN <<>> ELSE awaiters[u])
    /\ awaiters' = [awaiters EXCEPT ![u] = <<>>]

\* resolveTask / failTask and wakeAwaiters on the unsettled task u, when the
\* ready queue is q: u drops its frames and handlers, and every awaiter gets
\* the outcome and a place at the end of the queue.  (If u still had a pending
\* resume, applyPendingResume has just cleared it.)
Settle(u, o, q) ==
    LET woken == Elements(awaiters[u]) IN
    /\ state' = [t \in Tasks |->
                   IF t \in woken THEN "READY"
                   ELSE IF t = u THEN (IF o.isException THEN "FAILED" ELSE "COMPLETED")
                   ELSE state[t]]
    /\ outcome' = [outcome EXCEPT ![u] = o]
    /\ hasFrames' = [hasFrames EXCEPT ![u] = FALSE]
    /\ handlers' = [handlers EXCEPT ![u] = 0]
    /\ waitingOn' = [t \in Tasks |-> IF t \in woken THEN NoTask ELSE waitingOn[t]]
    /\ hasResume' = [t \in Tasks |-> t \in woken \/ (hasResume[t] /\ t # u)]
    /\ resume' = [t \in Tasks |-> IF t \in woken THEN o
                                  ELSE IF t = u THEN Fulfilled(Nil)
                                  ELSE resume[t]]
    /\ readyQueue' = q \o awaiters[u]
    /\ awaiters' = [awaiters EXCEPT ![u] = <<>>]

-----------------------------------------------------------------------------
(* interpret()                                                             *)

\* interpret(function): a script file, or one more line of the REPL.
Interpret ==
    LET root == allocated + 1 IN
    /\ pc = "idle"
    /\ root \in Tasks
    /\ Restart([t \in {root} |-> "READY"], {root})
    /\ outcome' = [t \in Tasks |-> Fulfilled(Nil)]
    /\ allocated' = root
    /\ rootTask' = root
    /\ currentTask' = NoTask
    /\ readyQueue' = <<root>>
    /\ pc' = "poll"
    /\ phase' = "script"
    /\ result' = "NONE"
    /\ quit' = FALSE
    /\ UNCHANGED <<budget, now, dangling>>

\* No callable entry point, or auto-main is off: interpret() returns OK.
NoEntryPoint ==
    /\ pc = "entry"
    /\ pc' = "idle"
    /\ result' = "OK"
    /\ UNCHANGED <<taskVars, allocated, readyQueue, currentTask, rootTask,
                   phase, budget, now, quit, dangling>>

\* The entry point gets a scheduler of its own, in which it is not the root.
EntryReset(newState, framed, queue) ==
    /\ pc = "entry"
    /\ DOMAIN newState \subseteq Tasks
    /\ Restart(newState, framed)
    /\ allocated' = allocated + (IF allocated + 2 \in DOMAIN newState THEN 2 ELSE 1)
    /\ rootTask' = NoTask
    /\ currentTask' = allocated + 1
    /\ readyQueue' = queue
    /\ phase' = "main"
    /\ UNCHANGED <<budget, now, quit, dangling>>

EnterRun ==
    /\ outcome' = [t \in Tasks |-> Fulfilled(Nil)]
    /\ pc' = "poll"
    /\ result' = "NONE"

\* callValue pushed a frame for main, or ran it to its end without one
\* (fast path, class without init).
CallEntryPoint ==
    LET main == allocated + 1 IN
    \E framed \in {{main}, {}} :
        /\ EntryReset([t \in {main} |-> "READY"], framed, <<main>>)
        /\ EnterRun

\* main is an async function: callValue starts a task for its body, which is
\* queued before the frameless task of the call.
CallAsyncEntryPoint ==
    LET main == allocated + 1
        body == allocated + 2
    IN  /\ EntryReset([t \in {main, body} |-> "READY"], {body}, <<body, main>>)
        /\ EnterRun

\* callValue refused the call (arity, argument types): failTask, and
\* interpret() returns without a run.
EntryPointRefused ==
    LET main == allocated + 1 IN
    /\ EntryReset([t \in {main} |-> "FAILED"], {}, <<>>)
    /\ outcome' = [t \in Tasks |-> IF t = main THEN Rejected(ErrorValue)
                                   ELSE Fulfilled(Nil)]
    /\ pc' = "idle"
    /\ result' = "RUNTIME_ERROR"

-----------------------------------------------------------------------------
(* run(): timers, dispatch, idling                                         *)

\* run() returns r to interpret(), which goes on to the entry point only
\* after a script that succeeded.
ReturnFromRun(r) ==
    /\ pc' = IF r = "OK" /\ phase = "script" THEN "entry" ELSE "idle"
    /\ result' = r

\* The loop of run() starts over, unless the root task has just failed.
NextRound ==
    IF rootTask # NoTask /\ state'[rootTask] = "FAILED"
    THEN ReturnFromRun("RUNTIME_ERROR")
    ELSE pc' = "poll" /\ UNCHANGED result

Due == {t \in Tasks : state[t] = "SLEEPING" /\ wakeAt[t] <= now}

\* Mutant: pollSleepingTasks without its test of the state, a timer being any
\* handle that was not created by now.
MutPollTimer ==
    /\ pc = "poll"
    /\ \E t \in Tasks :
          /\ state[t] \notin {"UNBORN", "FREED", "COMPLETED"} /\ wakeAt[t] < now
          /\ Settle(t, Fulfilled(Nil), readyQueue)
    /\ UNCHANGED <<wakeAt, allocated, currentTask, rootTask, pc, phase, budget,
                   result, now, quit, dangling>>

\* pollSleepingTasks: the clock is read once, timers are visited in the order
\* of their creation.
PollTimer ==
    /\ pc = "poll"
    /\ \E t \in Due :
          /\ \A u \in Due : t <= u
          /\ Settle(t, outcome[t], readyQueue)
    /\ UNCHANGED <<wakeAt, allocated, currentTask, rootTask, pc, phase, budget,
                   result, now, quit, dangling>>

PollDone ==
    /\ pc = "poll"
    /\ Due = {}
    /\ IF rootTask # NoTask /\ state[rootTask] = "FAILED"
       THEN ReturnFromRun("RUNTIME_ERROR")
       ELSE pc' = "dispatch" /\ UNCHANGED result
    /\ UNCHANGED <<taskVars, allocated, readyQueue, currentTask, rootTask,
                   phase, budget, now, quit, dangling>>

\* The first entry of the queue that is still READY; those before it are dropped.
FirstReady(i) ==
    /\ i \in DOMAIN readyQueue
    /\ state[readyQueue[i]] = "READY"
    /\ \A j \in 1 .. i - 1 : state[readyQueue[j]] # "READY"

NoneReady == \A i \in DOMAIN readyQueue : state[readyQueue[i]] # "READY"

\* Mutant: applyPendingResume leaves hasResumeValue set.
MutDispatchKeepsResume ==
    /\ pc = "dispatch"
    /\ \E i \in DOMAIN readyQueue :
         LET t == readyQueue[i]
             raises == hasResume[t] /\ resume[t].isException
         IN  /\ FirstReady(i)
             /\ raises => handlers[t] > 0
             /\ readyQueue' = SubSeq(readyQueue, i + 1, Len(readyQueue))
             /\ currentTask' = t
             /\ state' = [state EXCEPT ![t] = "RUNNING"]
             /\ handlers' = [handlers EXCEPT ![t] = IF raises THEN @ - 1 ELSE @]
    /\ pc' = "slice"
    /\ budget' = SliceBudget
    /\ UNCHANGED <<hasFrames, waitingOn, awaiters, hasResume, resume, outcome,
                   wakeAt, allocated, rootTask, phase, result, now, quit, dangling>>

\* Dispatch of a task that may run: a pending value is pushed, a pending
\* exception caught by its innermost handler.
Dispatch ==
    /\ pc = "dispatch"
    /\ \E i \in DOMAIN readyQueue :
         LET t == readyQueue[i]
             raises == hasResume[t] /\ resume[t].isException
         IN  /\ FirstReady(i)
             /\ raises => handlers[t] > 0
             /\ readyQueue' = SubSeq(readyQueue, i + 1, Len(readyQueue))
             /\ currentTask' = t
             /\ state' = [state EXCEPT ![t] = "RUNNING"]
             /\ handlers' = [handlers EXCEPT ![t] = IF raises THEN @ - 1 ELSE @]
             /\ hasResume' = [hasResume EXCEPT ![t] = FALSE]
             /\ resume' = [resume EXCEPT ![t] = Fulfilled(Nil)]
    /\ pc' = "slice"
    /\ budget' = SliceBudget
    /\ UNCHANGED <<hasFrames, waitingOn, awaiters, outcome, wakeAt, allocated,
                   rootTask, phase, result, now, quit, dangling>>

\* Dispatch of a task whose pending exception nothing catches: it fails with
\* the exception before it runs an instruction, and wakes its own awaiters.
DispatchUncaught ==
    /\ pc = "dispatch"
    /\ \E i \in DOMAIN readyQueue :
         LET t == readyQueue[i] IN
         /\ FirstReady(i)
         /\ hasResume[t] /\ resume[t].isException
         /\ handlers[t] = 0
         /\ currentTask' = t
         /\ Settle(t, resume[t], SubSeq(readyQueue, i + 1, Len(readyQueue)))
    /\ NextRound
    /\ UNCHANGED <<wakeAt, allocated, rootTask, phase, budget, now, quit, dangling>>

\* Mutant: hasPendingLiveTasks forgets the waiting tasks.
MutFinishIgnoresWaiting ==
    /\ pc = "dispatch"
    /\ NoneReady
    /\ \A t \in Tasks : state[t] \notin LiveStates \ {"WAITING"}
    /\ readyQueue' = <<>>
    /\ ReturnFromRun("OK")
    /\ UNCHANGED <<taskVars, allocated, currentTask, rootTask, phase, budget,
                   now, quit, dangling>>

\* Nothing ready and nothing live: the run is over.
Finish ==
    /\ pc = "dispatch"
    /\ NoneReady
    /\ \A t \in Tasks : ~Live(t)
    /\ readyQueue' = <<>>
    /\ ReturnFromRun("OK")
    /\ UNCHANGED <<taskVars, allocated, currentTask, rootTask, phase, budget,
                   now, quit, dangling>>

Sleepers == {t \in Tasks : state[t] = "SLEEPING"}

\* Nothing ready, a timer pending: sleep until the earliest one, or longer.
\* A timer that fell due since the poll costs no sleep (yield).
Idle ==
    /\ pc = "dispatch"
    /\ NoneReady
    /\ Sleepers # {}
    /\ readyQueue' = <<>>
    /\ \E n \in now .. MaxTime :
          /\ \E t \in Sleepers : wakeAt[t] <= n
          /\ now' = n
    /\ pc' = "poll"
    /\ UNCHANGED <<taskVars, allocated, currentTask, rootTask, phase, budget,
                   result, quit, dangling>>

\* Nothing ready, no timer, something live: "Scheduler deadlock".  The error
\* fails the root task if there is one and it is not settled.
Stuck ==
    /\ pc = "dispatch"
    /\ NoneReady
    /\ Sleepers = {}
    /\ \E t \in Tasks : Live(t)

Deadlock ==
    /\ Stuck
    /\ currentTask' = rootTask
    /\ IF rootTask # NoTask /\ ~Settled(rootTask)
       THEN Settle(rootTask, Rejected(ErrorValue), <<>>)
       ELSE /\ readyQueue' = <<>>
            /\ UNCHANGED <<state, hasFrames, handlers, waitingOn, awaiters,
                           hasResume, resume, outcome>>
    /\ ReturnFromRun("RUNTIME_ERROR")
    /\ UNCHANGED <<wakeAt, allocated, rootTask, phase, budget, now, quit, dangling>>

-----------------------------------------------------------------------------
(* runTaskSlice(): the instructions that matter to the scheduler           *)

InSlice == pc = "slice" /\ budget > 0

\* The current task goes on with its next instruction.
Continue ==
    /\ budget' = budget - 1
    /\ UNCHANGED <<pc, result>>

\* The current task is settled, and its slice over.
SettleCurrent(o) ==
    /\ Settle(currentTask, o, readyQueue)
    /\ budget' = 0
    /\ NextRound
    /\ UNCHANGED wakeAt

\* propagateException on the current task, failTask when nothing catches.
Raise(v) ==
    IF handlers[currentTask] > 0
    THEN /\ handlers' = [handlers EXCEPT ![currentTask] = @ - 1]
         /\ Continue
         /\ UNCHANGED <<state, hasFrames, waitingOn, awaiters, hasResume, resume,
                        outcome, wakeAt, readyQueue>>
    ELSE SettleCurrent(Rejected(v))

sliceFrame == <<allocated, currentTask, rootTask, phase, now, quit, dangling>>

\* An instruction without effect on the scheduler.
Step ==
    /\ InSlice
    /\ hasFrames[currentTask]
    /\ Continue
    /\ UNCHANGED <<taskVars, readyQueue, sliceFrame>>

\* A task without a frame (the call of the entry point is already over).
ResolveFrameless ==
    /\ InSlice
    /\ ~hasFrames[currentTask]
    /\ SettleCurrent(Fulfilled(Nil))
    /\ UNCHANGED sliceFrame

\* OP_PUSH_EXCEPTION_HANDLER
EnterTry ==
    /\ InSlice
    /\ hasFrames[currentTask]
    /\ handlers[currentTask] < MaxHandlers
    /\ handlers' = [handlers EXCEPT ![currentTask] = @ + 1]
    /\ Continue
    /\ UNCHANGED <<state, hasFrames, waitingOn, awaiters, hasResume, resume,
                   outcome, wakeAt, readyQueue, sliceFrame>>

\* Mutant: OP_POP_EXCEPTION_HANDLER without its underflow test.
MutLeaveTryUnderflow ==
    /\ InSlice
    /\ hasFrames[currentTask]
    /\ handlers' = [handlers EXCEPT ![currentTask] = @ - 1]
    /\ Continue
    /\ UNCHANGED <<state, hasFrames, waitingOn, awaiters, hasResume, resume,
                   outcome, wakeAt, readyQueue, sliceFrame>>

\* OP_POP_EXCEPTION_HANDLER, or OP_RETURN of an inner frame, which drops
\* every handler of that frame.
LeaveTry ==
    /\ InSlice
    /\ hasFrames[currentTask]
    /\ \E h \in 0 .. MaxHandlers :
          /\ h < handlers[currentTask]
          /\ handlers' = [handlers EXCEPT ![currentTask] = h]
    /\ Continue
    /\ UNCHANGED <<state, hasFrames, waitingOn, awaiters, hasResume, resume,
                   outcome, wakeAt, readyQueue, sliceFrame>>

\* OP_THROW
Throw ==
    /\ InSlice
    /\ hasFrames[currentTask]
    /\ \E v \in Values : Raise(v)
    /\ UNCHANGED sliceFrame

\* runtimeError: a failing instruction, a failed call, a task that awaits
\* itself, the loop broker.  It fails the task whatever handlers it has.
RuntimeError ==
    /\ InSlice
    /\ hasFrames[currentTask]
    /\ SettleCurrent(Rejected(ErrorValue))
    /\ UNCHANGED sliceFrame

\* OP_RETURN of the outermost frame
Return ==
    /\ InSlice
    /\ hasFrames[currentTask]
    /\ \E v \in Values : SettleCurrent(Fulfilled(v))
    /\ UNCHANGED sliceFrame

\* A call of an async function or method: createAsync*Task and enqueueReadyTask.
SpawnAsync ==
    LET t == allocated + 1 IN
    /\ InSlice
    /\ hasFrames[currentTask]
    /\ t \in Tasks
    /\ allocated' = t
    /\ state' = [state EXCEPT ![t] = "READY"]
    /\ hasFrames' = [hasFrames EXCEPT ![t] = TRUE]
    /\ readyQueue' = Append(readyQueue, t)
    /\ Continue
    /\ UNCHANGED <<handlers, waitingOn, awaiters, hasResume, resume, outcome,
                   wakeAt, currentTask, rootTask, phase, now, quit, dangling>>

\* sleepAsync, and yieldAsync when the duration is zero.
SleepAsync ==
    LET t == allocated + 1 IN
    /\ InSlice
    /\ hasFrames[currentTask]
    /\ t \in Tasks
    /\ allocated' = t
    /\ state' = [state EXCEPT ![t] = "SLEEPING"]
    /\ \E w \in now .. MaxTime : wakeAt' = [wakeAt EXCEPT ![t] = w]
    /\ Continue
    /\ UNCHANGED <<hasFrames, handlers, waitingOn, awaiters, hasResume, resume,
                   outcome, readyQueue, currentTask, rootTask, phase, now, quit,
                   dangling>>

\* Mutant: OP_AWAIT suspends whatever the state of the awaited task is.
MutAwaitWithoutCheck ==
    /\ InSlice
    /\ hasFrames[currentTask]
    /\ \E u \in Tasks \ {currentTask} :
          /\ state[u] \notin {"UNBORN", "FREED"}
          /\ waitingOn' = [waitingOn EXCEPT ![currentTask] = u]
          /\ awaiters' = [awaiters EXCEPT ![u] = Append(@, currentTask)]
    /\ state' = [state EXCEPT ![currentTask] = "WAITING"]
    /\ budget' = 0
    /\ pc' = "poll"
    /\ UNCHANGED <<hasFrames, handlers, hasResume, resume, outcome, wakeAt,
                   readyQueue, result, sliceFrame>>

\* OP_AWAIT of a task that is not settled: suspend.
AwaitPending ==
    /\ InSlice
    /\ hasFrames[currentTask]
    /\ \E u \in Tasks \ {currentTask} :
          /\ Live(u)
          /\ waitingOn' = [waitingOn EXCEPT ![currentTask] = u]
          /\ awaiters' = [awaiters EXCEPT ![u] = Append(@, currentTask)]
    /\ state' = [state EXCEPT ![currentTask] = "WAITING"]
    /\ budget' = 0
    /\ pc' = "poll"
    /\ UNCHANGED <<hasFrames, handlers, hasResume, resume, outcome, wakeAt,
                   readyQueue, result, sliceFrame>>

\* OP_AWAIT of a settled task: its result is pushed, its failure raised here.
AwaitSettled ==
    /\ InSlice
    /\ hasFrames[currentTask]
    /\ \E u \in Tasks \ {currentTask} :
          \/ /\ state[u] = "COMPLETED"
             /\ Continue
             /\ UNCHANGED <<taskVars, readyQueue>>
          \/ /\ state[u] = "FAILED"
             /\ Raise(outcome[u].value)
    /\ UNCHANGED sliceFrame

\* OP_AWAIT of a handle that resetScheduler destroyed: the read of freed
\* memory crashes, still finds the old settled task, or finds the current
\* task when its TaskHandle took the place of the old one.
AwaitFreed ==
    /\ InSlice
    /\ hasFrames[currentTask]
    /\ \E u \in Tasks : state[u] = "FREED"
    /\ \/ /\ pc' = "crashed"
          /\ budget' = 0
          /\ UNCHANGED <<taskVars, readyQueue, result>>
       \/ Continue /\ UNCHANGED <<taskVars, readyQueue>>
       \/ SettleCurrent(Rejected(ErrorValue))
    /\ dangling' = TRUE
    /\ UNCHANGED <<allocated, currentTask, rootTask, phase, now, quit>>

\* OP_BREAKPOINT answered with "q": the slice returns an error but leaves the
\* task RUNNING, so run() goes on with the other tasks.
QuitDebugger ==
    /\ InSlice
    /\ hasFrames[currentTask]
    /\ quit' = TRUE
    /\ budget' = 0
    /\ pc' = "poll"
    /\ UNCHANGED <<taskVars, readyQueue, result, allocated, currentTask,
                   rootTask, phase, now, dangling>>

\* Mutants: both runTaskSlice and run() queue the preempted task; it is queued
\* in front.
MutPreemptTwice ==
    /\ pc = "slice"
    /\ budget = 0
    /\ state' = [state EXCEPT ![currentTask] = "READY"]
    /\ readyQueue' = readyQueue \o <<currentTask, currentTask>>
    /\ pc' = "poll"
    /\ UNCHANGED <<hasFrames, handlers, waitingOn, awaiters, hasResume, resume,
                   outcome, wakeAt, budget, result, sliceFrame>>

MutPreemptInFront ==
    /\ pc = "slice"
    /\ budget = 0
    /\ state' = [state EXCEPT ![currentTask] = "READY"]
    /\ readyQueue' = <<currentTask>> \o readyQueue
    /\ pc' = "poll"
    /\ UNCHANGED <<hasFrames, handlers, waitingOn, awaiters, hasResume, resume,
                   outcome, wakeAt, budget, result, sliceFrame>>

\* The budget is spent: back to READY and to the end of the queue.
Preempt ==
    /\ pc = "slice"
    /\ budget = 0
    /\ state' = [state EXCEPT ![currentTask] = "READY"]
    /\ readyQueue' = Append(readyQueue, currentTask)
    /\ pc' = "poll"
    /\ UNCHANGED <<hasFrames, handlers, waitingOn, awaiters, hasResume, resume,
                   outcome, wakeAt, budget, result, sliceFrame>>

\* The wall clock, between two reads of it.
Tick ==
    /\ now < MaxTime
    /\ pc \in {"dispatch", "slice"}
    /\ now' = now + 1
    /\ UNCHANGED <<taskVars, allocated, readyQueue, currentTask, rootTask, pc,
                   phase, budget, result, quit, dangling>>

-----------------------------------------------------------------------------
Instruction ==
    \/ Step \/ ResolveFrameless \/ EnterTry \/ LeaveTry \/ Throw \/ RuntimeError
    \/ Return \/ SpawnAsync \/ SleepAsync \/ AwaitPending \/ AwaitSettled
    \/ AwaitFreed \/ QuitDebugger

RunStep ==
    \/ NoEntryPoint \/ CallEntryPoint \/ CallAsyncEntryPoint \/ EntryPointRefused
    \/ PollTimer \/ PollDone \/ Dispatch \/ DispatchUncaught \/ Finish \/ Idle
    \/ Deadlock \/ Instruction \/ Preempt

Next == Interpret \/ RunStep \/ Tick

Spec == Init /\ [][Next]_vars

\* The VM thread never stops between two steps of run(); nobody has to type
\* another line into the REPL, and nothing relies on the clock ticking except
\* the sleep that Idle performs itself.
FairSpec == Spec /\ WF_vars(RunStep)
-----------------------------------------------------------------------------
(* Properties                                                              *)

\* The ready queue holds exactly the READY tasks, each once: enqueueReadyTask
\* pushes without looking, so every wake-up must happen once per suspension.
QueueExact ==
    /\ \A i, j \in DOMAIN readyQueue : readyQueue[i] = readyQueue[j] => i = j
    /\ Elements(readyQueue) = {t \in Tasks : state[t] = "READY"}

\* A task is RUNNING only while its slice lasts, unless the debugger's "q"
\* abandoned it.
OneRunner ==
    \A t \in Tasks :
        state[t] = "RUNNING" => quit \/ (pc \in {"slice", "crashed"} /\ currentTask = t)

\* Every waiting task stands in the awaiters of the live task it waits on, and
\* every entry of an awaiters list is a task that waits there, listed once.
WaitersListed ==
    /\ \A t \in Tasks : state[t] = "WAITING" =>
          /\ waitingOn[t] \in Tasks
          /\ Live(waitingOn[t])
          /\ t \in Elements(awaiters[waitingOn[t]])
    /\ \A u \in Tasks : \A i \in DOMAIN awaiters[u] :
          /\ state[awaiters[u][i]] = "WAITING"
          /\ waitingOn[awaiters[u][i]] = u
          /\ \A j \in DOMAIN awaiters[u] : awaiters[u][i] = awaiters[u][j] => i = j

\* No lost and no stray wake-up: while a run lasts, settling the task that is
\* awaited wakes each of its awaiters, and nobody else (OP_AWAIT, wakeAwaiters).
NoLostWakeup == pc # "idle" => WaitersListed

\* run() reports "Scheduler deadlock" only when some tasks await one another in
\* a circle: a timer, a queued task or a settled task never ends up there.
StuckMeansCycle ==
    (Stuck /\ ~quit) =>
        \E S \in (SUBSET Tasks) \ {{}} :
            \A t \in S : state[t] = "WAITING" /\ waitingOn[t] \in S

\* A script whose task failed is never reported as OK, and one reported as OK
\* has left no task behind (run(), interpret()).
ScriptResultHonest ==
    (phase = "script" /\ pc \in {"idle", "entry"} /\ rootTask # NoTask) =>
        /\ state[rootTask] = "FAILED" => result = "RUNTIME_ERROR"
        /\ result = "OK" => /\ state[rootTask] = "COMPLETED"
                            /\ \A t \in Tasks : ~Live(t)

\* A settled task keeps its state and its outcome until its scheduler is reset:
\* neither a late timer nor a stale entry of an awaiters list revives it.
SettledIsFinal ==
    [][\A t \in Tasks : Settled(t) =>
          \/ state'[t] = state[t] /\ outcome'[t] = outcome[t]
          \/ state'[t] = "FREED"]_vars

\* A READY task gets its turn, however busy the tasks before it are, unless the
\* run ends first: the queue is FIFO and a slice is bounded by its budget.
ReadyGetsItsTurn ==
    \A t \in Tasks :
        state[t] = "READY" ~> (state[t] # "READY" \/ pc \in {"idle", "crashed"})

\* A timer that is due is resolved even when the ready queue never empties:
\* every round of run() polls the timers first.
DueTimerFires ==
    \A t \in Tasks :
        (state[t] = "SLEEPING" /\ wakeAt[t] <= now)
            ~> (state[t] # "SLEEPING" \/ pc \in {"idle", "crashed"})

\* Nobody starves, neither of the READY tasks nor of those that sleep (run).
NobodyStarves == ReadyGetsItsTurn /\ DueTimerFires

-----------------------------------------------------------------------------
(* The promise the scheduler implements                                    *)

\* A handle seen as a future.  A timer is a future that is settled by nobody
\* but the clock.
FutureStatus == [t \in Tasks |->
    CASE state[t] = "UNBORN" -> "none"
      [] state[t] = "FREED" -> "discarded"
      [] state[t] = "COMPLETED" -> "fulfilled"
      [] state[t] = "FAILED" -> "rejected"
      [] OTHER -> "pending"]

Abandoned == {t \in Tasks : state[t] = "RUNNING" /\ ~(pc \in {"slice", "crashed"} /\ currentTask = t)}

Promise == INSTANCE Futures WITH
    status <- FutureStatus,
    value <- [t \in Tasks |-> IF Settled(t) THEN {outcome[t]} ELSE {}],
    blockedOn <- [t \in Tasks |-> IF state[t] = "WAITING" THEN waitingOn[t] ELSE NoTask],
    inbox <- [t \in Tasks |-> IF hasResume[t] THEN {resume[t]} ELSE {}],
    abandoned <- Abandoned

\* Every step of the scheduler, with its queue, lists, timers and slices, is a
\* step of the futures of module Futures: outcomes are delivered exactly once,
\* to those who wait, unchanged, and nobody blocked is failed while anyone can
\* still make progress.
ImplementsFutures == Promise!Spec

-----------------------------------------------------------------------------
(* What a document or a test says, and the code does not                   *)

\* doc/language.md:245, "q": ends the execution of the program at once.
QuitEndsExecution == quit => pc # "slice"

\* The first task of the current scheduler: the one of the entry point in "main".
IsEntryTask(t) == state[t] # "FREED" /\ \A u \in Tasks : u < t => state[u] = "FREED"

\* tests/loop_broker_test.ur:16, a run whose program was stopped by an error is
\* not ok: when the entry point fails, interpret() says so.
EntryFailureReported ==
    \A t \in Tasks :
        (pc = "idle" /\ phase = "main" /\ IsEntryTask(t) /\ state[t] = "FAILED")
            => result = "RUNTIME_ERROR"

\* doc/language.md:153, a task is waited for with await: await never meets a
\* destroyed task.
AwaitFindsTheTask == ~dangling
=============================================================================
