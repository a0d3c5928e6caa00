-------------------------- MODULE ConcurrencyProofs --------------------------
(* Theorems about what runs beside each other in the VM: the tasks of one  *)
(* interpreter (TaskScheduler), its threads and their channels             *)
(* (ThreadChannels) and its worker pools (WorkerPool), for every number of *)
(* tasks, instants, handlers, values, threads, channels, messages, clients,*)
(* workers and jobs.  The three have no state in common.                   *)
EXTENDS TaskScheduler, ThreadChannels, WorkerPool, Integers, FiniteSetTheorems, SequenceTheorems, TLAPS

\* The VM executes an instruction of some task only.
CurrentIsTask == pc = "slice" => currentTask \in Tasks

TypeInv == TypeOK /\ CurrentIsTask

-----------------------------------------------------------------------------
(* Types                                                                   *)

\* resolveTask, failTask and wakeAwaiters keep every field in its type.
LEMMA SettleType ==
    ASSUME TypeOK, NEW u \in Tasks, NEW o \in Outcomes, NEW q \in Seq(Tasks),
           Settle(u, o, q)
    PROVE  /\ state' \in [Tasks -> TaskStates]
           /\ hasFrames' \in [Tasks -> BOOLEAN]
           /\ handlers' \in [Tasks -> 0 .. MaxHandlers]
           /\ waitingOn' \in [Tasks -> Tasks \cup {NoTask}]
           /\ awaiters' \in [Tasks -> Seq(Tasks)]
           /\ hasResume' \in [Tasks -> BOOLEAN]
           /\ resume' \in [Tasks -> Outcomes]
           /\ outcome' \in [Tasks -> Outcomes]
           /\ readyQueue' \in Seq(Tasks)
<1>1. state' \in [Tasks -> TaskStates]
  BY DEF TypeOK, Settle, TaskStates, LiveStates, SettledStates
<1>2. hasFrames' \in [Tasks -> BOOLEAN] /\ handlers' \in [Tasks -> 0 .. MaxHandlers]
  BY SchedulerAssumption DEF TypeOK, Settle
<1>3. waitingOn' \in [Tasks -> Tasks \cup {NoTask}]
  BY DEF TypeOK, Settle
<1>4. awaiters' \in [Tasks -> Seq(Tasks)]
  BY DEF TypeOK, Settle
<1>5. hasResume' \in [Tasks -> BOOLEAN]
  BY DEF TypeOK, Settle
<1>6. Fulfilled(Nil) \in Outcomes
  BY DEF Fulfilled, Outcomes, Results
<1>7. resume' \in [Tasks -> Outcomes] /\ outcome' \in [Tasks -> Outcomes]
  BY <1>6 DEF TypeOK, Settle
<1>8. awaiters[u] \in Seq(Tasks)
  BY DEF TypeOK
<1>9. readyQueue' \in Seq(Tasks)
  BY <1>8 DEF Settle
<1> QED
  BY <1>1, <1>2, <1>3, <1>4, <1>5, <1>7, <1>9

\* A step that settles the current task keeps the types.
LEMMA SettleCurrentType ==
    ASSUME TypeInv, currentTask \in Tasks, NEW o \in Outcomes, SettleCurrent(o),
           UNCHANGED sliceFrame
    PROVE  TypeInv'
<1>1. readyQueue \in Seq(Tasks)
  BY DEF TypeInv, TypeOK
<1>2. Settle(currentTask, o, readyQueue)
  BY DEF SettleCurrent
<1>3. pc' \in Locations \ {"slice"} /\ result' \in {"NONE", "OK", "RUNTIME_ERROR"}
  BY DEF SettleCurrent, NextRound, ReturnFromRun, TypeInv, TypeOK, Locations
<1>4. budget' \in 0 .. SliceBudget /\ wakeAt' = wakeAt
  BY SchedulerAssumption DEF SettleCurrent
<1>5. TypeOK'
  BY <1>1, <1>2, <1>3, <1>4, SettleType DEF TypeInv, TypeOK, sliceFrame
<1> QED
  BY <1>3, <1>5 DEF TypeInv, CurrentIsTask

LEMMA TypeStart == Init => TypeInv
<1> SUFFICES ASSUME Init PROVE TypeInv
  OBVIOUS
<1>1. Fulfilled(Nil) \in Outcomes
  BY DEF Fulfilled, Outcomes, Results
<1>2. /\ awaiters \in [Tasks -> Seq(Tasks)]
      /\ readyQueue \in Seq(Tasks)
  BY DEF Init
<1>3. /\ state \in [Tasks -> TaskStates]
      /\ resume \in [Tasks -> Outcomes]
      /\ outcome \in [Tasks -> Outcomes]
      /\ waitingOn \in [Tasks -> Tasks \cup {NoTask}]
  BY <1>1 DEF Init, TaskStates
<1>4. /\ handlers \in [Tasks -> 0 .. MaxHandlers]
      /\ wakeAt \in [Tasks -> 0 .. MaxTime]
      /\ allocated \in 0 .. MaxTasks
      /\ budget \in 0 .. SliceBudget
      /\ now \in 0 .. MaxTime
  BY SchedulerAssumption DEF Init
<1> QED
  BY <1>2, <1>3, <1>4 DEF Init, TypeInv, TypeOK, CurrentIsTask, Locations

\* resetScheduler() and the handles created after it.
LEMMA RestartType ==
    ASSUME TypeOK, NEW S, NEW newState \in [S -> {"READY", "FAILED"}],
           NEW framed, Restart(newState, framed)
    PROVE  /\ state' \in [Tasks -> TaskStates]
           /\ hasFrames' \in [Tasks -> BOOLEAN]
           /\ handlers' \in [Tasks -> 0 .. MaxHandlers]
           /\ waitingOn' \in [Tasks -> Tasks \cup {NoTask}]
           /\ awaiters' \in [Tasks -> Seq(Tasks)]
           /\ hasResume' \in [Tasks -> BOOLEAN]
           /\ resume' \in [Tasks -> Outcomes]
           /\ wakeAt' \in [Tasks -> 0 .. MaxTime]
<1>1. Fulfilled(Nil) \in Outcomes
  BY DEF Fulfilled, Outcomes, Results
<1>2. state' \in [Tasks -> TaskStates]
  BY DEF Restart, TaskStates, LiveStates, SettledStates
<1> QED
  BY <1>1, <1>2, SchedulerAssumption DEF Restart, TypeOK

\* Instructions that keep the slice going or settle the current task.
LEMMA InstructionType == TypeInv /\ Instruction => TypeInv'
<1> SUFFICES ASSUME TypeInv, Instruction PROVE TypeInv'
  OBVIOUS
<1>0. InSlice
  BY DEF Instruction, Step, ResolveFrameless, EnterTry, LeaveTry, Throw, RuntimeError,
     Return, SpawnAsync, SleepAsync, AwaitPending, AwaitSettled, AwaitFreed, QuitDebugger
<1>1. currentTask \in Tasks /\ pc = "slice" /\ budget - 1 \in 0 .. SliceBudget
  BY <1>0, SchedulerAssumption DEF TypeInv, TypeOK, CurrentIsTask, InSlice
<1>2. Fulfilled(Nil) \in Outcomes /\ Rejected(ErrorValue) \in Outcomes
  BY DEF Fulfilled, Rejected, Outcomes, Results
<1>3. ASSUME NEW v \in Results, Raise(v), UNCHANGED sliceFrame
      PROVE  TypeInv'
  <2>1. CASE handlers[currentTask] > 0
    <3>0. handlers[currentTask] - 1 \in 0 .. MaxHandlers
      BY <1>1, <2>1, SchedulerAssumption DEF TypeInv, TypeOK
    <3>1. handlers' \in [Tasks -> 0 .. MaxHandlers]
      BY <1>3, <2>1, <3>0 DEF Raise, TypeInv, TypeOK
    <3> QED
      BY <1>1, <1>3, <2>1, <3>1
      DEF Raise, Continue, TypeInv, TypeOK, CurrentIsTask, sliceFrame
  <2>2. CASE ~(handlers[currentTask] > 0)
    BY <1>1, <1>3, <2>2, SettleCurrentType DEF Raise, Rejected, Outcomes
  <2> QED
    BY <2>1, <2>2
<1>4. CASE Step
  BY <1>1, <1>4 DEF Step, Continue, TypeInv, TypeOK, CurrentIsTask, taskVars, sliceFrame
<1>5. CASE ResolveFrameless
  BY <1>1, <1>2, <1>5, SettleCurrentType DEF ResolveFrameless
<1>6. CASE EnterTry
  <2>1. handlers' \in [Tasks -> 0 .. MaxHandlers]
    BY <1>1, <1>6, SchedulerAssumption DEF EnterTry, TypeInv, TypeOK
  <2> QED
    BY <1>1, <1>6, <2>1 DEF EnterTry, Continue, TypeInv, TypeOK, CurrentIsTask, sliceFrame
<1>7. CASE LeaveTry
  <2>1. handlers' \in [Tasks -> 0 .. MaxHandlers]
    BY <1>1, <1>7, SchedulerAssumption DEF LeaveTry, TypeInv, TypeOK
  <2> QED
    BY <1>1, <1>7, <2>1 DEF LeaveTry, Continue, TypeInv, TypeOK, CurrentIsTask, sliceFrame
<1>8. CASE Throw
  BY <1>3, <1>8 DEF Throw, Results
<1>9. CASE RuntimeError
  BY <1>1, <1>2, <1>9, SettleCurrentType DEF RuntimeError
<1>10. CASE Return
  <2>1. PICK v \in Values : SettleCurrent(Fulfilled(v))
    BY <1>10 DEF Return
  <2>2. Fulfilled(v) \in Outcomes
    BY DEF Fulfilled, Outcomes, Results
  <2> QED
    BY <1>1, <1>10, <2>1, <2>2, SettleCurrentType DEF Return
<1>11. CASE SpawnAsync
  <2>1. state' \in [Tasks -> TaskStates]
    BY <1>11 DEF SpawnAsync, TypeInv, TypeOK, TaskStates, LiveStates
  <2>2. allocated' \in 0 .. MaxTasks
    BY <1>11, SchedulerAssumption DEF SpawnAsync, Tasks
  <2>3. readyQueue' \in Seq(Tasks)
    BY <1>11 DEF SpawnAsync, TypeInv, TypeOK
  <2> QED
    BY <1>1, <1>11, <2>1, <2>2, <2>3
    DEF SpawnAsync, Continue, TypeInv, TypeOK, CurrentIsTask
<1>12. CASE SleepAsync
  <2>1. state' \in [Tasks -> TaskStates]
    BY <1>12 DEF SleepAsync, TypeInv, TypeOK, TaskStates, LiveStates
  <2>2. allocated' \in 0 .. MaxTasks
    BY <1>12, SchedulerAssumption DEF SleepAsync, Tasks
  <2>3. wakeAt' \in [Tasks -> 0 .. MaxTime]
    BY <1>12, SchedulerAssumption DEF SleepAsync, TypeInv, TypeOK
  <2> QED
    BY <1>1, <1>12, <2>1, <2>2, <2>3
    DEF SleepAsync, Continue, TypeInv, TypeOK, CurrentIsTask
<1>13. CASE AwaitPending
  <2>1. state' \in [Tasks -> TaskStates]
    BY <1>13 DEF AwaitPending, TypeInv, TypeOK, TaskStates, LiveStates
  <2>2. PICK u \in Tasks :
           /\ waitingOn' = [waitingOn EXCEPT ![currentTask] = u]
           /\ awaiters' = [awaiters EXCEPT ![u] = Append(@, currentTask)]
    BY <1>13 DEF AwaitPending
  <2>3. waitingOn' \in [Tasks -> Tasks \cup {NoTask}]
    BY <2>2 DEF TypeInv, TypeOK
  <2>4. awaiters' \in [Tasks -> Seq(Tasks)]
    BY <1>1, <2>2 DEF TypeInv, TypeOK
  <2>5. budget' \in 0 .. SliceBudget /\ pc' = "poll"
    BY <1>13, SchedulerAssumption DEF AwaitPending
  <2> QED
    BY <1>13, <2>1, <2>3, <2>4, <2>5
    DEF AwaitPending, TypeInv, TypeOK, CurrentIsTask, Locations, sliceFrame
<1>14. CASE AwaitSettled
  <2>1. PICK u \in Tasks :
           \/ Continue /\ UNCHANGED <<taskVars, readyQueue>>
           \/ Raise(outcome[u].value)
    BY <1>14 DEF AwaitSettled
  <2>2. CASE Continue /\ UNCHANGED <<taskVars, readyQueue>>
    BY <1>1, <1>14, <2>2
    DEF AwaitSettled, Continue, TypeInv, TypeOK, CurrentIsTask, taskVars, sliceFrame
  <2>3. CASE Raise(outcome[u].value)
    <3>1. outcome[u].value \in Results
      BY DEF TypeInv, TypeOK, Outcomes
    <3> QED
      BY <1>3, <1>14, <2>3, <3>1 DEF AwaitSettled
  <2> QED
    BY <2>1, <2>2, <2>3
<1>15. CASE AwaitFreed
  <2>1. dangling' \in BOOLEAN
    BY <1>15 DEF AwaitFreed
  <2>2. CASE pc' = "crashed" /\ budget' = 0 /\ UNCHANGED <<taskVars, readyQueue, result>>
    <3>1. pc' \in Locations \ {"slice"} /\ budget' \in 0 .. SliceBudget
      BY <2>2, SchedulerAssumption DEF Locations
    <3>2. /\ UNCHANGED <<taskVars, readyQueue, result>>
          /\ UNCHANGED <<allocated, currentTask, rootTask, phase, now, quit>>
      BY <1>15, <2>2 DEF AwaitFreed
    <3> QED
      BY <2>1, <3>1, <3>2 DEF TypeInv, TypeOK, CurrentIsTask, taskVars
  <2>3. CASE Continue /\ UNCHANGED <<taskVars, readyQueue>>
    BY <1>1, <1>15, <2>1, <2>3
    DEF AwaitFreed, Continue, TypeInv, TypeOK, CurrentIsTask, taskVars
  <2>4. CASE SettleCurrent(Rejected(ErrorValue))
    <3>1. readyQueue \in Seq(Tasks)
      BY DEF TypeInv, TypeOK
    <3>2. Settle(currentTask, Rejected(ErrorValue), readyQueue)
      BY <2>4 DEF SettleCurrent
    <3>3. pc' \in Locations \ {"slice"} /\ result' \in {"NONE", "OK", "RUNTIME_ERROR"}
      BY <2>4 DEF SettleCurrent, NextRound, ReturnFromRun, TypeInv, TypeOK, Locations
    <3>4. budget' \in 0 .. SliceBudget /\ wakeAt' = wakeAt
      BY <2>4, SchedulerAssumption DEF SettleCurrent
    <3> QED
      BY <1>1, <1>2, <1>15, <2>1, <3>1, <3>2, <3>3, <3>4, SettleType
      DEF AwaitFreed, TypeInv, TypeOK, CurrentIsTask
  <2> QED
    BY <1>15, <2>2, <2>3, <2>4 DEF AwaitFreed
<1>16. CASE QuitDebugger
  BY <1>1, <1>16, SchedulerAssumption
  DEF QuitDebugger, TypeInv, TypeOK, CurrentIsTask, Locations, taskVars
<1> QED
  BY <1>4, <1>5, <1>6, <1>7, <1>8, <1>9, <1>10, <1>11, <1>12, <1>13, <1>14,
     <1>15, <1>16 DEF Instruction

\* interpret() before its first run() and between its two.
LEMMA InterpretType ==
    ASSUME TypeInv,
           Interpret \/ NoEntryPoint \/ CallEntryPoint \/ CallAsyncEntryPoint
                     \/ EntryPointRefused
    PROVE  TypeInv'
<1>1. Fulfilled(Nil) \in Outcomes /\ Rejected(ErrorValue) \in Outcomes
  BY DEF Fulfilled, Rejected, Outcomes, Results
<1>2. CASE Interpret
  <2> DEFINE root == allocated + 1
  <2>1. root \in Tasks /\ Restart([t \in {root} |-> "READY"], {root})
    BY <1>2 DEF Interpret
  <2>2. [t \in {root} |-> "READY"] \in [{root} -> {"READY", "FAILED"}]
    OBVIOUS
  <2>3. outcome' \in [Tasks -> Outcomes]
    BY <1>1, <1>2 DEF Interpret
  <2>4. readyQueue' \in Seq(Tasks)
    BY <1>2, <2>1 DEF Interpret
  <2>5. allocated' \in 0 .. MaxTasks
    BY <1>2, <2>1, SchedulerAssumption DEF Interpret, Tasks
  <2> HIDE DEF root
  <2> QED
    BY <1>2, <2>1, <2>2, <2>3, <2>4, <2>5, RestartType
    DEF Interpret, TypeInv, TypeOK, CurrentIsTask, Locations, root
<1>3. CASE NoEntryPoint
  BY <1>3 DEF NoEntryPoint, TypeInv, TypeOK, CurrentIsTask, Locations, taskVars
<1>4. ASSUME NEW S, NEW newState \in [S -> {"READY", "FAILED"}], NEW framed,
             NEW order \in Seq(Tasks), EntryReset(newState, framed, order),
             outcome' \in [Tasks -> Outcomes],
             pc' \in Locations \ {"slice"},
             result' \in {"NONE", "OK", "RUNTIME_ERROR"},
             allocated + 1 \in S
      PROVE  TypeInv'
  <2>1. allocated + 1 \in Tasks /\ (allocated + 2 \in S => allocated + 2 \in Tasks)
    BY <1>4 DEF EntryReset
  <2>2. allocated' \in 0 .. MaxTasks
    BY <1>4, <2>1, SchedulerAssumption DEF EntryReset, TypeInv, TypeOK, Tasks
  <2>3. Restart(newState, framed) /\ TypeOK
    BY <1>4 DEF EntryReset, TypeInv
  <2> QED
    BY <1>4, <2>1, <2>2, <2>3, RestartType
    DEF EntryReset, TypeInv, TypeOK, CurrentIsTask
<1> DEFINE main == allocated + 1
           body == allocated + 2
<1>5. CASE CallEntryPoint
  <2>1. PICK framed \in {{main}, {}} :
           EntryReset([t \in {main} |-> "READY"], framed, <<main>>)
    BY <1>5 DEF CallEntryPoint
  <2>2. EnterRun
    BY <1>5 DEF CallEntryPoint
  <2>3. main \in Tasks
    BY <2>1 DEF EntryReset
  <2>4. <<main>> \in Seq(Tasks)
    BY <2>3
  <2> QED
    BY <1>1, <1>4, <2>1, <2>2, <2>4 DEF EnterRun, Locations
<1>6. CASE CallAsyncEntryPoint
  <2>1. /\ EntryReset([t \in {main, body} |-> "READY"], {body}, <<body, main>>)
        /\ EnterRun
    BY <1>6 DEF CallAsyncEntryPoint
  <2>2. main \in Tasks /\ body \in Tasks
    BY <2>1 DEF EntryReset
  <2>3. <<body, main>> \in Seq(Tasks)
    BY <2>2
  <2> QED
    BY <1>1, <1>4, <2>1, <2>3 DEF EnterRun, Locations
<1>7. CASE EntryPointRefused
  <2>1. EntryReset([t \in {main} |-> "FAILED"], {}, <<>>)
    BY <1>7 DEF EntryPointRefused
  <2>2. /\ outcome' \in [Tasks -> Outcomes]
        /\ pc' = "idle"
        /\ result' = "RUNTIME_ERROR"
    BY <1>1, <1>7 DEF EntryPointRefused
  <2>3. [t \in {main} |-> "FAILED"] \in [{main} -> {"READY", "FAILED"}]
    OBVIOUS
  <2>4. <<>> \in Seq(Tasks) /\ pc' \in Locations \ {"slice"}
    BY <2>2 DEF Locations
  <2> QED
    BY <1>4, <2>1, <2>2, <2>3, <2>4
<1> QED
  BY <1>2, <1>3, <1>5, <1>6, <1>7

\* The loop of run().
LEMMA RunType ==
    ASSUME TypeInv,
           PollTimer \/ PollDone \/ Dispatch \/ DispatchUncaught \/ Finish \/ Idle
                     \/ Deadlock \/ Preempt \/ Tick
    PROVE  TypeInv'
<1>1. Fulfilled(Nil) \in Outcomes /\ Rejected(ErrorValue) \in Outcomes
  BY DEF Fulfilled, Rejected, Outcomes, Results
<1>2. readyQueue \in Seq(Tasks) /\ <<>> \in Seq(Tasks)
  BY DEF TypeInv, TypeOK
<1>3. ASSUME NEW i \in DOMAIN readyQueue
      PROVE  /\ readyQueue[i] \in Tasks
             /\ SubSeq(readyQueue, i + 1, Len(readyQueue)) \in Seq(Tasks)
  BY <1>2, <1>3
<1>4. CASE PollTimer
  <2>1. PICK t \in Due : Settle(t, outcome[t], readyQueue)
    BY <1>4 DEF PollTimer
  <2>2. t \in Tasks /\ outcome[t] \in Outcomes
    BY DEF Due, TypeInv, TypeOK
  <2> QED
    BY <1>2, <1>4, <2>1, <2>2, SettleType DEF PollTimer, TypeInv, TypeOK, CurrentIsTask
<1>5. CASE PollDone
  BY <1>5 DEF PollDone, ReturnFromRun, TypeInv, TypeOK, CurrentIsTask, Locations, taskVars
<1>6. CASE Dispatch
  <2>1. PICK i \in DOMAIN readyQueue :
          LET t == readyQueue[i]
              raises == hasResume[t] /\ resume[t].isException
          IN  /\ raises => handlers[t] > 0
              /\ readyQueue' = SubSeq(readyQueue, i + 1, Len(readyQueue))
              /\ currentTask' = t
              /\ state' = [state EXCEPT ![t] = "RUNNING"]
              /\ handlers' = [handlers EXCEPT ![t] = IF raises THEN @ - 1 ELSE @]
              /\ hasResume' = [hasResume EXCEPT ![t] = FALSE]
              /\ resume' = [resume EXCEPT ![t] = Fulfilled(Nil)]
    BY <1>6 DEF Dispatch
  <2> DEFINE t == readyQueue[i]
             raises == hasResume[t] /\ resume[t].isException
  <2>2. t \in Tasks
    BY <1>3
  <2>4. handlers[t] \in 0 .. MaxHandlers
    BY <2>2 DEF TypeInv, TypeOK
  <2>3. raises => handlers[t] - 1 \in 0 .. MaxHandlers
    <3>1. raises => handlers[t] > 0
      BY <2>1
    <3> HIDE DEF t, raises
    <3> QED
      BY <2>4, <3>1, SchedulerAssumption
  <2>5. handlers' \in [Tasks -> 0 .. MaxHandlers]
    <3> HIDE DEF raises, t
    <3>1. handlers' = [handlers EXCEPT ![t] = IF raises THEN @ - 1 ELSE @]
      BY <2>1 DEF t, raises
    <3> QED
      BY <2>2, <2>3, <2>4, <3>1 DEF TypeInv, TypeOK
  <2>6. state' \in [Tasks -> TaskStates]
    BY <2>1, <2>2 DEF TypeInv, TypeOK, TaskStates, LiveStates
  <2>7. /\ resume' \in [Tasks -> Outcomes]
        /\ hasResume' \in [Tasks -> BOOLEAN]
        /\ readyQueue' \in Seq(Tasks)
        /\ currentTask' \in Tasks
    BY <1>1, <1>3, <2>1, <2>2 DEF TypeInv, TypeOK
  <2>8. budget' \in 0 .. SliceBudget
    BY <1>6, SchedulerAssumption DEF Dispatch
  <2> QED
    BY <1>6, <2>5, <2>6, <2>7, <2>8 DEF Dispatch, TypeInv, TypeOK, CurrentIsTask, Locations
<1>7. CASE DispatchUncaught
  <2>1. PICK i \in DOMAIN readyQueue :
          /\ currentTask' = readyQueue[i]
          /\ Settle(readyQueue[i], resume[readyQueue[i]],
                    SubSeq(readyQueue, i + 1, Len(readyQueue)))
    BY <1>7 DEF DispatchUncaught
  <2>2. readyQueue[i] \in Tasks /\ resume[readyQueue[i]] \in Outcomes
    BY <1>3 DEF TypeInv, TypeOK
  <2>3. pc' \in Locations \ {"slice"} /\ result' \in {"NONE", "OK", "RUNTIME_ERROR"}
    BY <1>7 DEF DispatchUncaught, NextRound, ReturnFromRun, TypeInv, TypeOK, Locations
  <2>4. UNCHANGED <<wakeAt, allocated, rootTask, phase, budget, now, quit, dangling>>
    BY <1>7 DEF DispatchUncaught
  <2> QED
    BY <1>3, <2>1, <2>2, <2>3, <2>4, SettleType DEF TypeInv, TypeOK, CurrentIsTask
<1>8. CASE Finish
  BY <1>2, <1>8 DEF Finish, ReturnFromRun, TypeInv, TypeOK, CurrentIsTask, Locations, taskVars
<1>9. CASE Idle
  <2>1. now' \in 0 .. MaxTime
    BY <1>9, SchedulerAssumption DEF Idle, TypeInv, TypeOK
  <2> QED
    BY <1>2, <1>9, <2>1 DEF Idle, TypeInv, TypeOK, CurrentIsTask, Locations, taskVars
<1>10. CASE Deadlock
  <2>1. /\ pc' = "idle"
        /\ result' = "RUNTIME_ERROR"
        /\ currentTask' = rootTask
        /\ UNCHANGED <<wakeAt, allocated, rootTask, phase, budget, now, quit, dangling>>
    BY <1>10 DEF Deadlock, ReturnFromRun
  <2>2. CASE rootTask # NoTask /\ ~Settled(rootTask)
    <3>1. rootTask \in Tasks /\ Settle(rootTask, Rejected(ErrorValue), <<>>)
      BY <1>10, <2>2 DEF Deadlock, TypeInv, TypeOK
    <3> QED
      BY <1>1, <1>2, <2>1, <3>1, SettleType DEF TypeInv, TypeOK, CurrentIsTask, Locations
  <2>3. CASE ~(rootTask # NoTask /\ ~Settled(rootTask))
    BY <1>2, <1>10, <2>1, <2>3 DEF Deadlock, TypeInv, TypeOK, CurrentIsTask, Locations
  <2> QED
    BY <2>2, <2>3
<1>11. CASE Preempt
  <2>1. currentTask \in Tasks
    BY <1>11 DEF Preempt, TypeInv, CurrentIsTask
  <2>2. /\ state' \in [Tasks -> TaskStates]
        /\ readyQueue' \in Seq(Tasks)
    BY <1>2, <1>11, <2>1 DEF Preempt, TypeInv, TypeOK, TaskStates, LiveStates
  <2> QED
    BY <1>11, <2>2 DEF Preempt, TypeInv, TypeOK, CurrentIsTask, Locations, sliceFrame
<1>12. CASE Tick
  <2>1. now' \in 0 .. MaxTime
    BY <1>12, SchedulerAssumption DEF Tick, TypeInv, TypeOK
  <2> QED
    BY <1>12, <2>1 DEF Tick, TypeInv, TypeOK, CurrentIsTask, taskVars
<1> QED
  BY <1>4, <1>5, <1>6, <1>7, <1>8, <1>9, <1>10, <1>11, <1>12

LEMMA TypeStep == TypeInv /\ [Next]_vars => TypeInv'
<1> SUFFICES ASSUME TypeInv, [Next]_vars PROVE TypeInv'
  OBVIOUS
<1>1. CASE Instruction
  BY <1>1, InstructionType
<1>2. CASE Interpret \/ NoEntryPoint \/ CallEntryPoint \/ CallAsyncEntryPoint
                     \/ EntryPointRefused
  BY <1>2, InterpretType
<1>3. CASE PollTimer \/ PollDone \/ Dispatch \/ DispatchUncaught \/ Finish \/ Idle
                     \/ Deadlock \/ Preempt \/ Tick
  BY <1>3, RunType
<1>4. CASE UNCHANGED vars
  BY <1>4 DEF vars, taskVars, TypeInv, TypeOK, CurrentIsTask
<1> QED
  BY <1>1, <1>2, <1>3, <1>4 DEF Next, RunStep

\* Every field of the VM and of its tasks keeps the type the code gives it, and
\* an instruction always has a task to run in.
THEOREM SchedulerTypes == Spec => [](TypeOK /\ CurrentIsTask)
<1>1. Spec => []TypeInv
  BY TypeStart, TypeStep, PTL DEF Spec
<1> QED
  BY <1>1 DEF TypeInv

-----------------------------------------------------------------------------
(* Sequences without repetition                                            *)

Distinct(s) == \A i, j \in DOMAIN s : s[i] = s[j] => i = j

\* Pushing behind a queue the entries of a list that shares none with it.
LEMMA ConcatDistinct ==
    ASSUME NEW S, NEW q \in Seq(S), NEW a \in Seq(S), Distinct(q), Distinct(a),
           Elements(q) \cap Elements(a) = {}
    PROVE  /\ Distinct(q \o a)
           /\ Elements(q \o a) = Elements(q) \cup Elements(a)
<1> DEFINE c == q \o a
<1>1. /\ c \in Seq(S)
      /\ Len(c) = Len(q) + Len(a)
      /\ \A i \in 1 .. Len(c) : c[i] = IF i <= Len(q) THEN q[i] ELSE a[i - Len(q)]
  OBVIOUS
<1>2. /\ DOMAIN c = 1 .. Len(c) /\ DOMAIN q = 1 .. Len(q) /\ DOMAIN a = 1 .. Len(a)
      /\ Len(q) \in Nat /\ Len(a) \in Nat
  BY <1>1
<1>3. \A i \in DOMAIN q : i \in DOMAIN c /\ c[i] = q[i]
  BY <1>1, <1>2
<1>4. \A i \in DOMAIN a : i + Len(q) \in DOMAIN c /\ c[i + Len(q)] = a[i]
  BY <1>1, <1>2
<1>5. \A i \in DOMAIN c : \/ i \in DOMAIN q /\ c[i] = q[i]
                          \/ i - Len(q) \in DOMAIN a /\ c[i] = a[i - Len(q)]
  BY <1>1, <1>2
<1> HIDE DEF c
<1>6. Elements(c) = Elements(q) \cup Elements(a)
  BY <1>3, <1>4, <1>5 DEF Elements
<1>7. Distinct(c)
  <2> SUFFICES ASSUME NEW i \in DOMAIN c, NEW j \in DOMAIN c, c[i] = c[j] PROVE i = j
    BY DEF Distinct
  <2>1. i \in Int /\ j \in Int /\ Len(q) \in Int
    BY <1>2
  <2>2. CASE i \in DOMAIN q /\ c[i] = q[i] /\ j \in DOMAIN q /\ c[j] = q[j]
    BY <2>2 DEF Distinct
  <2>3. CASE /\ i - Len(q) \in DOMAIN a /\ c[i] = a[i - Len(q)]
             /\ j - Len(q) \in DOMAIN a /\ c[j] = a[j - Len(q)]
    <3>1. i - Len(q) = j - Len(q)
      BY <2>3 DEF Distinct
    <3> QED
      BY <2>1, <3>1
  <2>4. \A m \in DOMAIN q, n \in DOMAIN a : q[m] # a[n]
    BY DEF Elements
  <2> QED
    BY <1>5, <2>2, <2>3, <2>4
<1> QED
  BY <1>6, <1>7 DEF c

LEMMA AppendDistinct ==
    ASSUME NEW S, NEW q \in Seq(S), Distinct(q), NEW x \in S, x \notin Elements(q)
    PROVE  /\ Distinct(Append(q, x))
           /\ Elements(Append(q, x)) = Elements(q) \cup {x}
<1> DEFINE c == Append(q, x)
<1>1. /\ c \in Seq(S) /\ DOMAIN c = 1 .. Len(q) + 1 /\ DOMAIN q = 1 .. Len(q)
      /\ Len(q) \in Nat
      /\ c[Len(q) + 1] = x
      /\ \A i \in 1 .. Len(q) : c[i] = q[i]
  OBVIOUS
<1> HIDE DEF c
<1>2. \A i \in DOMAIN c : i \in DOMAIN q \/ i = Len(q) + 1
  BY <1>1
<1>3. Elements(c) = Elements(q) \cup {x}
  BY <1>1, <1>2 DEF Elements
<1>4. \A i \in DOMAIN q : q[i] # x
  BY DEF Elements
<1>5. Distinct(c)
  BY <1>1, <1>2, <1>4 DEF Distinct
<1> QED
  BY <1>3, <1>5 DEF c

\* Taking the first entry of a queue.
LEMMA TailDistinct ==
    ASSUME NEW S, NEW q \in Seq(S), Distinct(q), 1 \in DOMAIN q
    PROVE  /\ Distinct(SubSeq(q, 2, Len(q)))
           /\ Elements(SubSeq(q, 2, Len(q))) = Elements(q) \ {q[1]}
<1> DEFINE c == SubSeq(q, 2, Len(q))
<1>1. /\ DOMAIN q = 1 .. Len(q) /\ Len(q) \in Nat /\ Len(q) >= 1
      /\ DOMAIN c = 1 .. Len(q) - 1
      /\ \A i \in 1 .. Len(q) - 1 : c[i] = q[i + 1]
  OBVIOUS
<1> HIDE DEF c
<1>2. \A i \in DOMAIN c : i + 1 \in DOMAIN q /\ i + 1 # 1 /\ c[i] = q[i + 1]
  BY <1>1
<1>3. \A i \in DOMAIN q : i # 1 => i - 1 \in DOMAIN c /\ c[i - 1] = q[i]
  BY <1>1
<1>4. Elements(c) = Elements(q) \ {q[1]}
  <2>1. \A x \in Elements(c) : x \in Elements(q) \ {q[1]}
    BY <1>2 DEF Elements, Distinct
  <2>2. \A x \in Elements(q) \ {q[1]} : x \in Elements(c)
    BY <1>3 DEF Elements
  <2> QED
    BY <2>1, <2>2
<1>5. Distinct(c)
  <2> SUFFICES ASSUME NEW i \in DOMAIN c, NEW j \in DOMAIN c, c[i] = c[j] PROVE i = j
    BY DEF Distinct
  <2>1. i + 1 = j + 1
    BY <1>2 DEF Distinct
  <2> QED
    BY <1>1, <2>1
<1> QED
  BY <1>4, <1>5 DEF c

-----------------------------------------------------------------------------
(* The ready queue and the awaiters                                        *)

\* What QueueExact says of a queue.
LEMMA QueueExactDef ==
    QueueExact <=> /\ Distinct(readyQueue)
                   /\ Elements(readyQueue) = {t \in Tasks : state[t] = "READY"}
BY DEF QueueExact, Distinct

\* Settling the live task u, which the queue q no longer holds: q and the woken
\* awaiters are exactly the ready tasks, the remaining lists stay exact, and no
\* settled or unborn task is touched.
LEMMA SettleCore ==
    ASSUME TypeOK, WaitersListed, NEW u \in Tasks, Live(u), NEW o \in Outcomes,
           NEW q \in Seq(Tasks), Distinct(q),
           Elements(q) = {t \in Tasks : state[t] = "READY"} \ {u},
           Settle(u, o, q)
    PROVE  /\ QueueExact'
           /\ state[u] # "WAITING" => WaitersListed'
           /\ \A t \in Tasks : state'[t] = "RUNNING" => state[t] = "RUNNING" /\ t # u
           /\ \A t \in Tasks : state[t] = "UNBORN" => state'[t] = "UNBORN"
           /\ \A t \in Tasks : Settled(t) => state'[t] = state[t] /\ outcome'[t] = outcome[t]
           /\ \A t \in Tasks : state[t] \in LiveStates \cup SettledStates
                                  => state'[t] \in LiveStates \cup SettledStates
<1> DEFINE woken == Elements(awaiters[u])
<1>1. awaiters[u] \in Seq(Tasks)
  BY DEF TypeOK
<1>2. \A t \in woken : t \in Tasks /\ state[t] = "WAITING" /\ waitingOn[t] = u
  BY <1>1 DEF WaitersListed, Elements
<1>3. Distinct(awaiters[u])
  BY DEF WaitersListed, Distinct
<1>4. \A t \in Tasks : state'[t] = IF t \in woken THEN "READY"
                                   ELSE IF t = u THEN (IF o.isException THEN "FAILED" ELSE "COMPLETED")
                                   ELSE state[t]
  BY DEF Settle
<1>5. /\ \A t \in Tasks : waitingOn'[t] = IF t \in woken THEN NoTask ELSE waitingOn[t]
      /\ \A t \in Tasks \ {u} : awaiters'[t] = awaiters[t]
      /\ awaiters'[u] = <<>>
      /\ readyQueue' = q \o awaiters[u]
  BY DEF Settle, TypeOK
<1>6. outcome' = [outcome EXCEPT ![u] = o] /\ outcome \in [Tasks -> Outcomes]
  BY DEF Settle, TypeOK
<1> HIDE DEF woken
<1>7. QueueExact'
  <2>1. Elements(q) \cap woken = {}
    BY <1>2
  <2>2. Distinct(q \o awaiters[u]) /\ Elements(q \o awaiters[u]) = Elements(q) \cup woken
    BY <1>1, <1>3, <2>1, ConcatDistinct DEF woken
  <2>3. {t \in Tasks : state'[t] = "READY"}
           = ({t \in Tasks : state[t] = "READY"} \ {u}) \cup woken
    BY <1>2, <1>4
  <2> QED
    BY <1>5, <2>2, <2>3, QueueExactDef DEF QueueExact, Distinct
<1>8. ASSUME state[u] # "WAITING" PROVE WaitersListed'
  <2>1. ASSUME NEW t \in Tasks, state'[t] = "WAITING"
        PROVE  /\ waitingOn'[t] \in Tasks
               /\ Live(waitingOn[t])'
               /\ t \in Elements(awaiters[waitingOn[t]])'
    <3>1. t \notin woken /\ t # u /\ state[t] = "WAITING"
      BY <1>4, <2>1
    <3>2. /\ waitingOn[t] \in Tasks
          /\ Live(waitingOn[t])
          /\ t \in Elements(awaiters[waitingOn[t]])
      BY <3>1 DEF WaitersListed
    <3>3. waitingOn[t] # u
      BY <3>1, <3>2 DEF woken
    <3>4. waitingOn'[t] = waitingOn[t] /\ awaiters'[waitingOn[t]] = awaiters[waitingOn[t]]
      BY <1>5, <3>1, <3>2, <3>3
    <3>5. state'[waitingOn[t]] \in LiveStates
      BY <1>4, <3>2, <3>3 DEF Live, LiveStates
    <3> QED
      BY <3>2, <3>4, <3>5 DEF Live, Elements
  <2>2. ASSUME NEW v \in Tasks, NEW i \in DOMAIN awaiters'[v]
        PROVE  /\ state'[awaiters'[v][i]] = "WAITING"
               /\ waitingOn'[awaiters'[v][i]] = v
               /\ \A j \in DOMAIN awaiters'[v] : awaiters'[v][i] = awaiters'[v][j] => i = j
    <3>1. v # u
      BY <1>5, <2>2
    <3>2. awaiters'[v] = awaiters[v] /\ awaiters[v] \in Seq(Tasks)
      BY <1>5, <3>1 DEF TypeOK
    <3> DEFINE a == awaiters[v][i]
    <3>3. /\ a \in Tasks /\ state[a] = "WAITING" /\ waitingOn[a] = v
          /\ \A j \in DOMAIN awaiters[v] : a = awaiters[v][j] => i = j
      BY <2>2, <3>2 DEF WaitersListed
    <3>4. a \notin woken /\ a # u
      BY <1>2, <1>8, <3>1, <3>3
    <3> QED
      BY <1>4, <1>5, <3>2, <3>3, <3>4
  <2> QED
    BY <2>1, <2>2 DEF WaitersListed
<1>9. \A t \in Tasks : state'[t] = "RUNNING" => state[t] = "RUNNING" /\ t # u
  BY <1>4
<1>10. \A t \in Tasks : state[t] = "UNBORN" => state'[t] = "UNBORN"
  BY <1>2, <1>4 DEF Live, LiveStates
<1>11. \A t \in Tasks : Settled(t) => state'[t] = state[t] /\ outcome'[t] = outcome[t]
  BY <1>2, <1>4, <1>6 DEF Live, LiveStates, Settled, SettledStates
<1>12. \A t \in Tasks : state[t] \in LiveStates \cup SettledStates
                         => state'[t] \in LiveStates \cup SettledStates
  BY <1>4 DEF LiveStates, SettledStates
<1> QED
  BY <1>7, <1>8, <1>9, <1>10, <1>11, <1>12

-----------------------------------------------------------------------------
(* The inductive invariant                                                 *)

CurrentRuns == pc = "slice" => state[currentTask] = "RUNNING"

HandlesBorn == \A t \in Tasks : t > allocated => state[t] = "UNBORN"

RootBorn == rootTask # NoTask => state[rootTask] \in LiveStates \cup SettledStates

SchedInv ==
    /\ TypeInv
    /\ QueueExact
    /\ OneRunner
    /\ NoLostWakeup
    /\ CurrentRuns
    /\ HandlesBorn
    /\ RootBorn

LEMMA SchedStart == Init => SchedInv
<1> SUFFICES ASSUME Init PROVE SchedInv
  OBVIOUS
<1>1. QueueExact
  BY DEF Init, QueueExact, Elements
<1>2. OneRunner /\ NoLostWakeup /\ CurrentRuns /\ HandlesBorn /\ RootBorn
  BY DEF Init, OneRunner, NoLostWakeup, CurrentRuns, HandlesBorn, RootBorn
<1> QED
  BY <1>1, <1>2, TypeStart DEF SchedInv

\* With an exact queue, the first READY entry is the first entry, and an empty
\* search means that no task is READY.
LEMMA FirstIsHead ==
    ASSUME TypeOK, QueueExact
    PROVE  /\ \A i : FirstReady(i) => i = 1
           /\ NoneReady => {t \in Tasks : state[t] = "READY"} = {} /\ Elements(readyQueue) = {}
<1>1. \A i \in DOMAIN readyQueue : state[readyQueue[i]] = "READY"
  BY DEF QueueExact, Elements
<1>2. \A i \in DOMAIN readyQueue : i \in Nat /\ i >= 1 /\ 1 \in DOMAIN readyQueue
  <2>1. readyQueue \in Seq(Tasks)
    BY DEF TypeOK
  <2>2. DOMAIN readyQueue = 1 .. Len(readyQueue) /\ Len(readyQueue) \in Nat
    BY <2>1
  <2> QED
    BY <2>2
<1>3. ASSUME NEW i, FirstReady(i) PROVE i = 1
  BY <1>1, <1>2, <1>3 DEF FirstReady
<1>4. ASSUME NoneReady
      PROVE  {t \in Tasks : state[t] = "READY"} = {} /\ Elements(readyQueue) = {}
  BY <1>1, <1>4 DEF NoneReady, QueueExact, Elements
<1> QED
  BY <1>3, <1>4

\* Steps that leave the states, the queue and the lists alone.
LEMMA QuietStep ==
    ASSUME SchedInv, TypeInv',
           UNCHANGED <<state, readyQueue, waitingOn, awaiters, allocated, rootTask>>,
           pc = "idle" => pc' = "idle",
           pc' = "slice" => pc = "slice" /\ currentTask' = currentTask,
           \A t \in Tasks : state[t] = "RUNNING" =>
               quit' \/ (pc' \in {"slice", "crashed"} /\ currentTask' = t)
    PROVE  SchedInv'
<1>1. QueueExact' /\ HandlesBorn' /\ RootBorn'
  BY DEF SchedInv, QueueExact, HandlesBorn, RootBorn, Elements
<1>2. OneRunner'
  BY DEF OneRunner
<1>3. NoLostWakeup'
  BY DEF SchedInv, NoLostWakeup, WaitersListed, Live, Elements
<1>4. CurrentRuns'
  BY DEF SchedInv, CurrentRuns
<1> QED
  BY <1>1, <1>2, <1>3, <1>4 DEF SchedInv

\* Steps after which no task waits: those that start a program anew.
LEMMA FreshStep ==
    ASSUME NEW S, NEW newState \in [S -> {"READY", "FAILED"}], NEW framed,
           Restart(newState, framed), TypeInv',
           Distinct(readyQueue'),
           \A t \in Tasks : t \in Elements(readyQueue') <=> t \in S /\ newState[t] = "READY",
           allocated \in Nat, allocated' \in Nat, allocated <= allocated',
           \A t \in S : t <= allocated',
           rootTask' # NoTask => rootTask' \in S,
           pc' # "slice"
    PROVE  SchedInv'
<1>1. \A t \in Tasks : state'[t] = IF t \in S THEN newState[t]
                                   ELSE IF t <= allocated THEN "FREED" ELSE "UNBORN"
  BY DEF Restart
<1>2. \A t \in Tasks : awaiters'[t] = <<>>
  BY DEF Restart
<1>3. \A t \in Tasks : state'[t] \notin {"WAITING", "RUNNING"}
  BY <1>1
<1>4. \A t \in Tasks : t \in Elements(readyQueue') <=> state'[t] = "READY"
  BY <1>1
<1>5. QueueExact'
  <2>1. \A t \in Elements(readyQueue') : t \in Tasks
    BY DEF TypeInv, TypeOK, Elements
  <2> QED
    BY <1>4, <2>1 DEF QueueExact, Distinct, Elements
<1>6. OneRunner' /\ CurrentRuns'
  BY <1>3 DEF OneRunner, CurrentRuns
<1>7. NoLostWakeup'
  BY <1>2, <1>3 DEF NoLostWakeup, WaitersListed
<1>8. HandlesBorn'
  BY <1>1 DEF HandlesBorn, Tasks
<1>9. RootBorn'
  BY <1>1 DEF RootBorn, TypeInv, TypeOK, LiveStates, SettledStates
<1> QED
  BY <1>5, <1>6, <1>7, <1>8, <1>9 DEF SchedInv

LEMMA InterpretCore ==
    ASSUME SchedInv, TypeInv',
           Interpret \/ NoEntryPoint \/ CallEntryPoint \/ CallAsyncEntryPoint
                     \/ EntryPointRefused
    PROVE  SchedInv'
<1> DEFINE main == allocated + 1
           body == allocated + 2
<1>1. allocated \in Nat /\ main \in Nat /\ body \in Nat /\ main # body
  BY SchedulerAssumption DEF SchedInv, TypeInv, TypeOK
<1>2. CASE Interpret
  <2>1. /\ Restart([t \in {main} |-> "READY"], {main})
        /\ readyQueue' = <<main>> /\ allocated' = main /\ pc' = "poll" /\ rootTask' = main
    BY <1>2 DEF Interpret
  <2>2. [t \in {main} |-> "READY"] \in [{main} -> {"READY", "FAILED"}]
    OBVIOUS
  <2>3. Distinct(<<main>>) /\ Elements(<<main>>) = {main}
    BY DEF Distinct, Elements
  <2>4. allocated <= main
    BY <1>1
  <2> HIDE DEF main
  <2> QED
    BY <1>1, <2>1, <2>2, <2>3, <2>4, FreshStep
<1>3. CASE NoEntryPoint
  <2>1. /\ UNCHANGED <<state, readyQueue, waitingOn, awaiters, allocated, rootTask, quit>>
        /\ pc = "entry" /\ pc' = "idle"
    BY <1>3 DEF NoEntryPoint, taskVars
  <2>2. \A t \in Tasks : state[t] = "RUNNING" => quit'
    BY <2>1 DEF SchedInv, OneRunner
  <2> QED
    BY <2>1, <2>2, QuietStep
<1>4. CASE CallEntryPoint
  <2>1. PICK framed \in {{main}, {}} :
           EntryReset([t \in {main} |-> "READY"], framed, <<main>>)
    BY <1>4 DEF CallEntryPoint
  <2>2. /\ Restart([t \in {main} |-> "READY"], framed)
        /\ readyQueue' = <<main>> /\ pc' = "poll" /\ rootTask' = NoTask
    BY <1>4, <2>1 DEF EntryReset, CallEntryPoint, EnterRun
  <2>3. body \notin {main}
    BY <1>1
  <2>4. allocated' = main
    BY <2>1, <2>3 DEF EntryReset
  <2>5. [t \in {main} |-> "READY"] \in [{main} -> {"READY", "FAILED"}]
    OBVIOUS
  <2>6. Distinct(<<main>>) /\ Elements(<<main>>) = {main}
    BY DEF Distinct, Elements
  <2>7. allocated <= main
    BY <1>1
  <2> HIDE DEF main
  <2> QED
    BY <1>1, <2>2, <2>4, <2>5, <2>6, <2>7, FreshStep
<1>5. CASE CallAsyncEntryPoint
  <2> DEFINE fresh == [t \in {main, body} |-> "READY"]
  <2>1. EntryReset(fresh, {body}, <<body, main>>) /\ pc' = "poll"
    BY <1>5 DEF CallAsyncEntryPoint, EnterRun
  <2>2. Restart(fresh, {body}) /\ readyQueue' = <<body, main>> /\ allocated' = body
                          /\ rootTask' = NoTask
    BY <1>1, <2>1 DEF EntryReset
  <2>3. fresh \in [{main, body} -> {"READY", "FAILED"}] /\ \A t \in {main, body} : fresh[t] = "READY"
    OBVIOUS
  <2>4. Distinct(<<body, main>>) /\ Elements(<<body, main>>) = {main, body}
    BY <1>1 DEF Distinct, Elements
  <2>5. allocated <= body /\ main <= body
    BY <1>1
  <2> HIDE DEF main, body, fresh
  <2> QED
    BY <1>1, <2>1, <2>2, <2>3, <2>4, <2>5, FreshStep
<1>6. CASE EntryPointRefused
  <2> DEFINE fresh == [t \in {main} |-> "FAILED"]
  <2>1. EntryReset(fresh, {}, <<>>) /\ pc' = "idle"
    BY <1>6 DEF EntryPointRefused
  <2>2. body \notin {main}
    BY <1>1
  <2>3. Restart(fresh, {}) /\ readyQueue' = <<>> /\ allocated' = main
                        /\ rootTask' = NoTask
    BY <2>1, <2>2 DEF EntryReset
  <2>4. fresh \in [{main} -> {"READY", "FAILED"}] /\ fresh[main] = "FAILED"
    OBVIOUS
  <2>5. Distinct(<<>>) /\ Elements(<<>>) = {}
    BY DEF Distinct, Elements
  <2>6. allocated <= main
    BY <1>1
  <2> HIDE DEF main, fresh
  <2> QED
    BY <1>1, <2>1, <2>3, <2>4, <2>5, <2>6, FreshStep
<1> QED
  BY <1>2, <1>3, <1>4, <1>5, <1>6

LEMMA RunCore ==
    ASSUME SchedInv, TypeInv',
           PollTimer \/ PollDone \/ Dispatch \/ DispatchUncaught \/ Finish \/ Idle
                     \/ Deadlock \/ Preempt \/ Tick
    PROVE  SchedInv'
<1>1. /\ TypeOK /\ QueueExact
      /\ readyQueue \in Seq(Tasks)
      /\ Distinct(readyQueue)
      /\ Elements(readyQueue) = {t \in Tasks : state[t] = "READY"}
  BY QueueExactDef DEF SchedInv, TypeInv, TypeOK
<1>2. pc \in {"poll", "dispatch"} => WaitersListed
  BY DEF SchedInv, NoLostWakeup
<1>3. pc \in {"poll", "dispatch"} => \A t \in Tasks : state[t] = "RUNNING" => quit
  BY DEF SchedInv, OneRunner
<1>4. ASSUME NEW u \in Tasks, Live(u), NEW o \in Outcomes, NEW q \in Seq(Tasks),
             Distinct(q), Elements(q) = {t \in Tasks : state[t] = "READY"} \ {u},
             Settle(u, o, q), pc \in {"poll", "dispatch"},
             state[u] # "WAITING" \/ pc' = "idle",
             pc' # "slice", UNCHANGED <<allocated, rootTask, quit>>
      PROVE  SchedInv'
  <2>1. /\ QueueExact'
        /\ state[u] # "WAITING" => WaitersListed'
        /\ \A t \in Tasks : state'[t] = "RUNNING" => state[t] = "RUNNING" /\ t # u
        /\ \A t \in Tasks : state[t] = "UNBORN" => state'[t] = "UNBORN"
        /\ \A t \in Tasks : state[t] \in LiveStates \cup SettledStates
                               => state'[t] \in LiveStates \cup SettledStates
    BY <1>1, <1>2, <1>4, SettleCore
  <2>2. OneRunner'
    BY <1>3, <1>4, <2>1 DEF OneRunner
  <2>3. NoLostWakeup' /\ CurrentRuns'
    BY <1>4, <2>1 DEF NoLostWakeup, CurrentRuns
  <2>4. HandlesBorn' /\ RootBorn'
    BY <1>1, <1>4, <2>1 DEF SchedInv, HandlesBorn, RootBorn, TypeOK
  <2> QED
    BY <2>1, <2>2, <2>3, <2>4 DEF SchedInv
<1>5. ASSUME NEW i, FirstReady(i)
      PROVE  /\ i = 1 /\ readyQueue[i] \in Tasks /\ state[readyQueue[i]] = "READY"
             /\ SubSeq(readyQueue, i + 1, Len(readyQueue)) \in Seq(Tasks)
             /\ Distinct(SubSeq(readyQueue, i + 1, Len(readyQueue)))
             /\ Elements(SubSeq(readyQueue, i + 1, Len(readyQueue)))
                    = {t \in Tasks : state[t] = "READY"} \ {readyQueue[i]}
  <2>1. i = 1 /\ 1 \in DOMAIN readyQueue /\ state[readyQueue[1]] = "READY"
    BY <1>1, <1>5, FirstIsHead DEF FirstReady
  <2>2. readyQueue[1] \in Tasks /\ SubSeq(readyQueue, 2, Len(readyQueue)) \in Seq(Tasks)
    BY <1>1, <2>1
  <2>3. i + 1 = 2
    BY <2>1
  <2> QED
    BY <1>1, <2>1, <2>2, <2>3, TailDistinct
<1>6. CASE PollTimer
  <2>1. PICK t \in Due : Settle(t, outcome[t], readyQueue)
    BY <1>6 DEF PollTimer
  <2>2. /\ t \in Tasks /\ state[t] = "SLEEPING" /\ Live(t)
        /\ outcome[t] \in Outcomes /\ pc = "poll"
    BY <1>1, <1>6 DEF PollTimer, Due, TypeOK, Live, LiveStates
  <2>3. Elements(readyQueue) = {s \in Tasks : state[s] = "READY"} \ {t}
    BY <1>1, <2>2
  <2>4. pc' = pc /\ UNCHANGED <<allocated, rootTask, quit>>
    BY <1>6 DEF PollTimer
  <2> QED
    BY <1>1, <1>4, <2>1, <2>2, <2>3, <2>4
<1>7. CASE PollDone
  BY <1>3, <1>7, QuietStep DEF PollDone, ReturnFromRun, taskVars
<1>8. CASE Dispatch
  <2>1. PICK i \in DOMAIN readyQueue :
          /\ FirstReady(i)
          /\ readyQueue' = SubSeq(readyQueue, i + 1, Len(readyQueue))
          /\ currentTask' = readyQueue[i]
          /\ state' = [state EXCEPT ![readyQueue[i]] = "RUNNING"]
    BY <1>8 DEF Dispatch
  <2> DEFINE t == readyQueue[i]
  <2>2. /\ t \in Tasks /\ state[t] = "READY"
        /\ Distinct(readyQueue')
        /\ Elements(readyQueue') = {s \in Tasks : state[s] = "READY"} \ {t}
    BY <1>5, <2>1
  <2>3. \A s \in Tasks : state'[s] = IF s = t THEN "RUNNING" ELSE state[s]
    BY <1>1, <2>1 DEF TypeOK
  <2>4. /\ pc = "dispatch" /\ pc' = "slice" /\ currentTask' = t
        /\ UNCHANGED <<waitingOn, awaiters, allocated, rootTask, quit>>
    BY <1>8, <2>1 DEF Dispatch
  <2> HIDE DEF t
  <2>5. QueueExact'
    <3>1. Elements(readyQueue') = {s \in Tasks : state'[s] = "READY"}
      BY <2>2, <2>3
    <3> QED
      BY <2>2, <3>1 DEF QueueExact, Distinct, Elements
  <2>6. OneRunner' /\ CurrentRuns'
    BY <1>3, <2>2, <2>3, <2>4 DEF OneRunner, CurrentRuns
  <2>7. WaitersListed'
    <3>1. ASSUME NEW v \in Tasks, NEW j \in DOMAIN awaiters[v]
          PROVE  awaiters[v][j] \in Tasks
      BY <1>1 DEF TypeOK
    <3>2. \A s \in Tasks : Live(s) => state'[s] \in LiveStates
      BY <2>3 DEF Live, LiveStates
    <3> QED
      BY <1>2, <2>2, <2>3, <2>4, <3>1, <3>2 DEF WaitersListed, Live, Elements
  <2>8. HandlesBorn' /\ RootBorn'
    BY <1>1, <2>2, <2>3, <2>4 DEF SchedInv, HandlesBorn, RootBorn, LiveStates, TypeOK
  <2> QED
    BY <2>5, <2>6, <2>7, <2>8 DEF SchedInv, NoLostWakeup
<1>9. CASE DispatchUncaught
  <2>1. PICK i \in DOMAIN readyQueue :
          /\ FirstReady(i)
          /\ Settle(readyQueue[i], resume[readyQueue[i]],
                    SubSeq(readyQueue, i + 1, Len(readyQueue)))
    BY <1>9 DEF DispatchUncaught
  <2>2. /\ readyQueue[i] \in Tasks /\ Live(readyQueue[i])
        /\ state[readyQueue[i]] # "WAITING" /\ resume[readyQueue[i]] \in Outcomes
    BY <1>1, <1>5, <2>1 DEF Live, LiveStates, TypeOK
  <2>3. pc = "dispatch" /\ pc' # "slice" /\ UNCHANGED <<allocated, rootTask, quit>>
    BY <1>9 DEF DispatchUncaught, NextRound, ReturnFromRun
  <2> QED
    BY <1>4, <1>5, <2>1, <2>2, <2>3
<1>10. ASSUME NoneReady, readyQueue' = <<>>, UNCHANGED <<taskVars, allocated, rootTask, quit>>,
              pc = "dispatch", pc' # "slice"
       PROVE  SchedInv'
  <2>1. {t \in Tasks : state[t] = "READY"} = {}
    BY <1>1, <1>10, FirstIsHead
  <2>2. UNCHANGED <<state, waitingOn, awaiters>>
    BY <1>10 DEF taskVars
  <2>3. QueueExact'
    BY <1>10, <2>1, <2>2 DEF QueueExact, Elements
  <2>4. OneRunner' /\ CurrentRuns' /\ HandlesBorn' /\ RootBorn'
    BY <1>3, <1>10, <2>2 DEF SchedInv, OneRunner, CurrentRuns, HandlesBorn, RootBorn
  <2>5. NoLostWakeup'
    BY <1>2, <1>10, <2>2 DEF NoLostWakeup, WaitersListed, Live, Elements
  <2> QED
    BY <2>3, <2>4, <2>5 DEF SchedInv
<1>11. CASE Finish
  BY <1>10, <1>11 DEF Finish, ReturnFromRun
<1>12. CASE Idle
  BY <1>10, <1>12 DEF Idle
<1>13. CASE Deadlock
  <2>1. NoneReady /\ pc = "dispatch" /\ pc' = "idle" /\ UNCHANGED <<wakeAt, allocated, rootTask, quit>>
    BY <1>13 DEF Deadlock, Stuck, ReturnFromRun
  <2>2. CASE rootTask # NoTask /\ ~Settled(rootTask)
    <3>1. rootTask \in Tasks /\ Settle(rootTask, Rejected(ErrorValue), <<>>)
      BY <1>1, <1>13, <2>2 DEF Deadlock, TypeOK
    <3>2. Rejected(ErrorValue) \in Outcomes
      BY DEF Rejected, Outcomes, Results
    <3>3. {t \in Tasks : state[t] = "READY"} = {}
      BY <1>1, <2>1, FirstIsHead
    <3>4. Live(rootTask)
      BY <2>2 DEF SchedInv, RootBorn, Live, Settled
    <3>5. Distinct(<<>>) /\ <<>> \in Seq(Tasks)
          /\ Elements(<<>>) = {t \in Tasks : state[t] = "READY"} \ {rootTask}
      BY <3>3 DEF Distinct, Elements
    <3> QED
      BY <1>4, <2>1, <3>1, <3>2, <3>4, <3>5
  <2>3. CASE ~(rootTask # NoTask /\ ~Settled(rootTask))
    <3>1. readyQueue' = <<>> /\ UNCHANGED taskVars
      BY <1>13, <2>3 DEF Deadlock, taskVars
    <3> QED
      BY <1>10, <2>1, <3>1
  <2> QED
    BY <2>2, <2>3
<1>14. CASE Preempt
  <2>1. /\ pc = "slice" /\ pc' = "poll" /\ currentTask \in Tasks
        /\ state[currentTask] = "RUNNING"
        /\ readyQueue' = Append(readyQueue, currentTask)
        /\ UNCHANGED <<waitingOn, awaiters, allocated, rootTask, quit>>
    BY <1>14 DEF Preempt, SchedInv, TypeInv, CurrentIsTask, CurrentRuns, sliceFrame
  <2>2. \A s \in Tasks : state'[s] = IF s = currentTask THEN "READY" ELSE state[s]
    BY <1>1, <1>14, <2>1 DEF Preempt, TypeOK
  <2>3. currentTask \notin Elements(readyQueue)
    BY <1>1, <2>1
  <2>4. Distinct(readyQueue') /\ Elements(readyQueue') = Elements(readyQueue) \cup {currentTask}
    BY <1>1, <2>1, <2>3, AppendDistinct
  <2>5. QueueExact'
    <3>1. Elements(readyQueue') = {s \in Tasks : state'[s] = "READY"}
      BY <1>1, <2>1, <2>2, <2>4
    <3> QED
      BY <2>4, <3>1 DEF QueueExact, Distinct, Elements
  <2>6. OneRunner' /\ CurrentRuns' /\ HandlesBorn' /\ RootBorn'
    BY <1>1, <2>1, <2>2
    DEF SchedInv, OneRunner, CurrentRuns, HandlesBorn, RootBorn, LiveStates, TypeOK
  <2>7. WaitersListed'
    <3>1. ASSUME NEW v \in Tasks, NEW j \in DOMAIN awaiters[v]
          PROVE  awaiters[v][j] \in Tasks
      BY <1>1 DEF TypeOK
    <3>2. \A s \in Tasks : Live(s) => state'[s] \in LiveStates
      BY <2>2 DEF Live, LiveStates
    <3>3. WaitersListed
      BY <2>1 DEF SchedInv, NoLostWakeup
    <3> QED
      BY <2>1, <2>2, <3>1, <3>2, <3>3 DEF WaitersListed, Live, Elements
  <2> QED
    BY <2>5, <2>6, <2>7 DEF SchedInv, NoLostWakeup
<1>15. CASE Tick
  <2>1. /\ UNCHANGED <<state, readyQueue, waitingOn, awaiters, allocated, rootTask>>
        /\ UNCHANGED <<pc, currentTask, quit>>
    BY <1>15 DEF Tick, taskVars
  <2>2. \A t \in Tasks : state[t] = "RUNNING" =>
            quit' \/ (pc' \in {"slice", "crashed"} /\ currentTask' = t)
    BY <2>1 DEF SchedInv, OneRunner
  <2> QED
    BY <2>1, <2>2, QuietStep
<1> QED
  BY <1>6, <1>7, <1>8, <1>9, <1>11, <1>12, <1>13, <1>14, <1>15

\* Steps of a slice that leave the states, the queue and the lists alone.
LEMMA QuietInstruction ==
    ASSUME SchedInv, TypeInv', InSlice,
           UNCHANGED <<state, readyQueue, waitingOn, awaiters>>,
           UNCHANGED <<allocated, currentTask, rootTask>>,
           \/ pc' = pc /\ UNCHANGED quit
           \/ pc' = "crashed" /\ UNCHANGED quit
           \/ pc' = "poll" /\ quit'
    PROVE  SchedInv'
<1>1. pc = "slice"
  BY DEF InSlice
<1>2. \A t \in Tasks : state[t] = "RUNNING" =>
          quit' \/ (pc' \in {"slice", "crashed"} /\ currentTask' = t)
  BY <1>1 DEF SchedInv, OneRunner
<1> QED
  BY <1>1, <1>2, QuietStep

\* An instruction that settles the current task.
LEMMA SettleCurrentCore ==
    ASSUME SchedInv, TypeInv', InSlice, NEW o \in Outcomes, SettleCurrent(o),
           UNCHANGED <<allocated, currentTask, rootTask, quit>>
    PROVE  SchedInv'
<1>1. /\ pc = "slice" /\ currentTask \in Tasks /\ state[currentTask] = "RUNNING"
      /\ TypeOK /\ readyQueue \in Seq(Tasks) /\ Distinct(readyQueue)
      /\ Elements(readyQueue) = {t \in Tasks : state[t] = "READY"}
      /\ WaitersListed
  BY QueueExactDef
  DEF InSlice, SchedInv, TypeInv, TypeOK, CurrentIsTask, CurrentRuns, NoLostWakeup
<1>2. Settle(currentTask, o, readyQueue) /\ pc' # "slice"
  BY DEF SettleCurrent, NextRound, ReturnFromRun
<1>3. Live(currentTask)
  BY <1>1 DEF Live, LiveStates
<1>4. Elements(readyQueue) = {t \in Tasks : state[t] = "READY"} \ {currentTask}
  BY <1>1
<1>5. /\ QueueExact' /\ WaitersListed'
      /\ \A t \in Tasks : state'[t] = "RUNNING" => state[t] = "RUNNING" /\ t # currentTask
      /\ \A t \in Tasks : state[t] = "UNBORN" => state'[t] = "UNBORN"
      /\ \A t \in Tasks : state[t] \in LiveStates \cup SettledStates
                             => state'[t] \in LiveStates \cup SettledStates
  BY <1>1, <1>2, <1>3, <1>4, SettleCore
<1>6. OneRunner'
  BY <1>1, <1>5 DEF SchedInv, OneRunner
<1>7. NoLostWakeup' /\ CurrentRuns' /\ HandlesBorn' /\ RootBorn'
  BY <1>1, <1>2, <1>5
  DEF SchedInv, NoLostWakeup, CurrentRuns, HandlesBorn, RootBorn, TypeOK
<1> QED
  BY <1>5, <1>6, <1>7 DEF SchedInv

LEMMA RaiseCore ==
    ASSUME SchedInv, TypeInv', InSlice, NEW v \in Results, Raise(v),
           UNCHANGED <<allocated, currentTask, rootTask, quit>>
    PROVE  SchedInv'
<1>1. CASE handlers[currentTask] > 0
  BY <1>1, QuietInstruction DEF Raise, Continue
<1>2. CASE ~(handlers[currentTask] > 0)
  BY <1>2, SettleCurrentCore DEF Raise, Rejected, Outcomes
<1> QED
  BY <1>1, <1>2

LEMMA InstructionCore ==
    ASSUME SchedInv, TypeInv', Instruction
    PROVE  SchedInv'
<1>1. InSlice
  BY DEF Instruction, Step, ResolveFrameless, EnterTry, LeaveTry, Throw, RuntimeError,
     Return, SpawnAsync, SleepAsync, AwaitPending, AwaitSettled, AwaitFreed, QuitDebugger
<1>2. /\ pc = "slice" /\ currentTask \in Tasks /\ state[currentTask] = "RUNNING"
      /\ TypeOK /\ readyQueue \in Seq(Tasks) /\ Distinct(readyQueue)
      /\ Elements(readyQueue) = {t \in Tasks : state[t] = "READY"}
      /\ WaitersListed
      /\ \A t \in Tasks : state[t] = "RUNNING" => quit \/ currentTask = t
  BY <1>1, QueueExactDef
  DEF InSlice, SchedInv, TypeInv, TypeOK, CurrentIsTask, CurrentRuns, NoLostWakeup, OneRunner
<1>3. Fulfilled(Nil) \in Outcomes /\ Rejected(ErrorValue) \in Outcomes
  BY DEF Fulfilled, Rejected, Outcomes, Results
<1>4. ASSUME NEW v \in Tasks, NEW j \in DOMAIN awaiters[v]
      PROVE  awaiters[v][j] \in Tasks
  BY <1>2 DEF TypeOK
<1>5. CASE Step
  BY <1>1, <1>5, QuietInstruction DEF Step, Continue, taskVars, sliceFrame
<1>6. CASE ResolveFrameless
  BY <1>1, <1>3, <1>6, SettleCurrentCore DEF ResolveFrameless, sliceFrame
<1>7. CASE EnterTry
  BY <1>1, <1>7, QuietInstruction DEF EnterTry, Continue, sliceFrame
<1>8. CASE LeaveTry
  BY <1>1, <1>8, QuietInstruction DEF LeaveTry, Continue, sliceFrame
<1>9. CASE Throw
  BY <1>1, <1>9, RaiseCore DEF Throw, Results, sliceFrame
<1>10. CASE RuntimeError
  BY <1>1, <1>3, <1>10, SettleCurrentCore DEF RuntimeError, sliceFrame
<1>11. CASE Return
  <2>1. PICK v \in Values : SettleCurrent(Fulfilled(v))
    BY <1>11 DEF Return
  <2>2. Fulfilled(v) \in Outcomes
    BY DEF Fulfilled, Outcomes, Results
  <2> QED
    BY <1>1, <1>11, <2>1, <2>2, SettleCurrentCore DEF Return, sliceFrame
<1>12. CASE SpawnAsync \/ SleepAsync
  <2> DEFINE n == allocated + 1
  <2>1. /\ n \in Tasks /\ allocated' = n /\ allocated \in Nat
        /\ UNCHANGED <<waitingOn, awaiters, currentTask, rootTask, quit, pc>>
        /\ \/ /\ state' = [state EXCEPT ![n] = "READY"]
              /\ readyQueue' = Append(readyQueue, n)
           \/ /\ state' = [state EXCEPT ![n] = "SLEEPING"]
              /\ readyQueue' = readyQueue
    <3>1. allocated \in Nat
      BY <1>2, SchedulerAssumption DEF TypeOK
    <3>2. CASE SpawnAsync
      BY <3>1, <3>2 DEF SpawnAsync, Continue
    <3>3. CASE SleepAsync
      BY <3>1, <3>3 DEF SleepAsync, Continue
    <3> QED
      BY <1>12, <3>2, <3>3
  <2>2. state[n] = "UNBORN"
    <3>1. n > allocated
      BY <2>1
    <3> QED
      BY <2>1, <3>1 DEF SchedInv, HandlesBorn
  <2>3. \A t \in Tasks : t # n => state'[t] = state[t]
    BY <1>2, <2>1 DEF TypeOK
  <2>4. state'[n] \in {"READY", "SLEEPING"}
    BY <1>2, <2>1 DEF TypeOK
  <2>5. HandlesBorn'
    <3>1. \A t \in Tasks : t > n => t > allocated /\ t # n
      BY <2>1 DEF Tasks
    <3> HIDE DEF n
    <3> QED
      BY <2>1, <2>3, <3>1 DEF SchedInv, HandlesBorn
  <2> HIDE DEF n
  <2>6. n \notin Elements(readyQueue)
    BY <1>2, <2>2
  <2>7. QueueExact'
    <3>1. CASE state' = [state EXCEPT ![n] = "READY"] /\ readyQueue' = Append(readyQueue, n)
      <4>1. Distinct(readyQueue') /\ Elements(readyQueue') = Elements(readyQueue) \cup {n}
        BY <1>2, <2>1, <2>6, <3>1, AppendDistinct
      <4>2. {t \in Tasks : state'[t] = "READY"} = {t \in Tasks : state[t] = "READY"} \cup {n}
        BY <1>2, <2>1, <3>1 DEF TypeOK
      <4> QED
        BY <1>2, <4>1, <4>2 DEF QueueExact, Distinct, Elements
    <3>2. CASE state' = [state EXCEPT ![n] = "SLEEPING"] /\ readyQueue' = readyQueue
      <4>1. {t \in Tasks : state'[t] = "READY"} = {t \in Tasks : state[t] = "READY"}
        BY <1>2, <2>1, <2>2, <3>2 DEF TypeOK
      <4> QED
        BY <1>2, <3>2, <4>1 DEF QueueExact, Distinct, Elements
    <3> QED
      BY <2>1, <3>1, <3>2
  <2>8. OneRunner' /\ CurrentRuns' /\ RootBorn'
    BY <1>2, <2>1, <2>2, <2>3, <2>4
    DEF SchedInv, OneRunner, CurrentRuns, RootBorn, LiveStates, TypeOK
  <2>9. WaitersListed'
    <3>1. \A s \in Tasks : Live(s) => state'[s] \in LiveStates
      BY <2>3, <2>4 DEF Live, LiveStates
    <3>2. \A t \in Tasks : state'[t] = "WAITING" <=> state[t] = "WAITING"
      BY <2>2, <2>3, <2>4
    <3> QED
      BY <1>2, <1>4, <2>1, <3>1, <3>2 DEF WaitersListed, Live, Elements
  <2> QED
    BY <2>5, <2>7, <2>8, <2>9 DEF SchedInv, NoLostWakeup
<1>13. CASE AwaitPending
  <2>1. PICK u \in Tasks \ {currentTask} :
           /\ Live(u)
           /\ waitingOn' = [waitingOn EXCEPT ![currentTask] = u]
           /\ awaiters' = [awaiters EXCEPT ![u] = Append(@, currentTask)]
    BY <1>13 DEF AwaitPending
  <2>2. /\ pc' = "poll" /\ UNCHANGED <<readyQueue, allocated, currentTask, rootTask, quit>>
        /\ \A t \in Tasks : state'[t] = IF t = currentTask THEN "WAITING" ELSE state[t]
        /\ \A t \in Tasks : waitingOn'[t] = IF t = currentTask THEN u ELSE waitingOn[t]
        /\ \A t \in Tasks : awaiters'[t] = IF t = u THEN Append(awaiters[u], currentTask)
                                           ELSE awaiters[t]
    BY <1>2, <1>13, <2>1 DEF AwaitPending, TypeOK, sliceFrame
  <2>3. QueueExact'
    <3>1. {t \in Tasks : state'[t] = "READY"} = {t \in Tasks : state[t] = "READY"}
      BY <1>2, <2>2
    <3> QED
      BY <1>2, <2>2, <3>1 DEF QueueExact, Distinct, Elements
  <2>4. OneRunner' /\ CurrentRuns'
    BY <1>2, <2>2 DEF OneRunner, CurrentRuns
  <2>5. HandlesBorn' /\ RootBorn'
    BY <1>2, <2>2 DEF SchedInv, HandlesBorn, RootBorn, LiveStates, TypeOK
  <2>6. currentTask \notin Elements(awaiters[u])
    BY <1>2, <1>4, <2>1 DEF WaitersListed, Elements
  <2>7. /\ Distinct(awaiters'[u])
        /\ Elements(awaiters'[u]) = Elements(awaiters[u]) \cup {currentTask}
    <3>1. awaiters[u] \in Seq(Tasks) /\ Distinct(awaiters[u])
      BY <1>2, <2>1 DEF TypeOK, WaitersListed, Distinct
    <3> QED
      BY <1>2, <2>1, <2>2, <2>6, <3>1, AppendDistinct
  <2>8. \A s \in Tasks : Live(s) => state'[s] \in LiveStates
    BY <2>2 DEF Live, LiveStates
  <2>9. ASSUME NEW t \in Tasks, state'[t] = "WAITING"
        PROVE  /\ waitingOn'[t] \in Tasks
               /\ Live(waitingOn[t])'
               /\ t \in Elements(awaiters[waitingOn[t]])'
    <3>1. CASE t = currentTask
      <4>1. waitingOn'[t] = u /\ state'[u] \in LiveStates
        BY <1>2, <2>1, <2>2, <2>8, <3>1
      <4>2. t \in Elements(awaiters'[u])
        BY <2>7, <3>1
      <4> QED
        BY <2>1, <4>1, <4>2 DEF Live, Elements
    <3>2. CASE t # currentTask
      <4>1. /\ waitingOn[t] \in Tasks /\ Live(waitingOn[t])
            /\ t \in Elements(awaiters[waitingOn[t]])
        BY <1>2, <2>2, <2>9, <3>2 DEF WaitersListed
      <4>2. waitingOn'[t] = waitingOn[t] /\ state'[waitingOn[t]] \in LiveStates
        BY <2>2, <2>8, <3>2, <4>1
      <4>3. t \in Elements(awaiters'[waitingOn[t]])
        BY <2>2, <2>7, <4>1
      <4> QED
        BY <4>1, <4>2, <4>3 DEF Live, Elements
    <3> QED
      BY <3>1, <3>2
  <2>10. ASSUME NEW v \in Tasks, NEW i \in DOMAIN awaiters'[v]
         PROVE  /\ state'[awaiters'[v][i]] = "WAITING"
                /\ waitingOn'[awaiters'[v][i]] = v
                /\ \A j \in DOMAIN awaiters'[v] : awaiters'[v][i] = awaiters'[v][j] => i = j
    <3> DEFINE a == awaiters'[v][i]
    <3>1. ASSUME NEW s \in Elements(awaiters[v])
          PROVE  state'[s] = "WAITING" /\ waitingOn'[s] = v
      <4>1. s \in Tasks /\ state[s] = "WAITING" /\ waitingOn[s] = v
        BY <1>2, <1>4 DEF WaitersListed, Elements
      <4> QED
        BY <1>2, <2>2, <4>1
    <3>2. CASE v = u
      <4>1. a \in Elements(awaiters[u]) \cup {currentTask}
        BY <2>7, <3>2 DEF Elements
      <4>2. state'[currentTask] = "WAITING" /\ waitingOn'[currentTask] = u
        BY <1>2, <2>2
      <4> QED
        BY <2>7, <3>1, <3>2, <4>1, <4>2 DEF Distinct
    <3>3. CASE v # u
      <4>1. awaiters'[v] = awaiters[v]
        BY <2>2, <3>3
      <4> QED
        BY <1>2, <2>10, <3>1, <4>1 DEF WaitersListed, Elements
    <3> QED
      BY <3>2, <3>3
  <2>11. WaitersListed'
    BY <2>9, <2>10 DEF WaitersListed
  <2> QED
    BY <2>3, <2>4, <2>5, <2>11 DEF SchedInv, NoLostWakeup
<1>14. CASE AwaitSettled
  <2>1. PICK u \in Tasks :
           \/ Continue /\ UNCHANGED <<taskVars, readyQueue>>
           \/ Raise(outcome[u].value)
    BY <1>14 DEF AwaitSettled
  <2>2. UNCHANGED <<allocated, currentTask, rootTask, quit>>
    BY <1>14 DEF AwaitSettled, sliceFrame
  <2>3. CASE Continue /\ UNCHANGED <<taskVars, readyQueue>>
    BY <1>1, <2>2, <2>3, QuietInstruction DEF Continue, taskVars
  <2>4. CASE Raise(outcome[u].value)
    <3>1. outcome[u].value \in Results
      BY <1>2 DEF TypeOK, Outcomes
    <3> QED
      BY <1>1, <2>2, <2>4, <3>1, RaiseCore
  <2> QED
    BY <2>1, <2>3, <2>4
<1>15. CASE AwaitFreed
  <2>1. UNCHANGED <<allocated, currentTask, rootTask, quit>>
    BY <1>15 DEF AwaitFreed
  <2>2. CASE pc' = "crashed" /\ UNCHANGED <<taskVars, readyQueue, result>>
    BY <1>1, <2>1, <2>2, QuietInstruction DEF taskVars
  <2>3. CASE Continue /\ UNCHANGED <<taskVars, readyQueue>>
    BY <1>1, <2>1, <2>3, QuietInstruction DEF Continue, taskVars
  <2>4. CASE SettleCurrent(Rejected(ErrorValue))
    BY <1>1, <1>3, <2>1, <2>4, SettleCurrentCore
  <2> QED
    BY <1>15, <2>2, <2>3, <2>4 DEF AwaitFreed
<1>16. CASE QuitDebugger
  BY <1>1, <1>16, QuietInstruction DEF QuitDebugger, taskVars
<1> QED
  BY <1>5, <1>6, <1>7, <1>8, <1>9, <1>10, <1>11, <1>12, <1>13, <1>14, <1>15, <1>16
  DEF Instruction

LEMMA SchedStep == SchedInv /\ [Next]_vars => SchedInv'
<1> SUFFICES ASSUME SchedInv, [Next]_vars PROVE SchedInv'
  OBVIOUS
<1>1. TypeInv'
  BY TypeStep DEF SchedInv
<1>2. CASE Instruction
  BY <1>1, <1>2, InstructionCore
<1>3. CASE Interpret \/ NoEntryPoint \/ CallEntryPoint \/ CallAsyncEntryPoint
                     \/ EntryPointRefused
  BY <1>1, <1>3, InterpretCore
<1>4. CASE PollTimer \/ PollDone \/ Dispatch \/ DispatchUncaught \/ Finish \/ Idle
                     \/ Deadlock \/ Preempt \/ Tick
  BY <1>1, <1>4, RunCore
<1>5. CASE UNCHANGED vars
  <2>1. /\ UNCHANGED <<state, readyQueue, waitingOn, awaiters, allocated, rootTask>>
        /\ UNCHANGED <<pc, currentTask, quit>>
    BY <1>5 DEF vars, taskVars
  <2>2. \A t \in Tasks : state[t] = "RUNNING" =>
            quit' \/ (pc' \in {"slice", "crashed"} /\ currentTask' = t)
    BY <2>1 DEF SchedInv, OneRunner
  <2> QED
    BY <1>1, <2>1, <2>2, QuietStep
<1> QED
  BY <1>2, <1>3, <1>4, <1>5 DEF Next, RunStep

-----------------------------------------------------------------------------
(* The theorems                                                            *)

THEOREM SchedulerInvariant == Spec => []SchedInv
BY SchedStart, SchedStep, PTL DEF Spec

\* However tasks, timers and awaits interleave, the ready queue holds exactly
\* the READY tasks, each once, so that run() never resumes a task twice for one
\* wake-up and never forgets one (enqueueReadyTask, run).
THEOREM ReadyQueueIsExact == Spec => []QueueExact
<1>1. SchedInv => QueueExact
  BY DEF SchedInv
<1> QED
  BY <1>1, SchedulerInvariant, PTL

\* No wake-up is lost and none is stray: as long as a run lasts, the awaiters of
\* the live tasks are exactly the waiting tasks (OP_AWAIT, wakeAwaiters).
THEOREM NoWakeupIsLost == Spec => []NoLostWakeup
<1>1. SchedInv => NoLostWakeup
  BY DEF SchedInv
<1> QED
  BY <1>1, SchedulerInvariant, PTL

\* "Scheduler deadlock" is reported only when tasks await one another in a
\* circle, unless the debugger abandoned one.
THEOREM DeadlockIsACycle == Spec => []StuckMeansCycle
<1>1. ASSUME SchedInv PROVE StuckMeansCycle
  <2> SUFFICES ASSUME Stuck, ~quit
               PROVE  \E S \in (SUBSET Tasks) \ {{}} :
                         \A t \in S : state[t] = "WAITING" /\ waitingOn[t] \in S
    BY DEF StuckMeansCycle
  <2> DEFINE S == {t \in Tasks : Live(t)}
  <2>1. S \in (SUBSET Tasks) \ {{}}
    BY DEF Stuck
  <2>2. \A t \in Tasks : state[t] \notin {"READY", "RUNNING", "SLEEPING"}
    <3>1. {t \in Tasks : state[t] = "READY"} = {}
      BY <1>1, FirstIsHead DEF SchedInv, TypeInv, Stuck
    <3>2. \A t \in Tasks : state[t] # "RUNNING"
      BY <1>1 DEF SchedInv, OneRunner, Stuck
    <3> QED
      BY <3>1, <3>2 DEF Stuck, Sleepers
  <2>3. \A t \in S : state[t] = "WAITING"
    BY <2>2 DEF Live, LiveStates
  <2>4. \A t \in S : waitingOn[t] \in S
    BY <1>1, <2>3 DEF SchedInv, NoLostWakeup, WaitersListed, Stuck
  <2> QED
    BY <2>1, <2>3, <2>4
<1> QED
  BY <1>1, SchedulerInvariant, PTL

-----------------------------------------------------------------------------
(* Settled tasks                                                           *)

KeepsSettled ==
    \A t \in Tasks : Settled(t) =>
        \/ state'[t] = state[t] /\ outcome'[t] = outcome[t]
        \/ state'[t] = "FREED"

\* Settling touches the unsettled task u and waiting tasks only.
LEMMA SettleKeeps ==
    ASSUME TypeOK, WaitersListed, NEW u \in Tasks, ~Settled(u), NEW o, NEW q,
           Settle(u, o, q)
    PROVE  KeepsSettled
<1>1. \A t \in Elements(awaiters[u]) : state[t] = "WAITING"
  BY DEF WaitersListed, Elements
<1> QED
  BY <1>1 DEF Settle, KeepsSettled, Settled, SettledStates, TypeOK

\* Creating the handles of a new program frees every settled task.
LEMMA RestartKeeps ==
    ASSUME SchedInv, NEW newState, NEW framed, Restart(newState, framed),
           \A t \in DOMAIN newState : t > allocated
    PROVE  KeepsSettled
<1>1. \A t \in Tasks : Settled(t) => ~(t > allocated)
  BY DEF SchedInv, HandlesBorn, Settled, SettledStates
<1>2. \A t \in Tasks : Settled(t) => t <= allocated /\ t \notin DOMAIN newState
  BY <1>1, SchedulerAssumption DEF SchedInv, TypeInv, TypeOK, Tasks
<1> QED
  BY <1>2 DEF Restart, KeepsSettled

LEMMA FinalStep == SchedInv /\ [Next]_vars => KeepsSettled
<1> SUFFICES ASSUME SchedInv, [Next]_vars PROVE KeepsSettled
  OBVIOUS
<1>1. TypeOK /\ allocated \in Nat /\ (pc # "idle" => WaitersListed)
  BY SchedulerAssumption DEF SchedInv, TypeInv, TypeOK, NoLostWakeup
<1>2. pc = "slice" => /\ currentTask \in Tasks /\ ~Settled(currentTask)
                      /\ state[currentTask] = "RUNNING"
  BY DEF SchedInv, TypeInv, CurrentIsTask, CurrentRuns, Settled, SettledStates
<1>3. ASSUME NEW o, SettleCurrent(o), pc = "slice" PROVE KeepsSettled
  BY <1>1, <1>2, <1>3, SettleKeeps DEF SettleCurrent
<1>4. ASSUME NEW v, Raise(v), pc = "slice" PROVE KeepsSettled
  BY <1>3, <1>4 DEF Raise, KeepsSettled
<1>5. CASE Instruction
  <2>1. CASE Step \/ EnterTry \/ LeaveTry \/ QuitDebugger
    BY <2>1 DEF Step, EnterTry, LeaveTry, QuitDebugger, taskVars, KeepsSettled
  <2>2. CASE ResolveFrameless \/ RuntimeError \/ Return
    BY <1>3, <2>2 DEF ResolveFrameless, RuntimeError, Return, InSlice
  <2>3. CASE Throw
    BY <1>4, <2>3 DEF Throw, InSlice
  <2>4. CASE SpawnAsync \/ SleepAsync
    <3> DEFINE n == allocated + 1
    <3>1. n \in Tasks /\ outcome' = outcome /\
          (state' = [state EXCEPT ![n] = "READY"] \/ state' = [state EXCEPT ![n] = "SLEEPING"])
      BY <2>4 DEF SpawnAsync, SleepAsync
    <3>2. state[n] = "UNBORN"
      <4>1. n > allocated
        BY <1>1
      <4> QED
        BY <3>1, <4>1 DEF SchedInv, HandlesBorn
    <3> HIDE DEF n
    <3> QED
      BY <1>1, <3>1, <3>2 DEF KeepsSettled, Settled, SettledStates, TypeOK
  <2>5. CASE AwaitPending
    BY <1>1, <1>2, <2>5 DEF AwaitPending, InSlice, KeepsSettled, Settled, TypeOK
  <2>6. CASE AwaitSettled
    <3>1. PICK u \in Tasks : UNCHANGED taskVars \/ Raise(outcome[u].value)
      BY <2>6 DEF AwaitSettled
    <3> QED
      BY <1>4, <2>6, <3>1 DEF AwaitSettled, InSlice, KeepsSettled, taskVars
  <2>7. CASE AwaitFreed
    BY <1>3, <2>7 DEF AwaitFreed, InSlice, KeepsSettled, taskVars
  <2> QED
    BY <1>5, <2>1, <2>2, <2>3, <2>4, <2>5, <2>6, <2>7 DEF Instruction
<1>6. CASE NoEntryPoint \/ PollDone \/ Finish \/ Idle \/ Tick
  BY <1>6 DEF NoEntryPoint, PollDone, Finish, Idle, Tick, taskVars, KeepsSettled
<1>7. CASE Interpret \/ CallEntryPoint \/ CallAsyncEntryPoint \/ EntryPointRefused
  <2> DEFINE main == allocated + 1
             body == allocated + 2
  <2>1. PICK newState, framed : /\ Restart(newState, framed)
                                /\ DOMAIN newState \subseteq {main, body}
    <3>1. CASE Interpret
      BY <3>1 DEF Interpret
    <3>2. CASE CallEntryPoint
      BY <3>2 DEF CallEntryPoint, EntryReset
    <3>3. CASE CallAsyncEntryPoint
      BY <3>3 DEF CallAsyncEntryPoint, EntryReset
    <3>4. CASE EntryPointRefused
      BY <3>4 DEF EntryPointRefused, EntryReset
    <3> QED
      BY <1>7, <3>1, <3>2, <3>3, <3>4
  <2>2. main > allocated /\ body > allocated
    BY <1>1
  <2> HIDE DEF main, body
  <2> QED
    BY <2>1, <2>2, RestartKeeps
<1>8. CASE PollTimer
  BY <1>1, <1>8, SettleKeeps DEF PollTimer, Due, Settled, SettledStates
<1>9. CASE Dispatch
  <2>1. PICK i \in DOMAIN readyQueue :
          FirstReady(i) /\ state' = [state EXCEPT ![readyQueue[i]] = "RUNNING"]
    BY <1>9 DEF Dispatch
  <2>2. state[readyQueue[i]] = "READY" /\ outcome' = outcome
    BY <1>9, <2>1 DEF FirstReady, Dispatch
  <2> QED
    BY <1>1, <2>1, <2>2 DEF KeepsSettled, Settled, SettledStates, TypeOK
<1>10. CASE DispatchUncaught
  <2>1. PICK i \in DOMAIN readyQueue :
          FirstReady(i) /\ \E q : Settle(readyQueue[i], resume[readyQueue[i]], q)
    BY <1>10 DEF DispatchUncaught
  <2>2. /\ readyQueue[i] \in Tasks /\ ~Settled(readyQueue[i])
        /\ pc # "idle"
    BY <1>1, <1>10, <2>1
    DEF DispatchUncaught, FirstReady, Settled, SettledStates, TypeOK
  <2> QED
    BY <1>1, <2>1, <2>2, SettleKeeps
<1>11. CASE Deadlock
  BY <1>1, <1>11, SettleKeeps DEF Deadlock, Stuck, KeepsSettled, TypeOK
<1>12. CASE Preempt
  BY <1>1, <1>2, <1>12 DEF Preempt, KeepsSettled, Settled, TypeOK
<1>13. CASE UNCHANGED vars
  BY <1>13 DEF vars, taskVars, KeepsSettled
<1> QED
  BY <1>5, <1>6, <1>7, <1>8, <1>9, <1>10, <1>11, <1>12, <1>13 DEF Next, RunStep

\* The outcome of a task is decided once: no later timer, await, error or
\* wake-up changes it until the scheduler is reset (resolveTask, failTask).
THEOREM OutcomesAreFinal == Spec => SettledIsFinal
<1>1. SchedInv /\ [Next]_vars => [KeepsSettled]_vars
  BY FinalStep
<1>2. Spec => [][KeepsSettled]_vars
  BY <1>1, SchedulerInvariant, PTL DEF Spec
<1> QED
  BY <1>2 DEF SettledIsFinal, KeepsSettled

-----------------------------------------------------------------------------
(* The result of a script                                                  *)

\* The root task is tested before every dispatch, and run() goes on to the
\* entry point only with "OK".
HonestInv ==
    /\ ScriptResultHonest
    /\ pc = "entry" => result = "OK" /\ phase = "script"
    /\ (pc = "dispatch" /\ rootTask # NoTask) => state[rootTask] # "FAILED"

LEMMA RunGoesOn ==
    ASSUME \/ pc' \in {"poll", "slice", "crashed"}
           \/ pc' = "idle" /\ result' = "RUNTIME_ERROR"
    PROVE  HonestInv'
  BY DEF HonestInv, ScriptResultHonest

LEMMA HonestStep == SchedInv /\ HonestInv /\ [Next]_vars => HonestInv'
<1> SUFFICES ASSUME SchedInv, HonestInv, [Next]_vars PROVE HonestInv'
  OBVIOUS
<1>1. ASSUME NEW o, SettleCurrent(o) PROVE HonestInv'
  BY <1>1, RunGoesOn DEF SettleCurrent, NextRound, ReturnFromRun
<1>2. ASSUME NEW v, Raise(v), pc = "slice" PROVE HonestInv'
  BY <1>1, <1>2, RunGoesOn DEF Raise, Continue
<1>3. CASE Instruction
  <2>1. CASE Step \/ EnterTry \/ LeaveTry \/ SpawnAsync \/ SleepAsync \/ AwaitPending \/ QuitDebugger
    BY <2>1, RunGoesOn
    DEF Step, EnterTry, LeaveTry, SpawnAsync, SleepAsync, AwaitPending, QuitDebugger, InSlice, Continue
  <2>2. CASE ResolveFrameless \/ RuntimeError \/ Return
    BY <1>1, <2>2 DEF ResolveFrameless, RuntimeError, Return
  <2>3. CASE Throw
    BY <1>2, <2>3 DEF Throw, InSlice
  <2>4. CASE AwaitSettled
    BY <1>2, <2>4, RunGoesOn DEF AwaitSettled, InSlice, Continue
  <2>5. CASE AwaitFreed
    BY <1>1, <2>5, RunGoesOn DEF AwaitFreed, InSlice, Continue
  <2> QED
    BY <1>3, <2>1, <2>2, <2>3, <2>4, <2>5 DEF Instruction
<1>4. CASE Interpret \/ CallEntryPoint \/ CallAsyncEntryPoint \/ EntryPointRefused
  BY <1>4, RunGoesOn DEF Interpret, CallEntryPoint, CallAsyncEntryPoint, EntryPointRefused, EnterRun
<1>5. CASE NoEntryPoint
  BY <1>5 DEF NoEntryPoint, HonestInv, ScriptResultHonest, taskVars, Live
<1>6. CASE PollTimer \/ DispatchUncaught \/ Dispatch \/ Idle \/ Deadlock \/ Preempt
  BY <1>6, RunGoesOn
  DEF PollTimer, DispatchUncaught, Dispatch, Idle, Deadlock, Preempt, NextRound, ReturnFromRun
<1>7. CASE PollDone
  BY <1>7, RunGoesOn DEF PollDone, ReturnFromRun, HonestInv, ScriptResultHonest, taskVars
<1>8. CASE Finish
  <2>1. /\ UNCHANGED <<state, rootTask, phase>> /\ \A t \in Tasks : ~Live(t)
        /\ pc = "dispatch" /\ result' = "OK"
        /\ pc' = IF phase = "script" THEN "entry" ELSE "idle"
    BY <1>8 DEF Finish, ReturnFromRun, taskVars
  <2>2. rootTask # NoTask => state[rootTask] = "COMPLETED"
    BY <2>1 DEF HonestInv, SchedInv, RootBorn, TypeInv, TypeOK, Live, SettledStates
  <2> QED
    BY <2>1, <2>2 DEF HonestInv, ScriptResultHonest, Live
<1>9. CASE Tick \/ UNCHANGED vars
  BY <1>9 DEF Tick, vars, taskVars, HonestInv, ScriptResultHonest, Live
<1> QED
  BY <1>3, <1>4, <1>5, <1>6, <1>7, <1>8, <1>9 DEF Next, RunStep

\* interpret() never reports OK for a script whose task failed or that left a
\* task behind (run(), interpret()).
THEOREM ScriptResultIsHonest == Spec => []ScriptResultHonest
<1>1. Init => HonestInv
  BY DEF Init, HonestInv, ScriptResultHonest
<1>2. HonestInv => ScriptResultHonest
  BY DEF HonestInv
<1> QED
  BY <1>1, <1>2, HonestStep, SchedulerInvariant, PTL DEF Spec

-----------------------------------------------------------------------------
(* The scheduler implements the futures of module Futures                  *)

\* A value waits only for a task that is in the queue, nobody awaits itself,
\* and every handle that was allocated has been born.
FutureInv ==
    \A t \in Tasks :
        /\ hasResume[t] => state[t] = "READY"
        /\ state[t] = "WAITING" => waitingOn[t] # t
        /\ state[t] = "UNBORN" => t > allocated

FutureValue == [t \in Tasks |-> IF Settled(t) THEN {outcome[t]} ELSE {}]
FutureBlockedOn == [t \in Tasks |-> IF state[t] = "WAITING" THEN waitingOn[t] ELSE NoTask]
FutureInbox == [t \in Tasks |-> IF hasResume[t] THEN {resume[t]} ELSE {}]

\* The task that runs is the current one, while its slice lasts.
OnSlice(t) == pc \in {"slice", "crashed"} /\ currentTask = t

LEMMA StatusOf ==
    ASSUME TypeOK, NEW t \in Tasks
    PROVE  /\ FutureStatus[t] = "none" <=> state[t] = "UNBORN"
           /\ FutureStatus[t] = "discarded" <=> state[t] = "FREED"
           /\ FutureStatus[t] = "fulfilled" <=> state[t] = "COMPLETED"
           /\ FutureStatus[t] = "rejected" <=> state[t] = "FAILED"
           /\ FutureStatus[t] = "pending" <=> Live(t)
<1>1. state[t] \in LiveStates \cup SettledStates \cup {"UNBORN", "FREED"}
  BY DEF TypeOK, TaskStates
<1> QED
  BY <1>1 DEF FutureStatus, Live, LiveStates, SettledStates

\* A settlement of the scheduler is one of the futures.
LEMMA SettleMaps ==
    ASSUME TypeOK, FutureInv, WaitersListed, NEW u \in Tasks, Live(u), NEW o \in Outcomes, NEW q,
           Settle(u, o, q),
           \A t \in Tasks : (state[t] = "RUNNING" /\ t # u) => (OnSlice(t)' <=> OnSlice(t))
    PROVE  Promise!SettleWith(u, o)
<1> DEFINE woken == Elements(awaiters[u])
<1>1. /\ awaiters[u] \in Seq(Tasks)
      /\ \A t \in Tasks : t \in woken <=> state[t] = "WAITING" /\ waitingOn[t] = u
  BY DEF TypeOK, WaitersListed, Elements
<1>2. u \notin woken
  BY <1>1 DEF FutureInv
<1>3. \A t \in Tasks :
         /\ state'[t] = IF t \in woken THEN "READY"
                        ELSE IF t = u THEN (IF o.isException THEN "FAILED" ELSE "COMPLETED")
                        ELSE state[t]
         /\ outcome'[t] = IF t = u THEN o ELSE outcome[t]
         /\ waitingOn'[t] = IF t \in woken THEN NoTask ELSE waitingOn[t]
         /\ hasResume'[t] <=> t \in woken \/ (hasResume[t] /\ t # u)
         /\ t \in woken => resume'[t] = o
         /\ t \notin woken /\ t # u => resume'[t] = resume[t]
  BY DEF Settle, TypeOK
<1> HIDE DEF woken
<1>4. FutureStatus' = [FutureStatus EXCEPT ![u] = IF o.isException THEN "rejected" ELSE "fulfilled"]
  <2>1. ASSUME NEW t \in Tasks
        PROVE  FutureStatus'[t] = IF t = u THEN (IF o.isException THEN "rejected" ELSE "fulfilled")
                                  ELSE FutureStatus[t]
    <3>1. CASE t \in woken
      BY <1>1, <1>2, <1>3, <3>1 DEF FutureStatus
    <3>2. CASE t \notin woken
      BY <1>3, <3>2 DEF FutureStatus
    <3> QED
      BY <3>1, <3>2
  <2> QED
    BY <2>1 DEF FutureStatus
<1>5. FutureValue' = [FutureValue EXCEPT ![u] = {o}]
  <2>1. ASSUME NEW t \in Tasks
        PROVE  FutureValue'[t] = IF t = u THEN {o} ELSE FutureValue[t]
    BY <1>1, <1>2, <1>3 DEF FutureValue, Settled, SettledStates
  <2> QED
    BY <2>1 DEF FutureValue
<1>6. FutureBlockedOn' = [t \in Tasks |-> IF t = u \/ FutureBlockedOn[t] = u THEN NoTask
                                          ELSE FutureBlockedOn[t]]
  BY <1>1, <1>2, <1>3 DEF FutureBlockedOn, NoTask, Tasks
<1>7. FutureInbox' = [t \in Tasks |-> IF t = u THEN {}
                                      ELSE IF FutureBlockedOn[t] = u THEN {o}
                                      ELSE FutureInbox[t]]
  <2>1. \A t \in Tasks : FutureBlockedOn[t] = u <=> t \in woken
    BY <1>1 DEF FutureBlockedOn, NoTask, Tasks
  <2>2. ASSUME NEW t \in Tasks
        PROVE  FutureInbox'[t] = IF t = u THEN {}
                                 ELSE IF FutureBlockedOn[t] = u THEN {o}
                                 ELSE FutureInbox[t]
    <3>1. FutureInbox'[t] = IF hasResume'[t] THEN {resume'[t]} ELSE {}
      BY DEF FutureInbox
    <3>2. FutureInbox[t] = IF hasResume[t] THEN {resume[t]} ELSE {}
      BY DEF FutureInbox
    <3> QED
      BY <1>2, <1>3, <2>1, <3>1, <3>2
  <2>3. FutureInbox' = [t \in Tasks |-> FutureInbox'[t]]
    BY DEF FutureInbox
  <2> HIDE DEF FutureInbox
  <2> QED
    BY <2>2, <2>3
<1>8. Abandoned' = Abandoned \ {u}
  <2>1. \A t \in Tasks : state'[t] = "RUNNING" <=> state[t] = "RUNNING" /\ t # u
    BY <1>1, <1>2, <1>3
  <2> QED
    BY <2>1 DEF Abandoned, OnSlice
<1> QED
  BY <1>4, <1>5, <1>6, <1>7, <1>8
  DEF Promise!SettleWith, FutureValue, FutureBlockedOn, FutureInbox

\* Who runs, or sleeps, may act.
LEMMA ActsNow ==
    ASSUME TypeOK, FutureInv, NEW t \in Tasks, state[t] \in {"RUNNING", "SLEEPING"}, t \notin Abandoned
    PROVE  Promise!Acting(t)
<1>1. FutureStatus[t] = "pending"
  BY StatusOf DEF Live, LiveStates
<1>2. FutureBlockedOn[t] = NoTask /\ FutureInbox[t] = {}
  BY DEF FutureBlockedOn, FutureInbox, FutureInv
<1> QED
  BY <1>1, <1>2 DEF Promise!Acting, Promise!Pending, Promise!Blocked, FutureBlockedOn, FutureInbox

\* A step that touches none of these fields is no step of the futures.
LEMMA FuturesStutter ==
    ASSUME \A t \in Tasks : FutureStatus'[t] = FutureStatus[t],
           \A t \in Tasks : FutureValue'[t] = FutureValue[t],
           \A t \in Tasks : FutureBlockedOn'[t] = FutureBlockedOn[t],
           \A t \in Tasks : FutureInbox'[t] = FutureInbox[t],
           Abandoned' = Abandoned
    PROVE  UNCHANGED Promise!vars
<1>1. FutureStatus' = FutureStatus
  BY DEF FutureStatus
<1>2. FutureValue' = FutureValue
  BY DEF FutureValue
<1>3. FutureBlockedOn' = FutureBlockedOn
  BY DEF FutureBlockedOn
<1>4. FutureInbox' = FutureInbox
  BY DEF FutureInbox
<1> QED
  BY <1>1, <1>2, <1>3, <1>4 DEF Promise!vars, FutureValue, FutureBlockedOn, FutureInbox

LEMMA QuietForFutures ==
    ASSUME UNCHANGED <<state, outcome, waitingOn, hasResume, resume>>,
           \A t \in Tasks : state[t] = "RUNNING" => (OnSlice(t)' <=> OnSlice(t))
    PROVE  UNCHANGED Promise!vars
<1>1. Abandoned' = Abandoned
  BY DEF Abandoned, OnSlice
<1> QED
  BY <1>1, FuturesStutter DEF FutureStatus, FutureValue, FutureBlockedOn, FutureInbox, Settled


LEMMA SettleMail ==
    ASSUME TypeOK, FutureInv, WaitersListed, NEW u \in Tasks, NEW o \in Outcomes, NEW q,
           Settle(u, o, q), allocated' = allocated
    PROVE  FutureInv'
<1>1. \A t \in Tasks : t \in Elements(awaiters[u]) => state[t] = "WAITING" /\ waitingOn[t] = u
  BY DEF TypeOK, WaitersListed, Elements
<1> QED
  BY <1>1 DEF Settle, FutureInv, TypeOK

\* The steps of a slice.
LEMMA InstructionMaps ==
    ASSUME SchedInv, FutureInv, Instruction
    PROVE  FutureInv' /\ [Promise!Next]_(Promise!vars)
<1>a. currentTask \in Tasks /\ pc = "slice"
  BY DEF Instruction, Step, ResolveFrameless, EnterTry, LeaveTry, Throw, RuntimeError,
     Return, SpawnAsync, SleepAsync, AwaitPending, AwaitSettled, AwaitFreed, QuitDebugger,
     InSlice, SchedInv, TypeInv, CurrentIsTask
<1>b. PICK c \in Tasks : c = currentTask
  BY <1>a
<1>0. /\ c = currentTask
      /\ TypeOK /\ WaitersListed /\ pc = "slice" /\ c \in Tasks
      /\ state[c] = "RUNNING" /\ Live(c) /\ c \notin Abandoned
      /\ allocated \in Nat
  BY <1>a, <1>b, SchedulerAssumption
  DEF SchedInv, NoLostWakeup, TypeInv, TypeOK, CurrentRuns, Abandoned, Live, LiveStates
<1>1. ASSUME NEW o \in Outcomes, SettleCurrent(o), UNCHANGED <<currentTask, allocated>>
      PROVE  FutureInv' /\ Promise!Next
  <2>1. Settle(c, o, readyQueue)
    BY <1>0, <1>1 DEF SettleCurrent, Settle
  <2>2. \A t \in Tasks : (state[t] = "RUNNING" /\ t # c) => (OnSlice(t)' <=> OnSlice(t))
    BY <1>0, <1>1 DEF OnSlice
  <2>3. Promise!Settle(c, o)
    BY <1>0, <2>1, <2>2, SettleMaps, ActsNow DEF Promise!Settle
  <2>4. FutureInv'
    BY <1>0, <1>1, <2>1, SettleMail
  <2> QED
    BY <1>0, <2>3, <2>4 DEF Promise!Next
<1>2. ASSUME UNCHANGED <<state, outcome, waitingOn, hasResume, resume, currentTask, allocated>>,
             pc' \in {"slice", "crashed"}
      PROVE  FutureInv' /\ UNCHANGED Promise!vars
  <2>1. FutureInv'
    BY <1>2 DEF FutureInv
  <2> QED
    BY <1>0, <1>2, <2>1, QuietForFutures DEF OnSlice
<1>3. ASSUME NEW v \in Results, Raise(v), UNCHANGED sliceFrame
      PROVE  FutureInv' /\ [Promise!Next]_(Promise!vars)
  <2>1. CASE handlers[c] > 0
    BY <1>0, <1>2, <1>3, <2>1 DEF Raise, Continue, sliceFrame
  <2>2. CASE ~(handlers[c] > 0)
    BY <1>0, <1>1, <1>3, <2>2 DEF Raise, sliceFrame, Rejected, Outcomes
  <2> QED
    BY <2>1, <2>2
<1>4. Fulfilled(Nil) \in Outcomes /\ Rejected(ErrorValue) \in Outcomes
      /\ \A v \in Values : Fulfilled(v) \in Outcomes
  BY DEF Fulfilled, Rejected, Outcomes, Results
<1>5. CASE Step \/ EnterTry \/ LeaveTry
  BY <1>0, <1>2, <1>5 DEF Step, EnterTry, LeaveTry, Continue, taskVars, sliceFrame
<1>6. CASE ResolveFrameless \/ RuntimeError \/ Return
  BY <1>1, <1>4, <1>6 DEF ResolveFrameless, RuntimeError, Return, sliceFrame
<1>7. CASE Throw
  BY <1>3, <1>7 DEF Throw, Results
<1>8. CASE SpawnAsync \/ SleepAsync
  <2> DEFINE n == allocated + 1
  <2>1. /\ n \in Tasks /\ n > allocated
        /\ allocated' = n
        /\ UNCHANGED <<pc, currentTask, outcome, waitingOn, hasResume, resume>>
        /\ \E s \in {"READY", "SLEEPING"} : state' = [state EXCEPT ![n] = s]
    BY <1>0, <1>8 DEF SpawnAsync, SleepAsync, Continue
  <2>2. state[n] = "UNBORN"
    BY <2>1 DEF SchedInv, HandlesBorn
  <2> HIDE DEF n
  <2>3. FutureInv'
    <3>1. \A t \in Tasks : t # n /\ t > allocated => t > n
      BY <1>0 DEF Tasks, n
    <3> QED
      BY <1>0, <2>1, <2>2, <3>1 DEF FutureInv, TypeOK
  <2>4. FutureStatus' = [FutureStatus EXCEPT ![n] = "pending"]
    BY <1>0, <2>1, <2>2 DEF FutureStatus, TypeOK
  <2>5. /\ FutureValue' = FutureValue /\ FutureBlockedOn' = FutureBlockedOn
        /\ FutureInbox' = FutureInbox /\ Abandoned' = Abandoned
    BY <1>0, <2>1, <2>2
    DEF FutureValue, FutureBlockedOn, FutureInbox, Abandoned, Settled, SettledStates, TypeOK
  <2>6. FutureStatus[n] = "none"
    BY <1>0, <2>1, <2>2, StatusOf
  <2>7. Promise!Start(n)
    BY <2>4, <2>5, <2>6 DEF Promise!Start, FutureValue, FutureBlockedOn, FutureInbox
  <2> QED
    BY <2>1, <2>3, <2>7 DEF Promise!Next
<1>9. CASE AwaitPending
  <2>1. PICK u \in Tasks \ {c} : /\ Live(u) /\ waitingOn' = [waitingOn EXCEPT ![c] = u]
    BY <1>0, <1>9 DEF AwaitPending
  <2>2. /\ state' = [state EXCEPT ![c] = "WAITING"]
        /\ UNCHANGED <<currentTask, allocated, outcome, hasResume, resume>> /\ pc' = "poll"
    BY <1>0, <1>9 DEF AwaitPending, sliceFrame
  <2>3. FutureInv'
    BY <1>0, <2>1, <2>2 DEF FutureInv, TypeOK
  <2>4. FutureStatus' = FutureStatus /\ FutureValue' = FutureValue /\ FutureInbox' = FutureInbox
    BY <1>0, <2>1, <2>2 DEF FutureStatus, FutureValue, FutureInbox, Settled, SettledStates, TypeOK
  <2>5. FutureBlockedOn' = [FutureBlockedOn EXCEPT ![c] = u]
    BY <1>0, <2>1, <2>2 DEF FutureBlockedOn, TypeOK
  <2>6. Abandoned' = Abandoned
    BY <1>0, <2>1, <2>2 DEF Abandoned, TypeOK
  <2>7. u \in Promise!Pending
    BY <1>0, <2>1, StatusOf DEF Promise!Pending
  <2>8. Promise!Block(c, u)
    BY <1>0, <2>1, <2>4, <2>5, <2>6, <2>7, ActsNow
    DEF Promise!Block, FutureValue, FutureBlockedOn, FutureInbox
  <2> QED
    BY <1>0, <2>1, <2>3, <2>8 DEF Promise!Next
<1>10. CASE AwaitSettled
  <2>1. PICK u \in Tasks : (Continue /\ UNCHANGED taskVars) \/ Raise(outcome[u].value)
    BY <1>10 DEF AwaitSettled
  <2>2. outcome[u].value \in Results
    BY <1>0 DEF TypeOK, Outcomes
  <2> QED
    BY <1>0, <1>2, <1>3, <1>10, <2>1, <2>2 DEF AwaitSettled, Continue, taskVars, sliceFrame
<1>11. CASE AwaitFreed
  BY <1>0, <1>1, <1>2, <1>4, <1>11 DEF AwaitFreed, Continue, taskVars
<1>12. CASE QuitDebugger
  <2>1. UNCHANGED <<state, outcome, waitingOn, hasResume, resume, currentTask, allocated>> /\ pc' = "poll"
    BY <1>12 DEF QuitDebugger, taskVars, sliceFrame
  <2>2. FutureInv'
    BY <2>1 DEF FutureInv
  <2>3. Abandoned' = Abandoned \cup {c}
    BY <1>0, <2>1 DEF Abandoned
  <2>4. /\ FutureStatus' = FutureStatus /\ FutureValue' = FutureValue
        /\ FutureBlockedOn' = FutureBlockedOn /\ FutureInbox' = FutureInbox
    BY <2>1 DEF FutureStatus, FutureValue, FutureBlockedOn, FutureInbox, Settled
  <2>5. Promise!Abandon(c)
    BY <1>0, <2>3, <2>4, ActsNow DEF Promise!Abandon, FutureValue, FutureBlockedOn, FutureInbox
  <2> QED
    BY <1>0, <2>2, <2>5 DEF Promise!Next
<1> QED
  BY <1>5, <1>6, <1>7, <1>8, <1>9, <1>10, <1>11, <1>12 DEF Instruction

\* A new program: every old task is discarded, the new ones are pending, or
\* failed when the call of the entry point was refused.
LEMMA RestartMaps ==
    ASSUME TypeOK, FutureInv, HandlesBorn, allocated \in Nat, allocated' \in Nat,
           NEW S \in SUBSET Tasks, S # {}, \A t \in S : t > allocated,
           \A t \in Tasks : t <= allocated' => t <= allocated \/ t \in S,
           NEW newState \in [S -> {"READY", "FAILED"}], NEW framed, Restart(newState, framed),
           \A t \in S : newState[t] = "FAILED" => outcome'[t] = Rejected(ErrorValue)
    PROVE  FutureInv' /\ Promise!Next
<1> DEFINE F == {t \in S : newState[t] = "FAILED"}
<1>1. \A t \in Tasks :
         /\ state'[t] = IF t \in S THEN newState[t] ELSE IF t <= allocated THEN "FREED" ELSE "UNBORN"
         /\ t <= allocated \/ t > allocated
         /\ t <= allocated' \/ t > allocated'
         /\ waitingOn'[t] = NoTask /\ ~hasResume'[t]
  BY DEF Restart, Tasks
<1>2. FutureInv'
  BY <1>1 DEF FutureInv
<1>3. \A t \in Tasks : FutureStatus[t] = "none" <=> state[t] = "UNBORN"
  BY StatusOf
<1>4. \A t \in Tasks : FutureStatus[t] = "none" <=> ~(t <= allocated)
  BY <1>1, <1>3 DEF HandlesBorn, FutureInv, Tasks
<1>5. ASSUME NEW t \in Tasks
      PROVE  FutureStatus'[t] = IF t \in F THEN "rejected"
                                ELSE IF t \in S THEN "pending"
                                ELSE IF FutureStatus[t] = "none" THEN "none"
                                ELSE "discarded"
  <2>1. CASE t \in S
    <3>1. newState[t] \in {"READY", "FAILED"} /\ state'[t] = newState[t]
      BY <1>1, <2>1
    <3> QED
      BY <2>1, <3>1 DEF FutureStatus
  <2>2. CASE t \notin S /\ ~(t <= allocated)
    <3>1. state'[t] = "UNBORN" /\ FutureStatus[t] = "none" /\ FutureStatus'[t] = "none"
      BY <1>1, <1>4, <2>2 DEF FutureStatus
    <3> QED
      BY <2>2, <3>1
  <2>3. CASE t \notin S /\ t <= allocated
    <3>1. state'[t] = "FREED" /\ FutureStatus[t] # "none"
      BY <1>1, <1>4, <2>3
    <3>2. FutureStatus'[t] = "discarded"
      BY <3>1 DEF FutureStatus
    <3> QED
      BY <2>3, <3>1, <3>2
  <2> QED
    BY <2>1, <2>2, <2>3
<1>6. FutureStatus' = [t \in Tasks |-> FutureStatus'[t]]
  BY DEF FutureStatus
<1>7. FutureValue' = [t \in Tasks |-> IF t \in F THEN {Rejected(ErrorValue)} ELSE {}]
  BY <1>1 DEF FutureValue, Settled, SettledStates
<1>8. FutureBlockedOn' = [t \in Tasks |-> NoTask] /\ FutureInbox' = [t \in Tasks |-> {}]
  BY <1>1 DEF FutureBlockedOn, FutureInbox
<1>9. Abandoned' = {}
  BY <1>1 DEF Abandoned
<1>10. Rejected(ErrorValue) \in Outcomes /\ Rejected(ErrorValue).isException
  BY DEF Rejected, Outcomes, Results
<1>11. F \in SUBSET S /\ \A t \in S : FutureStatus[t] = "none"
  <2>1. \A t \in S : ~(t <= allocated)
    BY DEF Tasks
  <2> QED
    BY <1>4, <2>1
<1> HIDE DEF F
<1>12. FutureStatus' = [t \in Tasks |-> IF t \in F THEN "rejected"
                                        ELSE IF t \in S THEN "pending"
                                        ELSE IF FutureStatus[t] = "none" THEN "none"
                                        ELSE "discarded"]
  BY <1>5, <1>6
<1>13. Promise!NewProgram(S, F)
  BY <1>7, <1>8, <1>9, <1>10, <1>11, <1>12
  DEF Promise!NewProgram, FutureValue, FutureBlockedOn, FutureInbox
<1>14. F \in SUBSET Tasks
  BY <1>11
<1> QED
  BY <1>2, <1>13, <1>14 DEF Promise!Next

LEMMA InterpretMaps ==
    ASSUME SchedInv, SchedInv', FutureInv,
           Interpret \/ NoEntryPoint \/ CallEntryPoint \/ CallAsyncEntryPoint \/ EntryPointRefused
    PROVE  FutureInv' /\ [Promise!Next]_(Promise!vars)
<1> DEFINE main == allocated + 1
           body == allocated + 2
<1>0. TypeOK /\ HandlesBorn /\ allocated \in Nat /\ allocated' \in Nat
  <2>1. allocated \in 0 .. MaxTasks /\ allocated' \in 0 .. MaxTasks
    BY DEF SchedInv, TypeInv, TypeOK
  <2> QED
    BY <2>1, SchedulerAssumption DEF SchedInv, TypeInv
<1>1. CASE NoEntryPoint
  <2>1. UNCHANGED <<state, outcome, waitingOn, hasResume, resume, allocated>> /\ pc = "entry" /\ pc' = "idle"
    BY <1>1 DEF NoEntryPoint, taskVars
  <2>2. FutureInv'
    BY <2>1 DEF FutureInv
  <2> QED
    BY <2>1, <2>2, QuietForFutures DEF OnSlice
<1>2. ASSUME NEW S \in SUBSET Tasks, S = {main} \/ S = {main, body},
             NEW newState \in [S -> {"READY", "FAILED"}], NEW framed, Restart(newState, framed),
             allocated' = (IF S = {main} THEN main ELSE body),
             \A t \in S : newState[t] = "FAILED" => outcome'[t] = Rejected(ErrorValue)
      PROVE  FutureInv' /\ Promise!Next
  <2>1. S # {} /\ \A t \in S : t > allocated
    BY <1>0, <1>2
  <2>2. \A t \in Tasks : t <= allocated' => t <= allocated \/ t \in S
    BY <1>0, <1>2 DEF Tasks
  <2> HIDE DEF main, body
  <2> QED
    BY <1>0, <1>2, <2>1, <2>2, RestartMaps
<1>3. CASE Interpret
  <2>1. main \in Tasks /\ Restart([t \in {main} |-> "READY"], {main}) /\ allocated' = main
    BY <1>3 DEF Interpret
  <2> HIDE DEF main, body
  <2> QED
    BY <1>2, <2>1
<1>4. CASE CallEntryPoint
  <2>1. PICK framed : /\ main \in Tasks /\ Restart([t \in {main} |-> "READY"], framed)
                      /\ allocated' = allocated + (IF allocated + 2 \in {main} THEN 2 ELSE 1)
    BY <1>4 DEF CallEntryPoint, EntryReset
  <2>2. allocated' = main
    BY <1>0, <2>1
  <2> HIDE DEF main, body
  <2> QED
    BY <1>2, <2>1, <2>2
<1>5. CASE CallAsyncEntryPoint
  <2>1. /\ {main, body} \in SUBSET Tasks /\ Restart([t \in {main, body} |-> "READY"], {body})
        /\ allocated' = body
    BY <1>5 DEF CallAsyncEntryPoint, EntryReset
  <2>2. {main, body} # {main}
    BY <1>0
  <2> HIDE DEF main, body
  <2> QED
    BY <1>2, <2>1, <2>2
<1>6. CASE EntryPointRefused
  <2>1. /\ main \in Tasks /\ Restart([t \in {main} |-> "FAILED"], {})
        /\ allocated' = allocated + (IF allocated + 2 \in {main} THEN 2 ELSE 1)
        /\ outcome'[main] = Rejected(ErrorValue)
    BY <1>6 DEF EntryPointRefused, EntryReset
  <2>2. allocated' = main
    BY <1>0, <2>1
  <2> HIDE DEF main, body
  <2> QED
    BY <1>2, <2>1, <2>2
<1> QED
  BY <1>1, <1>3, <1>4, <1>5, <1>6

\* The loop of run() around the slices.
LEMMA RunMaps ==
    ASSUME SchedInv, FutureInv,
           PollTimer \/ PollDone \/ Dispatch \/ DispatchUncaught \/ Finish \/ Idle
                     \/ Deadlock \/ Preempt \/ Tick
    PROVE  FutureInv' /\ [Promise!Next]_(Promise!vars)
<1>0. TypeOK /\ QueueExact /\ CurrentRuns /\ OneRunner /\ (pc # "idle" => WaitersListed)
  BY DEF SchedInv, TypeInv, NoLostWakeup
<1>1. ASSUME UNCHANGED <<state, outcome, waitingOn, hasResume, resume, allocated>>,
             pc \notin {"slice", "crashed"}, pc' \notin {"slice", "crashed"}
      PROVE  FutureInv' /\ UNCHANGED Promise!vars
  BY <1>1, QuietForFutures DEF OnSlice, FutureInv
<1>2. CASE PollDone \/ Finish \/ Idle
  BY <1>1, <1>2 DEF PollDone, Finish, Idle, ReturnFromRun, taskVars
<1>3. CASE Tick
  BY <1>3, QuietForFutures DEF Tick, OnSlice, FutureInv, taskVars
<1>4. CASE PollTimer
  <2>1. PICK t \in Due : Settle(t, outcome[t], readyQueue)
    BY <1>4 DEF PollTimer
  <2>2. /\ t \in Tasks /\ state[t] = "SLEEPING" /\ Live(t) /\ t \notin Abandoned
        /\ outcome[t] \in Outcomes /\ WaitersListed
        /\ UNCHANGED <<pc, currentTask, allocated>>
    BY <1>0, <1>4, <2>1 DEF PollTimer, Due, Live, LiveStates, Abandoned, TypeOK
  <2>3. PICK o \in Outcomes : o = outcome[t]
    BY <2>2
  <2>4. Settle(t, o, readyQueue)
    BY <2>1, <2>3 DEF Settle
  <2>5. Promise!Settle(t, o)
    BY <1>0, <2>2, <2>4, SettleMaps, ActsNow DEF Promise!Settle, OnSlice
  <2>6. FutureInv'
    BY <1>0, <2>2, <2>4, SettleMail
  <2> QED
    BY <2>2, <2>5, <2>6 DEF Promise!Next
<1>5. CASE Dispatch
  <2>1. PICK i \in DOMAIN readyQueue :
           /\ FirstReady(i)
           /\ currentTask' = readyQueue[i]
           /\ state' = [state EXCEPT ![readyQueue[i]] = "RUNNING"]
           /\ hasResume' = [hasResume EXCEPT ![readyQueue[i]] = FALSE]
           /\ resume' = [resume EXCEPT ![readyQueue[i]] = Fulfilled(Nil)]
    BY <1>5 DEF Dispatch
  <2>a. PICK t \in Tasks : t = readyQueue[i]
    BY <1>0 DEF TypeOK
  <2>2. /\ t \in Tasks /\ state[t] = "READY" /\ pc = "dispatch" /\ pc' = "slice"
        /\ UNCHANGED <<outcome, waitingOn, allocated>>
    BY <1>0, <1>5, <2>1, <2>a DEF Dispatch, FirstReady, TypeOK
  <2>3. /\ currentTask' = t /\ state' = [state EXCEPT ![t] = "RUNNING"]
        /\ hasResume' = [hasResume EXCEPT ![t] = FALSE]
        /\ resume' = [resume EXCEPT ![t] = Fulfilled(Nil)]
    BY <2>1, <2>a
  <2>4. FutureInv'
    BY <1>0, <2>2, <2>3 DEF FutureInv, TypeOK
  <2>5. FutureStatus' = FutureStatus /\ FutureValue' = FutureValue /\ FutureBlockedOn' = FutureBlockedOn
    BY <1>0, <2>2, <2>3 DEF FutureStatus, FutureValue, FutureBlockedOn, Settled, SettledStates, TypeOK
  <2>6. Abandoned' = Abandoned
    BY <1>0, <2>2, <2>3 DEF Abandoned, TypeOK
  <2>7. FutureInbox' = [FutureInbox EXCEPT ![t] = {}]
    <3>1. \A u \in Tasks : FutureInbox'[u] = IF u = t THEN {} ELSE FutureInbox[u]
      BY <1>0, <2>2, <2>3 DEF FutureInbox, TypeOK
    <3>2. FutureInbox' = [u \in Tasks |-> FutureInbox'[u]] /\ FutureInbox = [u \in Tasks |-> FutureInbox[u]]
      BY DEF FutureInbox
    <3> HIDE DEF FutureInbox
    <3> QED
      BY <2>2, <3>1, <3>2
  <2>8. CASE hasResume[t]
    <3>1. FutureInbox[t] # {}
      BY <2>2, <2>8 DEF FutureInbox
    <3>2. Promise!Receive(t)
      BY <2>5, <2>6, <2>7, <3>1 DEF Promise!Receive, FutureValue, FutureBlockedOn, FutureInbox
    <3> QED
      BY <2>2, <2>4, <3>2 DEF Promise!Next
  <2>9. CASE ~hasResume[t]
    <3>1. FutureInbox[t] = {}
      BY <2>2, <2>9 DEF FutureInbox
    <3>2. \A u \in Tasks : FutureInbox'[u] = FutureInbox[u]
      BY <2>2, <2>7, <3>1 DEF FutureInbox
    <3> QED
      BY <2>4, <2>5, <2>6, <3>2, FuturesStutter
  <2> QED
    BY <2>8, <2>9
<1>6. CASE DispatchUncaught
  <2>1. PICK i \in DOMAIN readyQueue :
           /\ FirstReady(i) /\ hasResume[readyQueue[i]] /\ resume[readyQueue[i]].isException
           /\ Settle(readyQueue[i], resume[readyQueue[i]], SubSeq(readyQueue, i + 1, Len(readyQueue)))
    BY <1>6 DEF DispatchUncaught
  <2>a. PICK t \in Tasks : t = readyQueue[i]
    BY <1>0 DEF TypeOK
  <2>b. PICK o \in Outcomes : o = resume[t]
    BY <1>0 DEF TypeOK
  <2>2. /\ t \in Tasks /\ state[t] = "READY" /\ Live(t) /\ WaitersListed
        /\ pc = "dispatch" /\ pc' \in {"poll", "idle"} /\ allocated' = allocated
    BY <1>0, <1>6, <2>1, <2>a
    DEF DispatchUncaught, FirstReady, TypeOK, Live, LiveStates, NextRound, ReturnFromRun
  <2>3. \E q : Settle(t, o, q)
    BY <2>1, <2>a, <2>b DEF Settle
  <2>4. hasResume[t] /\ o.isException
    BY <2>1, <2>a, <2>b
  <2>5. Promise!SettleWith(t, o)
    BY <1>0, <2>2, <2>3, SettleMaps DEF OnSlice
  <2>6. FutureInv'
    BY <1>0, <2>2, <2>3, SettleMail
  <2>7. o \in FutureInbox[t]
    BY <2>2, <2>4, <2>b DEF FutureInbox
  <2>8. Promise!ReceiveUncaught(t)
    BY <2>4, <2>5, <2>7 DEF Promise!ReceiveUncaught, FutureInbox
  <2> QED
    BY <2>2, <2>6, <2>8 DEF Promise!Next
<1>7. CASE Deadlock
  <2>1. pc = "dispatch" /\ pc' = "idle" /\ allocated' = allocated /\ WaitersListed
    BY <1>0, <1>7 DEF Deadlock, Stuck, ReturnFromRun
  <2>2. CASE rootTask # NoTask /\ ~Settled(rootTask)
    <3> DEFINE o == Rejected(ErrorValue)
    <3>1. o \in Outcomes /\ o.isException
      BY DEF Rejected, Outcomes, Results
    <3>a. PICK r \in Tasks : r = rootTask
      BY <1>0, <2>2 DEF TypeOK
    <3>2. Settle(r, o, <<>>)
      BY <1>7, <2>2, <3>a DEF Deadlock, Settle
    <3>3. Live(r)
      BY <1>0, <2>2, <3>a DEF SchedInv, RootBorn, TypeOK, Settled, Live
    <3> HIDE DEF o
    <3>4. Promise!SettleWith(r, o)
      BY <1>0, <2>1, <3>1, <3>2, <3>3, SettleMaps DEF OnSlice
    <3>5. FutureInv'
      BY <1>0, <2>1, <3>1, <3>2, <3>3, SettleMail
    <3>6. ASSUME NEW t \in Tasks, Live(t)
          PROVE  t \in Abandoned \/ FutureBlockedOn[t] # NoTask
      <4>1. state[t] # "READY" /\ state[t] # "SLEEPING"
        BY <1>0, <1>7, FirstIsHead DEF Deadlock, Stuck, Sleepers
      <4>2. CASE state[t] = "RUNNING"
        BY <2>1, <4>2 DEF Abandoned
      <4>3. CASE state[t] = "WAITING"
        BY <2>1, <4>3 DEF WaitersListed, FutureBlockedOn, Tasks, NoTask
      <4> QED
        BY <3>6, <4>1, <4>2, <4>3 DEF Live, LiveStates
    <3>7. Promise!Pending = {t \in Tasks : Live(t)}
      BY <1>0, StatusOf DEF Promise!Pending
    <3>8. Promise!Pending \subseteq Promise!Blocked \cup Abandoned
      BY <3>6, <3>7 DEF Promise!Blocked, FutureBlockedOn
    <3>9. Promise!BreakDeadlock(r, o)
      BY <3>1, <3>3, <3>4, <3>7, <3>8 DEF Promise!BreakDeadlock
    <3> QED
      BY <3>1, <3>3, <3>5, <3>9 DEF Promise!Next
  <2>3. CASE ~(rootTask # NoTask /\ ~Settled(rootTask))
    BY <1>1, <1>7, <2>1, <2>3 DEF Deadlock
  <2> QED
    BY <2>2, <2>3
<1>8. CASE Preempt
  <2>1. /\ pc = "slice" /\ pc' = "poll" /\ state' = [state EXCEPT ![currentTask] = "READY"]
        /\ UNCHANGED <<outcome, waitingOn, hasResume, resume, allocated, currentTask>>
    BY <1>8 DEF Preempt, sliceFrame
  <2>2. currentTask \in Tasks /\ state[currentTask] = "RUNNING"
    BY <2>1 DEF SchedInv, TypeInv, CurrentIsTask, CurrentRuns
  <2>3. FutureInv'
    BY <1>0, <2>1, <2>2 DEF FutureInv, TypeOK
  <2>4. Abandoned' = Abandoned
    BY <1>0, <2>1, <2>2 DEF Abandoned, TypeOK
  <2>5. \A t \in Tasks : state'[t] = state[t] \/ (state[t] = "RUNNING" /\ state'[t] = "READY")
    BY <1>0, <2>1, <2>2 DEF TypeOK
  <2> QED
    BY <2>1, <2>3, <2>4, <2>5, FuturesStutter
    DEF FutureStatus, FutureValue, FutureBlockedOn, FutureInbox, Settled, SettledStates
<1> QED
  BY <1>2, <1>3, <1>4, <1>5, <1>6, <1>7, <1>8

LEMMA FutureStep == SchedInv /\ SchedInv' /\ FutureInv /\ [Next]_vars
                      => FutureInv' /\ [Promise!Next]_(Promise!vars)
<1> SUFFICES ASSUME SchedInv, SchedInv', FutureInv, [Next]_vars
             PROVE  FutureInv' /\ [Promise!Next]_(Promise!vars)
  OBVIOUS
<1>1. CASE UNCHANGED vars
  BY <1>1, QuietForFutures DEF vars, taskVars, FutureInv, OnSlice
<1> QED
  BY <1>1, InstructionMaps, InterpretMaps, RunMaps DEF Next, RunStep

\* Every behaviour of the scheduler is one of the futures of module Futures:
\* run(), runTaskSlice() and their queue, awaiter lists and timers deliver each
\* outcome once, unchanged and to those who wait, settle a task once, and fail
\* a blocked one by force only when nobody can make progress.
THEOREM SchedulerImplementsFutures == Spec => ImplementsFutures
<1>1. Init => FutureInv /\ Promise!Init
  BY SchedulerAssumption
  DEF Init, FutureInv, Promise!Init, FutureStatus, Settled, SettledStates, Abandoned, Tasks
<1> QED
  BY <1>1, FutureStep, SchedulerInvariant, PTL DEF Spec, ImplementsFutures, Promise!Spec

-----------------------------------------------------------------------------
(* Threads and channels                                                    *)

-----------------------------------------------------------------------------
(* Types                                                                   *)

\* threadJoin holds g_threadMutex from its beginning to its end, so whoever
\* joins is the holder (nativeThreadJoin).
JoinerHoldsMutex == \A t \in Threads : threadPc[t] = "joining" => threadMutex = t

ChannelsTypeInv == ChannelsTypeOK /\ JoinerHoldsMutex

LEMMA ChannelsTypeStart == ChannelsInit => ChannelsTypeInv
  BY ChannelAssumption, NoThreadAssumption, EmptySeq
    DEF ChannelsInit, ChannelsTypeInv, ChannelsTypeOK, JoinerHoldsMutex

\* Taking the first message keeps all messages and their history in type.
LEMMA PopType ==
    ASSUME ChannelsTypeOK, NEW t \in Threads, NEW c \in Channels, Pop(t, c)
    PROVE  /\ messages' \in [Channels -> Seq(1 .. MaxMessages)]
           /\ delivered' \in [Channels -> Seq(1 .. MaxMessages)]
<1>1. messages[c] \in Seq(1 .. MaxMessages) /\ delivered[c] \in Seq(1 .. MaxMessages)
  BY DEF ChannelsTypeOK
<1>2. Head(messages[c]) \in 1 .. MaxMessages /\ Tail(messages[c]) \in Seq(1 .. MaxMessages)
  BY <1>1, HeadTailProperties DEF Pop
<1>3. Append(delivered[c], Head(messages[c])) \in Seq(1 .. MaxMessages)
  BY <1>1, <1>2, AppendProperties
<1> QED
  BY <1>2, <1>3 DEF Pop, ChannelsTypeOK

LEMMA ChannelsTypeStep == ChannelsTypeInv /\ [ChannelsNext]_allChannelVars => ChannelsTypeInv'
<1> SUFFICES ASSUME ChannelsTypeInv, [ChannelsNext]_allChannelVars PROVE ChannelsTypeInv'
  OBVIOUS
<1> USE DEF ChannelsTypeInv, ChannelsTypeOK, JoinerHoldsMutex, channelVars, threadVars, GoTo
<1>1. ASSUME NEW t \in Threads, NEW c \in Channels, Create(t, c) PROVE ChannelsTypeInv'
  BY <1>1 DEF Create
<1>2. ASSUME NEW t \in Threads, NEW c \in Channels, Send(t, c) PROVE ChannelsTypeInv'
  <2>1. sent[c] \in 0 .. MaxMessages /\ sent[c] + 1 \in 1 .. MaxMessages
    BY <1>2, ChannelAssumption DEF Send
  <2>2. Append(messages[c], sent[c] + 1) \in Seq(1 .. MaxMessages)
    BY <2>1, AppendProperties
  <2> QED
    BY <1>2, <2>1, <2>2 DEF Send
<1>3. ASSUME NEW t \in Threads, NEW c \in Channels, Take(t, c) PROVE ChannelsTypeInv'
  <2>1. Pop(t, c)
    BY <1>3 DEF Take
  <2> QED
    BY <1>3, <2>1, PopType DEF Take, Pop
<1>4. ASSUME NEW t \in Threads, NEW c \in Channels, Sleep(t, c) PROVE ChannelsTypeInv'
  BY <1>4 DEF Sleep
<1>5. ASSUME NEW t \in Threads, NEW c \in Channels, Close(t, c) PROVE ChannelsTypeInv'
  BY <1>5 DEF Close
<1>6. ASSUME NEW t \in Threads, NotifyOne(t) PROVE ChannelsTypeInv'
  BY <1>6 DEF NotifyOne, Asleep
<1>7. ASSUME NEW t \in Threads, NotifyAll(t) PROVE ChannelsTypeInv'
  BY <1>7 DEF NotifyAll, Asleep
<1>8. ASSUME NEW t \in Threads, WokenTakes(t) PROVE ChannelsTypeInv'
  <2>1. chan[t] \in Channels /\ Pop(t, chan[t])
    BY <1>8 DEF WokenTakes
  <2> QED
    BY <1>8, <2>1, PopType DEF WokenTakes, Pop
<1>9. ASSUME NEW t \in Threads, WokenClosed(t) \/ WokenSleeps(t) \/ Spurious(t) PROVE ChannelsTypeInv'
  BY <1>9 DEF WokenClosed, WokenSleeps, Spurious
<1>10. ASSUME NEW t \in Threads, NEW u \in Threads, Spawn(t, u) PROVE ChannelsTypeInv'
  BY <1>10 DEF Spawn
<1>11. ASSUME NEW t \in Threads, NEW u \in Threads, Join(t, u) PROVE ChannelsTypeInv'
  BY <1>11, NoThreadAssumption DEF Join
<1>12. ASSUME NEW t \in Threads, JoinEnd(t) PROVE ChannelsTypeInv'
  BY <1>12 DEF JoinEnd
<1>13. ASSUME NEW t \in Threads, Exit(t) PROVE ChannelsTypeInv'
  BY <1>13 DEF Exit
<1>14. CASE UNCHANGED allChannelVars
  BY <1>14 DEF allChannelVars
<1> QED
  BY <1>1, <1>2, <1>3, <1>4, <1>5, <1>6, <1>7, <1>8, <1>9, <1>10, <1>11, <1>12, <1>13, <1>14
  DEF ChannelsNext, Forced, Call

LEMMA TypesHold == ChannelsSpec => []ChannelsTypeInv
  BY ChannelsTypeStart, ChannelsTypeStep, PTL DEF ChannelsSpec

\* Every field stays in its type, and std::thread::join is never called by two
\* threads for one thread (nativeThreadJoin).
THEOREM ChannelsAreWellFormed == ChannelsSpec => []ChannelsWellFormed
<1>1. ChannelsTypeInv => ChannelsWellFormed
  BY DEF ChannelsTypeInv, JoinerHoldsMutex, ChannelsWellFormed, JoinedOnce
<1> QED
  BY <1>1, TypesHold, PTL

-----------------------------------------------------------------------------
(* Messages                                                                *)

\* What sendMessage appends is the next message.
LEMMA NumberedAppend ==
    ASSUME NEW n \in Nat
    PROVE  Numbered(n + 1) = Append(Numbered(n), n + 1)
<1>1. Numbered(n) \in Seq(Nat) /\ Len(Numbered(n)) = n
  BY DEF Numbered
<1>2. Numbered(n + 1) \in Seq(Nat) /\ Len(Numbered(n + 1)) = n + 1
  BY DEF Numbered
<1>3. /\ Append(Numbered(n), n + 1) \in Seq(Nat)
      /\ Len(Append(Numbered(n), n + 1)) = n + 1
      /\ \A i \in 1 .. n : Append(Numbered(n), n + 1)[i] = i
      /\ Append(Numbered(n), n + 1)[n + 1] = n + 1
  BY <1>1, AppendProperties DEF Numbered
<1>4. \A i \in 1 .. n + 1 : Numbered(n + 1)[i] = Append(Numbered(n), n + 1)[i]
  BY <1>3 DEF Numbered
<1> QED
  BY <1>2, <1>3, <1>4, SeqEqual

\* Appending to the second of two sequences appends to both.
LEMMA AppendLast ==
    ASSUME NEW S, NEW p \in Seq(S), NEW q \in Seq(S), NEW e \in S
    PROVE  p \o Append(q, e) = Append(p \o q, e)
<1>1. p \o q \in Seq(S) /\ <<e>> \in Seq(S)
  BY ConcatProperties
<1>2. Append(q, e) = q \o <<e>> /\ Append(p \o q, e) = (p \o q) \o <<e>>
  BY <1>1, AppendIsConcat
<1> QED
  BY <1>1, <1>2, ConcatAssociative

\* Moving the head of one sequence to the end of another keeps their
\* concatenation.
LEMMA HeadMoves ==
    ASSUME NEW S, NEW p \in Seq(S), NEW q \in Seq(S), q # <<>>
    PROVE  Append(p, Head(q)) \o Tail(q) = p \o q
<1>1. /\ Head(q) \in S /\ Tail(q) \in Seq(S) /\ Len(Tail(q)) = Len(q) - 1
      /\ \A i \in 1 .. Len(Tail(q)) : Tail(q)[i] = q[i + 1]
  BY HeadTailProperties
<1>2. q = <<Head(q)>> \o Tail(q)
  BY <1>1, SubSeqRecursiveFirst, SubSeqFull, TailIsSubSeq, EmptySeq
<1>3. Append(p, Head(q)) = p \o <<Head(q)>> /\ <<Head(q)>> \in Seq(S)
  BY <1>1, AppendIsConcat
<1>4. (p \o <<Head(q)>>) \o Tail(q) = p \o (<<Head(q)>> \o Tail(q))
  BY <1>1, <1>3, ConcatAssociative
<1> QED
  BY <1>2, <1>3, <1>4

LEMMA OrderStep ==
    ChannelsTypeOK /\ ReceivedOnceInOrder /\ [ChannelsNext]_allChannelVars => ReceivedOnceInOrder'
<1> SUFFICES ASSUME ChannelsTypeOK, ReceivedOnceInOrder, [ChannelsNext]_allChannelVars, NEW d \in Channels
             PROVE  Numbered(sent'[d]) = delivered'[d] \o messages'[d]
  BY DEF ReceivedOnceInOrder
<1>0. /\ Numbered(sent[d]) = delivered[d] \o messages[d]
      /\ messages[d] \in Seq(1 .. MaxMessages) /\ delivered[d] \in Seq(1 .. MaxMessages)
      /\ sent[d] \in Nat
  BY DEF ChannelsTypeOK, ReceivedOnceInOrder
<1>1. ASSUME NEW t \in Threads, NEW c \in Channels, Send(t, c)
      PROVE  Numbered(sent'[d]) = delivered'[d] \o messages'[d]
  <2>1. CASE c # d
    BY <1>0, <1>1, <2>1 DEF Send, ChannelsTypeOK
  <2>2. CASE c = d
    <3>1. sent[d] + 1 \in 1 .. MaxMessages
      BY <1>0, <1>1, <2>2, ChannelAssumption DEF Send, ChannelsTypeOK
    <3>2. /\ sent'[d] = sent[d] + 1 /\ delivered'[d] = delivered[d]
          /\ messages'[d] = Append(messages[d], sent[d] + 1)
      BY <1>1, <2>2 DEF Send, ChannelsTypeOK
    <3>3. delivered[d] \o Append(messages[d], sent[d] + 1) = Append(delivered[d] \o messages[d], sent[d] + 1)
      <4> DEFINE M == 1 .. MaxMessages
                 e == sent[d] + 1
      <4>1. delivered[d] \in Seq(M) /\ messages[d] \in Seq(M) /\ e \in M
        BY <1>0, <3>1
      <4> HIDE DEF M, e
      <4>2. \A p, q \in Seq(M) : p \o Append(q, e) = Append(p \o q, e)
        BY <4>1, AppendLast
      <4> QED
        BY <4>1, <4>2 DEF e
    <3>4. Numbered(sent[d] + 1) = Append(Numbered(sent[d]), sent[d] + 1)
      BY <1>0, NumberedAppend
    <3>5. Numbered(sent'[d]) = Append(Numbered(sent[d]), sent[d] + 1)
      BY <3>2, <3>4
    <3> QED
      BY <1>0, <3>2, <3>3, <3>5
  <2> QED
    BY <2>1, <2>2
<1>2. ASSUME NEW t \in Threads, NEW c \in Channels, Pop(t, c)
      PROVE  Numbered(sent'[d]) = delivered'[d] \o messages'[d]
  <2>1. CASE c # d
    BY <1>0, <1>2, <2>1 DEF Pop, ChannelsTypeOK
  <2>2. CASE c = d
    <3>1. /\ messages'[d] = Tail(messages[d]) /\ sent'[d] = sent[d]
          /\ delivered'[d] = Append(delivered[d], Head(messages[d]))
      BY <1>2, <2>2 DEF Pop, ChannelsTypeOK
    <3>2. Append(delivered[d], Head(messages[d])) \o Tail(messages[d]) = delivered[d] \o messages[d]
      BY <1>0, <1>2, <2>2, HeadMoves DEF Pop
    <3> QED
      BY <1>0, <3>1, <3>2
  <2> QED
    BY <2>1, <2>2
<1>3. ASSUME NEW t \in Threads, NEW c \in Channels, Take(t, c) PROVE Pop(t, c)
  BY <1>3 DEF Take
<1>4. ASSUME NEW t \in Threads, WokenTakes(t) PROVE chan[t] \in Channels /\ Pop(t, chan[t])
  BY <1>4 DEF WokenTakes, ChannelsTypeOK
<1>5. CASE UNCHANGED <<messages, sent, delivered>>
  BY <1>0, <1>5
<1>6. \/ \E t \in Threads, c \in Channels : Send(t, c) \/ Pop(t, c)
      \/ UNCHANGED <<messages, sent, delivered>>
  BY <1>3, <1>4 DEF ChannelsNext, Forced, Call, allChannelVars, channelVars, Create, Sleep, Close, NotifyOne,
     NotifyAll, WokenClosed, WokenSleeps, Spurious, Spawn, Join, JoinEnd, Exit
<1> QED
  BY <1>1, <1>2, <1>5, <1>6

\* What is received from a channel is what was sent to it, once and in order
\* (threadChannelSend, Receive, TryReceive, Poll).
THEOREM MessagesArriveInOrder == ChannelsSpec => []ReceivedOnceInOrder
<1>1. ChannelsInit => ReceivedOnceInOrder
  <2>1. Numbered(0) = <<>>
    BY DEF Numbered
  <2>2. <<>> \o <<>> = <<>>
    BY EmptySeq, ConcatEmptySeq
  <2> QED
    BY <2>1, <2>2 DEF ChannelsInit, ReceivedOnceInOrder
<1>2. ChannelsTypeInv => ChannelsTypeOK
  BY DEF ChannelsTypeInv
<1> QED
  BY <1>1, <1>2, OrderStep, TypesHold, PTL DEF ChannelsSpec

-----------------------------------------------------------------------------
(* Wake-ups                                                                *)

\* The threads that will still look at channel c, or wake one that does.
Helpers(c) == Notifiers(c) \cup Woken(c)

\* What SleepersWillBeWoken says of one channel.
Attended(c) ==
    Asleep(c) # {} =>
        /\ Len(messages[c]) <= Cardinality(Helpers(c)) \/ Closers(c) # {}
        /\ c \in closed => Closers(c) # {}

LEMMA HelpersCount ==
    ASSUME NEW c \in Channels
    PROVE  /\ IsFiniteSet(Helpers(c)) /\ Cardinality(Helpers(c)) \in Nat
           /\ Cardinality(Helpers(c)) = Cardinality(Notifiers(c)) + Cardinality(Woken(c))
<1>1. Notifiers(c) \in SUBSET Threads /\ Woken(c) \in SUBSET Threads
  BY DEF Notifiers, Woken
<1>2. Notifiers(c) \cap Woken(c) = {}
  BY DEF Notifiers, Woken
<1>3. IsFiniteSet(Notifiers(c)) /\ IsFiniteSet(Woken(c))
  BY <1>1, FS_Subset, ChannelAssumption
<1>4. Cardinality(Notifiers(c) \cap Woken(c)) = 0
  BY <1>2, FS_EmptySet
<1>5. Cardinality(Notifiers(c)) \in Nat /\ Cardinality(Woken(c)) \in Nat
  BY <1>3, FS_CardinalityType
<1>6. /\ IsFiniteSet(Notifiers(c) \cup Woken(c))
      /\ Cardinality(Notifiers(c) \cup Woken(c))
           = Cardinality(Notifiers(c)) + Cardinality(Woken(c)) - Cardinality(Notifiers(c) \cap Woken(c))
  BY <1>3, FS_Union
<1> QED
  BY <1>4, <1>5, <1>6 DEF Helpers

LEMMA AttendedIsWoken == SleepersWillBeWoken <=> \A c \in Channels : Attended(c)
  BY HelpersCount DEF SleepersWillBeWoken, Attended

LEMMA AttendedIsWokenNext == SleepersWillBeWoken' <=> (\A c \in Channels : Attended(c))'
  BY AttendedIsWoken, PTL

\* A channel stays attended when nobody falls asleep on it, no notification to
\* all is lost, and as many helpers as messages come or go.
LEMMA AttendedKept ==
    ASSUME ChannelsTypeOK, NEW c \in Channels, Attended(c),
           Asleep(c)' # {} => Asleep(c) # {},
           Closers(c) # {} => Closers(c)' # {},
           c \in closed' => c \in closed \/ Closers(c)' # {},
           Len(messages[c]) <= Cardinality(Helpers(c))
             => Len(messages'[c]) <= Cardinality(Helpers(c)')
    PROVE  Attended(c)'
<1>1. SUFFICES ASSUME Asleep(c)' # {}
               PROVE  /\ Len(messages'[c]) <= Cardinality(Helpers(c)') \/ Closers(c)' # {}
                      /\ c \in closed' => Closers(c)' # {}
  BY DEF Attended
<1> QED
  BY <1>1, Zenon DEF Attended

LEMMA WakeUpStep ==
    ChannelsTypeInv /\ ChannelsTypeInv' /\ SleepersWillBeWoken /\ [ChannelsNext]_allChannelVars
    => SleepersWillBeWoken'
<1> SUFFICES ASSUME ChannelsTypeInv, ChannelsTypeInv', \A d \in Channels : Attended(d),
                        [ChannelsNext]_allChannelVars, NEW c \in Channels
             PROVE  Attended(c)'
  <2>1. (\A d \in Channels : Attended(d)') => SleepersWillBeWoken'
    BY AttendedIsWokenNext
  <2> QED
    BY <2>1, AttendedIsWoken
<1> USE DEF ChannelsTypeInv
<1>0. /\ Len(messages[c]) \in Nat /\ Len(messages'[c]) \in Nat
      /\ IsFiniteSet(Helpers(c)) /\ Cardinality(Helpers(c)) \in Nat
  BY HelpersCount, LenProperties DEF ChannelsTypeOK
<1>1. IsFiniteSet(Helpers(c)') /\ Cardinality(Helpers(c)') \in Nat
  <2>1. Helpers(c)' \in SUBSET Threads
    BY DEF Helpers, Notifiers, Woken
  <2> QED
    BY <2>1, FS_Subset, FS_CardinalityType, ChannelAssumption
<1>2. threadPc \in [Threads -> {"unborn", "run", "notifyOne", "notifyAll", "asleep", "woken",
                                "joining", "done"}]
      /\ chan \in [Threads -> Channels]
  BY DEF ChannelsTypeOK
<1> USE DEF Asleep, Closers, Notifiers, Woken, Helpers, GoTo
\* A thread that runs or is done plays no part.
<1>3. ASSUME NEW t \in Threads, threadPc[t] \in {"unborn", "run", "joining"},
             threadPc'[t] \in {"run", "joining", "done"}, threadPc' = [threadPc EXCEPT ![t] = threadPc'[t]],
             chan' = chan \/ \E d \in Channels : chan' = [chan EXCEPT ![t] = d],
             closed' = closed, Len(messages'[c]) <= Len(messages[c])
      PROVE  Attended(c)'
  <2>1. Asleep(c)' = Asleep(c) /\ Closers(c)' = Closers(c) /\ Helpers(c)' = Helpers(c)
    BY <1>2, <1>3
  <2> HIDE DEF Asleep, Closers, Helpers
  <2>2. Len(messages[c]) <= Cardinality(Helpers(c)) => Len(messages'[c]) <= Cardinality(Helpers(c)')
    <3> DEFINE l == Len(messages[c])
               k == Len(messages'[c])
               h == Cardinality(Helpers(c))
    <3>1. l \in Nat /\ k \in Nat /\ h \in Nat /\ k <= l
      BY <1>0, <1>3
    <3> HIDE DEF l, k, h
    <3>2. l <= h => k <= h
      BY <3>1
    <3> QED
      BY <2>1, <3>2 DEF l, k, h
  <2> QED
    BY <1>3, <2>1, <2>2, AttendedKept
<1>4. ASSUME NEW t \in Threads, NEW d \in Channels, Send(t, d) PROVE Attended(c)'
  <2>1. Asleep(c)' = Asleep(c) /\ Closers(c)' = Closers(c) /\ closed' = closed
    BY <1>2, <1>4 DEF Send
  <2>2. CASE c # d
    <3>1. Helpers(c)' = Helpers(c) /\ messages'[c] = messages[c]
      BY <1>2, <1>4, <2>2 DEF Send, ChannelsTypeOK
    <3> HIDE DEF Asleep, Closers, Helpers
    <3> QED
      BY <1>0, <1>1, <2>1, <3>1, AttendedKept
  <2>3. CASE c = d
    <3>1. Helpers(c)' = Helpers(c) \cup {t} /\ t \notin Helpers(c)
      BY <1>2, <1>4, <2>3 DEF Send
    <3>2. Cardinality(Helpers(c)') = Cardinality(Helpers(c)) + 1
      <4> HIDE DEF Helpers
      <4> QED
        BY <1>0, <3>1, FS_AddElement
    <3>3. Len(messages'[c]) = Len(messages[c]) + 1
      BY <1>4, <2>3 DEF Send, ChannelsTypeOK
    <3>4. Len(messages[c]) <= Cardinality(Helpers(c)) => Len(messages'[c]) <= Cardinality(Helpers(c)')
      <4> DEFINE l == Len(messages[c])
                 k == Len(messages'[c])
                 h == Cardinality(Helpers(c))
                 g == Cardinality(Helpers(c)')
      <4>1. l \in Nat /\ k \in Nat /\ h \in Nat /\ g \in Nat /\ k = l + 1 /\ g = h + 1
        BY <1>0, <1>1, <3>2, <3>3
      <4> HIDE DEF l, k, h, g
      <4>2. l <= h => k <= g
        BY <4>1
      <4> QED
        BY <4>2 DEF l, k, h, g
    <3> HIDE DEF Asleep, Closers, Helpers
    <3> QED
      BY <2>1, <3>4, AttendedKept
  <2> QED
    BY <2>2, <2>3
<1>5. ASSUME NEW t \in Threads, NEW d \in Channels, Take(t, d) PROVE Attended(c)'
  <2>1. Len(messages'[c]) <= Len(messages[c])
    BY <1>0, <1>5 DEF Take, Pop, ChannelsTypeOK
  <2> QED
    BY <1>2, <1>3, <1>5, <2>1 DEF Take, Pop
<1>6. ASSUME NEW t \in Threads, NEW d \in Channels, Sleep(t, d) PROVE Attended(c)'
  <2>1. CASE c # d
    <3>1. Asleep(c)' = Asleep(c) /\ Closers(c)' = Closers(c) /\ Helpers(c)' = Helpers(c)
      BY <1>2, <1>6, <2>1 DEF Sleep
    <3>2. closed' = closed /\ messages' = messages
      BY <1>6 DEF Sleep, channelVars
    <3> HIDE DEF Asleep, Closers, Helpers
    <3> QED
      BY <1>0, <1>1, <3>1, <3>2, AttendedKept
  <2>2. CASE c = d
    <3>1. messages'[c] = <<>> /\ c \notin closed'
      BY <1>6, <2>2 DEF Sleep, channelVars
    <3> HIDE DEF Helpers, Asleep, Closers
    <3> QED
      BY <1>1, <3>1 DEF Attended
  <2> QED
    BY <2>1, <2>2
<1>7. ASSUME NEW t \in Threads, NEW d \in Channels, Close(t, d) PROVE Attended(c)'
  <2>1. Asleep(c)' = Asleep(c) /\ Helpers(c)' = Helpers(c) /\ messages' = messages
    BY <1>2, <1>7 DEF Close
  <2>2. Closers(c) # {} => Closers(c)' # {}
    BY <1>2, <1>7 DEF Close
  <2>3. c \in closed' => c \in closed \/ Closers(c)' # {}
    BY <1>2, <1>7 DEF Close
  <2> HIDE DEF Asleep, Closers, Helpers
  <2> QED
    BY <1>0, <1>1, <2>1, <2>2, <2>3, AttendedKept
<1>8. ASSUME NEW t \in Threads, NotifyOne(t) PROVE Attended(c)'
  <2>1. closed' = closed /\ messages' = messages /\ Closers(c)' = Closers(c)
    BY <1>2, <1>8 DEF NotifyOne, channelVars
  <2>2. CASE chan[t] # c
    <3>1. Asleep(c)' = Asleep(c) /\ Helpers(c)' = Helpers(c)
      BY <1>2, <1>8, <2>2 DEF NotifyOne
    <3> HIDE DEF Asleep, Closers, Helpers
    <3> QED
      BY <1>0, <1>1, <2>1, <3>1, AttendedKept
  <2>3. CASE chan[t] = c /\ Asleep(c) = {}
    <3>1. Asleep(c)' = {}
      BY <1>2, <1>8, <2>3 DEF NotifyOne
    <3> QED
      BY <3>1 DEF Attended
  <2>4. CASE chan[t] = c /\ Asleep(c) # {}
    <3>1. PICK r \in Asleep(c) : threadPc' = [threadPc EXCEPT ![t] = "run", ![r] = "woken"] /\ chan' = chan
      BY <1>8, <2>4 DEF NotifyOne
    <3>2. /\ Helpers(c)' = (Helpers(c) \ {t}) \cup {r}
          /\ t \in Helpers(c) /\ r \notin Helpers(c) \ {t}
      BY <1>2, <1>8, <2>4, <3>1 DEF NotifyOne
    <3>3. Cardinality(Helpers(c)') = Cardinality(Helpers(c))
      <4>1. IsFiniteSet(Helpers(c) \ {t}) /\ Cardinality(Helpers(c) \ {t}) = Cardinality(Helpers(c)) - 1
        BY <1>0, <3>2, FS_RemoveElement
      <4>2. Cardinality((Helpers(c) \ {t}) \cup {r}) = Cardinality(Helpers(c) \ {t}) + 1
        BY <3>2, <4>1, FS_AddElement
      <4> HIDE DEF Helpers
      <4> QED
        BY <1>0, <3>2, <4>1, <4>2
    <3>4. Asleep(c)' # {} => Asleep(c) # {}
      BY <2>4
    <3> HIDE DEF Asleep, Closers, Helpers
    <3> QED
      BY <1>0, <1>1, <2>1, <3>3, <3>4, AttendedKept
  <2> QED
    BY <2>2, <2>3, <2>4
<1>9. ASSUME NEW t \in Threads, NotifyAll(t) PROVE Attended(c)'
  <2>1. CASE chan[t] # c
    <3>1. /\ Asleep(c)' = Asleep(c) /\ Helpers(c)' = Helpers(c) /\ Closers(c)' = Closers(c)
          /\ closed' = closed /\ messages' = messages
      BY <1>2, <1>9, <2>1 DEF NotifyAll, channelVars
    <3> HIDE DEF Asleep, Closers, Helpers
    <3> QED
      BY <1>0, <1>1, <3>1, AttendedKept
  <2>2. CASE chan[t] = c
    <3>1. Asleep(c)' = {}
      BY <1>2, <1>9, <2>2 DEF NotifyAll
    <3> QED
      BY <3>1 DEF Attended
  <2> QED
    BY <2>1, <2>2
<1>10. ASSUME NEW t \in Threads, WokenTakes(t) PROVE Attended(c)'
  <2>1. Asleep(c)' = Asleep(c) /\ Closers(c)' = Closers(c) /\ closed' = closed
    BY <1>2, <1>10 DEF WokenTakes, Pop
  <2>2. CASE chan[t] # c
    <3>1. Helpers(c)' = Helpers(c) /\ messages'[c] = messages[c]
      BY <1>2, <1>10, <2>2 DEF WokenTakes, Pop, ChannelsTypeOK
    <3> HIDE DEF Asleep, Closers, Helpers
    <3> QED
      BY <1>0, <1>1, <2>1, <3>1, AttendedKept
  <2>3. CASE chan[t] = c
    <3>1. Helpers(c)' = Helpers(c) \ {t} /\ t \in Helpers(c)
      BY <1>2, <1>10, <2>3 DEF WokenTakes
    <3>2. Cardinality(Helpers(c)') = Cardinality(Helpers(c)) - 1
      <4> HIDE DEF Helpers
      <4> QED
        BY <1>0, <3>1, FS_RemoveElement
    <3>3. Len(messages'[c]) = Len(messages[c]) - 1
      BY <1>10, <2>3 DEF WokenTakes, Pop, ChannelsTypeOK
    <3>4. Len(messages[c]) <= Cardinality(Helpers(c)) => Len(messages'[c]) <= Cardinality(Helpers(c)')
      <4> DEFINE l == Len(messages[c])
                 k == Len(messages'[c])
                 h == Cardinality(Helpers(c))
                 g == Cardinality(Helpers(c)')
      <4>1. l \in Nat /\ k \in Nat /\ h \in Nat /\ g \in Nat /\ k = l - 1 /\ g = h - 1
        BY <1>0, <1>1, <3>2, <3>3
      <4> HIDE DEF l, k, h, g
      <4>2. l <= h => k <= g
        BY <4>1
      <4> QED
        BY <4>2 DEF l, k, h, g
    <3> HIDE DEF Asleep, Closers, Helpers
    <3> QED
      BY <2>1, <3>4, AttendedKept
  <2> QED
    BY <2>2, <2>3
<1>11. ASSUME NEW t \in Threads, WokenClosed(t) \/ WokenSleeps(t) PROVE Attended(c)'
  <2>0. closed' = closed /\ messages' = messages /\ chan' = chan
    BY <1>11 DEF WokenClosed, WokenSleeps, channelVars
  <2>1. CASE chan[t] # c
    <3>1. Asleep(c)' = Asleep(c) /\ Helpers(c)' = Helpers(c) /\ Closers(c)' = Closers(c)
      BY <1>2, <1>11, <2>0, <2>1 DEF WokenClosed, WokenSleeps
    <3> HIDE DEF Asleep, Closers, Helpers
    <3> QED
      BY <1>0, <1>1, <2>0, <3>1, AttendedKept
  <2>2. CASE chan[t] = c
    <3>1. messages'[c] = <<>>
      BY <1>11, <2>0, <2>2 DEF WokenClosed, WokenSleeps
    <3>2. Closers(c)' = Closers(c)
      BY <1>2, <1>11, <2>0 DEF WokenClosed, WokenSleeps
    <3>3. c \in closed' => Asleep(c)' = Asleep(c)
      BY <1>2, <1>11, <2>0, <2>2 DEF WokenClosed, WokenSleeps
    <3> HIDE DEF Asleep, Closers, Helpers
    <3> QED
      BY <1>1, <2>0, <3>1, <3>2, <3>3 DEF Attended
  <2> QED
    BY <2>1, <2>2
<1>12. ASSUME NEW t \in Threads, Spurious(t) PROVE Attended(c)'
  <2>1. /\ closed' = closed /\ messages' = messages /\ Closers(c)' = Closers(c)
        /\ Asleep(c)' # {} => Asleep(c) # {}
    BY <1>2, <1>12 DEF Spurious, channelVars
  <2>2. Helpers(c) \in SUBSET (Helpers(c)')
    BY <1>2, <1>12 DEF Spurious
  <2>3. Cardinality(Helpers(c)) <= Cardinality(Helpers(c)')
    BY <1>1, <2>2, FS_Subset
  <2> HIDE DEF Asleep, Closers, Helpers
  <2>4. Len(messages[c]) <= Cardinality(Helpers(c)) => Len(messages'[c]) <= Cardinality(Helpers(c)')
    <3> DEFINE l == Len(messages[c])
               h == Cardinality(Helpers(c))
               g == Cardinality(Helpers(c)')
    <3>1. l \in Nat /\ h \in Nat /\ g \in Nat /\ h <= g
      BY <1>0, <1>1, <2>3
    <3> HIDE DEF l, h, g
    <3>2. l <= h => l <= g
      BY <3>1
    <3> QED
      BY <2>1, <3>2 DEF l, h, g
  <2> QED
    BY <2>1, <2>4, AttendedKept
<1>13. ASSUME NEW t \in Threads, NEW d \in Channels, Create(t, d) PROVE Attended(c)'
  <2>1. /\ threadPc[t] = "run" /\ threadPc' = [threadPc EXCEPT ![t] = "run"]
        /\ chan' = chan /\ closed' = closed /\ messages' = messages
    BY <1>13 DEF Create
  <2>2. threadPc'[t] = "run" /\ Len(messages'[c]) <= Len(messages[c])
    BY <1>0, <1>2, <2>1
  <2> QED
    BY <1>3, <2>1, <2>2
<1>14. ASSUME NEW t \in Threads, NEW u \in Threads, Spawn(t, u) PROVE Attended(c)'
  <2>1. /\ threadPc[u] = "unborn" /\ threadPc' = [threadPc EXCEPT ![u] = "run"]
        /\ chan' = chan /\ closed' = closed /\ messages' = messages
    BY <1>14 DEF Spawn, channelVars
  <2>2. threadPc'[u] = "run" /\ Len(messages'[c]) <= Len(messages[c])
    BY <1>0, <1>2, <2>1
  <2> QED
    BY <1>3, <2>1, <2>2
<1>15. ASSUME NEW t \in Threads, NEW u \in Threads, Join(t, u) PROVE Attended(c)'
  <2>1. /\ threadPc[t] = "run" /\ threadPc' = [threadPc EXCEPT ![t] = "joining"]
        /\ chan' = chan /\ closed' = closed /\ messages' = messages
    BY <1>15 DEF Join, channelVars
  <2>2. threadPc'[t] = "joining" /\ Len(messages'[c]) <= Len(messages[c])
    BY <1>0, <1>2, <2>1
  <2> QED
    BY <1>3, <2>1, <2>2
<1>16. ASSUME NEW t \in Threads, JoinEnd(t) \/ Exit(t) PROVE Attended(c)'
  <2>1. /\ threadPc[t] \in {"run", "joining"}
        /\ threadPc' = [threadPc EXCEPT ![t] = "run"] \/ threadPc' = [threadPc EXCEPT ![t] = "done"]
        /\ chan' = chan /\ closed' = closed /\ messages' = messages
    BY <1>16 DEF JoinEnd, Exit, channelVars
  <2>2. /\ threadPc'[t] \in {"run", "done"} /\ threadPc' = [threadPc EXCEPT ![t] = threadPc'[t]]
        /\ Len(messages'[c]) <= Len(messages[c])
    BY <1>0, <1>2, <2>1
  <2> QED
    BY <1>3, <2>1, <2>2
<1>17. CASE UNCHANGED allChannelVars
  <2>1. /\ Asleep(c)' = Asleep(c) /\ Helpers(c)' = Helpers(c) /\ Closers(c)' = Closers(c)
        /\ closed' = closed /\ messages' = messages
    BY <1>17 DEF allChannelVars
  <2> HIDE DEF Asleep, Closers, Helpers
  <2> QED
    BY <1>0, <1>1, <2>1, AttendedKept
<1> HIDE DEF Asleep, Closers, Notifiers, Woken, Helpers, GoTo, ChannelsTypeInv
<1> QED
  BY <1>4, <1>5, <1>6, <1>7, <1>8, <1>9, <1>10, <1>11, <1>12, <1>13, <1>14, <1>15, <1>16, <1>17
  DEF ChannelsNext, Forced, Call

\* No wake-up is lost: whoever sleeps on a channel with mail or on a closed one
\* is matched by a thread that is awake or about to notify (Channel::cv).
THEOREM NoReceiverIsForgotten == ChannelsSpec => []SleepersWillBeWoken
<1>1. ChannelsInit => SleepersWillBeWoken
  BY DEF ChannelsInit, SleepersWillBeWoken, Asleep
<1> QED
  BY <1>1, WakeUpStep, TypesHold, PTL DEF ChannelsSpec

-----------------------------------------------------------------------------
(* Worker pools                                                            *)

Holding == {"took", "running", "announce"}

\* What stands in the queue is accepted, once, not started and with no worker.
QueueHolds ==
    \A i \in DOMAIN queue :
        /\ queue[i] \in accepted
        /\ jobState[queue[i]] = "QUEUED"
        /\ runs[queue[i]] = 0
        /\ \A w \in Workers : workerJob[w] # queue[i]
        /\ \A k \in DOMAIN queue : queue[i] = queue[k] => i = k

\* A worker has an accepted job exactly from TakeJob to Announce, and the state of
\* the job and the number of its starts are those of the worker's place.
WorkersHold ==
    /\ \A w \in Workers :
          /\ workerJob[w] = None <=> workerPc[w] \notin Holding
          /\ workerPc[w] \in Holding => workerJob[w] \in accepted
          /\ workerPc[w] = "took" => jobState[workerJob[w]] = "QUEUED" /\ runs[workerJob[w]] = 0
          /\ workerPc[w] = "running" => jobState[workerJob[w]] = "RUNNING" /\ runs[workerJob[w]] = 1
          /\ workerPc[w] = "announce" => JobSettled(workerJob[w]) /\ runs[workerJob[w]] = 1
    /\ \A w, v \in Workers : workerJob[w] = workerJob[v] => w = v \/ workerJob[w] = None

\* Nothing is dropped, and nothing but what was accepted is ever started.
JobsAccounted ==
    /\ \A j \in accepted :
          /\ j < nextJob
          /\ JobSettled(j) => runs[j] = 1
          /\ ~JobSettled(j) => \/ \E i \in DOMAIN queue : queue[i] = j
                            \/ \E w \in Workers : workerJob[w] = j
    /\ \A j \in Jobs \ accepted : runs[j] = 0

\* The job a client is about to push is its own, registered and not accepted yet.
PushesAreFresh ==
    /\ \A c \in Clients : clientPc[c] = "push" =>
          /\ clientJob[c] \in Jobs \ accepted
          /\ clientJob[c] < nextJob
          /\ jobState[clientJob[c]] = "QUEUED"
    /\ \A c, d \in Clients :
          (clientPc[c] = "push" /\ clientPc[d] = "push" /\ clientJob[c] = clientJob[d]) => c = d

\* A worker ends only when the pool is stopping and drained, and is joined only
\* when it has ended; a destroying client has joined the threads it has passed.
EndsAreFinal ==
    /\ \A w \in Workers : workerPc[w] = "ended" => stopping /\ queue = <<>>
    /\ \A w \in joined : workerPc[w] = "ended"
    /\ \A c \in Clients :
          /\ clientPc[c] \in {"join", "joining"} =>
                \A w \in Workers : w < joinIndex[c] => w \in joined
          /\ clientPc[c] = "joining" => joinIndex[c] \in Workers

\* The pool is unknown before it is created and after its threads have ended.
PoolIsKnown ==
    /\ ~registered => \/ \A w \in Workers : workerPc[w] = "unborn"
                      \/ \A w \in Workers : workerPc[w] = "ended"
    /\ registered \/ stopping => \A w \in Workers : workerPc[w] # "unborn"
    /\ \A c \in Clients : clientPc[c] = "stop" => \A w \in Workers : workerPc[w] # "unborn"

PoolInv ==
    /\ PoolTypeOK /\ QueueHolds /\ WorkersHold /\ JobsAccounted
    /\ PushesAreFresh /\ EndsAreFinal /\ PoolIsKnown

-----------------------------------------------------------------------------
(* What a step does not disturb                                            *)

LEMMA JobsKept ==
    ASSUME PoolInv, UNCHANGED <<queue, workerJob, jobVars>>,
           \A w \in Workers :
              workerPc[w] = workerPc'[w] \/ (workerPc[w] \notin Holding /\ workerPc'[w] \notin Holding)
    PROVE  QueueHolds' /\ WorkersHold' /\ JobsAccounted'
<1> USE DEF PoolInv, jobVars
<1>1. QueueHolds'
  BY DEF QueueHolds
<1>2. WorkersHold'
  BY DEF WorkersHold, JobSettled, Holding
<1>3. JobsAccounted'
  BY DEF JobsAccounted, JobSettled
<1> QED
  BY <1>1, <1>2, <1>3

LEMMA PushesKept ==
    ASSUME PoolInv, UNCHANGED jobVars,
           \A c \in Clients : clientPc'[c] = "push" =>
              clientPc[c] = "push" /\ clientJob'[c] = clientJob[c]
    PROVE  PushesAreFresh'
  BY DEF PoolInv, PushesAreFresh, jobVars

LEMMA EndsKept ==
    ASSUME PoolInv, UNCHANGED <<stopping, queue, joined>>,
           \A w \in Workers : workerPc'[w] = "ended" <=> workerPc[w] = "ended",
           \A c \in Clients : clientPc'[c] \in {"join", "joining"} =>
              clientPc'[c] = clientPc[c] /\ joinIndex'[c] = joinIndex[c]
    PROVE  EndsAreFinal'
  BY DEF PoolInv, PoolTypeOK, EndsAreFinal

LEMMA KnownKept ==
    ASSUME PoolInv, UNCHANGED <<registered, stopping>>,
           \A w \in Workers : workerPc'[w] = workerPc[w]
              \/ (workerPc[w] \notin {"unborn", "ended"} /\ workerPc'[w] \notin {"unborn", "ended"}),
           \A c \in Clients : clientPc'[c] = "stop" => clientPc[c] = "stop"
    PROVE  PoolIsKnown'
  BY DEF PoolInv, PoolIsKnown

-----------------------------------------------------------------------------
(* Clients                                                                 *)

LEMMA PoolStart == PoolInit => PoolInv
<1> SUFFICES ASSUME PoolInit PROVE PoolInv
  OBVIOUS
<1>1. PoolTypeOK
  <2>1. /\ 1 \in Workers /\ 1 \in 1 .. MaxJobs + 1
        /\ <<>> \in Seq(Jobs) /\ 0 \in 0 .. 2
    BY PoolAssumption DEF Workers
  <2> QED
    BY <2>1 DEF PoolInit, PoolTypeOK
<1>2. QueueHolds /\ WorkersHold /\ JobsAccounted
  BY DEF PoolInit, QueueHolds, WorkersHold, JobsAccounted, Holding, Jobs, None
<1>3. PushesAreFresh /\ EndsAreFinal /\ PoolIsKnown
  BY DEF PoolInit, PushesAreFresh, EndsAreFinal, PoolIsKnown
<1> QED
  BY <1>1, <1>2, <1>3 DEF PoolInv

\* A call moves its client on and nothing else.
LEMMA ClientMoves ==
    ASSUME PoolInv, NEW c \in Clients, NEW from, NEW to \in {"idle", "register", "stop", "woken", "asleep"},
           ClientGoTo(c, from, to), UNCHANGED <<poolVars, jobVars, workerVars, joinVars>>,
           clientJob' \in [Clients -> Jobs \cup {None}],
           \A d \in Clients : d # c => clientJob'[d] = clientJob[d],
           to = "stop" => \A w \in Workers : workerPc[w] # "unborn"
    PROVE  PoolInv'
<1> USE DEF ClientGoTo, poolVars, workerVars, joinVars
<1>1. PoolTypeOK'
  BY DEF PoolInv, PoolTypeOK, jobVars
<1>2. QueueHolds' /\ WorkersHold' /\ JobsAccounted'
  BY JobsKept
<1>3. PushesAreFresh'
  BY PushesKept DEF PoolInv, PoolTypeOK
<1>4. EndsAreFinal'
  BY EndsKept DEF PoolInv, PoolTypeOK
<1>5. PoolIsKnown'
  BY DEF PoolInv, PoolTypeOK, PoolIsKnown
<1> QED
  BY <1>1, <1>2, <1>3, <1>4, <1>5 DEF PoolInv

LEMMA CallsStep ==
    ASSUME PoolInv, NEW c \in Clients,
           Lookup(c) \/ PushRefused(c) \/ Wait(c) \/ WaitAgain(c) \/ WaitReturn(c) \/ SpuriousClient(c)
    PROVE  PoolInv'
<1>0. /\ clientJob \in [Clients -> Jobs \cup {None}] /\ accepted \in SUBSET Jobs
      /\ registered => \A w \in Workers : workerPc[w] # "unborn"
  BY DEF PoolInv, PoolTypeOK, PoolIsKnown
<1>1. CASE Lookup(c)
  BY <1>0, <1>1, ClientMoves DEF Lookup
<1>2. CASE PushRefused(c)
  BY <1>0, <1>2, ClientMoves DEF PushRefused
<1>3. CASE Wait(c)
  BY <1>0, <1>3, ClientMoves DEF Wait
<1>4. CASE WaitAgain(c) \/ WaitReturn(c) \/ SpuriousClient(c)
  BY <1>0, <1>4, ClientMoves DEF WaitAgain, WaitReturn, SpuriousClient
<1> QED
  BY <1>1, <1>2, <1>3, <1>4

LEMMA CreateStep == ASSUME PoolInv, NEW c \in Clients, CreatePool(c) PROVE PoolInv'
<1> USE DEF CreatePool, ClientGoTo
<1>1. PoolTypeOK'
  BY DEF PoolInv, PoolTypeOK, jobVars, joinVars
<1>2. QueueHolds' /\ WorkersHold' /\ JobsAccounted'
  BY JobsKept DEF Holding
<1>3. PushesAreFresh'
  BY PushesKept DEF PoolInv, PoolTypeOK
<1>4. EndsAreFinal'
  BY EndsKept DEF PoolInv, PoolTypeOK, joinVars
<1>5. PoolIsKnown'
  BY DEF PoolInv, PoolTypeOK, PoolIsKnown
<1> QED
  BY <1>1, <1>2, <1>3, <1>4, <1>5 DEF PoolInv

LEMMA RegisterStep == ASSUME PoolInv, NEW c \in Clients, Register(c) PROVE PoolInv'
<1> USE DEF Register, ClientGoTo
<1>0. nextJob \in Jobs /\ nextJob \notin accepted /\ nextJob # None /\ MaxJobs \in Nat
  BY PoolAssumption DEF PoolInv, JobsAccounted, Jobs, None, PoolTypeOK
<1>1. PoolTypeOK'
  BY <1>0 DEF PoolInv, PoolTypeOK, poolVars, workerVars, joinVars, Jobs
<1>2. QueueHolds'
  BY <1>0 DEF PoolInv, PoolTypeOK, QueueHolds, poolVars, workerVars
<1>3. WorkersHold'
  BY <1>0 DEF PoolInv, PoolTypeOK, WorkersHold, JobSettled, workerVars, Holding
<1>4. JobsAccounted'
  BY <1>0 DEF PoolInv, PoolTypeOK, JobsAccounted, JobSettled, poolVars, workerVars, Jobs
<1>5. PushesAreFresh'
  BY <1>0 DEF PoolInv, PoolTypeOK, PushesAreFresh, Jobs
<1>6. EndsAreFinal'
  BY EndsKept DEF PoolInv, PoolTypeOK, poolVars, workerVars, joinVars
<1>7. PoolIsKnown'
  BY KnownKept DEF PoolInv, PoolTypeOK, poolVars, workerVars
<1> QED
  BY <1>1, <1>2, <1>3, <1>4, <1>5, <1>6, <1>7 DEF PoolInv

LEMMA PushStep == ASSUME PoolInv, NEW c \in Clients, Push(c) PROVE PoolInv'
<1> USE DEF Push, ClientGoTo
<1>0. /\ clientPc[c] = "push" /\ clientJob[c] \in Jobs \ accepted /\ clientJob[c] < nextJob
      /\ jobState[clientJob[c]] = "QUEUED" /\ clientJob[c] # None
      /\ ~JobSettled(clientJob[c]) /\ runs[clientJob[c]] = 0
  BY DEF PoolInv, PushesAreFresh, JobsAccounted, JobSettled, Jobs, None
<1>1. PoolTypeOK'
  BY <1>0 DEF PoolInv, PoolTypeOK, workerVars, joinVars
<1>2. /\ Len(queue) \in Nat
      /\ DOMAIN queue = 1 .. Len(queue)
      /\ DOMAIN queue' = 1 .. Len(queue) + 1
      /\ \A i \in 1 .. Len(queue) : queue'[i] = queue[i]
      /\ queue'[Len(queue) + 1] = clientJob[c]
  <2>1. queue \in Seq(Jobs) /\ clientJob[c] \in Jobs
    BY <1>0 DEF PoolInv, PoolTypeOK
  <2> QED
    BY <2>1
<1>3. \A w \in Workers : workerJob[w] # clientJob[c]
  BY <1>0 DEF PoolInv, PoolTypeOK, WorkersHold, Holding
<1>4. \A i \in DOMAIN queue : queue[i] # clientJob[c]
  BY <1>0 DEF PoolInv, QueueHolds
<1>5. QueueHolds'
  BY <1>0, <1>2, <1>3, <1>4 DEF PoolInv, QueueHolds, workerVars
<1>6. WorkersHold'
  BY DEF PoolInv, WorkersHold, workerVars, JobSettled
<1>7. JobsAccounted'
  BY <1>0, <1>2 DEF PoolInv, JobsAccounted, workerVars, JobSettled
<1>8. PushesAreFresh'
  BY <1>0 DEF PoolInv, PoolTypeOK, PushesAreFresh
<1>9. EndsAreFinal'
  BY DEF PoolInv, PoolTypeOK, EndsAreFinal, workerVars, joinVars
<1>10. PoolIsKnown'
  BY KnownKept DEF PoolInv, PoolTypeOK, workerVars
<1> QED
  BY <1>1, <1>5, <1>6, <1>7, <1>8, <1>9, <1>10 DEF PoolInv

LEMMA NotifyOneStep == ASSUME PoolInv, NEW c \in Clients, NotifyOneWorker(c) PROVE PoolInv'
<1> USE DEF NotifyOneWorker, ClientGoTo
<1>0. workerPc' = workerPc
      \/ \E w \in Workers : workerPc[w] = "asleep" /\ workerPc' = [workerPc EXCEPT ![w] = "check"]
  OBVIOUS
<1>1. PoolTypeOK'
  BY <1>0 DEF PoolInv, PoolTypeOK, poolVars, jobVars, joinVars
<1>2. QueueHolds' /\ WorkersHold' /\ JobsAccounted'
  BY <1>0, JobsKept DEF Holding, PoolInv, PoolTypeOK, poolVars
<1>3. PushesAreFresh'
  BY PushesKept DEF PoolInv, PoolTypeOK
<1>4. EndsAreFinal'
  BY <1>0, EndsKept DEF PoolInv, PoolTypeOK, poolVars, joinVars
<1>5. PoolIsKnown'
  BY <1>0, KnownKept DEF PoolInv, PoolTypeOK, poolVars
<1> QED
  BY <1>1, <1>2, <1>3, <1>4, <1>5 DEF PoolInv

LEMMA StopStep == ASSUME PoolInv, NEW c \in Clients, Stop(c) PROVE PoolInv'
<1> USE DEF Stop, ClientGoTo
<1>1. PoolTypeOK'
  BY DEF PoolInv, PoolTypeOK, jobVars, workerVars, joinVars
<1>2. QueueHolds' /\ WorkersHold' /\ JobsAccounted'
  BY JobsKept DEF workerVars, Holding
<1>3. PushesAreFresh'
  BY PushesKept DEF PoolInv, PoolTypeOK
<1>4. EndsAreFinal'
  BY DEF PoolInv, PoolTypeOK, EndsAreFinal, workerVars, joinVars
<1>5. PoolIsKnown'
  BY DEF PoolInv, PoolTypeOK, PoolIsKnown, workerVars
<1> QED
  BY <1>1, <1>2, <1>3, <1>4, <1>5 DEF PoolInv

LEMMA NotifyAllStep == ASSUME PoolInv, NEW c \in Clients, NotifyAllWorkers(c) PROVE PoolInv'
<1> USE DEF NotifyAllWorkers, ClientGoTo
<1>0. 1 \in Workers
  BY PoolAssumption DEF Workers
<1>1. PoolTypeOK'
  BY <1>0 DEF PoolInv, PoolTypeOK, poolVars, jobVars
<1>2. QueueHolds' /\ WorkersHold' /\ JobsAccounted'
  BY JobsKept DEF PoolInv, PoolTypeOK, poolVars, Holding
<1>3. PushesAreFresh'
  BY PushesKept DEF PoolInv, PoolTypeOK
<1>4. EndsAreFinal'
  BY DEF PoolInv, PoolTypeOK, EndsAreFinal, poolVars, Workers
<1>5. PoolIsKnown'
  BY KnownKept DEF PoolInv, PoolTypeOK, poolVars
<1> QED
  BY <1>1, <1>2, <1>3, <1>4, <1>5 DEF PoolInv

LEMMA JoinStep ==
    ASSUME PoolInv, NEW c \in Clients, JoinBegin(c) \/ JoinSkip(c) \/ JoinReturn(c) \/ JoinTwice(c)
    PROVE  PoolInv'
<1> USE DEF ClientGoTo
<1>0. /\ UNCHANGED <<poolVars, jobVars, workerVars, clientJob>>
      /\ clientPc' \in [Clients -> {"idle", "register", "push", "notify", "stop",
                                    "notifyAll", "join", "joining", "asleep", "woken"}]
      /\ \A d \in Clients : d # c => clientPc'[d] = clientPc[d] /\ joinIndex'[d] = joinIndex[d]
      /\ clientPc'[c] \in {"idle", "join", "joining"}
  BY DEF PoolInv, PoolTypeOK, JoinBegin, JoinSkip, JoinReturn, JoinTwice
<1>1. JoinBegin(c) \/ JoinReturn(c) => joinIndex[c] \in Workers
  BY DEF PoolInv, EndsAreFinal, JoinBegin, JoinReturn
<1>2. WorkerCount \in Nat /\ joined \in SUBSET Workers
      /\ joinIndex \in [Clients -> Workers \cup {WorkerCount + 1}]
  BY PoolAssumption DEF PoolInv, PoolTypeOK
<1>3. joinIndex' \in [Clients -> Workers \cup {WorkerCount + 1}]
  <2>1. \A w \in Workers : w + 1 \in Workers \cup {WorkerCount + 1}
    BY <1>2 DEF Workers
  <2> QED
    BY <1>1, <1>2, <2>1 DEF JoinBegin, JoinSkip, JoinReturn, JoinTwice
<1>4. PoolTypeOK'
  <2>1. joiner' \in [Workers -> Clients \cup {None}] /\ crashed' \in BOOLEAN /\ joined' \in SUBSET Workers
    BY <1>1 DEF PoolInv, PoolTypeOK, JoinBegin, JoinSkip, JoinReturn, JoinTwice
  <2> QED
    BY <1>0, <1>3, <2>1 DEF PoolInv, PoolTypeOK, poolVars, jobVars, workerVars
<1>5. QueueHolds' /\ WorkersHold' /\ JobsAccounted'
  BY <1>0, JobsKept DEF poolVars, workerVars
<1>6. PushesAreFresh'
  BY <1>0, PushesKept
<1>7. EndsAreFinal'
  <2>1. \A w \in joined' : workerPc'[w] = "ended"
    BY <1>0 DEF PoolInv, EndsAreFinal, JoinBegin, JoinSkip, JoinReturn, JoinTwice, workerVars
  <2>2. joined \in SUBSET joined'
    BY DEF JoinBegin, JoinSkip, JoinReturn, JoinTwice
  <2>3. ASSUME NEW d \in Clients
        PROVE  /\ clientPc'[d] \in {"join", "joining"} =>
                     \A w \in Workers : w < joinIndex'[d] => w \in joined'
               /\ clientPc'[d] = "joining" => joinIndex'[d] \in Workers
    <3>1. CASE d # c
      BY <1>0, <2>2, <3>1 DEF PoolInv, EndsAreFinal
    <3>2. CASE d = c /\ (JoinBegin(c) \/ JoinTwice(c))
      BY <1>2, <3>2 DEF PoolInv, PoolTypeOK, EndsAreFinal, JoinBegin, JoinTwice
    <3>3. CASE d = c /\ (JoinSkip(c) \/ JoinReturn(c))
      <4>1. /\ joinIndex'[c] = joinIndex[c] + 1 /\ joinIndex[c] \in joined' /\ joinIndex[c] \in Nat
            /\ clientPc'[c] = "join"
        BY <1>1, <1>2, <3>3 DEF PoolInv, PoolTypeOK, JoinSkip, JoinReturn, Workers
      <4>2. \A w \in Workers : w < joinIndex[c] => w \in joined
        BY <3>3 DEF PoolInv, EndsAreFinal, JoinSkip, JoinReturn
      <4>3. \A w \in Workers : w < joinIndex[c] + 1 => w < joinIndex[c] \/ w = joinIndex[c]
        BY <4>1 DEF Workers
      <4> QED
        BY <2>2, <3>3, <4>1, <4>2, <4>3
    <3> QED
      BY <3>1, <3>2, <3>3
  <2> QED
    BY <1>0, <2>1, <2>3 DEF PoolInv, EndsAreFinal, poolVars, workerVars
<1>8. PoolIsKnown'
  BY <1>0, KnownKept DEF poolVars, workerVars
<1> QED
  BY <1>4, <1>5, <1>6, <1>7, <1>8 DEF PoolInv

LEMMA EraseStep == ASSUME PoolInv, NEW c \in Clients, Erase(c) PROVE PoolInv'
<1> USE DEF Erase, ClientGoTo
<1>1. PoolTypeOK'
  BY DEF PoolInv, PoolTypeOK, jobVars, workerVars, joinVars
<1>2. QueueHolds' /\ WorkersHold' /\ JobsAccounted'
  BY JobsKept DEF workerVars, Holding
<1>3. PushesAreFresh'
  BY PushesKept DEF PoolInv, PoolTypeOK
<1>4. EndsAreFinal'
  BY EndsKept DEF PoolInv, PoolTypeOK, workerVars, joinVars
<1>5. \A w \in Workers : workerPc[w] = "ended"
  BY PoolAssumption DEF PoolInv, EndsAreFinal, Workers
<1>6. PoolIsKnown'
  BY <1>5 DEF PoolInv, PoolTypeOK, PoolIsKnown, workerVars
<1> QED
  BY <1>1, <1>2, <1>3, <1>4, <1>6 DEF PoolInv

-----------------------------------------------------------------------------
(* Workers                                                                 *)

LEMMA TakeStep == ASSUME PoolInv, NEW w \in Workers, TakeJob(w) PROVE PoolInv'
<1> USE DEF TakeJob, WorkerGoTo
<1> DEFINE j == Head(queue)
<1>0. queue \in Seq(Jobs) /\ queue # <<>>
  BY DEF PoolInv, PoolTypeOK
<1>1. /\ Len(queue) \in Nat \ {0}
      /\ DOMAIN queue = 1 .. Len(queue)
      /\ queue' \in Seq(Jobs)
      /\ DOMAIN queue' = 1 .. Len(queue) - 1
      /\ \A i \in 1 .. Len(queue) - 1 : queue'[i] = queue[i + 1]
      /\ j = queue[1] /\ j \in Jobs /\ 1 \in DOMAIN queue
  BY <1>0
<1>2. /\ j \in accepted /\ jobState[j] = "QUEUED" /\ runs[j] = 0 /\ j # None
      /\ \A v \in Workers : workerJob[v] # j
      /\ \A i \in DOMAIN queue : queue[i] = j => i = 1
  BY <1>1 DEF PoolInv, QueueHolds, Jobs, None
<1> HIDE DEF j
<1>3. /\ workerJob' = [workerJob EXCEPT ![w] = j]
      /\ workerJob \in [Workers -> Jobs \cup {None}]
      /\ workerPc[w] = "check" /\ workerPc' = [workerPc EXCEPT ![w] = "took"]
      /\ UNCHANGED <<nextJob, jobState, accepted, runs, clientPc, clientJob,
                    registered, stopping, joined, joinIndex>>
  BY DEF j, PoolInv, PoolTypeOK, jobVars, clientVars, joinVars
<1>4. PoolTypeOK'
  BY <1>1, <1>3 DEF PoolInv, PoolTypeOK, jobVars, clientVars, joinVars
<1>5. QueueHolds'
  <2> SUFFICES ASSUME NEW i \in DOMAIN queue'
               PROVE  /\ queue'[i] \in accepted
                      /\ jobState[queue'[i]] = "QUEUED"
                      /\ runs[queue'[i]] = 0
                      /\ \A v \in Workers : workerJob'[v] # queue'[i]
                      /\ \A k \in DOMAIN queue' : queue'[i] = queue'[k] => i = k
    BY <1>3 DEF QueueHolds
  <2>1. i + 1 \in DOMAIN queue /\ queue'[i] = queue[i + 1] /\ i + 1 # 1
    BY <1>1
  <2>2. queue'[i] # j
    BY <1>2, <2>1
  <2>3. \A k \in DOMAIN queue' : k + 1 \in DOMAIN queue /\ queue'[k] = queue[k + 1]
    BY <1>1
  <2>4. \A k \in DOMAIN queue' : queue'[i] = queue'[k] => i + 1 = k + 1
    BY <2>1, <2>3 DEF PoolInv, QueueHolds
  <2>5. \A k \in DOMAIN queue' : i + 1 = k + 1 => i = k
    BY <1>1
  <2>6. /\ queue[i + 1] \in accepted /\ jobState[queue[i + 1]] = "QUEUED"
        /\ runs[queue[i + 1]] = 0 /\ \A v \in Workers : workerJob[v] # queue[i + 1]
    BY <2>1 DEF PoolInv, QueueHolds
  <2> QED
    BY <1>3, <2>1, <2>2, <2>4, <2>5, <2>6
<1>6. WorkersHold'
  BY <1>2, <1>3 DEF PoolInv, PoolTypeOK, WorkersHold, JobSettled, Holding
<1>7. JobsAccounted'
  <2>1. ASSUME NEW k \in accepted, ~JobSettled(k)
        PROVE  (\E i \in DOMAIN queue' : queue'[i] = k) \/ \E v \in Workers : workerJob'[v] = k
    <3>1. CASE k = j
      BY <1>3, <3>1
    <3>2. CASE \E v \in Workers : workerJob[v] = k
      BY <1>2, <1>3, <3>2 DEF PoolInv, WorkersHold, Holding, PoolTypeOK, Jobs, None
    <3>3. CASE k # j /\ \E i \in DOMAIN queue : queue[i] = k
      <4>1. PICK i \in DOMAIN queue : queue[i] = k
        BY <3>3
      <4>2. i - 1 \in DOMAIN queue' /\ queue'[i - 1] = queue[i]
        BY <1>1, <3>3, <4>1
      <4> QED
        BY <4>1, <4>2
    <3> QED
      BY <2>1, <3>1, <3>2, <3>3 DEF PoolInv, JobsAccounted
  <2>2. \A k \in accepted : k < nextJob /\ (JobSettled(k) => runs[k] = 1)
    BY DEF PoolInv, JobsAccounted
  <2>3. \A k \in Jobs \ accepted : runs[k] = 0
    BY DEF PoolInv, JobsAccounted
  <2> QED
    BY <1>3, <2>1, <2>2, <2>3 DEF JobsAccounted, JobSettled
<1>8. PushesAreFresh'
  BY <1>3, PushesKept DEF jobVars
<1>9. EndsAreFinal'
  BY <1>0, <1>3 DEF PoolInv, PoolTypeOK, EndsAreFinal
<1>10. PoolIsKnown'
  BY <1>3, KnownKept DEF PoolInv, PoolTypeOK
<1> QED
  BY <1>4, <1>5, <1>6, <1>7, <1>8, <1>9, <1>10 DEF PoolInv

LEMMA RestStep ==
    ASSUME PoolInv, NEW w \in Workers, End(w) \/ WorkerSleep(w) \/ SpuriousWorker(w)
    PROVE  PoolInv'
<1>0. /\ workerPc \in [Workers -> {"unborn", "check", "asleep", "took", "running", "announce", "ended"}]
      /\ workerPc[w] \in {"check", "asleep"}
      /\ \E p \in {"check", "asleep", "ended"} :
            /\ workerPc' = [workerPc EXCEPT ![w] = p]
            /\ p = "ended" => stopping /\ queue = <<>>
      /\ UNCHANGED <<poolVars, jobVars, workerJob, clientVars, joinVars>>
  BY DEF PoolInv, PoolTypeOK, End, WorkerSleep, SpuriousWorker, WorkerGoTo
<1>1. PoolTypeOK'
  BY <1>0 DEF PoolInv, PoolTypeOK, poolVars, jobVars, clientVars, joinVars
<1>2. QueueHolds' /\ WorkersHold' /\ JobsAccounted'
  BY <1>0, JobsKept DEF poolVars, Holding
<1>3. PushesAreFresh'
  BY <1>0, PushesKept DEF clientVars
<1>4. EndsAreFinal'
  BY <1>0 DEF PoolInv, PoolTypeOK, EndsAreFinal, poolVars, clientVars, joinVars
<1>5. PoolIsKnown'
  BY <1>0 DEF PoolInv, PoolTypeOK, PoolIsKnown, poolVars, clientVars
<1> QED
  BY <1>1, <1>2, <1>3, <1>4, <1>5 DEF PoolInv

\* The place of a worker inside a job, and what it means for the job.
LEMMA PoolRunStep ==
    ASSUME PoolInv, NEW w \in Workers, Start(w) \/ FinishJob(w)
    PROVE  PoolInv'
<1> DEFINE j == workerJob[w]
<1>0. /\ workerPc[w] \in {"took", "running"}
      /\ workerPc' = [workerPc EXCEPT ![w] = IF workerPc[w] = "took" THEN "running" ELSE "announce"]
      /\ UNCHANGED <<poolVars, nextJob, accepted, workerJob, clientVars, joinVars>>
  BY DEF Start, FinishJob, WorkerGoTo
<1>1. /\ j \in accepted /\ j \in Jobs /\ ~JobSettled(j)
      /\ runs[j] = IF workerPc[w] = "took" THEN 0 ELSE 1
      /\ \A v \in Workers : workerJob[v] = j => v = w
      /\ \A i \in DOMAIN queue : queue[i] # j
  BY <1>0 DEF PoolInv, PoolTypeOK, WorkersHold, QueueHolds, Holding, JobSettled, Jobs, None
<1>2. /\ \E s \in {"RUNNING", "COMPLETED", "FAILED"} :
            /\ jobState' = [jobState EXCEPT ![j] = s]
            /\ s = "RUNNING" <=> workerPc[w] = "took"
      /\ runs' = [runs EXCEPT ![j] = 1]
  <2>1. CASE Start(w)
    BY <1>1, <2>1 DEF Start, WorkerGoTo, PoolInv, PoolTypeOK
  <2>2. CASE FinishJob(w)
    <3>1. runs' = runs /\ runs[j] = 1 /\ runs \in [Jobs -> 0 .. 2]
      BY <1>1, <2>2 DEF FinishJob, WorkerGoTo, PoolInv, PoolTypeOK
    <3>2. runs' = [runs EXCEPT ![j] = 1]
      BY <3>1
    <3> QED
      BY <2>2, <3>2 DEF FinishJob, WorkerGoTo
  <2> QED
    BY <2>1, <2>2
<1> HIDE DEF j
<1>3. PoolTypeOK'
  BY <1>0, <1>1, <1>2 DEF PoolInv, PoolTypeOK, poolVars, clientVars, joinVars
<1>4. \A k \in Jobs : k # j => jobState'[k] = jobState[k] /\ runs'[k] = runs[k]
  BY <1>2 DEF PoolInv, PoolTypeOK
<1>5. runs'[j] = 1 /\ jobState'[j] \in {"RUNNING", "COMPLETED", "FAILED"}
      /\ (jobState'[j] = "RUNNING" <=> workerPc[w] = "took")
  BY <1>1, <1>2 DEF PoolInv, PoolTypeOK
<1>6. QueueHolds'
  BY <1>0, <1>1, <1>4 DEF PoolInv, PoolTypeOK, QueueHolds, poolVars
<1>7. WorkersHold'
  <2>1. \A v \in Workers : v # w => workerPc'[v] = workerPc[v] /\ workerJob'[v] = workerJob[v]
                                     /\ workerJob[v] # j
    BY <1>0, <1>1 DEF PoolInv, PoolTypeOK
  <2>2. workerPc'[w] = IF workerPc[w] = "took" THEN "running" ELSE "announce"
    BY <1>0 DEF PoolInv, PoolTypeOK
  <2>3. workerJob'[w] = j /\ accepted' = accepted /\ j # None /\ accepted \in SUBSET Jobs
    BY <1>0, <1>1 DEF j, Jobs, None, PoolInv, PoolTypeOK
  <2>4. ASSUME NEW v \in Workers
        PROVE  /\ workerJob'[v] = None <=> workerPc'[v] \notin Holding
               /\ workerPc'[v] \in Holding => workerJob'[v] \in accepted'
               /\ workerPc'[v] = "took" => jobState'[workerJob'[v]] = "QUEUED" /\ runs'[workerJob'[v]] = 0
               /\ workerPc'[v] = "running" => jobState'[workerJob'[v]] = "RUNNING" /\ runs'[workerJob'[v]] = 1
               /\ workerPc'[v] = "announce" => JobSettled(workerJob[v])' /\ runs'[workerJob'[v]] = 1
    <3>1. CASE v = w
      BY <1>0, <1>1, <1>5, <2>2, <2>3, <3>1 DEF Holding, JobSettled
    <3>2. CASE v # w
      BY <1>4, <2>1, <2>3, <3>2 DEF PoolInv, WorkersHold, Holding, JobSettled
    <3> QED
      BY <3>1, <3>2
  <2>5. \A u, v \in Workers : workerJob'[u] = workerJob'[v] => u = v \/ workerJob'[u] = None
    BY <1>0 DEF PoolInv, WorkersHold
  <2> QED
    BY <2>4, <2>5 DEF WorkersHold, JobSettled
<1>8. JobsAccounted'
  <2>1. /\ queue' = queue /\ workerJob' = workerJob /\ accepted' = accepted /\ nextJob' = nextJob
        /\ accepted \in SUBSET Jobs
    BY <1>0 DEF poolVars, PoolInv, PoolTypeOK
  <2>2. \A k \in accepted : (JobSettled(k)' => runs'[k] = 1) /\ (~JobSettled(k)' => ~JobSettled(k))
    BY <1>1, <1>4, <1>5, <2>1 DEF PoolInv, JobsAccounted, JobSettled
  <2>3. \A k \in Jobs \ accepted : runs'[k] = 0
    BY <1>1, <1>4 DEF PoolInv, JobsAccounted
  <2> QED
    BY <2>1, <2>2, <2>3 DEF PoolInv, JobsAccounted, JobSettled
<1>9. PushesAreFresh'
  BY <1>0, <1>1, <1>4 DEF PoolInv, PushesAreFresh, clientVars
<1>10. EndsAreFinal'
  BY <1>0, EndsKept DEF PoolInv, PoolTypeOK, poolVars, clientVars, joinVars
<1>11. PoolIsKnown'
  BY <1>0, KnownKept DEF PoolInv, PoolTypeOK, poolVars, clientVars
<1> QED
  BY <1>3, <1>6, <1>7, <1>8, <1>9, <1>10, <1>11 DEF PoolInv

LEMMA AnnounceStep == ASSUME PoolInv, NEW w \in Workers, Announce(w) PROVE PoolInv'
<1> USE DEF Announce, WorkerGoTo
<1>0. /\ workerPc[w] = "announce" /\ workerPc' = [workerPc EXCEPT ![w] = "check"]
      /\ workerJob' = [workerJob EXCEPT ![w] = None]
      /\ JobSettled(workerJob[w]) /\ workerJob[w] \in accepted
  BY DEF PoolInv, WorkersHold, Holding
<1>1. \A c \in Clients : clientPc'[c] = clientPc[c] \/ (clientPc[c] = "asleep" /\ clientPc'[c] = "woken")
  OBVIOUS
<1>2. PoolTypeOK'
  BY DEF PoolInv, PoolTypeOK, poolVars, jobVars, joinVars
<1>3. QueueHolds'
  BY DEF PoolInv, PoolTypeOK, QueueHolds, poolVars, jobVars, Jobs, None
<1>4. WorkersHold'
  BY DEF PoolInv, PoolTypeOK, WorkersHold, JobSettled, Holding, jobVars
<1>5. JobsAccounted'
  <2>1. /\ UNCHANGED <<queue, nextJob, jobState, accepted, runs>>
        /\ \A v \in Workers : v # w => workerJob'[v] = workerJob[v]
    BY DEF PoolInv, PoolTypeOK, poolVars, jobVars
  <2>2. ASSUME NEW j \in accepted, ~JobSettled(j)
        PROVE  (\E i \in DOMAIN queue : queue[i] = j) \/ \E v \in Workers : workerJob'[v] = j
    <3>1. \A v \in Workers : workerJob[v] = j => v # w
      BY <1>0, <2>2
    <3> QED
      BY <2>1, <2>2, <3>1 DEF PoolInv, JobsAccounted
  <2> QED
    BY <2>1, <2>2 DEF PoolInv, JobsAccounted, JobSettled
<1>6. PushesAreFresh'
  BY <1>1, PushesKept
<1>7. EndsAreFinal'
  BY <1>0, <1>1, EndsKept DEF PoolInv, PoolTypeOK, poolVars, joinVars
<1>8. PoolIsKnown'
  BY <1>0, <1>1, KnownKept DEF PoolInv, PoolTypeOK, poolVars
<1> QED
  BY <1>2, <1>3, <1>4, <1>5, <1>6, <1>7, <1>8 DEF PoolInv

LEMMA PoolStep == PoolInv /\ [PoolNext]_allPoolVars => PoolInv'
<1> SUFFICES ASSUME PoolInv, [PoolNext]_allPoolVars PROVE PoolInv'
  OBVIOUS
<1>1. ASSUME NEW c \in Clients, ClientStep(c) PROVE PoolInv'
  BY <1>1, RegisterStep, PushStep, CallsStep, NotifyOneStep, StopStep, NotifyAllStep, JoinStep,
     EraseStep DEF ClientStep
<1>2. ASSUME NEW w \in Workers, WorkerStep(w) PROVE PoolInv'
  BY <1>2, TakeStep, RestStep, PoolRunStep, AnnounceStep DEF WorkerStep
<1>3. CASE Choice
  BY <1>3, CreateStep, CallsStep, RestStep DEF Choice
<1>4. CASE UNCHANGED allPoolVars
  <2>1. PoolTypeOK'
    BY <1>4 DEF PoolInv, PoolTypeOK, allPoolVars
  <2>2. QueueHolds' /\ WorkersHold' /\ JobsAccounted'
    BY <1>4, JobsKept DEF allPoolVars, jobVars
  <2>3. PushesAreFresh'
    BY <1>4, PushesKept DEF allPoolVars, jobVars
  <2>4. EndsAreFinal'
    BY <1>4, EndsKept DEF allPoolVars
  <2>5. PoolIsKnown'
    BY <1>4, KnownKept DEF allPoolVars
  <2> QED
    BY <2>1, <2>2, <2>3, <2>4, <2>5 DEF PoolInv
<1> QED
  BY <1>1, <1>2, <1>3, <1>4 DEF PoolNext

LEMMA PoolHolds == PoolSpec => []PoolInv
  BY PoolStart, PoolStep, PTL DEF PoolSpec

-----------------------------------------------------------------------------
(* Theorems                                                                *)

LEMMA EachJobHasOnePlace == PoolInv => EachJobOnce
<1> SUFFICES ASSUME PoolInv PROVE EachJobOnce
  OBVIOUS
<1>1. ASSUME NEW j \in accepted, JobSettled(j) PROVE Queued(j) = {} /\ runs[j] = 1
  BY <1>1 DEF PoolInv, JobsAccounted, QueueHolds, Queued, JobSettled
<1>2. ASSUME NEW j \in accepted, ~JobSettled(j)
      PROVE  Cardinality(Queued(j)) + Cardinality(Held(j)) = 1
  <2>1. CASE \E i \in DOMAIN queue : queue[i] = j
    <3>1. PICK i \in DOMAIN queue : queue[i] = j
      BY <2>1
    <3>2. Queued(j) = {i}
      BY <3>1 DEF PoolInv, QueueHolds, Queued
    <3>3. Held(j) = {}
      BY <3>1 DEF PoolInv, QueueHolds, Held
    <3>4. Cardinality(Queued(j)) = 1 /\ Cardinality(Held(j)) = 0
      BY <3>2, <3>3, FS_Singleton, FS_EmptySet
    <3> QED
      BY <3>4
  <2>2. CASE \E w \in Workers : workerJob[w] = j
    <3>1. PICK w \in Workers : workerJob[w] = j
      BY <2>2
    <3>2. Held(j) = {w}
      BY <3>1 DEF PoolInv, PoolTypeOK, WorkersHold, Held, Jobs, None
    <3>3. Queued(j) = {}
      BY <3>1 DEF PoolInv, QueueHolds, Queued
    <3>4. Cardinality(Queued(j)) = 0 /\ Cardinality(Held(j)) = 1
      BY <3>2, <3>3, FS_Singleton, FS_EmptySet
    <3> QED
      BY <3>4
  <2> QED
    BY <1>2, <2>1, <2>2 DEF PoolInv, JobsAccounted
<1> QED
  BY <1>1, <1>2 DEF EachJobOnce, PoolInv, JobsAccounted

\* For any number of clients, workers and jobs the state of a pool is well
\* formed, and an accepted job stands in one place and is started once
\* (enqueueWorkerJob, workerLoop).
THEOREM PoolIsWellFormed == PoolSpec => []PoolWellFormed
<1>1. PoolInv => PoolWellFormed
  BY EachJobHasOnePlace DEF PoolInv, PoolWellFormed
<1> QED
  BY <1>1, PoolHolds, PTL

\* When destroyWorkerPoolInternal has returned normally, every worker has ended
\* and every accepted job is settled.
THEOREM DestructionDrains == PoolSpec => []DestroyedMeansDrained
<1>1. PoolInv => DestroyedMeansDrained
  <2> SUFFICES ASSUME PoolInv, stopping, ~registered
               PROVE  /\ \A w \in Workers : workerPc[w] = "ended"
                      /\ \A j \in accepted : JobSettled(j)
    BY DEF DestroyedMeansDrained
  <2>1. 1 \in Workers
    BY PoolAssumption DEF Workers
  <2>2. \A w \in Workers : workerPc[w] = "ended"
    BY <2>1 DEF PoolInv, PoolIsKnown
  <2>3. queue = <<>> /\ \A w \in Workers : workerJob[w] = None
    BY <2>1, <2>2 DEF PoolInv, EndsAreFinal, WorkersHold, Holding
  <2>4. ASSUME NEW j \in accepted PROVE JobSettled(j)
    BY <2>3 DEF PoolInv, PoolTypeOK, JobsAccounted, Jobs, None
  <2> QED
    BY <2>2, <2>4
<1> QED
  BY <1>1, PoolHolds, PTL
=============================================================================
