-------------------------------- MODULE UMake --------------------------------
(***************************************************************************)
(* UMake's executors (src/src/umake.cpp): executeTarget, which builds one  *)
(* target at a time along its recursion, and executeTargetParallel, which  *)
(* first walks the graph in the same manner and then runs the targets in   *)
(* detached threads from a queue.                                          *)
(*                                                                         *)
(* The recursion is a stack of targets, each with the position of its next *)
(* dependency.  The dispatching loop holds the mutex from its beginning to *)
(* its wait, so each round of it is one step; jobs take it at their end.   *)
(***************************************************************************)
EXTENDS Naturals, Sequences, FiniteSets, SequencesExt

CONSTANTS
    Targets,        \* of the UMake file
    Unknown,        \* a name no target has
    Goal,           \* the target of the command line, or the default one
    Graphs,         \* bound: the dependencies of the targets, name by name
    MaxCommands,    \* bound: commands of a target
    MaxJobs         \* bound: of -j

Names == Targets \cup {Unknown}

ASSUME UMakeAssumption ==
    /\ IsFiniteSet(Targets)
    /\ Unknown \notin Targets
    /\ Goal \in Targets
    /\ Graphs \subseteq [Targets -> Seq(Names)]
    /\ MaxCommands \in Nat
    /\ MaxJobs \in Nat \ {0}

VARIABLES
    deps,       \* target.dependencies
    goal,       \* selectedTarget
    jobs,       \* g_umakeJobs
    pc,         \* of the thread of the call
    stack,      \* of its recursion; the targets on it are "visiting"
    visited,    \* "completed" of executeTarget, "reachable" of the other
    job,        \* of each target, where its commands are
    ran,        \* how many of them have run
    inDegree, readyQueue, runningTasks, completedTasks,
    failed, exitCode,
    notified,   \* cv was notified since the thread of the call waits for it
    starts,     \* history: how often a target was begun
    result      \* what runUMakeTarget returned

graph == <<deps, goal, jobs>>
walk  == <<stack, visited>>
table == <<inDegree, readyQueue, runningTasks, completedTasks>>
vars  == <<graph, pc, walk, job, ran, table, failed, exitCode, notified, starts, result>>

Failures == {"command", "expansion", "cycle", "unknown"}
Active == {"working", "command", "complete", "cut", "failing"}
Ended  == {"built", "dropped", "broken"}
ActiveJobs == {t \in Targets : job[t] \in Active}

Frame(t) == [target |-> t, next |-> 1]
Elements(s) == {s[i] : i \in DOMAIN s}
Visiting == {stack[i].target : i \in DOMAIN stack}
Top == stack[Len(stack)]
Occurrences(d, t) == Cardinality({i \in DOMAIN deps[t] : deps[t][i] = d})

TypeOK ==
    /\ deps \in Graphs
    /\ goal \in Names
    /\ jobs \in 1 .. MaxJobs
    /\ pc \in {"begin", "visit", "commands", "loop", "wait", "drain", "return", "done"}
    /\ stack \in Seq([target : Targets, next : Nat])
    /\ visited \in SUBSET Targets
    /\ job \in [Targets -> {"none"} \cup Active \cup Ended]
    /\ ran \in [Targets -> 0 .. MaxCommands]
    /\ inDegree \in [Targets -> Nat]
    /\ readyQueue \in Seq(Targets)
    /\ runningTasks \in 0 .. jobs
    /\ completedTasks \in 0 .. Cardinality(visited)
    /\ failed \in BOOLEAN
    /\ exitCode \in {"ok"} \cup Failures
    /\ notified \in BOOLEAN
    /\ starts \in [Targets -> Nat]
    /\ result \in {"none", "ok"} \cup Failures

Init ==
    /\ deps \in Graphs
    /\ goal \in {Goal, Unknown}
    /\ jobs \in 1 .. MaxJobs
    /\ pc = "begin"
    /\ stack = <<>> /\ visited = {}
    /\ job = [t \in Targets |-> "none"]
    /\ ran = [t \in Targets |-> 0]
    /\ inDegree = [t \in Targets |-> 0]
    /\ readyQueue = <<>> /\ runningTasks = 0 /\ completedTasks = 0
    /\ failed = FALSE /\ exitCode = "ok"
    /\ notified = FALSE
    /\ starts = [t \in Targets |-> 0]
    /\ result = "none"

-----------------------------------------------------------------------------
(* The recursion                                                           *)

\* The call ends with the exit code c.
Leave(c) ==
    /\ pc' = "return"
    /\ exitCode' = c

\* executeTarget(n) or dfs(n), from a caller whose stack is s.
Enter(n, s) ==
    \/ /\ n \in visited
       /\ stack' = s
       /\ pc' = "visit"
       /\ UNCHANGED exitCode
    \/ /\ n = Unknown
       /\ stack' = s
       /\ Leave("unknown")
    \/ /\ n \in Visiting
       /\ stack' = s
       /\ Leave("cycle")
    \/ /\ n \in Targets \ (visited \cup Visiting)
       /\ stack' = Append(s, Frame(n))
       /\ pc' = "visit"
       /\ UNCHANGED exitCode

Walked == UNCHANGED <<graph, visited, job, ran, table, failed, notified, starts, result>>

Begin ==
    /\ pc = "begin"
    /\ Enter(goal, <<>>)
    /\ Walked

NextDependency ==
    /\ pc = "visit"
    /\ stack # <<>>
    /\ Top.next <= Len(deps[Top.target])
    /\ Enter(deps[Top.target][Top.next],
             [stack EXCEPT ![Len(stack)].next = @ + 1])
    /\ Walked

\* Mutant: a target is begun before its dependencies have been seen.
MutAllVisited == pc = "visit" /\ stack # <<>>

AllVisited == pc = "visit" /\ stack # <<>> /\ Top.next > Len(deps[Top.target])

\* dfs returns; after the outermost return, the tables are set up.  The order
\* of the first targets in the queue is that of a hash table.
Reached ==
    /\ AllVisited
    /\ jobs > 1
    /\ visited' = visited \cup {Top.target}
    /\ stack' = Front(stack)
    /\ IF stack' # <<>>
       THEN UNCHANGED <<pc, inDegree, readyQueue>>
       ELSE /\ pc' = "loop"
            /\ inDegree' = [t \in Targets |-> IF t \in visited' THEN Len(deps[t]) ELSE 0]
            /\ readyQueue' \in SetToSeqs({t \in visited' : deps[t] = <<>>})
    /\ UNCHANGED <<graph, job, ran, runningTasks, completedTasks, failed, exitCode,
                   notified, starts, result>>

-----------------------------------------------------------------------------
(* The commands of a target, in the recursion or in a thread               *)

\* The targets S are begun.
Begun(S) ==
    /\ job' = [t \in Targets |-> IF t \in S THEN "working" ELSE job[t]]
    /\ starts' = [t \in Targets |-> IF t \in S THEN starts[t] + 1 ELSE starts[t]]

\* The test before the next command, if there is one: another job failed ...
BeforeCommand(t) ==
    /\ job[t] = "working"
    /\ \/ job' = [job EXCEPT ![t] = "complete"]
       \/ /\ ran[t] < MaxCommands
          /\ job' = [job EXCEPT ![t] = IF failed THEN "cut" ELSE "command"]
    /\ UNCHANGED <<graph, pc, walk, ran, table, failed, exitCode, notified, starts, result>>

\* ... and the command, which succeeds or whose failure is ignored, or fails.
Command(t) ==
    /\ job[t] = "command"
    /\ ran' = [ran EXCEPT ![t] = @ + 1]
    /\ \E s \in {"working", "failing"} : job' = [job EXCEPT ![t] = s]
    /\ UNCHANGED <<graph, pc, walk, table, failed, exitCode, notified, starts, result>>

\* What failed: an expansion or a command.
Reasons == {"expansion", "command"}

-----------------------------------------------------------------------------
(* One target at a time                                                    *)

BeginCommands ==
    /\ AllVisited
    /\ jobs = 1
    /\ Begun({Top.target})
    /\ pc' = "commands"
    /\ UNCHANGED <<graph, walk, ran, table, failed, exitCode, notified, result>>

Completed ==
    /\ pc = "commands"
    /\ job[Top.target] = "complete"
    /\ job' = [job EXCEPT ![Top.target] = "built"]
    /\ visited' = visited \cup {Top.target}
    /\ stack' = Front(stack)
    /\ pc' = IF stack' = <<>> THEN "return" ELSE "visit"
    /\ UNCHANGED <<graph, ran, table, failed, exitCode, notified, starts, result>>

CommandFailed ==
    /\ pc = "commands"
    /\ job[Top.target] = "failing"
    /\ job' = [job EXCEPT ![Top.target] = "broken"]
    /\ \E c \in Reasons : Leave(c)
    /\ UNCHANGED <<graph, walk, ran, table, failed, notified, starts, result>>

-----------------------------------------------------------------------------
(* Several at once                                                         *)

Room == jobs - runningTasks

LoopOver == completedTasks = Cardinality(visited) \/ failed

\* A round of the loop: nothing more to begin, wait for the jobs under way ...
Drain ==
    /\ pc = "loop"
    /\ LoopOver
    /\ pc' = "drain"
    /\ notified' = (runningTasks = 0)
    /\ UNCHANGED <<graph, walk, job, ran, table, failed, exitCode, starts, result>>

\* ... or begin as many as there is room for, and wait for an end.
Dispatch ==
    LET n == IF Len(readyQueue) < Room THEN Len(readyQueue) ELSE Room
    IN  /\ pc = "loop"
        /\ ~LoopOver
        /\ Begun(Elements(SubSeq(readyQueue, 1, n)))
        /\ readyQueue' = SubSeq(readyQueue, n + 1, Len(readyQueue))
        /\ runningTasks' = runningTasks + n
        /\ pc' = "wait"
        /\ notified' = FALSE
        /\ UNCHANGED <<graph, walk, ran, inDegree, completedTasks, failed, exitCode, result>>

Woken ==
    /\ pc = "wait"
    /\ notified
    /\ pc' = "loop"
    /\ UNCHANGED <<graph, walk, job, ran, table, failed, exitCode, notified, starts, result>>

\* Spurious wake-up: the loop has no condition to test but its own.
Spurious ==
    /\ pc = "wait"
    /\ pc' = "loop"
    /\ UNCHANGED <<graph, walk, job, ran, table, failed, exitCode, notified, starts, result>>

\* Mutant: the loop does not wait for the last jobs.
MutDrained == pc = "drain"

Drained == pc = "drain" /\ notified /\ runningTasks = 0

DrainEnd ==
    /\ Drained
    /\ pc' = "return"
    /\ UNCHANGED <<graph, walk, job, ran, table, failed, exitCode, notified, starts, result>>

\* Mutant: a failed job does not notify.
MutNotify(t) == notified' = (notified \/ job[t] # "failing")

Notify(t) == notified' = TRUE

NowReady(t) == {u \in visited : Occurrences(t, u) > 0 /\ inDegree'[u] = 0}

\* The end of a job that ran all its commands, or was cut short by the failure
\* of another: counted as completed either way.
JobDone(t) ==
    /\ jobs > 1
    /\ job[t] \in {"complete", "cut"}
    /\ job' = [job EXCEPT ![t] = IF @ = "cut" THEN "dropped" ELSE "built"]
    /\ completedTasks' = completedTasks + 1
    /\ inDegree' = [u \in Targets |-> IF u \in visited THEN inDegree[u] - Occurrences(t, u)
                                      ELSE inDegree[u]]
    /\ \E q \in SetToSeqs(NowReady(t)) : readyQueue' = readyQueue \o q
    /\ runningTasks' = runningTasks - 1
    /\ Notify(t)
    /\ UNCHANGED <<graph, pc, walk, ran, failed, exitCode, starts, result>>

\* The first failure to be recorded is the one that is reported.
JobFailed(t) ==
    /\ jobs > 1
    /\ job[t] = "failing"
    /\ job' = [job EXCEPT ![t] = "broken"]
    /\ failed' = TRUE
    /\ \E c \in Reasons : exitCode' = IF exitCode = "ok" THEN c ELSE exitCode
    /\ runningTasks' = runningTasks - 1
    /\ Notify(t)
    /\ UNCHANGED <<graph, pc, walk, ran, inDegree, readyQueue, completedTasks, starts, result>>

-----------------------------------------------------------------------------

Return ==
    /\ pc = "return"
    /\ pc' = "done"
    /\ result' = exitCode
    /\ UNCHANGED <<graph, walk, job, ran, table, failed, exitCode, notified, starts>>

\* The thread of the call
Call ==
    \/ Begin \/ NextDependency \/ Reached
    \/ BeginCommands \/ Completed \/ CommandFailed
    \/ Drain \/ Dispatch \/ Woken \/ DrainEnd
    \/ Return

Job(t) == BeforeCommand(t) \/ Command(t) \/ JobDone(t) \/ JobFailed(t)

Next == Call \/ Spurious \/ \E t \in Targets : Job(t)

\* Threads go on, and every command ends.
Fairness == WF_vars(Call) /\ \A t \in Targets : WF_vars(Job(t))

Spec == Init /\ [][Next]_vars /\ Fairness
-----------------------------------------------------------------------------
(* Properties                                                              *)

\* The state is well formed; at most jobs commands run at once, and runningTasks
\* is the number of jobs whose threads will still touch the variables of the
\* call: none is left when it returns; a target is begun once, also when it is
\* listed twice among the dependencies of another or stands below several.
WellFormed ==
    /\ TypeOK
    /\ Cardinality(ActiveJobs) <= jobs
    /\ jobs > 1 => runningTasks = Cardinality(ActiveJobs)
    /\ pc \in {"return", "done"} => ActiveJobs = {}
    /\ \A t \in Targets : starts[t] <= 1

\* The call returns.
Returns == <>(pc = "done")

Status(t) ==
    CASE job[t] = "none"   -> "untouched"
      [] job[t] \in Active -> "building"
      [] job[t] \in Ended  -> job[t]

Abstract == INSTANCE Build WITH
    needs  <- [t \in Targets |-> Elements(deps[t])],
    status <- [t \in Targets |-> Status(t)]

\* Both executors build as module Build says: in order, nothing after a failure
\* has been recorded, nothing that is not wanted, and with an honest result.
ImplementsBuild == Abstract!Spec
=============================================================================
