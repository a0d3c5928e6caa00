----------------------------- MODULE WorkerPool -----------------------------
(***************************************************************************)
(* A worker pool of the thread library (src/src/thread_native.cpp): VM     *)
(* threads (Clients) create the pool, enqueue jobs, wait for jobs and      *)
(* destroy the pool while the Workers take jobs from its queue.            *)
(*                                                                         *)
(* One action per critical section: what a thread does under pool->mutex,  *)
(* job->mutex or g_workersMutex, and each notify, which the code issues    *)
(* after it has released the mutex.  Pools share nothing but the job and   *)
(* pool tables, so one pool is enough.  What a job does (read a file,      *)
(* write a file, fetch a URL) is abstracted to its success or failure.     *)
(***************************************************************************)
EXTENDS Naturals, Sequences, FiniteSets

CONSTANTS
    Clients,      \* VM threads that know the pool
    WorkerCount,  \* size of pool->threads
    MaxJobs       \* bound: jobs ever registered

ASSUME PoolAssumption ==
    /\ WorkerCount \in Nat \ {0}
    /\ MaxJobs \in Nat
    /\ 0 \notin Clients

Jobs == 1 .. MaxJobs
Workers == 1 .. WorkerCount
None == 0

VARIABLES
    registered,   \* the pool stands in g_pools
    stopping,     \* pool->stopping
    queue,        \* pool->queue, as job ids
    nextJob,      \* g_nextJobId
    jobState,     \* WorkerJob::state, by id
    workerPc,     \* where a worker is in workerLoop
    workerJob,    \* the job a worker has taken
    clientPc,     \* where a client is
    clientJob,    \* the job a client enqueues or waits for
    joinIndex,    \* the thread a destroying client has come to
    joiner,       \* the client inside thread.join(), by worker
    joined,       \* workers that are no longer joinable
    accepted,     \* history: jobs whose id was or will be returned
    runs,         \* history: how often a worker has started a job
    crashed       \* two threads joined one std::thread and the program died

allPoolVars == <<registered, stopping, queue, nextJob, jobState, workerPc, workerJob,
          clientPc, clientJob, joinIndex, joiner, joined, accepted, runs, crashed>>
poolVars   == <<registered, stopping, queue>>
jobVars    == <<nextJob, jobState, accepted, runs>>
workerVars == <<workerPc, workerJob>>
clientVars == <<clientPc, clientJob>>
joinVars   == <<joinIndex, joiner, joined, crashed>>

JobSettled(j) == jobState[j] \in {"COMPLETED", "FAILED"}

PoolTypeOK ==
    /\ registered \in BOOLEAN
    /\ stopping \in BOOLEAN
    /\ queue \in Seq(Jobs)
    /\ nextJob \in 1 .. MaxJobs + 1
    /\ jobState \in [Jobs -> {"MISSING", "QUEUED", "RUNNING", "COMPLETED", "FAILED"}]
    /\ workerPc \in [Workers -> {"unborn", "check", "asleep", "took", "running",
                                 "announce", "ended"}]
    /\ workerJob \in [Workers -> Jobs \cup {None}]
    /\ clientPc \in [Clients -> {"idle", "register", "push", "notify", "stop",
                                 "notifyAll", "join", "joining", "asleep", "woken"}]
    /\ clientJob \in [Clients -> Jobs \cup {None}]
    /\ joinIndex \in [Clients -> Workers \cup {WorkerCount + 1}]
    /\ joiner \in [Workers -> Clients \cup {None}]
    /\ joined \in SUBSET Workers
    /\ accepted \in SUBSET Jobs
    /\ runs \in [Jobs -> 0 .. 2]
    /\ crashed \in BOOLEAN

PoolInit ==
    /\ registered = FALSE
    /\ stopping = FALSE
    /\ queue = <<>>
    /\ nextJob = 1
    /\ jobState = [j \in Jobs |-> "MISSING"]
    /\ workerPc = [w \in Workers |-> "unborn"]
    /\ workerJob = [w \in Workers |-> None]
    /\ clientPc = [c \in Clients |-> "idle"]
    /\ clientJob = [c \in Clients |-> None]
    /\ joinIndex = [c \in Clients |-> 1]
    /\ joiner = [w \in Workers |-> None]
    /\ joined = {}
    /\ accepted = {}
    /\ runs = [j \in Jobs |-> 0]
    /\ crashed = FALSE

ClientGoTo(c, from, to) ==
    /\ ~crashed
    /\ clientPc[c] = from
    /\ clientPc' = [clientPc EXCEPT ![c] = to]

-----------------------------------------------------------------------------
(* Clients                                                                 *)

\* threadWorkerPoolCreate: nobody knows the id before the call returns.
CreatePool(c) ==
    /\ ClientGoTo(c, "idle", "idle")
    /\ \A w \in Workers : workerPc[w] = "unborn"
    /\ registered' = TRUE
    /\ workerPc' = [w \in Workers |-> "check"]
    /\ UNCHANGED <<stopping, queue, jobVars, workerJob, clientJob, joinVars>>

\* getWorkerPool finds the pool, for a new job or for the destruction.  (If it
\* does not, the native fails or returns false and nothing changes.)
Lookup(c) ==
    /\ registered
    /\ ClientGoTo(c, "idle", "register") \/ ClientGoTo(c, "idle", "stop")
    /\ UNCHANGED <<poolVars, jobVars, workerVars, clientJob, joinVars>>

\* enqueueWorkerJob, under g_workersMutex
Register(c) ==
    /\ ClientGoTo(c, "register", "push")
    /\ nextJob \in Jobs
    /\ nextJob' = nextJob + 1
    /\ jobState' = [jobState EXCEPT ![nextJob] = "QUEUED"]
    /\ clientJob' = [clientJob EXCEPT ![c] = nextJob]
    /\ UNCHANGED <<poolVars, accepted, runs, workerVars, joinVars>>

\* Mutant: the test of stopping before the push is missing.
MutPush(c) ==
    /\ ClientGoTo(c, "push", "notify")
    /\ queue' = Append(queue, clientJob[c])
    /\ accepted' = accepted \cup {clientJob[c]}
    /\ UNCHANGED <<registered, stopping, nextJob, jobState, runs, workerVars,
                   clientJob, joinVars>>

\* enqueueWorkerJob, under pool->mutex
Push(c) ==
    /\ ClientGoTo(c, "push", "notify")
    /\ ~stopping
    /\ queue' = Append(queue, clientJob[c])
    /\ accepted' = accepted \cup {clientJob[c]}
    /\ UNCHANGED <<registered, stopping, nextJob, jobState, runs, workerVars,
                   clientJob, joinVars>>

\* "Worker pool is stopping": the call fails, the job stays in g_jobs.
PushRefused(c) ==
    /\ ClientGoTo(c, "push", "idle")
    /\ stopping
    /\ UNCHANGED <<poolVars, jobVars, workerVars, clientJob, joinVars>>

\* pool->cv.notify_one(), and the id is returned
NotifyOneWorker(c) ==
    /\ ClientGoTo(c, "notify", "idle")
    /\ \/ /\ \A w \in Workers : workerPc[w] # "asleep"
          /\ UNCHANGED workerPc
       \/ \E w \in Workers :
             /\ workerPc[w] = "asleep"
             /\ workerPc' = [workerPc EXCEPT ![w] = "check"]
    /\ UNCHANGED <<poolVars, jobVars, workerJob, clientJob, joinVars>>

\* threadWorkerWait on a job that has not settled.  (On a settled one it
\* returns at once.)
Wait(c) ==
    /\ ClientGoTo(c, "idle", "asleep")
    /\ \E j \in accepted :
          /\ ~JobSettled(j)
          /\ clientJob' = [clientJob EXCEPT ![c] = j]
    /\ UNCHANGED <<poolVars, jobVars, workerVars, joinVars>>

\* The waiter has been notified, or woke up for no reason, and looks again.
WaitAgain(c) ==
    /\ ClientGoTo(c, "woken", "asleep")
    /\ ~JobSettled(clientJob[c])
    /\ UNCHANGED <<poolVars, jobVars, workerVars, clientJob, joinVars>>

WaitReturn(c) ==
    /\ ClientGoTo(c, "woken", "idle")
    /\ JobSettled(clientJob[c])
    /\ UNCHANGED <<poolVars, jobVars, workerVars, clientJob, joinVars>>

\* destroyWorkerPoolInternal, under pool->mutex
Stop(c) ==
    /\ ClientGoTo(c, "stop", "notifyAll")
    /\ stopping' = TRUE
    /\ UNCHANGED <<registered, queue, jobVars, workerVars, clientJob, joinVars>>

NotifyAllWorkers(c) ==
    /\ ClientGoTo(c, "notifyAll", "join")
    /\ workerPc' = [w \in Workers |-> IF workerPc[w] = "asleep" THEN "check"
                                      ELSE workerPc[w]]
    /\ joinIndex' = [joinIndex EXCEPT ![c] = 1]
    /\ UNCHANGED <<poolVars, jobVars, workerJob, clientJob, joiner, joined, crashed>>

\* The next thread is still joinable: join() it, or pass over it if it is not.
JoinBegin(c) ==
    /\ ClientGoTo(c, "join", "joining")
    /\ joinIndex[c] \in Workers \ joined
    /\ joiner[joinIndex[c]] = None
    /\ joiner' = [joiner EXCEPT ![joinIndex[c]] = c]
    /\ UNCHANGED <<poolVars, jobVars, workerVars, clientJob, joinIndex, joined, crashed>>

JoinSkip(c) ==
    /\ ClientGoTo(c, "join", "join")
    /\ joinIndex[c] \in joined
    /\ joinIndex' = [joinIndex EXCEPT ![c] = @ + 1]
    /\ UNCHANGED <<poolVars, jobVars, workerVars, clientJob, joiner, joined, crashed>>

JoinReturn(c) ==
    /\ ClientGoTo(c, "joining", "join")
    /\ workerPc[joinIndex[c]] = "ended"
    /\ joined' = joined \cup {joinIndex[c]}
    /\ joiner' = [joiner EXCEPT ![joinIndex[c]] = None]
    /\ joinIndex' = [joinIndex EXCEPT ![c] = @ + 1]
    /\ UNCHANGED <<poolVars, jobVars, workerVars, clientJob, crashed>>

\* Another client is inside join() on the same std::thread, which nothing
\* prevents.  The behaviour is undefined: join() throws std::system_error and
\* the native fails, or the program dies.
JoinTwice(c) ==
    /\ ClientGoTo(c, "join", "idle")
    /\ joinIndex[c] \in Workers
    /\ joiner[joinIndex[c]] # None
    /\ crashed' \in BOOLEAN
    /\ UNCHANGED <<poolVars, jobVars, workerVars, clientJob, joinIndex, joiner, joined>>

\* All threads are joined: g_pools.erase
Erase(c) ==
    /\ ClientGoTo(c, "join", "idle")
    /\ joinIndex[c] = WorkerCount + 1
    /\ registered' = FALSE
    /\ UNCHANGED <<stopping, queue, jobVars, workerVars, clientJob, joinVars>>

-----------------------------------------------------------------------------
(* Workers                                                                 *)

WorkerGoTo(w, from, to) ==
    /\ ~crashed
    /\ workerPc[w] = from
    /\ workerPc' = [workerPc EXCEPT ![w] = to]

\* Mutant: the job is not popped.
MutTakeJob(w) ==
    /\ queue # <<>>
    /\ WorkerGoTo(w, "check", "took")
    /\ workerJob' = [workerJob EXCEPT ![w] = Head(queue)]
    /\ UNCHANGED <<poolVars, jobVars, clientVars, joinVars>>

\* workerLoop, under pool->mutex: take the first job, ...
TakeJob(w) ==
    /\ queue # <<>>
    /\ WorkerGoTo(w, "check", "took")
    /\ queue' = Tail(queue)
    /\ workerJob' = [workerJob EXCEPT ![w] = Head(queue)]
    /\ UNCHANGED <<registered, stopping, jobVars, clientVars, joinVars>>

\* Mutant: a stopping pool ends its workers although jobs are queued.
MutEnd(w) ==
    /\ stopping
    /\ WorkerGoTo(w, "check", "ended")
    /\ UNCHANGED <<poolVars, jobVars, workerJob, clientVars, joinVars>>

\* ... or end when the pool is stopping and drained, ...
End(w) ==
    /\ stopping
    /\ queue = <<>>
    /\ WorkerGoTo(w, "check", "ended")
    /\ UNCHANGED <<poolVars, jobVars, workerJob, clientVars, joinVars>>

\* ... or wait.
WorkerSleep(w) ==
    /\ ~stopping
    /\ queue = <<>>
    /\ WorkerGoTo(w, "check", "asleep")
    /\ UNCHANGED <<poolVars, jobVars, workerJob, clientVars, joinVars>>

\* The closure of enqueueWorkerJob, under job->mutex: before the action, ...
Start(w) ==
    /\ WorkerGoTo(w, "took", "running")
    /\ jobState' = [jobState EXCEPT ![workerJob[w]] = "RUNNING"]
    /\ runs' = [runs EXCEPT ![workerJob[w]] = @ + 1]
    /\ UNCHANGED <<poolVars, nextJob, accepted, workerJob, clientVars, joinVars>>

\* ... after it, ...
FinishJob(w) ==
    /\ WorkerGoTo(w, "running", "announce")
    /\ \E s \in {"COMPLETED", "FAILED"} :
          jobState' = [jobState EXCEPT ![workerJob[w]] = s]
    /\ UNCHANGED <<poolVars, nextJob, accepted, runs, workerJob, clientVars, joinVars>>

\* Mutant: the job's waiters are not notified.
MutAnnounce(w) ==
    /\ WorkerGoTo(w, "announce", "check")
    /\ workerJob' = [workerJob EXCEPT ![w] = None]
    /\ UNCHANGED <<poolVars, jobVars, clientVars, joinVars>>

\* ... and job->cv.notify_all().
Announce(w) ==
    /\ WorkerGoTo(w, "announce", "check")
    /\ workerJob' = [workerJob EXCEPT ![w] = None]
    /\ clientPc' = [c \in Clients |->
                      IF clientPc[c] = "asleep" /\ clientJob[c] = workerJob[w]
                      THEN "woken" ELSE clientPc[c]]
    /\ UNCHANGED <<poolVars, jobVars, clientJob, joinVars>>

\* A condition variable may wake its waiters for no reason.
SpuriousWorker(w) ==
    /\ WorkerGoTo(w, "asleep", "check")
    /\ UNCHANGED <<poolVars, jobVars, workerJob, clientVars, joinVars>>

SpuriousClient(c) ==
    /\ ClientGoTo(c, "asleep", "woken")
    /\ UNCHANGED <<poolVars, jobVars, workerVars, clientJob, joinVars>>

-----------------------------------------------------------------------------
\* What a thread does next without anybody's decision ...
ClientStep(c) ==
    \/ Register(c) \/ Push(c) \/ PushRefused(c) \/ NotifyOneWorker(c) \/ WaitAgain(c)
    \/ WaitReturn(c) \/ Stop(c) \/ NotifyAllWorkers(c) \/ JoinBegin(c) \/ JoinSkip(c)
    \/ JoinReturn(c) \/ JoinTwice(c) \/ Erase(c)
WorkerStep(w) ==
    \/ TakeJob(w) \/ End(w) \/ WorkerSleep(w) \/ Start(w) \/ FinishJob(w) \/ Announce(w)

\* ... and what the script or the operating system decides.
Choice ==
    \/ \E c \in Clients : CreatePool(c) \/ Lookup(c) \/ Wait(c) \/ SpuriousClient(c)
    \/ \E w \in Workers : SpuriousWorker(w)

PoolNext ==
    \/ \E c \in Clients : ClientStep(c)
    \/ \E w \in Workers : WorkerStep(w)
    \/ Choice

\* The operating system runs every thread that can run, and every job ends.
Fairness ==
    /\ \A c \in Clients : WF_allPoolVars(ClientStep(c))
    /\ \A w \in Workers : WF_allPoolVars(WorkerStep(w))

PoolSpec == PoolInit /\ [][PoolNext]_allPoolVars /\ Fairness
-----------------------------------------------------------------------------
(* Properties                                                              *)

Queued(j) == {i \in DOMAIN queue : queue[i] = j}
Held(j) == {w \in Workers : workerJob[w] = j}

\* A job that was accepted is in exactly one place until its end is announced:
\* once in the queue, or with the one worker that runs it.  It is never started
\* twice, and a job whose enqueue failed is never run.
EachJobOnce ==
    /\ \A j \in accepted :
          /\ ~JobSettled(j) => Cardinality(Queued(j)) + Cardinality(Held(j)) = 1
          /\ JobSettled(j) => Queued(j) = {} /\ runs[j] = 1
    /\ \A j \in Jobs \ accepted : runs[j] = 0

\* The state is well formed, and each job stands in one place and runs once.
PoolWellFormed == PoolTypeOK /\ EachJobOnce

\* When a destruction has returned normally, the work of the pool is done: no
\* accepted job is left in the queue or half done, whatever was enqueued while
\* the destruction went on.
DestroyedMeansDrained ==
    (stopping /\ ~registered) =>
        /\ \A w \in Workers : workerPc[w] = "ended"
        /\ \A j \in accepted : JobSettled(j)

\* Every job whose id is returned to the script is settled in the end, also
\* when the pool is destroyed meanwhile, unless the program dies of two joins.
AcceptedJobsSettle ==
    \A j \in Jobs : (j \in accepted) ~> (JobSettled(j) \/ crashed)

\* threadWorkerWait returns.
WaitersReturn ==
    \A c \in Clients : (clientPc[c] \in {"asleep", "woken"}) ~> (clientPc[c] = "idle" \/ crashed)

\* Destruction returns: every worker hears of it and ends.
DestroyReturns ==
    \A c \in Clients : (clientPc[c] = "stop") ~> (clientPc[c] = "idle" \/ crashed)

\* A native that waits for the workers returns to its thread.
CallsReturn == WaitersReturn /\ DestroyReturns
=============================================================================
