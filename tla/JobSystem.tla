------------------------------ MODULE JobSystem ------------------------------
(***************************************************************************)
(* The kibble job system (source/kibble/thread/job): worker threads with   *)
(* a private and a public queue each, work stealing, job graphs, barriers, *)
(* preemption, the sleep / wake protocol and shutdown.                     *)
(*                                                                         *)
(* Thread 0 is the main thread: it runs client code, and work only while   *)
(* it waits (JobSystem::wait_until; the predicate the client may give to   *)
(* wait() is taken to be always true).  Threads 1 .. ThreadCount-1 run     *)
(* WorkerThread::run.  pc[t] is the next shared-memory access of thread t; *)
(* one action is one such access with the local computation around it.     *)
(*                                                                         *)
(* A job is a node of the job pool.  The pool is a FIFO of several         *)
(* thousand nodes, so a released node keeps its content here: "released"   *)
(* says that the node went back to the pool.                               *)
(***************************************************************************)
EXTENDS Integers, Sequences, FiniteSets

CONSTANTS
    Jobs,                 \* the tasks the client creates
    Graphs,               \* the job graphs it may build: functions from a job to its children
    Affinity,             \* Affinity[j]: decoded JobMetadata::worker_affinity
    Spawned,              \* the tasks that are scheduled from inside a kernel
    Preemptible,          \* the tasks the client tries to preempt
    PreemptIdle,          \* whether it also preempts tasks it has not scheduled
    Barriers, NoBarrier,  \* barrier ids and k_no_barrier
    ThreadCount,          \* JobSystem::threads_count_
    MaxStealingAttempts,  \* Config::max_stealing_attempts
    QueueSize,            \* KIBBLE_JOBSYS_JOB_QUEUE_SIZE
    SizeMax,              \* largest size_t / uint64_t
    NoThread, NoJob

Main    == 0
Threads == 0 .. ThreadCount - 1
Workers == 1 .. ThreadCount - 1

AffinityType == [hint : Threads, stealable : BOOLEAN, balance : BOOLEAN]

ASSUME ThreadAssumption ==
    /\ ThreadCount \in Nat
    /\ ThreadCount > 1
    /\ NoThread \notin Threads
    /\ MaxStealingAttempts \in Nat
    /\ QueueSize \in Nat

ASSUME JobAssumption ==
    /\ IsFiniteSet(Jobs)
    /\ NoJob \notin Jobs
    /\ Graphs \subseteq [Jobs -> SUBSET Jobs]
    /\ Affinity \in [Jobs -> AffinityType]
    /\ Spawned \subseteq Jobs
    /\ Preemptible \subseteq Jobs
    /\ PreemptIdle \in BOOLEAN
    /\ NoBarrier \notin Barriers

ASSUME SizeAssumption ==
    /\ SizeMax \in Nat
    /\ \A S \in SUBSET Jobs : Cardinality(S) <= SizeMax

VARIABLES
    children,        \* ProcessNode::out_nodes_
    jstate,          \* ProcessNode::state_
    pendingIn,       \* ProcessNode::pending_in_
    barrierOf,       \* Job::barrier_id
    released,        \* the node was returned to the job pool
    queue,           \* WorkerThread::queues_
    pending,         \* SharedState::pending
    barrierPending,  \* Barrier::pending_
    roundRobin,      \* Scheduler::round_robin_
    stealRobin,      \* WorkerThread::stealing_round_robin_
    mutex,           \* the holder of SharedState::wake_mutex
    terminate,       \* the workers whose should_terminate_ is set
    status,          \* WorkerTerminationStatus of each worker
    pc,              \* where each thread is
    cur,             \* the job a thread popped
    todo,            \* the children of cur still to be signalled
    call,            \* the call of try_schedule in progress
    tries,           \* stealing attempts made
    goal,            \* what the main thread waits for
    joining,         \* the worker the main thread is terminating
    accepted,        \* the jobs handed to schedule() (or preempted), with their descendants
    signalled        \* history: the edges of the graph already signalled

jobVars    == <<children, jstate, pendingIn, barrierOf, released>>
countVars  == <<pending, barrierPending>>
stealVars  == <<stealRobin, tries>>
clientVars == <<goal, joining, accepted>>
shutVars   == <<terminate, status>>

vars == <<jobVars, queue, countVars, roundRobin, stealVars, mutex, shutVars,
          pc, cur, todo, call, clientVars, signalled>>

JobState == {"Idle", "Pending", "Preempted", "Executing", "Processed"}
Status   == {"Unknown", "Normal", "Forceful", "Failed"}
GoalKind == {"none", "all", "shutdown", "barrier", "task"}
NoGoal   == [kind |-> "none", on |-> NoJob]
(* A call of try_schedule: its arguments, and where it was made.           *)
NoCall   == [job |-> NoJob, num |-> 0, ret |-> "client"]
CallPC   == {"client", "kernel", "preempt_kernel", "children"}
CallType == [job : Jobs \union {NoJob}, num : 0 .. SizeMax, ret : CallPC]
PC == {"client", "wait", "idle_notify", "pop_private", "pop_public", "steal",
       "claim", "kernel", "children", "child_ready", "release", "unpend",
       "ts_cas", "ts_count", "ts_dispatch", "ts_notify",
       "preempt_kernel", "preempt_force",
       "top", "lock", "check", "presleep", "asleep", "stopped", "cancelled",
       "term_flag", "term_notify", "term_poll", "term_cancel", "down"}

-----------------------------------------------------------------------------
(* Job graphs, counters and affinities.                                    *)

InNodes(j) == {p \in Jobs : j \in children[p]}

(* The jobs that depth_first_walk marks from j in a graph g: the           *)
(* intersection of the sets that hold j and are closed under children.     *)
Reach(g, j) ==
    {x \in Jobs :
        \A X \in SUBSET Jobs :
            (j \in X /\ \A y \in X : g[y] \subseteq X) => x \in X}
Marked(j) == Reach(children, j)

(* What the counters need from the client and the code does not check: no  *)
(* job lies below two roots (both would count it), and the main thread     *)
(* preempts only what it has itself scheduled, a job whose announcement to *)
(* pending is over.                                                        *)
CarefulClient ==
    /\ ~PreemptIdle
    /\ Spawned \cap Preemptible = {}
    /\ \A g \in Graphs, r, s \in Jobs :
          (r # s /\ \A p \in Jobs : r \notin g[p] /\ s \notin g[p]) =>
              Reach(g, r) \cap Reach(g, s) = {}

(* The number of jobs Task::schedule announces to pending and the barrier. *)
(* Mutants: the graph is not walked; the walk forgets what it has marked.  *)
CountRootOnly(j) == 1
CountPaths(j)    == 1 + Cardinality({e \in Marked(j) \X Marked(j) : e[2] \in children[e[1]]})
NumJobs(j)       == Cardinality(Marked(j))

(* ProcessNode::is_ready.  Mutant: off by one.                             *)
IsReadyEarly(j) == pendingIn[j] <= 1
IsReady(j)      == pendingIn[j] = 0

(* fetch_sub(1) and fetch_add(n) on a size_t.                              *)
FetchSub(n)    == IF n = 0 THEN SizeMax ELSE n - 1
FetchAdd(n, k) == IF n + k > SizeMax THEN n + k - SizeMax - 1 ELSE n + k

(* Scheduler::dispatch, run by thread t: the target thread and the next    *)
(* round robin.  Mutant: the round robin is not wrapped.                   *)
TargetOf(t, j) ==
    LET a == Affinity[j]
    IN  IF a.balance THEN a.hint + (roundRobin[t] % (ThreadCount - a.hint)) ELSE a.hint
RobinUnwrapped(t, j) == IF Affinity[j].balance THEN roundRobin[t] + 1 ELSE roundRobin[t]
NextRobin(t, j) == IF Affinity[j].balance THEN (roundRobin[t] + 1) % ThreadCount ELSE roundRobin[t]
(* WorkerThread::submit.  Mutant: the index of the queue is inverted.      *)
QueueSwapped(j) == IF Affinity[j].stealable THEN "private" ELSE "public"
QueueOf(j) == IF Affinity[j].stealable THEN "public" ELSE "private"

(* stealable_workers_ lists every other thread in increasing order.        *)
Stealable(t, k) == IF k < t THEN k ELSE k + 1

Goto(t, l) == pc' = [pc EXCEPT ![t] = l]
(* cv_wake.notify_all() by thread t, which goes on at l: a sleeping worker *)
(* has to take the mutex again.                                            *)
NotifyAll(t, l) ==
    pc' = [u \in Threads |-> IF u = t THEN l
                             ELSE IF pc[u] = "asleep" THEN "lock" ELSE pc[u]]

(* The top of a thread's loop, and where it goes when get_job fails or the *)
(* job it popped is not its own to run.                                    *)
LoopHead(t) == IF t # Main THEN "top"
               ELSE IF goal = NoGoal THEN "client" ELSE "wait"
NoWork(t)   == IF t = Main THEN "idle_notify" ELSE "lock"
Skip(t)     == IF t = Main THEN "idle_notify" ELSE "top"

-----------------------------------------------------------------------------
Init ==
    /\ children \in Graphs
    /\ jstate         = [j \in Jobs |-> "Idle"]
    /\ pendingIn      = [j \in Jobs |-> Cardinality(InNodes(j))]
    /\ barrierOf      = [j \in Jobs |-> NoBarrier]
    /\ released       = [j \in Jobs |-> FALSE]
    /\ queue          = [t \in Threads |-> [q \in {"public", "private"} |-> <<>>]]
    /\ pending        = 0
    /\ barrierPending = [b \in Barriers |-> 0]
    /\ roundRobin     = [t \in Threads |-> 0]
    /\ stealRobin     = [t \in Threads |-> 0]
    /\ mutex          = NoThread
    /\ terminate      = {}
    /\ status         = [t \in Workers |-> "Unknown"]
    /\ pc             = [t \in Threads |-> IF t = Main THEN "client" ELSE "top"]
    /\ cur            = [t \in Threads |-> NoJob]
    /\ todo           = [t \in Threads |-> {}]
    /\ call           = [t \in Threads |-> NoCall]
    /\ tries          = [t \in Threads |-> 0]
    /\ goal           = NoGoal
    /\ joining        = 1
    /\ accepted       = {}
    /\ signalled      = {}

-----------------------------------------------------------------------------
(* Task::schedule: the barrier is written to the whole graph and told how  *)
(* many jobs to expect.  Called by the client on the main thread, or by a  *)
(* kernel for the tasks in Spawned.                                        *)
Schedule(t, j, b) ==
    /\ \/ pc[t] = "client" /\ j \notin Spawned
       \/ pc[t] \in {"kernel", "preempt_kernel"} /\ j \in Spawned
    /\ InNodes(j) = {}
    /\ j \notin accepted
    /\ accepted' = accepted \union Marked(j)
    /\ barrierOf' = [x \in Jobs |-> IF x \in Marked(j) THEN b ELSE barrierOf[x]]
    /\ barrierPending' = IF b = NoBarrier THEN barrierPending
                         ELSE [barrierPending EXCEPT ![b] = FetchAdd(@, NumJobs(j))]
    /\ call' = [call EXCEPT ![t] = [job |-> j, num |-> NumJobs(j), ret |-> pc[t]]]
    /\ Goto(t, "ts_cas")
    /\ UNCHANGED <<children, jstate, pendingIn, released, queue, pending, roundRobin, stealVars,
                   mutex, shutVars, cur, todo, goal, joining, signalled>>

(* JobSystem::try_schedule, in four shared accesses: the exchange of the   *)
(* state, the addition to pending, the push and the notification.          *)
(* Mutant: the state is stored without looking at the old one.             *)
TryScheduleStore(t) ==
    /\ pc[t] = "ts_cas"
    /\ jstate' = [jstate EXCEPT ![call[t].job] = "Pending"]
    /\ Goto(t, IF call[t].num # 0 THEN "ts_count" ELSE "ts_dispatch")
    /\ UNCHANGED <<children, pendingIn, barrierOf, released, queue, countVars, roundRobin,
                   stealVars, mutex, shutVars, cur, todo, call, clientVars, signalled>>

TryScheduleExchange(t) ==
    /\ pc[t] = "ts_cas"
    /\ IF jstate[call[t].job] = "Idle"
       THEN /\ jstate' = [jstate EXCEPT ![call[t].job] = "Pending"]
            /\ Goto(t, IF call[t].num # 0 THEN "ts_count" ELSE "ts_dispatch")
            /\ UNCHANGED call
       ELSE /\ Goto(t, call[t].ret)
            /\ call' = [call EXCEPT ![t] = NoCall]
            /\ UNCHANGED jstate
    /\ UNCHANGED <<children, pendingIn, barrierOf, released, queue, countVars, roundRobin,
                   stealVars, mutex, shutVars, cur, todo, clientVars, signalled>>

TryScheduleCount(t) ==
    /\ pc[t] = "ts_count"
    /\ pending' = FetchAdd(pending, call[t].num)
    /\ Goto(t, "ts_dispatch")
    /\ UNCHANGED <<jobVars, queue, barrierPending, roundRobin, stealVars, mutex, shutVars,
                   cur, todo, call, clientVars, signalled>>

(* The push spins while the queue is full.                                 *)
Dispatch(t) ==
    LET j == call[t].job
        w == TargetOf(t, j)
        q == QueueOf(j)
    IN  /\ pc[t] = "ts_dispatch"
        /\ Len(queue[w][q]) < QueueSize
        /\ queue' = [queue EXCEPT ![w][q] = Append(@, j)]
        /\ roundRobin' = [roundRobin EXCEPT ![t] = NextRobin(t, j)]
        /\ Goto(t, "ts_notify")
        /\ UNCHANGED <<jobVars, countVars, stealVars, mutex, shutVars, cur, todo, call,
                       clientVars, signalled>>

TryScheduleNotify(t) ==
    /\ pc[t] = "ts_notify"
    /\ NotifyAll(t, call[t].ret)
    /\ call' = [call EXCEPT ![t] = NoCall]
    /\ UNCHANGED <<jobVars, queue, countVars, roundRobin, stealVars, mutex, shutVars, cur, todo,
                   clientVars, signalled>>

-----------------------------------------------------------------------------
(* WorkerThread::get_job: the private queue, the public one, then theft.   *)
PopOwn(t, here, q, otherwise) ==
    /\ pc[t] = here
    /\ IF queue[t][q] # <<>>
       THEN /\ cur' = [cur EXCEPT ![t] = Head(queue[t][q])]
            /\ queue' = [queue EXCEPT ![t][q] = Tail(@)]
            /\ Goto(t, "claim")
       ELSE /\ Goto(t, otherwise)
            /\ UNCHANGED <<cur, queue>>
    /\ UNCHANGED <<jobVars, countVars, roundRobin, stealVars, mutex, shutVars, todo, call,
                   clientVars, signalled>>

PopPrivate(t) == PopOwn(t, "pop_private", "private", "pop_public")
PopPublic(t)  == PopOwn(t, "pop_public", "public", "steal")

(* Mutant: the loop goes on after a successful pop.                        *)
StealAndGoOn(t) ==
    LET v == Stealable(t, stealRobin[t])
    IN  /\ pc[t] = "steal"
        /\ tries[t] < MaxStealingAttempts
        /\ stealRobin' = [stealRobin EXCEPT ![t] = (@ + 1) % (ThreadCount - 1)]
        /\ tries' = [tries EXCEPT ![t] = @ + 1]
        /\ IF queue[v]["public"] # <<>>
           THEN /\ cur' = [cur EXCEPT ![t] = Head(queue[v]["public"])]
                /\ queue' = [queue EXCEPT ![v]["public"] = Tail(@)]
           ELSE UNCHANGED <<cur, queue>>
        /\ UNCHANGED <<jobVars, countVars, roundRobin, mutex, shutVars, pc, todo, call,
                       clientVars, signalled>>

Steal(t) ==
    LET v == Stealable(t, stealRobin[t])
    IN  /\ pc[t] = "steal"
        /\ tries[t] < MaxStealingAttempts
        /\ stealRobin' = [stealRobin EXCEPT ![t] = (@ + 1) % (ThreadCount - 1)]
        /\ IF queue[v]["public"] # <<>>
           THEN /\ cur' = [cur EXCEPT ![t] = Head(queue[v]["public"])]
                /\ queue' = [queue EXCEPT ![v]["public"] = Tail(@)]
                /\ tries' = [tries EXCEPT ![t] = 0]
                /\ Goto(t, "claim")
           ELSE /\ tries' = [tries EXCEPT ![t] = @ + 1]
                /\ UNCHANGED <<cur, queue, pc>>
        /\ UNCHANGED <<jobVars, countVars, roundRobin, mutex, shutVars, todo, call,
                       clientVars, signalled>>

StealFailed(t) ==
    /\ pc[t] = "steal"
    /\ tries[t] = MaxStealingAttempts
    /\ tries' = [tries EXCEPT ![t] = 0]
    /\ Goto(t, NoWork(t))
    /\ UNCHANGED <<jobVars, queue, countVars, roundRobin, stealRobin, mutex, shutVars, cur, todo,
                   call, clientVars, signalled>>

(* run() and foreground_work(): only the thread whose exchange succeeds    *)
(* executes the job, any other outcome drops it.                           *)
(* Mutant: the popped job is executed without an exchange.                 *)
ClaimUnchecked(t) ==
    /\ pc[t] = "claim"
    /\ jstate' = [jstate EXCEPT ![cur[t]] = "Executing"]
    /\ Goto(t, "kernel")
    /\ UNCHANGED <<children, pendingIn, barrierOf, released, queue, countVars, roundRobin,
                   stealVars, mutex, shutVars, cur, todo, call, clientVars, signalled>>

Claim(t) ==
    /\ pc[t] = "claim"
    /\ IF jstate[cur[t]] = "Pending"
       THEN /\ jstate' = [jstate EXCEPT ![cur[t]] = "Executing"]
            /\ Goto(t, "kernel")
            /\ UNCHANGED cur
       ELSE /\ Goto(t, Skip(t))
            /\ cur' = [cur EXCEPT ![t] = NoJob]
            /\ UNCHANGED jstate
    /\ UNCHANGED <<children, pendingIn, barrierOf, released, queue, countVars, roundRobin,
                   stealVars, mutex, shutVars, todo, call, clientVars, signalled>>

-----------------------------------------------------------------------------
(* WorkerThread::process.  The kernel runs while pc[t] = "kernel"; it ends *)
(* with the exchange to Processed, whatever it did (exceptions are caught  *)
(* and stored in the promise).                                             *)
KernelDone(t) ==
    /\ pc[t] = "kernel"
    /\ jstate' = IF jstate[cur[t]] = "Executing"
                 THEN [jstate EXCEPT ![cur[t]] = "Processed"] ELSE jstate
    /\ todo' = [todo EXCEPT ![t] = children[cur[t]]]
    /\ Goto(t, "children")
    /\ UNCHANGED <<children, pendingIn, barrierOf, released, queue, countVars, roundRobin,
                   stealVars, mutex, shutVars, cur, call, clientVars, signalled>>

(* WorkerThread::schedule_children, one child at a time (the order of the  *)
(* children is not kept): the decrement, then the test of is_ready().      *)
SignalChild(t) ==
    /\ pc[t] = "children"
    /\ \E c \in todo[t] :
        /\ pendingIn' = [pendingIn EXCEPT ![c] = FetchSub(@)]
        /\ signalled' = signalled \union {<<cur[t], c>>}
        /\ todo' = [todo EXCEPT ![t] = @ \ {c}]
        /\ call' = [call EXCEPT ![t] = [job |-> c, num |-> 0, ret |-> "children"]]
    /\ Goto(t, "child_ready")
    /\ UNCHANGED <<children, jstate, barrierOf, released, queue, countVars, roundRobin, stealVars,
                   mutex, shutVars, cur, clientVars>>

ChildReady(t) ==
    /\ pc[t] = "child_ready"
    /\ IF IsReady(call[t].job)
       THEN UNCHANGED call /\ Goto(t, "ts_cas")
       ELSE call' = [call EXCEPT ![t] = NoCall] /\ Goto(t, "children")
    /\ UNCHANGED <<jobVars, queue, countVars, roundRobin, stealVars, mutex, shutVars, cur, todo,
                   clientVars, signalled>>

(* Barrier::remove_dependency, if the job has a barrier.                   *)
RemoveDependency(j) ==
    barrierPending' = IF barrierOf[j] = NoBarrier THEN barrierPending
                      ELSE [barrierPending EXCEPT ![barrierOf[j]] = FetchSub(@)]

BarrierDone(t) ==
    /\ pc[t] = "children"
    /\ todo[t] = {}
    /\ RemoveDependency(cur[t])
    /\ Goto(t, "release")
    /\ UNCHANGED <<jobVars, queue, pending, roundRobin, stealVars, mutex, shutVars, cur, todo,
                   call, clientVars, signalled>>

ReleaseJob(t) ==
    /\ pc[t] = "release"
    /\ released' = [released EXCEPT ![cur[t]] = TRUE]
    /\ Goto(t, "unpend")
    /\ UNCHANGED <<children, jstate, pendingIn, barrierOf, queue, countVars, roundRobin, stealVars,
                   mutex, shutVars, cur, todo, call, clientVars, signalled>>

Unpend(t) ==
    /\ pc[t] = "unpend"
    /\ pending' = FetchSub(pending)
    /\ cur' = [cur EXCEPT ![t] = NoJob]
    /\ Goto(t, LoopHead(t))
    /\ UNCHANGED <<jobVars, queue, barrierPending, roundRobin, stealVars, mutex, shutVars, todo,
                   call, clientVars, signalled>>

-----------------------------------------------------------------------------
(* Task::try_preempt_and_execute on the main thread: only singular jobs.   *)
(* The tail of the call is ReleaseJob and Unpend.                          *)
(* Mutant: the set of states it may be taken from has one too many.        *)
PreemptableAny == {"Idle", "Pending", "Executing"}
Preemptable    == {"Idle", "Pending"}

Preempt(j) ==
    /\ pc[Main] = "client"
    /\ j \in Preemptible
    /\ j \in accepted \/ PreemptIdle
    /\ children[j] = {} /\ InNodes(j) = {}
    /\ jstate[j] \in Preemptable
    /\ jstate' = [jstate EXCEPT ![j] = "Preempted"]
    /\ cur' = [cur EXCEPT ![Main] = j]
    /\ accepted' = accepted \union {j}
    /\ Goto(Main, "preempt_kernel")
    /\ UNCHANGED <<children, pendingIn, barrierOf, released, queue, countVars, roundRobin,
                   stealVars, mutex, shutVars, todo, call, goal, joining, signalled>>

PreemptBarrierDone ==
    /\ pc[Main] = "preempt_kernel"
    /\ RemoveDependency(cur[Main])
    /\ Goto(Main, "preempt_force")
    /\ UNCHANGED <<jobVars, queue, pending, roundRobin, stealVars, mutex, shutVars, cur, todo,
                   call, clientVars, signalled>>

PreemptForceState ==
    /\ pc[Main] = "preempt_force"
    /\ jstate' = [jstate EXCEPT ![cur[Main]] = "Processed"]
    /\ Goto(Main, "release")
    /\ UNCHANGED <<children, pendingIn, barrierOf, released, queue, countVars, roundRobin,
                   stealVars, mutex, shutVars, cur, todo, call, clientVars, signalled>>

-----------------------------------------------------------------------------
(* JobSystem::wait_until on the main thread, for wait(), Task::wait,       *)
(* wait_on_barrier and the wait() at the start of shutdown().              *)
(* Mutant: off by one.                                                     *)
StillWaitingForTwo ==
    \/ goal.kind \in {"all", "shutdown"} /\ pending > 1
    \/ goal.kind = "barrier" /\ barrierPending[goal.on] # 0
    \/ goal.kind = "task" /\ jstate[goal.on] # "Processed"

StillWaiting ==
    \/ goal.kind \in {"all", "shutdown"} /\ pending > 0
    \/ goal.kind = "barrier" /\ barrierPending[goal.on] # 0
    \/ goal.kind = "task" /\ jstate[goal.on] # "Processed"

Goals ==
    {[kind |-> k, on |-> NoJob] : k \in {"all", "shutdown"}}
        \union {[kind |-> "barrier", on |-> b] : b \in Barriers}
        \union {[kind |-> "task", on |-> j] : j \in accepted}

(* Mutant: shutdown() does not wait first.                                 *)
BeginWaitNoDrain ==
    /\ pc[Main] = "client"
    /\ \E g \in Goals :
        IF g.kind = "shutdown" THEN goal' = NoGoal /\ Goto(Main, "term_flag")
                               ELSE goal' = g /\ Goto(Main, "wait")
    /\ UNCHANGED <<jobVars, queue, countVars, roundRobin, stealVars, mutex, shutVars, cur, todo,
                   call, joining, accepted, signalled>>

BeginWait ==
    /\ pc[Main] = "client"
    /\ goal' \in Goals
    /\ Goto(Main, "wait")
    /\ UNCHANGED <<jobVars, queue, countVars, roundRobin, stealVars, mutex, shutVars, cur, todo,
                   call, joining, accepted, signalled>>

WaitMore ==
    /\ pc[Main] = "wait"
    /\ StillWaiting
    /\ Goto(Main, "pop_private")
    /\ UNCHANGED <<jobVars, queue, countVars, roundRobin, stealVars, mutex, shutVars, cur, todo,
                   call, clientVars, signalled>>

WaitOver ==
    /\ pc[Main] = "wait"
    /\ ~StillWaiting
    /\ goal' = NoGoal
    /\ Goto(Main, IF goal.kind = "shutdown" THEN "term_flag" ELSE "client")
    /\ UNCHANGED <<jobVars, queue, countVars, roundRobin, stealVars, mutex, shutVars, cur, todo,
                   call, joining, accepted, signalled>>

(* Mutant: the waiting thread does not notify.                             *)
IdleSilently ==
    /\ pc[Main] = "idle_notify"
    /\ Goto(Main, "wait")
    /\ UNCHANGED <<jobVars, queue, countVars, roundRobin, stealVars, mutex, shutVars, cur, todo,
                   call, clientVars, signalled>>

IdleNotify ==
    /\ pc[Main] = "idle_notify"
    /\ NotifyAll(Main, "wait")
    /\ UNCHANGED <<jobVars, queue, countVars, roundRobin, stealVars, mutex, shutVars, cur, todo,
                   call, clientVars, signalled>>

-----------------------------------------------------------------------------
(* WorkerThread::run around get_job: the termination flag at the top, and  *)
(* the wait on cv_wake under wake_mutex.                                   *)
RunTop(t) ==
    /\ pc[t] = "top"
    /\ Goto(t, IF t \in terminate THEN "stopped" ELSE "pop_private")
    /\ UNCHANGED <<jobVars, queue, countVars, roundRobin, stealVars, mutex, shutVars, cur, todo,
                   call, clientVars, signalled>>

LockWakeMutex(t) ==
    /\ pc[t] = "lock"
    /\ mutex = NoThread
    /\ mutex' = t
    /\ Goto(t, "check")
    /\ UNCHANGED <<jobVars, queue, countVars, roundRobin, stealVars, shutVars, cur, todo,
                   call, clientVars, signalled>>

HadPendingJobs(t) == queue[t]["public"] # <<>> \/ queue[t]["private"] # <<>>

WakePredicate(t) == HadPendingJobs(t) \/ t \in terminate

CheckWake(t) ==
    /\ pc[t] = "check"
    /\ IF WakePredicate(t)
       THEN mutex' = NoThread /\ Goto(t, "top")
       ELSE UNCHANGED mutex /\ Goto(t, "presleep")
    /\ UNCHANGED <<jobVars, queue, countVars, roundRobin, stealVars, shutVars, cur, todo,
                   call, clientVars, signalled>>

(* The condition variable unlocks and blocks in one step.                  *)
FallAsleep(t) ==
    /\ pc[t] = "presleep"
    /\ mutex' = NoThread
    /\ Goto(t, "asleep")
    /\ UNCHANGED <<jobVars, queue, countVars, roundRobin, stealVars, shutVars, cur, todo,
                   call, clientVars, signalled>>

SpuriousWake(t) ==
    /\ pc[t] = "asleep"
    /\ Goto(t, "lock")
    /\ UNCHANGED <<jobVars, queue, countVars, roundRobin, stealVars, mutex, shutVars, cur, todo,
                   call, clientVars, signalled>>

-----------------------------------------------------------------------------
(* JobSystem::shutdown after its wait(): terminate_and_join, worker by     *)
(* worker.  try_to_lock may fail, and then nobody is notified.             *)
SetTerminate ==
    /\ pc[Main] = "term_flag"
    /\ terminate' = terminate \union {joining}
    /\ Goto(Main, "term_notify")
    /\ UNCHANGED <<jobVars, queue, countVars, roundRobin, stealVars, mutex, status, cur, todo,
                   call, clientVars, signalled>>

TryLockNotify ==
    /\ pc[Main] = "term_notify"
    /\ IF mutex = NoThread THEN NotifyAll(Main, "term_poll") ELSE Goto(Main, "term_poll")
    /\ UNCHANGED <<jobVars, queue, countVars, roundRobin, stealVars, mutex, shutVars, cur, todo,
                   call, clientVars, signalled>>

Joined(s, workerPC) ==
    /\ status' = [status EXCEPT ![joining] = s]
    /\ pc' = [pc EXCEPT ![Main] = IF joining = ThreadCount - 1 THEN "down" ELSE "term_flag",
                        ![joining] = workerPC]
    /\ joining' = IF joining = ThreadCount - 1 THEN joining ELSE joining + 1
    /\ UNCHANGED <<jobVars, queue, countVars, roundRobin, stealVars, mutex, terminate, cur, todo,
                   call, goal, accepted, signalled>>

Join ==
    /\ pc[Main] = "term_poll"
    /\ pc[joining] = "stopped"
    /\ Joined("Normal", "stopped")

(* Mutant: it polls for ever.                                              *)
JoinForever ==
    /\ pc[Main] = "term_poll"
    /\ pc[joining] # "stopped"
    /\ UNCHANGED vars

JoinTimeout ==
    /\ pc[Main] = "term_poll"
    /\ pc[joining] # "stopped"
    /\ Goto(Main, "term_cancel")
    /\ UNCHANGED <<jobVars, queue, countVars, roundRobin, stealVars, mutex, shutVars, cur, todo,
                   call, clientVars, signalled>>

(* pthread_cancel acts at a cancellation point: here, the wait on cv_wake. *)
CancelJoin ==
    /\ pc[Main] = "term_cancel"
    /\ \/ pc[joining] = "asleep" /\ mutex = NoThread /\ Joined("Forceful", "cancelled")
       \/ pc[joining] = "stopped" /\ Joined("Failed", "stopped")

(* Shut down: nothing is left to do.                                       *)
Down == pc[Main] = "down" /\ UNCHANGED vars

-----------------------------------------------------------------------------
TryScheduleStep(t) ==
    TryScheduleExchange(t) \/ TryScheduleCount(t) \/ Dispatch(t) \/ TryScheduleNotify(t)
GetJobStep(t) == PopPrivate(t) \/ PopPublic(t) \/ Steal(t) \/ StealFailed(t) \/ Claim(t)
ProcessStep(t) ==
    KernelDone(t) \/ SignalChild(t) \/ ChildReady(t) \/ BarrierDone(t) \/ ReleaseJob(t) \/ Unpend(t)
RunStep(t)   == RunTop(t) \/ CheckWake(t) \/ FallAsleep(t)
ThreadStep(t) == TryScheduleStep(t) \/ GetJobStep(t) \/ ProcessStep(t)

PreemptStep  == PreemptBarrierDone \/ PreemptForceState
WaitStep     == WaitMore \/ WaitOver \/ IdleNotify
ShutdownStep == SetTerminate \/ TryLockNotify \/ Join \/ JoinTimeout \/ CancelJoin
MainStep     == PreemptStep \/ WaitStep \/ ShutdownStep

Next ==
    \/ \E t \in Threads : ThreadStep(t)
    \/ \E t \in Threads, j \in Jobs, b \in Barriers \union {NoBarrier} : Schedule(t, j, b)
    \/ \E t \in Workers : RunStep(t) \/ LockWakeMutex(t) \/ SpuriousWake(t)
    \/ \E j \in Jobs : Preempt(j)
    \/ BeginWait
    \/ MainStep
    \/ Down

Spec == Init /\ [][Next]_vars

(* The operating system runs every thread that can run, a kernel returns,  *)
(* and a thread that keeps asking for wake_mutex gets it, a cancelled one  *)
(* included.  The client may stop calling the job system at any time, and  *)
(* nothing makes a spurious wake-up happen.                                *)
Fairness ==
    /\ \A t \in Threads : WF_vars(ThreadStep(t))
    /\ \A t \in Workers : WF_vars(RunStep(t)) /\ SF_vars(LockWakeMutex(t))
    /\ WF_vars(MainStep) /\ SF_vars(CancelJoin)

FairSpec == Spec /\ Fairness

-----------------------------------------------------------------------------
(* Properties.                                                             *)

AllQueued ==
    {j \in Jobs : \E t \in Threads, q \in {"public", "private"} :
                     \E i \in DOMAIN queue[t][q] : queue[t][q][i] = j}

(* Every variable keeps its type; the counters stay in their width and the *)
(* round robins of dispatch and rr_next name existing threads.             *)
TypeOK ==
    /\ children \in [Jobs -> SUBSET Jobs]
    /\ jstate \in [Jobs -> JobState]
    /\ pendingIn \in [Jobs -> 0 .. SizeMax]
    /\ barrierOf \in [Jobs -> Barriers \union {NoBarrier}]
    /\ released \in [Jobs -> BOOLEAN]
    /\ queue \in [Threads -> [{"public", "private"} -> Seq(Jobs)]]
    /\ pending \in 0 .. SizeMax
    /\ barrierPending \in [Barriers -> 0 .. SizeMax]
    /\ roundRobin \in [Threads -> Threads]
    /\ stealRobin \in [Threads -> 0 .. ThreadCount - 2]
    /\ mutex \in Threads \union {NoThread}
    /\ terminate \subseteq Workers
    /\ status \in [Workers -> Status]
    /\ pc \in [Threads -> PC]
    /\ cur \in [Threads -> Jobs \union {NoJob}]
    /\ todo \in [Threads -> SUBSET Jobs]
    /\ call \in [Threads -> CallType]
    /\ tries \in [Threads -> 0 .. MaxStealingAttempts]
    /\ goal \in [kind : GoalKind, on : Jobs \union Barriers \union {NoJob}]
    /\ joining \in Workers
    /\ accepted \subseteq Jobs
    /\ signalled \subseteq Jobs \X Jobs

(* A thread holds a job from the exchange that gives it the job            *)
(* (worker.cpp:118, :250, job_system.cpp:504) to the last access it makes  *)
(* on its behalf.                                                          *)
Holds(t, j) == cur[t] = j /\ j # NoJob /\ pc[t] # "claim"

(* Two threads never process one job, whether they popped it, stole it or  *)
(* preempted it: the exchanges of the job's state exclude one another.     *)
ExclusiveExecution ==
    \A t, u \in Threads, j \in Jobs : Holds(t, j) /\ Holds(u, j) => t = u

(* A kernel does not start before the kernels of all its parents are over: *)
(* the countdown of pending_in_ and the two parents' race in               *)
(* schedule_children never let a child through early.                      *)
DependencyOrder ==
    \A j \in Jobs : jstate[j] \notin {"Idle"} => \A p \in InNodes(j) : jstate[p] = "Processed"

(* A job that try_schedule accepted is never dropped: while it is Pending  *)
(* some thread is carrying it or some queue holds it.                      *)
PendingIsHeld ==
    \A j \in Jobs :
        jstate[j] = "Pending" =>
            \/ j \in AllQueued
            \/ \E t \in Threads : \/ call[t].job = j /\ pc[t] \in {"ts_count", "ts_dispatch"}
                                  \/ cur[t] = j /\ pc[t] = "claim"

(* The steps of a job's state.                                             *)
LifeStep(j) ==
    \/ jstate'[j] = jstate[j]
    \/ <<jstate[j], jstate'[j]>> \in
          {<<"Idle", "Pending">>, <<"Idle", "Preempted">>, <<"Pending", "Preempted">>,
           <<"Pending", "Executing">>, <<"Executing", "Processed">>,
           <<"Preempted", "Processed">>}

(* The life cycle of JobState: a job goes once through                     *)
(* Idle, Pending, then Executing or Preempted, then Processed; nothing     *)
(* takes a job out of another thread's hands or starts it again.           *)
LifeCycle == [][\A j \in Jobs : LifeStep(j)]_vars

(* What wait() relies on (comment above is_busy): when pending is zero and *)
(* the main thread looks at it, every job handed over, and every           *)
(* descendant and spawned job, is finished and back in the pool.           *)
WaitSound ==
    (pc[Main] = "wait" /\ pending = 0) => \A j \in accepted : released[j]

(* The other half of that comment: once everything handed over is          *)
(* finished and no thread is in the middle of a call, pending is zero, so  *)
(* that a wait() can return.                                               *)
PendingDrains ==
    ( /\ \A j \in accepted : released[j]
      /\ \A t \in Threads : cur[t] = NoJob /\ call[t] = NoCall )
        => pending = 0

(* pending counts what is handed over and not finished: no job is lost on  *)
(* the way to a thread, and wait() returns when it may and not before.     *)
PendingSound == PendingIsHeld /\ WaitSound /\ PendingDrains

(* No counter ever wraps below zero or counts more than was handed over.   *)
CountersBounded ==
    /\ pending <= Cardinality(accepted)
    /\ \A b \in Barriers : barrierPending[b] <= Cardinality({j \in accepted : barrierOf[j] = b})

(* A finished barrier (Barrier::finished) has no job left whose kernel is  *)
(* still to run or running.                                                *)
BarrierSound ==
    \A b \in Barriers : barrierPending[b] = 0 =>
        \A j \in accepted : barrierOf[j] = b =>
            jstate[j] = "Processed" \/ (pc[Main] = "preempt_force" /\ cur[Main] = j)

(* Work stealing does not break affinity: a job that may not be stolen     *)
(* runs on the thread of its hint, or on one at or above the hint when it  *)
(* is balanced.                                                            *)
AffinityRespected ==
    \A t \in Threads : (pc[t] = "kernel" /\ ~Affinity[cur[t]].stealable) =>
        IF Affinity[cur[t]].balance THEN t >= Affinity[cur[t]].hint ELSE t = Affinity[cur[t]].hint

(* After shutdown() no thread runs, wake_mutex is free and no job that was *)
(* handed over is left behind.                                             *)
DownQuiescent ==
    pc[Main] = "down" =>
        /\ \A w \in Workers : pc[w] \in {"stopped", "cancelled"}
        /\ mutex = NoThread
        /\ \A j \in accepted : released[j]

(* The counters can be relied on: they never wrap, a finished barrier      *)
(* means finished kernels, and shutdown() leaves nothing behind.           *)
CountersSound == CountersBounded /\ BarrierSound /\ DownQuiescent

(* Every wait of the main thread ends: jobs in the queue of a sleeping     *)
(* worker are not forgotten, because the waiting thread keeps notifying.   *)
WaitTerminates == goal # NoGoal ~> goal = NoGoal

(* shutdown() ends although the notification of terminate_and_join can be  *)
(* lost: the timeout and the cancellation see to it.                       *)
ShutdownTerminates == goal.kind = "shutdown" ~> pc[Main] = "down"

(* The job system keeps the promises of TaskGraph.  An accepted job is one *)
(* below a scheduled root; a kernel runs while the state is Executing or   *)
(* Preempted.                                                              *)
PhaseOf(j) == CASE jstate[j] = "Processed"                -> "done"
                [] jstate[j] \in {"Executing", "Preempted"} -> "running"
                [] OTHER -> IF j \in accepted THEN "accepted" ELSE "new"

Shutting == {"term_flag", "term_notify", "term_poll", "term_cancel", "down"}

Promise == INSTANCE TaskGraph WITH
    Groups  <- Barriers, NoGroup <- NoBarrier, NoTask <- NoJob,
    phase   <- [j \in Jobs |-> PhaseOf(j)],
    group   <- barrierOf,
    client  <- IF pc[Main] \in Shutting THEN [kind |-> "closed", on |-> NoJob] ELSE goal

ImplementsTaskGraph == Promise!Spec

-----------------------------------------------------------------------------
(* Statements of the repository that the code does not keep.               *)

(* job_system.h:251: a job goes back to the pool once the code is done     *)
(* with it.  No thread is about to read or write a job of the pool.        *)
NoUseAfterRelease ==
    \A t \in Threads :
        /\ pc[t] \in {"child_ready", "ts_cas"} => ~released[call[t].job]
        /\ pc[t] = "claim" => ~released[cur[t]]

(* worker.cpp:133: a worker does not go to sleep with a non-empty queue,   *)
(* unless a notification is on its way.                                    *)
NoSleepOnWork ==
    \A w \in Workers : (pc[w] = "asleep" /\ HadPendingJobs(w)) =>
        \E t \in Threads : pc[t] \in {"ts_notify", "idle_notify"}
=============================================================================
