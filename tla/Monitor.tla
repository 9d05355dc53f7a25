------------------------------- MODULE Monitor -------------------------------
(***************************************************************************)
(* The statistics of the job system (thread/job/impl/monitor.cpp): every   *)
(* thread counts what it does in its WorkerActivity; a worker hands it in  *)
(* each time it wakes up, the main thread each time a wait() ends, through *)
(* a queue of fixed size that only the end of a wait() empties.            *)
(*                                                                         *)
(* Jobs are numbers in the queues of the workers; how they get there, and  *)
(* how notifications are lost, is the subject of JobSystem.                *)
(***************************************************************************)
EXTENDS Integers, Sequences, FiniteSets, SequencesExt

CONSTANTS
    Background,   \* the background workers
    Pinned,       \* those whose jobs are forced on them: nobody steals these
    Capacity,     \* KIBBLE_JOBSYS_STATS_QUEUE_SIZE
    MaxBurst,     \* jobs the client schedules between two waits
    MaxWaits      \* bound: how often the client waits

VARIABLES
    jobs,        \* how many jobs the queue of each worker holds
    where,       \* where each worker is in run()
    wake_mutex,  \* who holds SharedState::wake_mutex
    activity,    \* jobs each thread has executed since its last report
    reports,     \* activity_queue_
    stats,       \* stats_: the jobs counted for each thread
    executed,    \* the jobs each thread has executed
    main,        \* where the main thread is
    burst,       \* jobs scheduled since the last wait
    waits        \* waits that have ended

vars == <<jobs, where, wake_mutex, activity, reports, stats, executed, main, burst, waits>>

All == Background \union {"main"}
free == "free"
Terminating == main = "join"
zero == [t \in All |-> 0]

Init ==
    /\ jobs = [w \in Background |-> 0] /\ where = [w \in Background |-> "run"]
    /\ wake_mutex = free
    /\ activity = zero /\ stats = zero /\ executed = zero
    /\ reports = <<>> /\ main = "client" /\ burst = 0 /\ waits = 0

-----------------------------------------------------------------------------
(* The threads.                                                            *)

process(t) ==
    /\ activity' = [activity EXCEPT ![t] = @ + 1]
    /\ executed' = [executed EXCEPT ![t] = @ + 1]

Work(w) ==
    /\ where[w] = "run" /\ ~Terminating /\ jobs[w] > 0
    /\ jobs' = [jobs EXCEPT ![w] = @ - 1]
    /\ process(w)
    /\ UNCHANGED <<where, wake_mutex, reports, stats, main, burst, waits>>

Sleep(w) ==
    /\ where[w] = "run" /\ ~Terminating /\ jobs[w] = 0 /\ wake_mutex = free
    /\ where' = [where EXCEPT ![w] = "asleep"]
    /\ UNCHANGED <<jobs, wake_mutex, activity, reports, stats, executed, main, burst, waits>>

\* The predicate holds; the worker owns the mutex again until its report is
\* in the queue.
Wake(w) ==
    /\ where[w] = "asleep" /\ (jobs[w] > 0 \/ Terminating) /\ wake_mutex = free
    /\ where' = [where EXCEPT ![w] = "report"] /\ wake_mutex' = w
    /\ UNCHANGED <<jobs, activity, reports, stats, executed, main, burst, waits>>

\* MUTANT: the counters are not reset.
report_thread_activity_kept(t) ==
    /\ Len(reports) < Capacity
    /\ reports' = Append(reports, [tid |-> t, executed |-> activity[t]])
    /\ UNCHANGED activity

\* push() of a full queue spins.
report_thread_activity(t) ==
    /\ Len(reports) < Capacity
    /\ reports' = Append(reports, [tid |-> t, executed |-> activity[t]])
    /\ activity' = [activity EXCEPT ![t] = 0]

Report(w) ==
    /\ where[w] = "report"
    /\ report_thread_activity(w)
    /\ where' = [where EXCEPT ![w] = "run"] /\ wake_mutex' = free
    /\ UNCHANGED <<jobs, stats, executed, main, burst, waits>>

\* The loop of run() ends before the worker has slept again: what it did since
\* its last report is in no statistics.
Stop(w) ==
    /\ where[w] = "run" /\ Terminating
    /\ where' = [where EXCEPT ![w] = "stopped"]
    /\ UNCHANGED <<jobs, wake_mutex, activity, reports, stats, executed, main, burst, waits>>

-----------------------------------------------------------------------------
(* The main thread.                                                        *)

Schedule(w) ==
    /\ main = "client" /\ burst < MaxBurst
    /\ jobs' = [jobs EXCEPT ![w] = @ + 1] /\ burst' = burst + 1
    /\ UNCHANGED <<where, wake_mutex, activity, reports, stats, executed, main, waits>>

\* wait(), or the one shutdown() begins with
BeginWait ==
    /\ main = "client"
    /\ \/ waits < MaxWaits /\ main' = "wait"
       \/ main' = "shutdown"
    /\ UNCHANGED <<jobs, where, wake_mutex, activity, reports, stats, executed, burst, waits>>

foreground_work(w) ==
    /\ main \in {"wait", "shutdown"} /\ w \notin Pinned /\ jobs[w] > 0
    /\ jobs' = [jobs EXCEPT ![w] = @ - 1]
    /\ process("main")
    /\ UNCHANGED <<where, wake_mutex, reports, stats, main, burst, waits>>

update_statistics(queue) ==
    [t \in All |-> FoldLeft(LAMBDA n, r : IF r.tid = t THEN n + r.executed ELSE n, stats[t], queue)]

\* MUTANT: wait() reports but does not empty the queue.
EndWaitKeeping ==
    /\ main \in {"wait", "shutdown"} /\ \A w \in Background : jobs[w] = 0
    /\ report_thread_activity("main")
    /\ burst' = 0
    /\ IF main = "wait" THEN main' = "client" /\ waits' = waits + 1 ELSE main' = "join" /\ UNCHANGED waits
    /\ UNCHANGED <<jobs, where, wake_mutex, stats, executed>>

\* Nothing is pending: the main thread pushes its own report, which needs room
\* as well, and pops whatever the queue holds.
EndWait ==
    /\ main \in {"wait", "shutdown"} /\ \A w \in Background : jobs[w] = 0
    /\ Len(reports) < Capacity
    /\ stats' = update_statistics(Append(reports, [tid |-> "main", executed |-> activity["main"]]))
    /\ reports' = <<>>
    /\ activity' = [activity EXCEPT !["main"] = 0]
    /\ burst' = 0
    /\ IF main = "wait" THEN main' = "client" /\ waits' = waits + 1 ELSE main' = "join" /\ UNCHANGED waits
    /\ UNCHANGED <<jobs, where, wake_mutex, executed>>

\* terminate_and_join() of every worker, and the last update
Shutdown ==
    /\ main = "join" /\ \A w \in Background : where[w] = "stopped"
    /\ stats' = update_statistics(reports)
    /\ reports' = <<>> /\ main' = "down"
    /\ UNCHANGED <<jobs, where, wake_mutex, activity, executed, burst, waits>>

-----------------------------------------------------------------------------
WorkerStep(w) == Work(w) \/ Sleep(w) \/ Wake(w) \/ Report(w) \/ Stop(w)

Next ==
    \/ \E w \in Background : WorkerStep(w) \/ Schedule(w) \/ foreground_work(w)
    \/ BeginWait \/ EndWait \/ Shutdown

\* The threads run.
Fairness ==
    /\ WF_vars(EndWait) /\ WF_vars(Shutdown)
    /\ \A w \in Background : WF_vars(WorkerStep(w))

Spec == Init /\ [][Next]_vars /\ Fairness

-----------------------------------------------------------------------------
(* Every job a thread executed is counted once: in the statistics, in a    *)
(* report on its way, or in the counters of the thread.                    *)
Reported(t) == FoldLeft(LAMBDA n, r : IF r.tid = t THEN n + r.executed ELSE n, 0, reports)
JobsCounted == \A t \in All : stats[t] + Reported(t) + activity[t] = executed[t]

(* Every wait() and shutdown() ends, as long as the client waits before    *)
(* its bursts can fill the queue of reports: a full one stops the worker   *)
(* that holds wake_mutex, and the end of wait() itself.                    *)
WaitsEnd ==
    /\ main = "wait" ~> main = "client"
    /\ main = "shutdown" ~> main = "down"
=============================================================================
