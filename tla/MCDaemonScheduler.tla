--------------------------- MODULE MCDaemonScheduler ---------------------------
(***************************************************************************)
(* The daemons and the statistics of the job system on small instances: a  *)
(* behaviour is about one of them.                                         *)
(***************************************************************************)
EXTENDS DaemonScheduler

CONSTANTS d1, d2, w1, w2
CONSTANTS Background, Pinned, Capacity, MaxBurst, MaxWaits      \* Monitor

VARIABLES
    subject,   \* what the behaviour is about
    jobs, where, wake_mutex, activity, reports, stats, executed, main, burst, waits

monitor_vars == <<jobs, where, wake_mutex, activity, reports, stats, executed, main, burst, waits>>
all_vars == <<subject, vars, monitor_vars>>

(* One daemon without a limit, one that runs twice.                        *)
Ttls == [d \in Daemons |-> IF d = d1 THEN 0 ELSE 2]

M == INSTANCE Monitor

MCInit == subject \in {"daemon", "monitor"} /\ Init /\ M!Init

MCNext ==
    \/ subject = "daemon" /\ Next /\ UNCHANGED <<subject, monitor_vars>>
    \/ subject = "monitor" /\ M!Next /\ UNCHANGED <<subject, vars>>

(* The fairness of either specification, for its own behaviours.           *)
MCFairness ==
    /\ \A w \in Workers : WF_vars(subject = "daemon" /\ WorkerStep(w))
    /\ WF_vars(subject = "daemon" /\ (BeginUpdate \/ UpdateStep))
    /\ WF_monitor_vars(subject = "monitor" /\ M!EndWait)
    /\ WF_monitor_vars(subject = "monitor" /\ M!Shutdown)
    /\ \A w \in Background : WF_monitor_vars(subject = "monitor" /\ M!WorkerStep(w))

MCSpec == MCInit /\ [][MCNext]_all_vars /\ MCFairness

-----------------------------------------------------------------------------
(* Every job a thread executed is counted once.                            *)
JobsCounted == M!JobsCounted
(* Every wait() and shutdown() ends although the queue of reports is       *)
(* bounded.                                                                *)
WaitsEnd == M!WaitsEnd
=============================================================================
