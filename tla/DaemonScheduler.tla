---------------------------- MODULE DaemonScheduler ----------------------------
(***************************************************************************)
(* kb::th::DaemonScheduler (source/kibble/thread/job/daemon.cpp): jobs     *)
(* that are kept alive and scheduled again and again by update(), on the   *)
(* main thread, while worker threads run them.  The workers are those of   *)
(* JobSystem, reduced to the accesses they make to a daemon's job.         *)
(***************************************************************************)
EXTENDS Integers, FiniteSets

CONSTANTS
    Daemons,     \* the daemons the client creates
    Ttl,         \* SchedulingData::ttl of each, 0 for no limit
    Stopping,    \* the daemons whose kernel may return false or throw
    Workers,
    NoDaemon,
    Prompt       \* whether update(), also after kill() or a kernel that ended its daemon,
                 \* and the destructor only meet daemons with no run queued or on a
                 \* worker: a condition on the client, which the code does not check

ASSUME DaemonAssumption ==
    /\ IsFiniteSet(Daemons)
    /\ Ttl \in [Daemons -> Nat]
    /\ Stopping \subseteq Daemons
    /\ NoDaemon \notin Daemons
    /\ IsFiniteSet(Workers)
    /\ Prompt \in BOOLEAN

VARIABLES
    daemons,    \* the keys of daemons_
    created,    \* the handles given out
    ttl,        \* scheduling_data.ttl
    marked,     \* marked_for_deletion
    keepAlive,  \* Job::keep_alive
    jstate,     \* the state of the job
    queued,     \* how many worker queues hold the job
    pending,    \* SharedState::pending
    upc,        \* where the main thread is in update()
    left,       \* the daemons that update() has still to visit
    cur,        \* the daemon it is scheduling
    killList,   \* kill_list_
    wpc, wjob,  \* where each worker is, and its job
    released,   \* history: how often the job was returned to the pool
    runs        \* history: how often the kernel of a daemon with a ttl ran

jobVars    == <<ttl, marked, keepAlive, jstate, queued, pending, released, runs>>
updateVars == <<upc, left, cur, killList>>
workVars   == <<wpc, wjob>>
vars       == <<daemons, created, jobVars, updateVars, workVars>>

JobState == {"Idle", "Pending", "Executing", "Processed"}

(* Some thread will still access the job.                                  *)
InFlight(d) == queued[d] > 0 \/ \E w \in Workers : wjob[w] = d

Init ==
    /\ daemons = {} /\ created = {}
    /\ ttl = Ttl
    /\ marked = [d \in Daemons |-> FALSE]
    /\ keepAlive = [d \in Daemons |-> TRUE]
    /\ jstate = [d \in Daemons |-> "Idle"]
    /\ queued = [d \in Daemons |-> 0]
    /\ pending = 0
    /\ upc = "client" /\ left = {} /\ cur = NoDaemon /\ killList = {}
    /\ wpc = [w \in Workers |-> "idle"]
    /\ wjob = [w \in Workers |-> NoDaemon]
    /\ released = [d \in Daemons |-> 0]
    /\ runs = [d \in Daemons |-> 0]

-----------------------------------------------------------------------------
(* The calls of the client.                                                *)
Create(d) ==
    /\ upc = "client"
    /\ d \notin created
    /\ created' = created \union {d}
    /\ daemons' = daemons \union {d}
    /\ UNCHANGED <<jobVars, updateVars, workVars>>

Kill(d) ==
    /\ upc = "client"
    /\ d \in daemons
    /\ marked' = [marked EXCEPT ![d] = TRUE]
    /\ UNCHANGED <<daemons, created, ttl, keepAlive, jstate, queued, pending, released, runs, updateVars, workVars>>

BeginUpdate ==
    /\ upc = "client"
    /\ upc' = "visit"
    /\ left' = daemons
    /\ UNCHANGED <<daemons, created, jobVars, cur, killList, workVars>>

(* A daemon that is marked goes back to the pool.                          *)
(* Mutant: it is erased only.                                              *)
VisitMarkedErase(d) ==
    /\ upc = "visit"
    /\ d \in left
    /\ marked[d]
    /\ Prompt => ~InFlight(d)
    /\ killList' = killList \union {d}
    /\ left' = left \ {d}
    /\ UNCHANGED <<daemons, created, jobVars, upc, cur, workVars>>

VisitMarked(d) ==
    /\ upc = "visit"
    /\ d \in left
    /\ marked[d]
    /\ Prompt => ~InFlight(d)
    /\ jstate' = [jstate EXCEPT ![d] = "Processed"]
    /\ released' = [released EXCEPT ![d] = @ + 1]
    /\ killList' = killList \union {d}
    /\ left' = left \ {d}
    /\ UNCHANGED <<daemons, created, ttl, marked, keepAlive, queued, pending, runs,
                   upc, cur, workVars>>

(* The cooldown has not run out.                                           *)
VisitEarly(d) ==
    /\ upc = "visit"
    /\ d \in left
    /\ ~marked[d]
    /\ left' = left \ {d}
    /\ UNCHANGED <<daemons, created, jobVars, upc, cur, killList, workVars>>

(* It has; the job of the last run of a ttl is left to the worker to       *)
(* release.  Mutants: the worker is not told; the ttl is not counted down. *)
KeepAliveAlways(d) == TRUE
KeepAlive(d)       == ttl[d] # 1
TtlUncounted(d)    == ttl[d]
TtlLeft(d)         == IF ttl[d] > 0 THEN ttl[d] - 1 ELSE 0

VisitDue(d) ==
    /\ upc = "visit"
    /\ d \in left
    /\ ~marked[d]
    /\ Prompt => ~InFlight(d)
    /\ ttl' = [ttl EXCEPT ![d] = TtlLeft(d)]
    /\ keepAlive' = [keepAlive EXCEPT ![d] = @ /\ KeepAlive(d)]
    /\ killList' = IF ttl[d] > 0 /\ TtlLeft(d) = 0 THEN killList \union {d} ELSE killList
    /\ left' = left \ {d}
    /\ cur' = d
    /\ upc' = "reset"
    /\ UNCHANGED <<daemons, created, marked, jstate, queued, pending, released, runs,
                   workVars>>

Reset ==
    /\ upc = "reset"
    /\ jstate' = [jstate EXCEPT ![cur] = "Idle"]
    /\ upc' = "schedule"
    /\ UNCHANGED <<daemons, created, ttl, marked, keepAlive, queued, pending, released, runs, left, cur, killList, workVars>>

(* try_schedule(job, 1).  Mutant: the job is pushed without a count.       *)
ScheduleUncounted ==
    /\ upc = "schedule"
    /\ jstate' = [jstate EXCEPT ![cur] = "Pending"]
    /\ queued' = [queued EXCEPT ![cur] = @ + 1]
    /\ upc' = "visit"
    /\ cur' = NoDaemon
    /\ UNCHANGED <<daemons, created, ttl, marked, keepAlive, pending, released, runs,
                   left, killList, workVars>>

Schedule ==
    /\ upc = "schedule"
    /\ IF jstate[cur] = "Idle"
       THEN /\ jstate' = [jstate EXCEPT ![cur] = "Pending"]
            /\ pending' = pending + 1
            /\ queued' = [queued EXCEPT ![cur] = @ + 1]
       ELSE UNCHANGED <<jstate, pending, queued>>
    /\ upc' = "visit"
    /\ cur' = NoDaemon
    /\ UNCHANGED <<daemons, created, ttl, marked, keepAlive, released, runs,
                   left, killList, workVars>>

(* Mutant: the kill list is not emptied into the map.                      *)
CleanupForgotten ==
    /\ upc = "visit" /\ left = {}
    /\ killList' = {}
    /\ upc' = "client"
    /\ UNCHANGED <<daemons, created, jobVars, left, cur, workVars>>

Cleanup ==
    /\ upc = "visit" /\ left = {}
    /\ daemons' = daemons \ killList
    /\ killList' = {}
    /\ upc' = "client"
    /\ UNCHANGED <<created, jobVars, left, cur, workVars>>

(* ~DaemonScheduler                                                        *)
Destroy ==
    /\ upc = "client"
    /\ Prompt => \A d \in daemons : ~InFlight(d)
    /\ jstate' = [d \in Daemons |-> IF d \in daemons THEN "Processed" ELSE jstate[d]]
    /\ released' = [d \in Daemons |-> IF d \in daemons THEN released[d] + 1 ELSE released[d]]
    /\ daemons' = {}
    /\ upc' = "destroyed"
    /\ UNCHANGED <<created, ttl, marked, keepAlive, queued, pending, runs,
                   left, cur, killList, workVars>>

-----------------------------------------------------------------------------
(* A worker: get_job, the exchange that claims the job, process().         *)
WorkerGoto(w, l) == wpc' = [wpc EXCEPT ![w] = l]

Pop(w, d) ==
    /\ wpc[w] = "idle"
    /\ queued[d] > 0
    /\ queued' = [queued EXCEPT ![d] = @ - 1]
    /\ wjob' = [wjob EXCEPT ![w] = d]
    /\ WorkerGoto(w, "claim")
    /\ UNCHANGED <<daemons, created, ttl, marked, keepAlive, jstate, pending, released, runs, updateVars>>

Claim(w) ==
    /\ wpc[w] = "claim"
    /\ IF jstate[wjob[w]] = "Pending"
       THEN /\ jstate' = [jstate EXCEPT ![wjob[w]] = "Executing"]
            /\ WorkerGoto(w, "kernel")
            /\ UNCHANGED wjob
       ELSE /\ WorkerGoto(w, "idle")
            /\ wjob' = [wjob EXCEPT ![w] = NoDaemon]
            /\ UNCHANGED jstate
    /\ UNCHANGED <<daemons, created, ttl, marked, keepAlive, queued, pending, released, runs, updateVars>>

(* The kernel wrapper marks a daemon that wants to stop.                   *)
KernelReturns(w, stop) ==
    LET d == wjob[w]
    IN  /\ wpc[w] = "kernel"
        /\ stop => d \in Stopping
        /\ marked' = [marked EXCEPT ![d] = @ \/ stop]
        /\ runs' = [runs EXCEPT ![d] = IF Ttl[d] > 0 THEN @ + 1 ELSE @]
        /\ WorkerGoto(w, "exchange")
        /\ UNCHANGED <<daemons, created, ttl, keepAlive, jstate, queued, pending, released,
                       updateVars, wjob>>

ExchangeProcessed(w) ==
    /\ wpc[w] = "exchange"
    /\ jstate' = IF jstate[wjob[w]] = "Executing"
                 THEN [jstate EXCEPT ![wjob[w]] = "Processed"] ELSE jstate
    /\ WorkerGoto(w, "finish")
    /\ UNCHANGED <<daemons, created, ttl, marked, keepAlive, queued, pending, released, runs, updateVars, wjob>>

Finish(w) ==
    /\ wpc[w] = "finish"
    /\ released' = [released EXCEPT ![wjob[w]] = IF keepAlive[wjob[w]] THEN @ ELSE @ + 1]
    /\ wjob' = [wjob EXCEPT ![w] = NoDaemon]
    /\ WorkerGoto(w, "unpend")
    /\ UNCHANGED <<daemons, created, ttl, marked, keepAlive, jstate, queued, pending, runs, updateVars>>

Unpend(w) ==
    /\ wpc[w] = "unpend"
    /\ pending' = pending - 1
    /\ WorkerGoto(w, "idle")
    /\ UNCHANGED <<daemons, created, ttl, marked, keepAlive, jstate, queued, released, runs, updateVars, wjob>>

WorkerStep(w) ==
    \/ \E d \in Daemons : Pop(w, d)
    \/ Claim(w)
    \/ \E stop \in BOOLEAN : KernelReturns(w, stop)
    \/ ExchangeProcessed(w) \/ Finish(w) \/ Unpend(w)

Visit == \E d \in Daemons : VisitMarked(d) \/ VisitEarly(d) \/ VisitDue(d)
UpdateStep == Visit \/ Reset \/ Schedule \/ Cleanup

Next ==
    \/ \E d \in Daemons : Create(d) \/ Kill(d)
    \/ BeginUpdate \/ UpdateStep
    \/ Destroy
    \/ \E w \in Workers : WorkerStep(w)
    \/ upc = "destroyed" /\ UNCHANGED vars

Spec == Init /\ [][Next]_vars

(* The threads run, kernels return, and the client calls update()          *)
(* regularly, as daemon.h asks.                                            *)
FairSpec ==
    /\ Spec
    /\ \A w \in Workers : WF_vars(WorkerStep(w))
    /\ WF_vars(BeginUpdate \/ UpdateStep)
-----------------------------------------------------------------------------
(* Properties.                                                             *)

(* Every variable keeps its type; a worker has a job exactly while it      *)
(* processes one.                                                          *)
TypeOK ==
    /\ daemons \subseteq created /\ created \subseteq Daemons
    /\ ttl \in [Daemons -> Nat]
    /\ marked \in [Daemons -> BOOLEAN] /\ keepAlive \in [Daemons -> BOOLEAN]
    /\ jstate \in [Daemons -> JobState]
    /\ queued \in [Daemons -> Nat]
    /\ pending \in Nat
    /\ upc \in {"client", "visit", "reset", "schedule", "destroyed"}
    /\ left \subseteq daemons /\ killList \subseteq daemons
    /\ cur \in Daemons \union {NoDaemon}
    /\ wjob \in [Workers -> Daemons \union {NoDaemon}]
    /\ \A w \in Workers :
        wjob[w] # NoDaemon <=> wpc[w] \in {"claim", "kernel", "exchange", "finish"}

(* The job of a daemon goes back to the pool once, and when no thread uses *)
(* it any more: by update() after kill(), by update() after the kernel     *)
(* asked to stop, by the worker after the last run of its ttl, or by the   *)
(* destructor; never by two of them.                                       *)
ReleasedOnce ==
    \A d \in Daemons : released[d] <= 1 /\ (released[d] = 1 => ~InFlight(d))

(* No daemon is forgotten: when it is gone from the map and its last run   *)
(* is over, its job is back in the pool.                                   *)
NoLeak == \A d \in created \ daemons : ~InFlight(d) => released[d] = 1

(* A daemon with a ttl runs that often, unless it is killed, asks to stop  *)
(* or the scheduler is destroyed before.                                   *)
TtlKept ==
    \A d \in Daemons : Ttl[d] > 0 =>
        /\ runs[d] <= Ttl[d]
        /\ (d \in created \ daemons /\ ~InFlight(d) /\ ~marked[d] /\ upc # "destroyed")
              => runs[d] = Ttl[d]

(* The counter that wait() looks at counts the runs in progress: it is     *)
(* zero when no worker has anything to do.                                 *)
PendingMatches ==
    ((\A d \in Daemons : queued[d] = 0) /\ (\A w \in Workers : wpc[w] = "idle")) => pending = 0

(* Every daemon and every run of it is accounted for.                      *)
DaemonsAccounted == ReleasedOnce /\ NoLeak /\ TtlKept /\ PendingMatches

(* A daemon that was killed, or asked to stop, is released by one of the   *)
(* next calls of update() (daemon.h:41).                                   *)
MarkedIsReleased ==
    \A d \in Daemons : (marked[d] /\ d \in daemons) ~> released[d] > 0

-----------------------------------------------------------------------------
(* The inductive invariant of DaemonsAccounted, when Prompt holds.         *)

(* The daemon that update() is about to schedule is idle.                  *)
Updating ==
    /\ upc \in {"client", "destroyed"} => left = {} /\ killList = {}
    /\ upc = "destroyed" => daemons = {}
    /\ upc \in {"reset", "schedule"} =>
           cur \in daemons /\ cur \notin left /\ ~InFlight(cur) /\ ~marked[cur]
    /\ upc \notin {"reset", "schedule"} => cur = NoDaemon
    /\ upc = "schedule" => jstate[cur] = "Idle"
    /\ left \intersect killList = {}

(* A job is in one queue or with one worker, in the state that lets it be  *)
(* claimed and processed there.                                            *)
OneFlight(d) ==
    /\ queued[d] <= 1
    /\ queued[d] = 1 => jstate[d] = "Pending" /\ \A w \in Workers : wjob[w] # d
    /\ \A v, w \in Workers : wjob[v] = d /\ wjob[w] = d => v = w
    /\ \A w \in Workers : wjob[w] = d /\ wpc[w] = "claim" => jstate[d] = "Pending"

(* The ttl is used up, and the worker is told so.                          *)
Spent(d) == Ttl[d] > 0 /\ ttl[d] = 0

(* A daemon that is to go or has gone is released, or its last run is on   *)
(* its way to a worker that will release it; any other is not released.    *)
Gone(d) == d \in killList \union (created \ daemons)
Fate(d) ==
    /\ keepAlive[d] <=> ~Spent(d)
    /\ ~Gone(d) => released[d] = 0 /\ ~Spent(d)
    /\ Gone(d) =>
        \/ released[d] = 1 /\ ~InFlight(d) /\ cur # d
        \/ released[d] = 0 /\ Spent(d) /\ (cur = d \/ InFlight(d))
    /\ Gone(d) /\ upc # "destroyed" => marked[d] \/ Spent(d)

(* What the ttl has lost is the runs, with the one that is due.            *)
RunDue(d) ==
    \/ cur = d \/ queued[d] > 0
    \/ \E w \in Workers : wjob[w] = d /\ wpc[w] \in {"claim", "kernel"}
RunsCounted(d) ==
    /\ ttl[d] <= Ttl[d]
    /\ Ttl[d] > 0 => runs[d] + ttl[d] = IF RunDue(d) THEN Ttl[d] - 1 ELSE Ttl[d]

(* pending counts the jobs in the queues and the workers that have one.    *)
PendingCounted ==
    pending = Cardinality({d \in Daemons : queued[d] > 0})
                + Cardinality({w \in Workers : wpc[w] # "idle"})

Inv ==
    /\ TypeOK
    /\ wpc \in [Workers -> {"idle", "claim", "kernel", "exchange", "finish", "unpend"}]
    /\ released \in [Daemons -> Nat] /\ runs \in [Daemons -> Nat]
    /\ Updating
    /\ \A d \in Daemons : OneFlight(d) /\ Fate(d) /\ RunsCounted(d)
    /\ PendingCounted

-----------------------------------------------------------------------------
(* Statements of the repository that the code does not keep.               *)

(* daemon.cpp:113: when update() releases the job of a marked daemon, the  *)
(* job is not scheduled.                                                   *)
MarkedIsNotScheduled ==
    [][\A d \in Daemons : (upc = "visit" /\ released'[d] > released[d] /\ wpc' = wpc) => ~InFlight(d)]_vars
=============================================================================
