--------------------------- MODULE JobSystemProofs ---------------------------
(***************************************************************************)
(* Proofs about JobSystem, for any number of threads and jobs and any job  *)
(* graph: type correctness, exclusive execution, the order of dependencies *)
(* and the life cycle of a job; then, for every careful client, waits,     *)
(* barriers, shutdown and the refinement of TaskGraph.                     *)
(***************************************************************************)
EXTENDS JobSystem, FiniteSetTheorems, TLAPS

(* Where a thread stands in the code that called try_schedule.             *)
TrySchedulePC == {"ts_cas", "ts_count", "ts_dispatch", "ts_notify"}
At(t) == IF pc[t] \in TrySchedulePC THEN call[t].ret ELSE pc[t]

FinishPC == {"children", "child_ready", "release", "unpend"}
WorkPC   == {"claim", "kernel", "preempt_kernel", "preempt_force"} \union FinishPC

(* A thread has a job in hand exactly when it stands in process(), in      *)
(* try_preempt_and_execute or just after get_job; a call of try_schedule   *)
(* has an argument.                                                        *)
LocalOK ==
    \A t \in Threads :
        /\ cur[t] # NoJob <=> At(t) \in WorkPC
        /\ pc[t] \in TrySchedulePC \union {"child_ready"} => call[t].job \in Jobs
        /\ pc[t] = "child_ready" => call[t].ret = "children"

(* The state of the job a thread works on says how far the thread is.      *)
OwnerOK ==
    \A t \in Threads :
        /\ At(t) = "kernel" => jstate[cur[t]] = "Executing"
        /\ At(t) \in {"preempt_kernel", "preempt_force"} => jstate[cur[t]] = "Preempted"
        /\ At(t) \in FinishPC => jstate[cur[t]] = "Processed"

(* Only finished jobs have signalled, along edges of the graph.            *)
EdgesOK ==
    \A p, c \in Jobs : <<p, c>> \in signalled => c \in children[p] /\ jstate[p] = "Processed"

(* The children a thread has left to signal have not been signalled.       *)
TodoOK ==
    \A t \in Threads, c \in Jobs :
        (At(t) \in {"children", "child_ready"} /\ c \in todo[t]) =>
            c \in children[cur[t]] /\ <<cur[t], c>> \notin signalled

(* pending_in_ counts the edges that are still to be signalled.            *)
Unsignalled(c) == {p \in InNodes(c) : <<p, c>> \notin signalled}
CountOK == \A c \in Jobs : pendingIn[c] = Cardinality(Unsignalled(c))

(* A job that is about to be scheduled has no edge left to be signalled.   *)
ReadyOK == \A t \in Threads : pc[t] = "ts_cas" => Unsignalled(call[t].job) = {}

Inv ==
    /\ TypeOK
    /\ LocalOK
    /\ OwnerOK
    /\ ExclusiveExecution
    /\ EdgesOK
    /\ TodoOK
    /\ CountOK
    /\ ReadyOK
    /\ DependencyOrder

-----------------------------------------------------------------------------
(* Facts about the constants and the counters.                             *)

(* Main and the workers are threads.                                       *)
LEMMA ThreadFacts ==
    /\ Main \in Threads
    /\ Workers \subseteq Threads
    /\ 1 \in Workers
BY ThreadAssumption DEF Main, Threads, Workers

(* The remainder of a division lies below the divisor: what rr_next and    *)
(* dispatch index with.                                                    *)
LEMMA ModRange ==
    ASSUME NEW a \in Nat, NEW b \in Nat, b > 0
    PROVE  a % b \in 0 .. b - 1
OBVIOUS

(* The number of jobs of a set fits a counter.                             *)
LEMMA CountType ==
    ASSUME NEW S \in SUBSET Jobs
    PROVE  IsFiniteSet(S) /\ Cardinality(S) \in 0 .. SizeMax
<1>1. IsFiniteSet(S)
  BY JobAssumption, FS_Subset
<1>2. Cardinality(S) \in Nat
  BY <1>1, FS_CardinalityType
<1>. QED
  BY <1>1, <1>2, SizeAssumption

(* The counters stay in their width.                                       *)
LEMMA FetchType ==
    ASSUME NEW n \in 0 .. SizeMax, NEW k \in 0 .. SizeMax
    PROVE  FetchSub(n) \in 0 .. SizeMax /\ FetchAdd(n, k) \in 0 .. SizeMax
BY SizeAssumption DEF FetchSub, FetchAdd

(* A call of try_schedule returns to a place its thread has.               *)
LEMMA CallFacts ==
    /\ NoCall \in CallType
    /\ \A c \in CallType : c.job \in Jobs \union {NoJob} /\ c.ret \in CallPC /\ c.ret \in PC
BY SizeAssumption DEF CallType, NoCall, CallPC, PC

(* dispatch chooses an existing thread and queue, and leaves a valid round *)
(* robin.                                                                  *)
LEMMA DispatchType ==
    ASSUME TypeOK, NEW t \in Threads, NEW j \in Jobs
    PROVE  /\ TargetOf(t, j) \in Threads
           /\ NextRobin(t, j) \in Threads
           /\ QueueOf(j) \in {"public", "private"}
<1>1. /\ roundRobin[t] \in Threads
      /\ Affinity[j] \in AffinityType
  BY JobAssumption DEF TypeOK
<1>2. /\ roundRobin[t] \in Nat
      /\ Affinity[j].hint \in 0 .. ThreadCount - 1
      /\ ThreadCount \in Nat
  BY <1>1, ThreadAssumption DEF AffinityType, Threads
<1>3. roundRobin[t] % (ThreadCount - Affinity[j].hint) \in 0 .. (ThreadCount - Affinity[j].hint) - 1
  BY <1>2, ModRange
<1>4. (roundRobin[t] + 1) % ThreadCount \in 0 .. ThreadCount - 1
  BY <1>2, ThreadAssumption, ModRange
<1>5. TargetOf(t, j) \in Threads
  BY <1>2, <1>3 DEF TargetOf, Threads
<1>6. NextRobin(t, j) \in Threads
  BY <1>1, <1>4 DEF NextRobin, Threads
<1>. QED
  BY <1>5, <1>6 DEF QueueOf

(* rr_next names another thread.                                           *)
LEMMA StealRange ==
    ASSUME NEW t \in Threads, NEW k \in 0 .. ThreadCount - 2
    PROVE  /\ (k + 1) % (ThreadCount - 1) \in 0 .. ThreadCount - 2
           /\ Stealable(t, k) \in Threads
<1>1. k + 1 \in Nat /\ ThreadCount - 1 \in Nat /\ ThreadCount - 1 > 0
  BY ThreadAssumption
<1>2. (k + 1) % (ThreadCount - 1) \in 0 .. (ThreadCount - 1) - 1
  BY <1>1, ModRange
<1>3. Stealable(t, k) \in Threads
  BY ThreadAssumption DEF Stealable, Threads
<1>. QED
  BY <1>2, <1>3, ThreadAssumption

-----------------------------------------------------------------------------
(* Type correctness.                                                       *)

LEMMA TypeInit == Init => TypeOK
<1>. SUFFICES ASSUME Init PROVE TypeOK
  OBVIOUS
<1>1. children \in [Jobs -> SUBSET Jobs]
  BY JobAssumption DEF Init
<1>2. pendingIn \in [Jobs -> 0 .. SizeMax]
  BY CountType DEF Init, InNodes
<1>3. jstate \in [Jobs -> JobState] /\ status \in [Workers -> Status] /\ pc \in [Threads -> PC]
  BY DEF Init, JobState, Status, PC
<1>4. /\ pending \in 0 .. SizeMax /\ barrierPending \in [Barriers -> 0 .. SizeMax]
      /\ stealRobin \in [Threads -> 0 .. ThreadCount - 2]
      /\ tries \in [Threads -> 0 .. MaxStealingAttempts]
  BY SizeAssumption, ThreadAssumption DEF Init
<1>5. roundRobin \in [Threads -> Threads]
  BY ThreadFacts DEF Init, Main
<1>6. call \in [Threads -> CallType] /\ goal \in [kind : GoalKind, on : Jobs \union Barriers \union {NoJob}]
  BY CallFacts DEF Init, NoGoal, GoalKind
<1>. QED
  BY <1>1, <1>2, <1>3, <1>4, <1>5, <1>6, ThreadFacts DEF Init, TypeOK

(* Every step of the program keeps the types.                              *)
LEMMA TypeStep ==
    ASSUME TypeOK, LocalOK, [Next]_vars
    PROVE  TypeOK'
<1>. USE ThreadFacts
<1>pc. pc \in [Threads -> PC]
  BY DEF TypeOK
<1>cur. cur \in [Threads -> Jobs \union {NoJob}]
  BY DEF TypeOK
<1>call. call \in [Threads -> CallType]
  BY DEF TypeOK
<1>queue. queue \in [Threads -> [{"public", "private"} -> Seq(Jobs)]]
  BY DEF TypeOK
<1>jstate. jstate \in [Jobs -> JobState]
  BY DEF TypeOK
<1>todo. todo \in [Threads -> SUBSET Jobs]
  BY DEF TypeOK
<1>tries. tries \in [Threads -> 0 .. MaxStealingAttempts]
  BY DEF TypeOK
<1>stealRobin. stealRobin \in [Threads -> 0 .. ThreadCount - 2]
  BY DEF TypeOK
<1>joining. joining \in Workers
  BY DEF TypeOK
<1>bp. barrierPending \in [Barriers -> 0 .. SizeMax]
  BY DEF TypeOK
<1>bo. barrierOf \in [Jobs -> Barriers \union {NoBarrier}]
  BY DEF TypeOK
<1>acc. accepted \in SUBSET Jobs
  BY DEF TypeOK
<1>pend. pending \in 0 .. SizeMax
  BY DEF TypeOK
<1>rr. roundRobin \in [Threads -> Threads]
  BY DEF TypeOK
<1>ch. children \in [Jobs -> SUBSET Jobs]
  BY DEF TypeOK
<1>pin. pendingIn \in [Jobs -> 0 .. SizeMax]
  BY DEF TypeOK
<1>sig. signalled \in SUBSET (Jobs \X Jobs)
  BY DEF TypeOK
<1>rel. released \in [Jobs -> BOOLEAN]
  BY DEF TypeOK
<1>mu. mutex \in Threads \union {NoThread}
  BY DEF TypeOK
<1>ter. terminate \in SUBSET Workers
  BY DEF TypeOK
<1>st. status \in [Workers -> Status]
  BY DEF TypeOK
<1>1. ASSUME NEW t \in Threads, NEW j \in Jobs, NEW b \in Barriers \union {NoBarrier}, Schedule(t, j, b)
      PROVE  TypeOK'
  <2>1. Marked(j) \in SUBSET Jobs /\ NumJobs(j) \in 0 .. SizeMax
    BY CountType DEF Marked, Reach, NumJobs
  <2>2. barrierPending' \in [Barriers -> 0 .. SizeMax]
    BY <1>1, <1>bp, <2>1, FetchType DEF Schedule
  <2>3. barrierOf' \in [Jobs -> Barriers \union {NoBarrier}]
    BY <1>1, <1>bo DEF Schedule
  <2>4. call' \in [Threads -> CallType]
    BY <1>1, <1>call, <2>1 DEF Schedule, CallType, CallPC
  <2>5. pc' \in [Threads -> PC]
    BY <1>1, <1>pc DEF Schedule, Goto, PC
  <2>6. accepted' \in SUBSET Jobs
    BY <1>1, <1>acc, <2>1 DEF Schedule
  <2>. QED
    BY <1>1, <2>2, <2>3, <2>4, <2>5, <2>6 DEF TypeOK, Schedule, stealVars, shutVars
<1>2. ASSUME NEW t \in Threads, TryScheduleExchange(t) PROVE TypeOK'
  <2>1. call[t].ret \in PC /\ NoCall \in CallType
    BY <1>call, CallFacts
  <2>2. pc' \in [Threads -> PC]
    BY <1>2, <1>pc, <2>1 DEF TryScheduleExchange, Goto, PC
  <2>3. call' \in [Threads -> CallType]
    BY <1>2, <1>call, <2>1 DEF TryScheduleExchange
  <2>4. jstate' \in [Jobs -> JobState]
    BY <1>2, <1>jstate DEF TryScheduleExchange, JobState
  <2>. QED
    BY <1>2, <2>2, <2>3, <2>4 DEF TypeOK, TryScheduleExchange, countVars, stealVars, shutVars, clientVars
<1>3. ASSUME NEW t \in Threads, TryScheduleCount(t) PROVE TypeOK'
  <2>1. call[t].num \in 0 .. SizeMax
    BY <1>call DEF CallType
  <2>2. pending' \in 0 .. SizeMax
    BY <1>3, <1>pend, <2>1, FetchType DEF TryScheduleCount
  <2>3. pc' \in [Threads -> PC]
    BY <1>3, <1>pc DEF TryScheduleCount, Goto, PC
  <2>. QED
    BY <1>3, <2>2, <2>3 DEF TypeOK, TryScheduleCount, jobVars, stealVars, shutVars, clientVars
<1>4. ASSUME NEW t \in Threads, Dispatch(t) PROVE TypeOK'
  <2>1. call[t].job \in Jobs
    BY <1>4 DEF Dispatch, LocalOK, TrySchedulePC
  <2>2. /\ TargetOf(t, call[t].job) \in Threads
        /\ NextRobin(t, call[t].job) \in Threads
        /\ QueueOf(call[t].job) \in {"public", "private"}
    BY <2>1, DispatchType
  <2>3. queue' \in [Threads -> [{"public", "private"} -> Seq(Jobs)]]
    BY <1>4, <1>queue, <2>1, <2>2 DEF Dispatch
  <2>4. roundRobin' \in [Threads -> Threads]
    BY <1>4, <1>rr, <2>2 DEF Dispatch
  <2>5. pc' \in [Threads -> PC]
    BY <1>4, <1>pc DEF Dispatch, Goto, PC
  <2>. QED
    BY <1>4, <2>3, <2>4, <2>5 DEF TypeOK, Dispatch, jobVars, countVars, stealVars, shutVars, clientVars
<1>5. ASSUME NEW t \in Threads, TryScheduleNotify(t) PROVE TypeOK'
  <2>1. call[t].ret \in PC /\ NoCall \in CallType
    BY <1>call, CallFacts
  <2>2. pc' \in [Threads -> PC]
    BY <1>5, <1>pc, <2>1 DEF TryScheduleNotify, NotifyAll, PC
  <2>3. call' \in [Threads -> CallType]
    BY <1>5, <1>call, <2>1 DEF TryScheduleNotify
  <2>. QED
    BY <1>5, <2>2, <2>3 DEF TypeOK, TryScheduleNotify, jobVars, countVars, stealVars, shutVars, clientVars
<1>6. ASSUME NEW t \in Threads, NEW q \in {"public", "private"}, NEW l \in PC, NEW here, PopOwn(t, here, q, l)
      PROVE  TypeOK'
  <2>1. /\ queue[t][q] \in Seq(Jobs)
        /\ queue[t][q] # <<>> => Head(queue[t][q]) \in Jobs /\ Tail(queue[t][q]) \in Seq(Jobs)
    BY <1>queue
  <2>2. queue' \in [Threads -> [{"public", "private"} -> Seq(Jobs)]]
    <3>1. CASE queue[t][q] = <<>>
      BY <1>6, <1>queue, <3>1 DEF PopOwn
    <3>2. CASE queue[t][q] # <<>>
      <4>1. queue' = [queue EXCEPT ![t] = [queue[t] EXCEPT ![q] = Tail(queue[t][q])]]
        BY <1>6, <3>2 DEF PopOwn
      <4>. QED
        BY <1>queue, <2>1, <3>2, <4>1
    <3>. QED
      BY <3>1, <3>2
  <2>3. cur' \in [Threads -> Jobs \union {NoJob}]
    BY <1>6, <1>cur, <2>1 DEF PopOwn
  <2>4. pc' \in [Threads -> PC]
    BY <1>6, <1>pc DEF PopOwn, Goto, PC
  <2>. QED
    BY <1>6, <2>2, <2>3, <2>4 DEF TypeOK, PopOwn, jobVars, countVars, stealVars, shutVars, clientVars
<1>7. ASSUME NEW t \in Threads, PopPrivate(t) \/ PopPublic(t) PROVE TypeOK'
  BY <1>6, <1>7 DEF PopPrivate, PopPublic, PC
<1>8. ASSUME NEW t \in Threads, Steal(t) PROVE TypeOK'
  <2>1. stealRobin[t] \in 0 .. ThreadCount - 2
    BY <1>stealRobin
  <2>2. (stealRobin[t] + 1) % (ThreadCount - 1) \in 0 .. ThreadCount - 2
    BY <2>1, StealRange
  <2>3. Stealable(t, stealRobin[t]) \in Threads
    BY <2>1, StealRange
  <2>4. LET s == queue[Stealable(t, stealRobin[t])]["public"]
        IN  s # <<>> => Head(s) \in Jobs /\ Tail(s) \in Seq(Jobs)
    BY <1>queue, <2>3
  <2>5. /\ 0 \in 0 .. MaxStealingAttempts
        /\ tries[t] < MaxStealingAttempts => tries[t] + 1 \in 0 .. MaxStealingAttempts
    BY <1>tries, ThreadAssumption
  <2>6. queue' \in [Threads -> [{"public", "private"} -> Seq(Jobs)]]
    <3>. DEFINE v == Stealable(t, stealRobin[t])
    <3>1. CASE queue[v]["public"] = <<>>
      BY <1>8, <1>queue, <3>1 DEF Steal
    <3>2. CASE queue[v]["public"] # <<>>
      <4>1. queue' = [queue EXCEPT ![v] = [queue[v] EXCEPT !["public"] = Tail(queue[v]["public"])]]
        BY <1>8, <3>2 DEF Steal
      <4>. QED
        BY <1>queue, <2>3, <2>4, <3>2, <4>1
    <3>. QED
      BY <3>1, <3>2
  <2>7. cur' \in [Threads -> Jobs \union {NoJob}]
    BY <1>8, <1>cur, <2>4 DEF Steal
  <2>8. pc' \in [Threads -> PC]
    BY <1>8, <1>pc DEF Steal, Goto, PC
  <2>9. stealRobin' \in [Threads -> 0 .. ThreadCount - 2]
    BY <1>8, <1>stealRobin, <2>2 DEF Steal
  <2>10. tries' \in [Threads -> 0 .. MaxStealingAttempts]
    BY <1>8, <1>tries, <2>5 DEF Steal
  <2>. QED
    BY <1>8, <2>6, <2>7, <2>8, <2>9, <2>10 DEF TypeOK, Steal, jobVars, countVars, shutVars, clientVars
<1>9. ASSUME NEW t \in Threads, StealFailed(t) PROVE TypeOK'
  <2>1. tries' \in [Threads -> 0 .. MaxStealingAttempts]
    BY <1>9, <1>tries, ThreadAssumption DEF StealFailed
  <2>2. pc' \in [Threads -> PC]
    BY <1>9, <1>pc DEF StealFailed, NoWork, Goto, PC
  <2>. QED
    BY <1>9, <2>1, <2>2 DEF TypeOK, StealFailed, jobVars, countVars, shutVars, clientVars
<1>10. ASSUME NEW t \in Threads, Claim(t) PROVE TypeOK'
  <2>1. pc' \in [Threads -> PC]
    BY <1>10, <1>pc DEF Claim, Skip, Goto, PC
  <2>2. cur' \in [Threads -> Jobs \union {NoJob}]
    BY <1>10, <1>cur DEF Claim
  <2>3. jstate' \in [Jobs -> JobState]
    BY <1>10, <1>jstate DEF Claim, JobState
  <2>. QED
    BY <1>10, <2>1, <2>2, <2>3 DEF TypeOK, Claim, countVars, stealVars, shutVars, clientVars
<1>11. ASSUME NEW t \in Threads, KernelDone(t) PROVE TypeOK'
  <2>1. cur[t] \in Jobs
    BY <1>11, <1>cur DEF KernelDone, LocalOK, At, TrySchedulePC, WorkPC
  <2>2. jstate' \in [Jobs -> JobState]
    BY <1>11, <1>jstate DEF KernelDone, JobState
  <2>3. todo' \in [Threads -> SUBSET Jobs]
    BY <1>11, <1>todo, <1>ch, <2>1 DEF KernelDone
  <2>4. pc' \in [Threads -> PC]
    BY <1>11, <1>pc DEF KernelDone, Goto, PC
  <2>. QED
    BY <1>11, <2>2, <2>3, <2>4 DEF TypeOK, KernelDone, countVars, stealVars, shutVars, clientVars
<1>12. ASSUME NEW t \in Threads, SignalChild(t) PROVE TypeOK'
  <2>1. cur[t] \in Jobs
    BY <1>12, <1>cur DEF SignalChild, LocalOK, At, TrySchedulePC, WorkPC, FinishPC
  <2>2. \A c \in Jobs : [job |-> c, num |-> 0, ret |-> "children"] \in CallType
    BY SizeAssumption DEF CallType, CallPC
  <2>3. pendingIn' \in [Jobs -> 0 .. SizeMax]
    BY <1>12, <1>pin, FetchType, SizeAssumption, <1>todo DEF SignalChild
  <2>4. signalled' \in SUBSET (Jobs \X Jobs)
    BY <1>12, <1>sig, <1>todo, <2>1 DEF SignalChild
  <2>5. todo' \in [Threads -> SUBSET Jobs]
    BY <1>12, <1>todo DEF SignalChild
  <2>6. call' \in [Threads -> CallType]
    BY <1>12, <1>call, <1>todo, <2>2 DEF SignalChild
  <2>7. pc' \in [Threads -> PC]
    BY <1>12, <1>pc DEF SignalChild, Goto, PC
  <2>. QED
    BY <1>12, <2>3, <2>4, <2>5, <2>6, <2>7 DEF TypeOK, SignalChild, countVars, stealVars, shutVars, clientVars
<1>13. ASSUME NEW t \in Threads, ChildReady(t) PROVE TypeOK'
  <2>1. pc' \in [Threads -> PC]
    BY <1>13, <1>pc DEF ChildReady, Goto, PC
  <2>2. call' \in [Threads -> CallType]
    BY <1>13, <1>call, CallFacts DEF ChildReady
  <2>. QED
    BY <1>13, <2>1, <2>2 DEF TypeOK, ChildReady, jobVars, countVars, stealVars, shutVars, clientVars
<1>14. ASSUME NEW t \in Threads, BarrierDone(t) PROVE TypeOK'
  <2>1. barrierPending' \in [Barriers -> 0 .. SizeMax]
    BY <1>14, <1>bp, FetchType DEF BarrierDone, RemoveDependency
  <2>2. pc' \in [Threads -> PC]
    BY <1>14, <1>pc DEF BarrierDone, Goto, PC
  <2>. QED
    BY <1>14, <2>1, <2>2 DEF TypeOK, BarrierDone, jobVars, stealVars, shutVars, clientVars
<1>15. ASSUME NEW t \in Threads, ReleaseJob(t) PROVE TypeOK'
  <2>1. released' \in [Jobs -> BOOLEAN]
    BY <1>15, <1>rel DEF ReleaseJob
  <2>2. pc' \in [Threads -> PC]
    BY <1>15, <1>pc DEF ReleaseJob, Goto, PC
  <2>. QED
    BY <1>15, <2>1, <2>2 DEF TypeOK, ReleaseJob, countVars, stealVars, shutVars, clientVars
<1>16. ASSUME NEW t \in Threads, Unpend(t) PROVE TypeOK'
  <2>1. pending' \in 0 .. SizeMax
    BY <1>16, <1>pend, FetchType DEF Unpend
  <2>2. cur' \in [Threads -> Jobs \union {NoJob}]
    BY <1>16, <1>cur DEF Unpend
  <2>3. pc' \in [Threads -> PC]
    BY <1>16, <1>pc DEF Unpend, LoopHead, Goto, PC
  <2>. QED
    BY <1>16, <2>1, <2>2, <2>3 DEF TypeOK, Unpend, jobVars, stealVars, shutVars, clientVars
<1>17. ASSUME NEW t \in Workers, RunTop(t) PROVE TypeOK'
  <2>1. pc' \in [Threads -> PC]
    BY <1>17, <1>pc DEF RunTop, Goto, PC
  <2>. QED
    BY <1>17, <2>1 DEF TypeOK, RunTop, jobVars, countVars, stealVars, shutVars, clientVars
<1>18. ASSUME NEW t \in Workers, CheckWake(t) PROVE TypeOK'
  <2>1. pc' \in [Threads -> PC]
    BY <1>18, <1>pc DEF CheckWake, Goto, PC
  <2>2. mutex' \in Threads \union {NoThread}
    BY <1>18, <1>mu DEF CheckWake
  <2>. QED
    BY <1>18, <2>1, <2>2 DEF TypeOK, CheckWake, jobVars, countVars, stealVars, shutVars, clientVars
<1>19. ASSUME NEW t \in Workers, FallAsleep(t) PROVE TypeOK'
  <2>1. pc' \in [Threads -> PC]
    BY <1>19, <1>pc DEF FallAsleep, Goto, PC
  <2>. QED
    BY <1>19, <2>1 DEF TypeOK, FallAsleep, jobVars, countVars, stealVars, shutVars, clientVars
<1>20. ASSUME NEW t \in Workers, LockWakeMutex(t) PROVE TypeOK'
  <2>1. pc' \in [Threads -> PC]
    BY <1>20, <1>pc DEF LockWakeMutex, Goto, PC
  <2>2. mutex' \in Threads \union {NoThread}
    BY <1>20 DEF LockWakeMutex
  <2>. QED
    BY <1>20, <2>1, <2>2 DEF TypeOK, LockWakeMutex, jobVars, countVars, stealVars, shutVars, clientVars
<1>21. ASSUME NEW t \in Workers, SpuriousWake(t) PROVE TypeOK'
  <2>1. pc' \in [Threads -> PC]
    BY <1>21, <1>pc DEF SpuriousWake, Goto, PC
  <2>. QED
    BY <1>21, <2>1 DEF TypeOK, SpuriousWake, jobVars, countVars, stealVars, shutVars, clientVars
<1>22. ASSUME NEW j \in Jobs, Preempt(j) PROVE TypeOK'
  <2>1. pc' \in [Threads -> PC]
    BY <1>22, <1>pc DEF Preempt, Goto, PC
  <2>2. cur' \in [Threads -> Jobs \union {NoJob}]
    BY <1>22, <1>cur DEF Preempt
  <2>3. jstate' \in [Jobs -> JobState]
    BY <1>22, <1>jstate DEF Preempt, JobState
  <2>4. accepted' \in SUBSET Jobs
    BY <1>22, <1>acc DEF Preempt
  <2>. QED
    BY <1>22, <2>1, <2>2, <2>3, <2>4 DEF TypeOK, Preempt, countVars, stealVars, shutVars
<1>23. ASSUME BeginWait PROVE TypeOK'
  <2>1. pc' \in [Threads -> PC]
    BY <1>23, <1>pc DEF BeginWait, Goto, PC
  <2>2. goal' \in [kind : GoalKind, on : Jobs \union Barriers \union {NoJob}]
    BY <1>23, <1>acc DEF BeginWait, Goals, GoalKind
  <2>. QED
    BY <1>23, <2>1, <2>2 DEF TypeOK, BeginWait, jobVars, countVars, stealVars, shutVars
<1>24. ASSUME PreemptBarrierDone PROVE TypeOK'
  <2>1. pc' \in [Threads -> PC]
    BY <1>24, <1>pc DEF PreemptBarrierDone, Goto, PC
  <2>2. barrierPending' \in [Barriers -> 0 .. SizeMax]
    BY <1>24, <1>bp, FetchType DEF PreemptBarrierDone, RemoveDependency
  <2>. QED
    BY <1>24, <2>1, <2>2 DEF TypeOK, PreemptBarrierDone, jobVars, stealVars, shutVars, clientVars
<1>25. ASSUME PreemptForceState PROVE TypeOK'
  <2>1. pc' \in [Threads -> PC]
    BY <1>25, <1>pc DEF PreemptForceState, Goto, PC
  <2>2. jstate' \in [Jobs -> JobState]
    BY <1>25, <1>jstate DEF PreemptForceState, JobState
  <2>. QED
    BY <1>25, <2>1, <2>2 DEF TypeOK, PreemptForceState, countVars, stealVars, shutVars, clientVars
<1>26. ASSUME WaitMore PROVE TypeOK'
  <2>1. pc' \in [Threads -> PC]
    BY <1>26, <1>pc DEF WaitMore, Goto, PC
  <2>. QED
    BY <1>26, <2>1 DEF TypeOK, WaitMore, jobVars, countVars, stealVars, shutVars, clientVars
<1>27. ASSUME WaitOver PROVE TypeOK'
  <2>1. pc' \in [Threads -> PC]
    BY <1>27, <1>pc DEF WaitOver, Goto, PC
  <2>2. goal' \in [kind : GoalKind, on : Jobs \union Barriers \union {NoJob}]
    BY <1>27 DEF WaitOver, NoGoal, GoalKind
  <2>. QED
    BY <1>27, <2>1, <2>2 DEF TypeOK, WaitOver, jobVars, countVars, stealVars, shutVars
<1>28. ASSUME IdleNotify PROVE TypeOK'
  <2>1. pc' \in [Threads -> PC]
    BY <1>28, <1>pc DEF IdleNotify, NotifyAll, PC
  <2>. QED
    BY <1>28, <2>1 DEF TypeOK, IdleNotify, jobVars, countVars, stealVars, shutVars, clientVars
<1>29. ASSUME SetTerminate PROVE TypeOK'
  <2>1. pc' \in [Threads -> PC]
    BY <1>29, <1>pc DEF SetTerminate, Goto, PC
  <2>2. terminate' \in SUBSET Workers
    BY <1>29, <1>joining, <1>ter DEF SetTerminate
  <2>. QED
    BY <1>29, <2>1, <2>2 DEF TypeOK, SetTerminate, jobVars, countVars, stealVars, clientVars
<1>30. ASSUME TryLockNotify PROVE TypeOK'
  <2>1. pc' \in [Threads -> PC]
    BY <1>30, <1>pc DEF TryLockNotify, NotifyAll, Goto, PC
  <2>. QED
    BY <1>30, <2>1 DEF TypeOK, TryLockNotify, jobVars, countVars, stealVars, shutVars, clientVars
<1>31. ASSUME NEW s \in {"Normal", "Forceful", "Failed"}, NEW l \in {"stopped", "cancelled"}, Joined(s, l)
      PROVE  TypeOK'
  <2>1. pc' \in [Threads -> PC]
    BY <1>31, <1>pc, <1>joining DEF Joined, PC
  <2>2. status' \in [Workers -> Status]
    BY <1>31, <1>st DEF Joined, Status
  <2>3. joining' \in Workers
    BY <1>31, <1>joining, ThreadAssumption DEF Joined, Workers
  <2>. QED
    BY <1>31, <2>1, <2>2, <2>3 DEF TypeOK, Joined, jobVars, countVars, stealVars
<1>32. ASSUME Join \/ CancelJoin PROVE TypeOK'
  BY <1>31, <1>32 DEF Join, CancelJoin
<1>33. ASSUME JoinTimeout PROVE TypeOK'
  <2>1. pc' \in [Threads -> PC]
    BY <1>33, <1>pc DEF JoinTimeout, Goto, PC
  <2>. QED
    BY <1>33, <2>1 DEF TypeOK, JoinTimeout, jobVars, countVars, stealVars, shutVars, clientVars
<1>34. CASE UNCHANGED vars
  BY <1>34 DEF TypeOK, vars, jobVars, countVars, stealVars, shutVars, clientVars
<1>. QED
  BY <1>1, <1>2, <1>3, <1>4, <1>5, <1>7, <1>8, <1>9, <1>10, <1>11, <1>12, <1>13, <1>14, <1>15,
     <1>16, <1>17, <1>18, <1>19, <1>20, <1>21, <1>22, <1>23, <1>24, <1>25, <1>26, <1>27, <1>28,
     <1>29, <1>30, <1>32, <1>33, <1>34
     DEF Next, ThreadStep, TryScheduleStep, GetJobStep, ProcessStep, RunStep, MainStep, PreemptStep,
         WaitStep, ShutdownStep, Down
-----------------------------------------------------------------------------
(* The inductive invariant.                                                *)

(* The part of the invariant that does not look at the threads.            *)
LEMMA JobFrame ==
    ASSUME EdgesOK, CountOK, DependencyOrder, UNCHANGED <<children, jstate, pendingIn, signalled>>
    PROVE  EdgesOK' /\ CountOK' /\ DependencyOrder'
BY DEF EdgesOK, CountOK, DependencyOrder, Unsignalled, InNodes

(* Steps outside process(), try_preempt_and_execute and try_schedule.      *)
BusyPC == WorkPC \union TrySchedulePC
Quiet ==
    /\ UNCHANGED <<children, jstate, pendingIn, cur, todo, call, signalled>>
    /\ \A u \in Threads : pc'[u] = pc[u] \/ (pc[u] \notin BusyPC /\ pc'[u] \notin BusyPC)

(* They keep the invariant.                                                *)
LEMMA QuietStep ==
    ASSUME Inv, TypeOK', Quiet
    PROVE  Inv'
<1>1. \A u \in Threads : At(u)' = At(u) \/ (At(u) \notin BusyPC /\ At(u)' \notin BusyPC)
  BY DEF Quiet, At, BusyPC, WorkPC, TrySchedulePC, FinishPC
<1>2. LocalOK'
  BY <1>1 DEF Inv, Quiet, LocalOK, BusyPC, WorkPC, TrySchedulePC, FinishPC
<1>3. OwnerOK'
  BY <1>1 DEF Inv, Quiet, OwnerOK, BusyPC, WorkPC, FinishPC
<1>4. ExclusiveExecution'
  <2>1. \A u \in Threads, j \in Jobs : Holds(u, j)' => Holds(u, j)
    BY DEF Quiet, Holds, BusyPC, WorkPC, Inv, TypeOK
  <2>. QED
    BY <2>1 DEF Inv, ExclusiveExecution
<1>5. TodoOK'
  BY <1>1 DEF Inv, Quiet, TodoOK, BusyPC, WorkPC, FinishPC
<1>6. ReadyOK'
  BY DEF Inv, Quiet, ReadyOK, BusyPC, WorkPC, TrySchedulePC, Unsignalled, InNodes
<1>7. EdgesOK' /\ CountOK' /\ DependencyOrder'
  BY JobFrame DEF Inv, Quiet
<1>. QED
  BY <1>2, <1>3, <1>4, <1>5, <1>6, <1>7 DEF Inv

(* Which steps these are.                                                 *)
LEMMA QuietActions ==
    ASSUME TypeOK,
           \/ \E t \in Threads : StealFailed(t)
           \/ \E t \in Workers : RunStep(t) \/ LockWakeMutex(t) \/ SpuriousWake(t)
           \/ BeginWait \/ WaitStep \/ ShutdownStep
    PROVE  Quiet
<1>. USE ThreadFacts DEF TypeOK
<1>1. ASSUME NEW t \in Threads, StealFailed(t) PROVE Quiet
  BY <1>1 DEF StealFailed, Quiet, NoWork, Goto, jobVars, BusyPC, WorkPC, TrySchedulePC, FinishPC, PC
<1>2. ASSUME NEW t \in Workers, RunTop(t) PROVE Quiet
  BY <1>2 DEF RunTop, Quiet, Goto, jobVars, BusyPC, WorkPC, TrySchedulePC, FinishPC, PC
<1>3. ASSUME NEW t \in Workers, CheckWake(t) PROVE Quiet
  BY <1>3 DEF CheckWake, Quiet, Goto, jobVars, BusyPC, WorkPC, TrySchedulePC, FinishPC, PC
<1>4. ASSUME NEW t \in Workers, FallAsleep(t) PROVE Quiet
  BY <1>4 DEF FallAsleep, Quiet, Goto, jobVars, BusyPC, WorkPC, TrySchedulePC, FinishPC, PC
<1>5. ASSUME NEW t \in Workers, LockWakeMutex(t) PROVE Quiet
  BY <1>5 DEF LockWakeMutex, Quiet, Goto, jobVars, BusyPC, WorkPC, TrySchedulePC, FinishPC, PC
<1>6. ASSUME NEW t \in Workers, SpuriousWake(t) PROVE Quiet
  BY <1>6 DEF SpuriousWake, Quiet, Goto, jobVars, BusyPC, WorkPC, TrySchedulePC, FinishPC, PC
<1>7. ASSUME BeginWait PROVE Quiet
  BY <1>7 DEF BeginWait, Quiet, Goto, jobVars, BusyPC, WorkPC, TrySchedulePC, FinishPC, PC
<1>8. ASSUME WaitMore PROVE Quiet
  BY <1>8 DEF WaitMore, Quiet, Goto, jobVars, BusyPC, WorkPC, TrySchedulePC, FinishPC, PC
<1>9. ASSUME WaitOver PROVE Quiet
  BY <1>9 DEF WaitOver, Quiet, Goto, jobVars, BusyPC, WorkPC, TrySchedulePC, FinishPC, PC
<1>10. ASSUME IdleNotify PROVE Quiet
  BY <1>10 DEF IdleNotify, Quiet, NotifyAll, jobVars, BusyPC, WorkPC, TrySchedulePC, FinishPC, PC
<1>11. ASSUME SetTerminate PROVE Quiet
  BY <1>11 DEF SetTerminate, Quiet, Goto, jobVars, BusyPC, WorkPC, TrySchedulePC, FinishPC, PC
<1>12. ASSUME TryLockNotify PROVE Quiet
  <2>1. CASE mutex = NoThread
    <3>1. NotifyAll(Main, "term_poll") /\ pc[Main] = "term_notify"
      BY <1>12, <2>1 DEF TryLockNotify
    <3>2. \A u \in Threads : pc'[u] = pc[u] \/ (pc[u] \notin BusyPC /\ pc'[u] \notin BusyPC)
      BY <3>1 DEF NotifyAll, BusyPC, WorkPC, TrySchedulePC, FinishPC
    <3>. QED
      BY <1>12, <3>2 DEF TryLockNotify, Quiet, jobVars
  <2>2. CASE mutex # NoThread
    BY <1>12, <2>2 DEF TryLockNotify, Quiet, Goto, jobVars, BusyPC, WorkPC, TrySchedulePC, FinishPC, PC
  <2>. QED
    BY <2>1, <2>2
<1>13. ASSUME Join PROVE Quiet
  BY <1>13 DEF Join, Quiet, Joined, jobVars, BusyPC, WorkPC, TrySchedulePC, FinishPC, PC
<1>14. ASSUME JoinTimeout PROVE Quiet
  BY <1>14 DEF JoinTimeout, Quiet, Goto, jobVars, BusyPC, WorkPC, TrySchedulePC, FinishPC, PC
<1>15. ASSUME CancelJoin PROVE Quiet
  <2>1. CASE pc[joining] = "asleep" /\ Joined("Forceful", "cancelled")
    BY <1>15, <2>1 DEF CancelJoin, Quiet, Joined, jobVars, BusyPC, WorkPC, TrySchedulePC, FinishPC, PC
  <2>2. CASE pc[joining] = "stopped" /\ Joined("Failed", "stopped")
    BY <1>15, <2>2 DEF CancelJoin, Quiet, Joined, jobVars, BusyPC, WorkPC, TrySchedulePC, FinishPC, PC
  <2>. QED
    BY <1>15, <2>1, <2>2 DEF CancelJoin
<1>. QED
  BY <1>1, <1>2, <1>3, <1>4, <1>5, <1>6, <1>7, <1>8, <1>9, <1>10, <1>11, <1>12, <1>13, <1>14, <1>15
     DEF RunStep, WaitStep, ShutdownStep

(* A job that a thread holds is past Pending.                              *)
LEMMA HolderState ==
    ASSUME TypeOK, LocalOK, OwnerOK, NEW t \in Threads, NEW j \in Jobs, Holds(t, j)
    PROVE  jstate[j] \in {"Executing", "Preempted", "Processed"}
<1>1. At(t) \in WorkPC
  BY JobAssumption DEF Holds, LocalOK
<1>2. At(t) # "claim"
  BY CallFacts DEF At, Holds, TypeOK, CallPC
<1>. QED
  BY <1>1, <1>2 DEF WorkPC, FinishPC, OwnerOK, Holds

(* A job in the hands of two threads is in the hands of one.               *)
LEMMA HolderUnique ==
    ASSUME TypeOK, LocalOK, ExclusiveExecution, NEW t \in Threads, NEW u \in Threads,
           cur[t] \in Jobs, cur[u] = cur[t], At(t) # "claim", At(u) # "claim"
    PROVE  t = u
<1>1. pc[t] # "claim" /\ pc[u] # "claim"
  BY DEF At, TrySchedulePC
<1>. QED
  BY <1>1, JobAssumption DEF ExclusiveExecution, Holds

(* try_schedule: the addition to pending.                                  *)
LEMMA TryScheduleCountInv ==
    ASSUME Inv, TypeOK', NEW t \in Threads, TryScheduleCount(t)
    PROVE  Inv'
<1>. USE ThreadFacts, JobAssumption DEF Inv
<1>pc. pc \in [Threads -> PC] /\ cur \in [Threads -> Jobs \union {NoJob}]
  BY DEF TypeOK
<1>call. call \in [Threads -> CallType] /\ todo \in [Threads -> SUBSET Jobs] /\ jstate \in [Jobs -> JobState]
  BY DEF TypeOK
<1>1. LocalOK'
  BY <1>pc, <1>call DEF TryScheduleCount, Goto, jobVars, LocalOK, At, WorkPC, TrySchedulePC, FinishPC
<1>2. OwnerOK'
  BY <1>pc, <1>call DEF TryScheduleCount, Goto, jobVars, OwnerOK, LocalOK, At, WorkPC, TrySchedulePC, FinishPC
<1>3. ExclusiveExecution'
  BY <1>pc, <1>call DEF TryScheduleCount, Goto, jobVars, ExclusiveExecution, Holds, LocalOK, OwnerOK, At, WorkPC, TrySchedulePC, FinishPC
<1>4. TodoOK'
  BY <1>pc, <1>call DEF TryScheduleCount, Goto, jobVars, TodoOK, LocalOK, At, WorkPC, TrySchedulePC, FinishPC
<1>5. ReadyOK'
  BY <1>pc, <1>call DEF TryScheduleCount, Goto, jobVars, ReadyOK, Unsignalled, InNodes, LocalOK, At, WorkPC, TrySchedulePC, FinishPC
<1>6. EdgesOK' /\ CountOK' /\ DependencyOrder'
  BY JobFrame DEF TryScheduleCount, Goto, jobVars
<1>. QED
  BY <1>1, <1>2, <1>3, <1>4, <1>5, <1>6

(* try_schedule: the push.                                                 *)
LEMMA DispatchInv ==
    ASSUME Inv, TypeOK', NEW t \in Threads, Dispatch(t)
    PROVE  Inv'
<1>. USE ThreadFacts, JobAssumption DEF Inv
<1>pc. pc \in [Threads -> PC] /\ cur \in [Threads -> Jobs \union {NoJob}]
  BY DEF TypeOK
<1>call. call \in [Threads -> CallType] /\ todo \in [Threads -> SUBSET Jobs] /\ jstate \in [Jobs -> JobState]
  BY DEF TypeOK
<1>1. LocalOK'
  BY <1>pc, <1>call DEF Dispatch, Goto, jobVars, LocalOK, At, WorkPC, TrySchedulePC, FinishPC
<1>2. OwnerOK'
  BY <1>pc, <1>call DEF Dispatch, Goto, jobVars, OwnerOK, LocalOK, At, WorkPC, TrySchedulePC, FinishPC
<1>3. ExclusiveExecution'
  BY <1>pc, <1>call DEF Dispatch, Goto, jobVars, ExclusiveExecution, Holds, LocalOK, OwnerOK, At, WorkPC, TrySchedulePC, FinishPC
<1>4. TodoOK'
  BY <1>pc, <1>call DEF Dispatch, Goto, jobVars, TodoOK, LocalOK, At, WorkPC, TrySchedulePC, FinishPC
<1>5. ReadyOK'
  BY <1>pc, <1>call DEF Dispatch, Goto, jobVars, ReadyOK, Unsignalled, InNodes, LocalOK, At, WorkPC, TrySchedulePC, FinishPC
<1>6. EdgesOK' /\ CountOK' /\ DependencyOrder'
  BY JobFrame DEF Dispatch, Goto, jobVars
<1>. QED
  BY <1>1, <1>2, <1>3, <1>4, <1>5, <1>6

(* try_schedule: the notification, and the return.                         *)
LEMMA TryScheduleNotifyInv ==
    ASSUME Inv, TypeOK', NEW t \in Threads, TryScheduleNotify(t)
    PROVE  Inv'
<1>. USE ThreadFacts, JobAssumption DEF Inv
<1>pc. pc \in [Threads -> PC] /\ cur \in [Threads -> Jobs \union {NoJob}]
  BY DEF TypeOK
<1>call. call \in [Threads -> CallType] /\ todo \in [Threads -> SUBSET Jobs] /\ jstate \in [Jobs -> JobState]
  BY DEF TypeOK
<1>at. \A u \in Threads : At(u)' = At(u) \/ (At(u) = "asleep" /\ At(u)' = "lock")
  <2>1. call[t].ret \notin TrySchedulePC
    BY <1>call, CallFacts DEF CallPC, TrySchedulePC
  <2>. QED
    BY <1>pc, <1>call, <2>1 DEF TryScheduleNotify, NotifyAll, At, TrySchedulePC
<1>u. \A u \in Threads : pc'[u] \in TrySchedulePC \union {"child_ready"} => pc'[u] = pc[u] /\ call'[u] = call[u]
  <2>1. call[t].ret \notin TrySchedulePC \union {"child_ready"}
    BY <1>call, CallFacts DEF CallPC, TrySchedulePC
  <2>. QED
    BY <1>pc, <1>call, <2>1 DEF TryScheduleNotify, NotifyAll, TrySchedulePC
<1>1. LocalOK'
  <2>1. \A u \in Threads : (cur[u] # NoJob <=> At(u) \in WorkPC)'
    BY <1>at DEF LocalOK, TryScheduleNotify, WorkPC, FinishPC
  <2>. QED
    BY <1>u, <2>1 DEF LocalOK
<1>2. OwnerOK'
  BY <1>at DEF OwnerOK, TryScheduleNotify, jobVars, FinishPC
<1>3. ExclusiveExecution'
  <2>1. \A u \in Threads, j \in Jobs : Holds(u, j)' => Holds(u, j)
    BY <1>pc, <1>call DEF TryScheduleNotify, NotifyAll, Holds, LocalOK, At, TrySchedulePC, WorkPC
  <2>. QED
    BY <2>1 DEF ExclusiveExecution
<1>4. TodoOK'
  BY <1>at DEF TodoOK, TryScheduleNotify, jobVars
<1>5. ReadyOK'
  BY <1>u DEF ReadyOK, TryScheduleNotify, jobVars, Unsignalled, InNodes, TrySchedulePC
<1>6. EdgesOK' /\ CountOK' /\ DependencyOrder'
  BY JobFrame DEF TryScheduleNotify, NotifyAll, jobVars
<1>. QED
  BY <1>1, <1>2, <1>3, <1>4, <1>5, <1>6

(* process: the barrier is told.                                           *)
LEMMA BarrierDoneInv ==
    ASSUME Inv, TypeOK', NEW t \in Threads, BarrierDone(t)
    PROVE  Inv'
<1>. USE ThreadFacts, JobAssumption DEF Inv
<1>pc. pc \in [Threads -> PC] /\ cur \in [Threads -> Jobs \union {NoJob}]
  BY DEF TypeOK
<1>call. call \in [Threads -> CallType] /\ todo \in [Threads -> SUBSET Jobs] /\ jstate \in [Jobs -> JobState]
  BY DEF TypeOK
<1>1. LocalOK'
  BY <1>pc, <1>call DEF BarrierDone, Goto, jobVars, LocalOK, At, WorkPC, TrySchedulePC, FinishPC
<1>2. OwnerOK'
  BY <1>pc, <1>call DEF BarrierDone, Goto, jobVars, OwnerOK, LocalOK, At, WorkPC, TrySchedulePC, FinishPC
<1>3. ExclusiveExecution'
  BY <1>pc, <1>call DEF BarrierDone, Goto, jobVars, ExclusiveExecution, Holds, LocalOK, OwnerOK, At, WorkPC, TrySchedulePC, FinishPC
<1>4. TodoOK'
  BY <1>pc, <1>call DEF BarrierDone, Goto, jobVars, TodoOK, LocalOK, At, WorkPC, TrySchedulePC, FinishPC
<1>5. ReadyOK'
  BY <1>pc, <1>call DEF BarrierDone, Goto, jobVars, ReadyOK, Unsignalled, InNodes, LocalOK, At, WorkPC, TrySchedulePC, FinishPC
<1>6. EdgesOK' /\ CountOK' /\ DependencyOrder'
  BY JobFrame DEF BarrierDone, Goto, jobVars
<1>. QED
  BY <1>1, <1>2, <1>3, <1>4, <1>5, <1>6

(* process: the job goes back to the pool.                                 *)
LEMMA ReleaseJobInv ==
    ASSUME Inv, TypeOK', NEW t \in Threads, ReleaseJob(t)
    PROVE  Inv'
<1>. USE ThreadFacts, JobAssumption DEF Inv
<1>pc. pc \in [Threads -> PC] /\ cur \in [Threads -> Jobs \union {NoJob}]
  BY DEF TypeOK
<1>call. call \in [Threads -> CallType] /\ todo \in [Threads -> SUBSET Jobs] /\ jstate \in [Jobs -> JobState]
  BY DEF TypeOK
<1>1. LocalOK'
  BY <1>pc, <1>call DEF ReleaseJob, Goto, jobVars, LocalOK, At, WorkPC, TrySchedulePC, FinishPC
<1>2. OwnerOK'
  BY <1>pc, <1>call DEF ReleaseJob, Goto, jobVars, OwnerOK, LocalOK, At, WorkPC, TrySchedulePC, FinishPC
<1>3. ExclusiveExecution'
  BY <1>pc, <1>call DEF ReleaseJob, Goto, jobVars, ExclusiveExecution, Holds, LocalOK, OwnerOK, At, WorkPC, TrySchedulePC, FinishPC
<1>4. TodoOK'
  BY <1>pc, <1>call DEF ReleaseJob, Goto, jobVars, TodoOK, LocalOK, At, WorkPC, TrySchedulePC, FinishPC
<1>5. ReadyOK'
  BY <1>pc, <1>call DEF ReleaseJob, Goto, jobVars, ReadyOK, Unsignalled, InNodes, LocalOK, At, WorkPC, TrySchedulePC, FinishPC
<1>6. EdgesOK' /\ CountOK' /\ DependencyOrder'
  BY JobFrame DEF ReleaseJob, Goto, jobVars
<1>. QED
  BY <1>1, <1>2, <1>3, <1>4, <1>5, <1>6

(* process: the end.                                                       *)
LEMMA UnpendInv ==
    ASSUME Inv, TypeOK', NEW t \in Threads, Unpend(t)
    PROVE  Inv'
<1>. USE ThreadFacts, JobAssumption DEF Inv
<1>pc. pc \in [Threads -> PC] /\ cur \in [Threads -> Jobs \union {NoJob}]
  BY DEF TypeOK
<1>call. call \in [Threads -> CallType] /\ todo \in [Threads -> SUBSET Jobs] /\ jstate \in [Jobs -> JobState]
  BY DEF TypeOK
<1>1. LocalOK'
  BY <1>pc, <1>call DEF Unpend, LoopHead, Goto, jobVars, LocalOK, At, WorkPC, TrySchedulePC, FinishPC
<1>2. OwnerOK'
  BY <1>pc, <1>call DEF Unpend, LoopHead, Goto, jobVars, OwnerOK, LocalOK, At, WorkPC, TrySchedulePC, FinishPC
<1>3. ExclusiveExecution'
  BY <1>pc, <1>call DEF Unpend, LoopHead, Goto, jobVars, ExclusiveExecution, Holds, LocalOK, OwnerOK, At, WorkPC, TrySchedulePC, FinishPC
<1>4. TodoOK'
  BY <1>pc, <1>call DEF Unpend, LoopHead, Goto, jobVars, TodoOK, LocalOK, At, WorkPC, TrySchedulePC, FinishPC
<1>5. ReadyOK'
  BY <1>pc, <1>call DEF Unpend, LoopHead, Goto, jobVars, ReadyOK, Unsignalled, InNodes, LocalOK, At, WorkPC, TrySchedulePC, FinishPC
<1>6. EdgesOK' /\ CountOK' /\ DependencyOrder'
  BY JobFrame DEF Unpend, LoopHead, Goto, jobVars
<1>. QED
  BY <1>1, <1>2, <1>3, <1>4, <1>5, <1>6

(* schedule_children: the test of is_ready.                                *)
LEMMA ChildReadyInv ==
    ASSUME Inv, TypeOK', NEW t \in Threads, ChildReady(t)
    PROVE  Inv'
<1>. USE ThreadFacts, JobAssumption DEF Inv
<1>pc. pc \in [Threads -> PC] /\ cur \in [Threads -> Jobs \union {NoJob}]
  BY DEF TypeOK
<1>call. call \in [Threads -> CallType] /\ todo \in [Threads -> SUBSET Jobs] /\ jstate \in [Jobs -> JobState]
  BY DEF TypeOK
<1>1. LocalOK'
  BY <1>pc, <1>call DEF ChildReady, Goto, jobVars, LocalOK, At, WorkPC, TrySchedulePC, FinishPC
<1>2. OwnerOK'
  BY <1>pc, <1>call DEF ChildReady, Goto, jobVars, OwnerOK, LocalOK, At, WorkPC, TrySchedulePC, FinishPC
<1>3. ExclusiveExecution'
  BY <1>pc, <1>call DEF ChildReady, Goto, jobVars, ExclusiveExecution, Holds, LocalOK, OwnerOK, At, WorkPC, TrySchedulePC, FinishPC
<1>4. TodoOK'
  BY <1>pc, <1>call DEF ChildReady, Goto, jobVars, TodoOK, LocalOK, At, WorkPC, TrySchedulePC, FinishPC
<1>5. ReadyOK'
  <2>1. CASE ~IsReady(call[t].job)
    BY <1>pc, <1>call, <2>1 DEF ChildReady, Goto, jobVars, ReadyOK, Unsignalled, InNodes
  <2>2. CASE IsReady(call[t].job)
    <3>1. Unsignalled(call[t].job) = {}
      <4>1. call[t].job \in Jobs
        BY DEF ChildReady, LocalOK
      <4>2. Unsignalled(call[t].job) \in SUBSET Jobs
        BY DEF Unsignalled, InNodes
      <4>. QED
        BY <2>2, <4>1, <4>2, CountType, FS_EmptySet DEF CountOK, IsReady
    <3>2. \A u \in Threads : pc'[u] = "ts_cas" => u = t \/ pc[u] = "ts_cas"
      BY <1>pc, <2>2 DEF ChildReady, Goto
    <3>. QED
      BY <2>2, <3>1, <3>2 DEF ChildReady, jobVars, ReadyOK, Unsignalled, InNodes
  <2>. QED
    BY <2>1, <2>2
<1>6. EdgesOK' /\ CountOK' /\ DependencyOrder'
  BY JobFrame DEF ChildReady, Goto, jobVars
<1>. QED
  BY <1>1, <1>2, <1>3, <1>4, <1>5, <1>6

(* try_preempt_and_execute: the kernel is over, the barrier is told.       *)
LEMMA PreemptBarrierDoneInv ==
    ASSUME Inv, TypeOK', PreemptBarrierDone
    PROVE  Inv'
<1>. USE ThreadFacts, JobAssumption DEF Inv
<1>pc. pc \in [Threads -> PC] /\ cur \in [Threads -> Jobs \union {NoJob}]
  BY DEF TypeOK
<1>call. call \in [Threads -> CallType] /\ todo \in [Threads -> SUBSET Jobs] /\ jstate \in [Jobs -> JobState]
  BY DEF TypeOK
<1>1. LocalOK'
  BY <1>pc, <1>call DEF PreemptBarrierDone, Goto, jobVars, LocalOK, At, WorkPC, TrySchedulePC, FinishPC
<1>2. OwnerOK'
  BY <1>pc, <1>call DEF PreemptBarrierDone, Goto, jobVars, OwnerOK, LocalOK, At, WorkPC, TrySchedulePC, FinishPC
<1>3. ExclusiveExecution'
  BY <1>pc, <1>call DEF PreemptBarrierDone, Goto, jobVars, ExclusiveExecution, Holds, LocalOK, OwnerOK, At, WorkPC, TrySchedulePC, FinishPC
<1>4. TodoOK'
  BY <1>pc, <1>call DEF PreemptBarrierDone, Goto, jobVars, TodoOK, LocalOK, At, WorkPC, TrySchedulePC, FinishPC
<1>5. ReadyOK'
  BY <1>pc, <1>call DEF PreemptBarrierDone, Goto, jobVars, ReadyOK, Unsignalled, InNodes, LocalOK, At, WorkPC, TrySchedulePC, FinishPC
<1>6. EdgesOK' /\ CountOK' /\ DependencyOrder'
  BY JobFrame DEF PreemptBarrierDone, Goto, jobVars
<1>. QED
  BY <1>1, <1>2, <1>3, <1>4, <1>5, <1>6

(* Task::schedule.                                                         *)
LEMMA ScheduleInv ==
    ASSUME Inv, TypeOK', NEW t \in Threads, NEW j \in Jobs, NEW b \in Barriers \union {NoBarrier}, Schedule(t, j, b)
    PROVE  Inv'
<1>. USE ThreadFacts, JobAssumption DEF Inv
<1>pc. pc \in [Threads -> PC] /\ cur \in [Threads -> Jobs \union {NoJob}]
  BY DEF TypeOK
<1>call. call \in [Threads -> CallType] /\ todo \in [Threads -> SUBSET Jobs] /\ jstate \in [Jobs -> JobState]
  BY DEF TypeOK
<1>1. LocalOK'
  BY <1>pc, <1>call DEF Schedule, Goto, jobVars, LocalOK, At, WorkPC, TrySchedulePC, FinishPC
<1>2. OwnerOK'
  BY <1>pc, <1>call DEF Schedule, Goto, jobVars, OwnerOK, LocalOK, At, WorkPC, TrySchedulePC, FinishPC
<1>3. ExclusiveExecution'
  BY <1>pc, <1>call DEF Schedule, Goto, jobVars, ExclusiveExecution, Holds, LocalOK, OwnerOK, At, WorkPC, TrySchedulePC, FinishPC
<1>4. TodoOK'
  BY <1>pc, <1>call DEF Schedule, Goto, jobVars, TodoOK, LocalOK, At, WorkPC, TrySchedulePC, FinishPC
<1>5. ReadyOK'
  BY <1>pc, <1>call DEF Schedule, Goto, jobVars, ReadyOK, Unsignalled, InNodes, LocalOK, At, WorkPC, TrySchedulePC, FinishPC
<1>6. EdgesOK' /\ CountOK' /\ DependencyOrder'
  BY JobFrame DEF Schedule, Goto, jobVars
<1>. QED
  BY <1>1, <1>2, <1>3, <1>4, <1>5, <1>6

(* run, foreground_work: the exchange from Pending to Executing.           *)
LEMMA ClaimInv ==
    ASSUME Inv, TypeOK', NEW t \in Threads, Claim(t)
    PROVE  Inv'
<1>. USE ThreadFacts, JobAssumption DEF Inv
<1>pc. pc \in [Threads -> PC] /\ cur \in [Threads -> Jobs \union {NoJob}]
  BY DEF TypeOK
<1>call. call \in [Threads -> CallType] /\ todo \in [Threads -> SUBSET Jobs] /\ jstate \in [Jobs -> JobState]
  BY DEF TypeOK
<1>1. LocalOK'
  BY <1>pc, <1>call DEF Claim, Skip, Goto, LocalOK, At, WorkPC, TrySchedulePC, FinishPC
<1>2. OwnerOK'
  BY <1>pc, <1>call DEF Claim, Skip, Goto, OwnerOK, LocalOK, At, WorkPC, TrySchedulePC, FinishPC
<1>3. ExclusiveExecution'
  <2>1. CASE jstate[cur[t]] # "Pending"
    <3>1. \A u \in Threads, j \in Jobs : Holds(u, j)' => Holds(u, j)
      BY <1>pc, <2>1 DEF Claim, Skip, Goto, Holds
    <3>. QED
      BY <3>1 DEF ExclusiveExecution
  <2>2. CASE jstate[cur[t]] = "Pending"
    <3>1. \A u \in Threads, j \in Jobs : Holds(u, j)' => Holds(u, j) \/ (u = t /\ j = cur[t])
      BY <1>pc, <2>2 DEF Claim, Goto, Holds
    <3>2. \A u \in Threads, j \in Jobs : Holds(u, j) => j # cur[t]
      BY <2>2, HolderState
    <3>. QED
      BY <3>1, <3>2 DEF ExclusiveExecution
  <2>. QED
    BY <2>1, <2>2
<1>4. TodoOK'
  BY <1>pc, <1>call DEF Claim, Skip, Goto, TodoOK, LocalOK, At, WorkPC, TrySchedulePC, FinishPC
<1>5. ReadyOK'
  BY <1>pc, <1>call DEF Claim, Skip, Goto, ReadyOK, Unsignalled, InNodes, LocalOK, At, WorkPC, TrySchedulePC, FinishPC
<1>6. EdgesOK'
  BY <1>pc, <1>call DEF Claim, Skip, Goto, EdgesOK, At, WorkPC, TrySchedulePC, FinishPC
<1>7. CountOK'
  BY <1>pc, <1>call DEF Claim, Skip, Goto, CountOK, Unsignalled, InNodes, At, WorkPC, TrySchedulePC, FinishPC
<1>8. DependencyOrder'
  BY <1>pc, <1>call DEF Claim, Skip, Goto, DependencyOrder, InNodes, At, WorkPC, TrySchedulePC, FinishPC
<1>. QED
  BY <1>1, <1>2, <1>3, <1>4, <1>5, <1>6, <1>7, <1>8

(* process: the kernel is over.                                            *)
LEMMA KernelDoneInv ==
    ASSUME Inv, TypeOK', NEW t \in Threads, KernelDone(t)
    PROVE  Inv'
<1>. USE ThreadFacts, JobAssumption DEF Inv
<1>pc. pc \in [Threads -> PC] /\ cur \in [Threads -> Jobs \union {NoJob}]
  BY DEF TypeOK
<1>call. call \in [Threads -> CallType] /\ todo \in [Threads -> SUBSET Jobs] /\ jstate \in [Jobs -> JobState]
  BY DEF TypeOK
<1>1. LocalOK'
  BY <1>pc, <1>call DEF KernelDone, Goto, LocalOK, At, WorkPC, TrySchedulePC, FinishPC
<1>2. OwnerOK'
  <2>1. cur[t] \in Jobs /\ At(t) = "kernel" /\ At(t)' = "children"
    BY <1>pc DEF KernelDone, Goto, LocalOK, At, WorkPC, TrySchedulePC
  <2>2. jstate' = [jstate EXCEPT ![cur[t]] = "Processed"]
    BY <2>1 DEF KernelDone, OwnerOK
  <2>3. \A u \in Threads : u # t => At(u)' = At(u) /\ cur'[u] = cur[u]
    BY <1>pc DEF KernelDone, Goto, At
  <2>4. \A u \in Threads : u # t /\ At(u) # "claim" => cur[u] # cur[t]
    BY <2>1, HolderUnique
  <2>5. \A u \in Threads : At(u) \in WorkPC => cur[u] \in Jobs
    BY <1>pc DEF LocalOK
  <2>. QED
    BY <1>call, <2>1, <2>2, <2>3, <2>4, <2>5 DEF OwnerOK, KernelDone, FinishPC, WorkPC
<1>3. ExclusiveExecution'
  BY <1>pc, <1>call DEF KernelDone, Goto, ExclusiveExecution, Holds, LocalOK, OwnerOK, At, WorkPC, TrySchedulePC, FinishPC
<1>4. TodoOK'
  <2>1. cur[t] \in Jobs /\ At(t) = "kernel"
    BY <1>pc DEF KernelDone, LocalOK, At, WorkPC, TrySchedulePC
  <2>2. \A c \in Jobs : <<cur[t], c>> \notin signalled
    BY <2>1 DEF OwnerOK, EdgesOK
  <2>3. \A u \in Threads : u # t => At(u)' = At(u)
    BY <1>pc DEF KernelDone, Goto, At
  <2>4. todo'[t] = children[cur[t]]
    BY <1>call DEF KernelDone
  <2>5. \A u \in Threads : u # t => todo'[u] = todo[u]
    BY <1>call DEF KernelDone
  <2>. QED
    BY <2>2, <2>3, <2>4, <2>5 DEF TodoOK, KernelDone
<1>5. ReadyOK'
  BY <1>pc, <1>call DEF KernelDone, Goto, ReadyOK, Unsignalled, InNodes, LocalOK, At, WorkPC, TrySchedulePC, FinishPC
<1>6. EdgesOK'
  BY <1>pc, <1>call DEF KernelDone, Goto, EdgesOK, At, WorkPC, TrySchedulePC, FinishPC
<1>7. CountOK'
  BY <1>pc, <1>call DEF KernelDone, Goto, CountOK, Unsignalled, InNodes, At, WorkPC, TrySchedulePC, FinishPC
<1>8. DependencyOrder'
  BY <1>pc, <1>call DEF KernelDone, Goto, DependencyOrder, InNodes, At, WorkPC, TrySchedulePC, FinishPC
<1>. QED
  BY <1>1, <1>2, <1>3, <1>4, <1>5, <1>6, <1>7, <1>8

(* schedule_children: the decrement.                                       *)
LEMMA SignalChildInv ==
    ASSUME Inv, TypeOK', NEW t \in Threads, SignalChild(t)
    PROVE  Inv'
<1>. USE ThreadFacts, JobAssumption DEF Inv
<1>pc. pc \in [Threads -> PC] /\ cur \in [Threads -> Jobs \union {NoJob}]
  BY DEF TypeOK
<1>call. call \in [Threads -> CallType] /\ todo \in [Threads -> SUBSET Jobs] /\ jstate \in [Jobs -> JobState]
  BY DEF TypeOK
<1>t. cur[t] \in Jobs /\ At(t) = "children" /\ jstate[cur[t]] = "Processed"
  BY <1>pc DEF SignalChild, LocalOK, OwnerOK, At, WorkPC, TrySchedulePC, FinishPC
<1>c. PICK c \in todo[t] :
        /\ pendingIn' = [pendingIn EXCEPT ![c] = FetchSub(@)]
        /\ signalled' = signalled \union {<<cur[t], c>>}
        /\ todo' = [todo EXCEPT ![t] = @ \ {c}]
        /\ call' = [call EXCEPT ![t] = [job |-> c, num |-> 0, ret |-> "children"]]
  BY DEF SignalChild
<1>e. c \in Jobs /\ c \in children[cur[t]] /\ <<cur[t], c>> \notin signalled
  BY <1>call, <1>t, <1>c DEF TodoOK
<1>1. LocalOK'
  BY <1>pc, <1>call DEF SignalChild, Goto, LocalOK, At, WorkPC, TrySchedulePC, FinishPC
<1>2. OwnerOK'
  BY <1>pc, <1>call DEF SignalChild, Goto, OwnerOK, LocalOK, At, WorkPC, TrySchedulePC, FinishPC
<1>3. ExclusiveExecution'
  BY <1>pc, <1>call DEF SignalChild, Goto, ExclusiveExecution, Holds, LocalOK, OwnerOK, At, WorkPC, TrySchedulePC, FinishPC
<1>4. TodoOK'
  <2>1. \A u \in Threads : u # t => At(u)' = At(u) /\ todo'[u] = todo[u]
    BY <1>pc, <1>call, <1>c DEF SignalChild, Goto, At
  <2>2. todo'[t] = todo[t] \ {c}
    BY <1>call, <1>c
  <2>3. \A u \in Threads : u # t /\ At(u) # "claim" => cur[u] # cur[t]
    BY <1>t, HolderUnique
  <2>4. UNCHANGED <<cur, children>>
    BY DEF SignalChild
  <2>. QED
    BY <1>t, <1>c, <2>1, <2>2, <2>3, <2>4 DEF TodoOK
<1>5. ReadyOK'
  BY <1>pc, <1>call DEF SignalChild, Goto, ReadyOK, Unsignalled, InNodes, LocalOK, At, WorkPC, TrySchedulePC, FinishPC
<1>6. EdgesOK'
  BY <1>t, <1>c, <1>e DEF SignalChild, EdgesOK
<1>7. CountOK'
  <2>1. \A x \in Jobs : x # c => Unsignalled(x)' = Unsignalled(x)
    BY <1>c DEF SignalChild, Unsignalled, InNodes
  <2>2. Unsignalled(c)' = Unsignalled(c) \ {cur[t]} /\ cur[t] \in Unsignalled(c)
    BY <1>t, <1>c, <1>e DEF SignalChild, Unsignalled, InNodes
  <2>3. Unsignalled(c) \in SUBSET Jobs
    BY DEF Unsignalled, InNodes
  <2>4. /\ Cardinality(Unsignalled(c)) \in Nat
        /\ Cardinality(Unsignalled(c)) # 0
        /\ Cardinality(Unsignalled(c)') = Cardinality(Unsignalled(c)) - 1
    <3>1. IsFiniteSet(Unsignalled(c)) /\ Cardinality(Unsignalled(c)) \in Nat
      BY <2>3, CountType, FS_CardinalityType
    <3>2. Cardinality(Unsignalled(c)) # 0
      BY <2>2, <3>1, FS_EmptySet
    <3>3. Cardinality(Unsignalled(c) \ {cur[t]}) = Cardinality(Unsignalled(c)) - 1
      BY <2>2, <3>1, FS_RemoveElement
    <3>. QED
      BY <2>2, <3>1, <3>2, <3>3
  <2>5. pendingIn'[c] = pendingIn[c] - 1
    BY <1>c, <1>e, <2>4 DEF CountOK, FetchSub, TypeOK
  <2>6. \A x \in Jobs : x # c => pendingIn'[x] = pendingIn[x]
    BY <1>c DEF TypeOK
  <2>. QED
    BY <1>e, <2>1, <2>4, <2>5, <2>6 DEF CountOK
<1>8. DependencyOrder'
  BY <1>pc, <1>call DEF SignalChild, Goto, DependencyOrder, InNodes, At, WorkPC, TrySchedulePC, FinishPC
<1>. QED
  BY <1>1, <1>2, <1>3, <1>4, <1>5, <1>6, <1>7, <1>8

(* try_schedule: the exchange from Idle to Pending.                        *)
LEMMA TryScheduleExchangeInv ==
    ASSUME Inv, TypeOK', NEW t \in Threads, TryScheduleExchange(t)
    PROVE  Inv'
<1>. USE ThreadFacts, JobAssumption DEF Inv
<1>pc. pc \in [Threads -> PC] /\ cur \in [Threads -> Jobs \union {NoJob}]
  BY DEF TypeOK
<1>call. call \in [Threads -> CallType] /\ todo \in [Threads -> SUBSET Jobs] /\ jstate \in [Jobs -> JobState]
  BY DEF TypeOK
<1>t. call[t].job \in Jobs /\ call[t].ret \in CallPC /\ Unsignalled(call[t].job) = {}
  BY <1>call, CallFacts DEF TryScheduleExchange, LocalOK, ReadyOK, TrySchedulePC
<1>r. call[t].ret \notin TrySchedulePC \union {"child_ready", "claim"}
  BY <1>t DEF CallPC, TrySchedulePC
<1>u. \A u \in Threads : pc'[u] \in TrySchedulePC \union {"child_ready"} =>
            call'[u] = call[u] /\ pc[u] \in TrySchedulePC \union {"child_ready"} /\ (pc'[u] = pc[u] \/ u = t)
  BY <1>pc, <1>call, <1>r DEF TryScheduleExchange, Goto, TrySchedulePC
<1>at. \A u \in Threads : At(u)' = At(u)
  <2>1. CASE jstate[call[t].job] = "Idle"
    BY <1>pc, <1>call, <2>1 DEF TryScheduleExchange, Goto, At, TrySchedulePC
  <2>2. CASE jstate[call[t].job] # "Idle"
    BY <1>pc, <1>call, <1>r, <2>2 DEF TryScheduleExchange, Goto, At, TrySchedulePC
  <2>. QED
    BY <2>1, <2>2
<1>j. \A x \in Jobs : jstate[x] # "Idle" => jstate'[x] = jstate[x]
  BY <1>call DEF TryScheduleExchange
<1>k. \A x \in Jobs : jstate'[x] # jstate[x] => x = call[t].job
  BY <1>call DEF TryScheduleExchange
<1>1. LocalOK'
  <2>1. \A u \in Threads : (cur[u] # NoJob <=> At(u) \in WorkPC)'
    BY <1>at DEF LocalOK, TryScheduleExchange
  <2>2. \A u \in Threads : pc'[u] = "child_ready" => pc[u] = "child_ready"
    BY <1>pc, <1>r DEF TryScheduleExchange, Goto
  <2>. QED
    BY <1>u, <2>1, <2>2 DEF LocalOK
<1>2. OwnerOK'
  <2>1. \A u \in Threads : At(u) \in WorkPC => cur[u] \in Jobs
    BY <1>pc DEF LocalOK
  <2>. QED
    BY <1>at, <1>j, <2>1 DEF OwnerOK, TryScheduleExchange, WorkPC, FinishPC
<1>3. ExclusiveExecution'
  <2>1. \A u \in Threads, x \in Jobs : Holds(u, x)' => Holds(u, x)
    BY <1>pc, <1>r DEF TryScheduleExchange, Goto, Holds
  <2>. QED
    BY <2>1 DEF ExclusiveExecution
<1>4. TodoOK'
  BY <1>at DEF TodoOK, TryScheduleExchange
<1>5. ReadyOK'
  <2>1. \A u \in Threads : pc'[u] = "ts_cas" => pc[u] = "ts_cas" /\ call'[u] = call[u]
    BY <1>pc, <1>call, <1>r DEF TryScheduleExchange, Goto, TrySchedulePC
  <2>. QED
    BY <2>1 DEF ReadyOK, TryScheduleExchange, Unsignalled, InNodes
<1>6. EdgesOK'
  BY <1>j DEF TryScheduleExchange, EdgesOK
<1>7. CountOK'
  BY DEF TryScheduleExchange, CountOK, Unsignalled, InNodes
<1>8. DependencyOrder'
  <2>1. \A q \in InNodes(call[t].job) : jstate[q] = "Processed"
    BY <1>t DEF Unsignalled, InNodes, EdgesOK
  <2>2. \A x \in Jobs : InNodes(x)' = InNodes(x) /\ InNodes(x) \subseteq Jobs
    BY DEF TryScheduleExchange, InNodes
  <2>. QED
    BY <1>j, <1>k, <2>1, <2>2 DEF DependencyOrder
<1>. QED
  BY <1>1, <1>2, <1>3, <1>4, <1>5, <1>6, <1>7, <1>8

(* try_preempt_and_execute: the exchange to Preempted.                     *)
LEMMA PreemptInv ==
    ASSUME Inv, TypeOK', NEW j \in Jobs, Preempt(j)
    PROVE  Inv'
<1>. USE ThreadFacts, JobAssumption DEF Inv
<1>pc. pc \in [Threads -> PC] /\ cur \in [Threads -> Jobs \union {NoJob}]
  BY DEF TypeOK
<1>call. call \in [Threads -> CallType] /\ todo \in [Threads -> SUBSET Jobs] /\ jstate \in [Jobs -> JobState]
  BY DEF TypeOK
<1>1. LocalOK'
  BY <1>pc, <1>call DEF Preempt, Preemptable, Goto, LocalOK, At, WorkPC, TrySchedulePC, FinishPC
<1>2. OwnerOK'
  BY <1>pc, <1>call DEF Preempt, Preemptable, Goto, OwnerOK, LocalOK, At, WorkPC, TrySchedulePC, FinishPC
<1>3. ExclusiveExecution'
  <2>1. \A u \in Threads, x \in Jobs : Holds(u, x)' => Holds(u, x) \/ (u = Main /\ x = j)
    BY <1>pc DEF Preempt, Goto, Holds
  <2>2. \A u \in Threads : ~Holds(u, j)
    BY HolderState DEF Preempt, Preemptable
  <2>3. \A x \in Jobs : Holds(Main, x)' => x = j
    BY <1>pc DEF Preempt, Holds
  <2>. QED
    BY <2>1, <2>2, <2>3 DEF ExclusiveExecution
<1>4. TodoOK'
  BY <1>pc, <1>call DEF Preempt, Preemptable, Goto, TodoOK, LocalOK, At, WorkPC, TrySchedulePC, FinishPC
<1>5. ReadyOK'
  BY <1>pc, <1>call DEF Preempt, Preemptable, Goto, ReadyOK, Unsignalled, InNodes, LocalOK, At, WorkPC, TrySchedulePC, FinishPC
<1>6. EdgesOK'
  BY <1>pc, <1>call DEF Preempt, Preemptable, Goto, EdgesOK, At, WorkPC, TrySchedulePC, FinishPC
<1>7. CountOK'
  BY <1>pc, <1>call DEF Preempt, Preemptable, Goto, CountOK, Unsignalled, InNodes, At, WorkPC, TrySchedulePC, FinishPC
<1>8. DependencyOrder'
  BY <1>pc, <1>call DEF Preempt, Preemptable, Goto, DependencyOrder, InNodes, At, WorkPC, TrySchedulePC, FinishPC
<1>. QED
  BY <1>1, <1>2, <1>3, <1>4, <1>5, <1>6, <1>7, <1>8

(* try_preempt_and_execute: the state is forced to Processed.              *)
LEMMA PreemptForceStateInv ==
    ASSUME Inv, TypeOK', PreemptForceState
    PROVE  Inv'
<1>. USE ThreadFacts, JobAssumption DEF Inv
<1>pc. pc \in [Threads -> PC] /\ cur \in [Threads -> Jobs \union {NoJob}]
  BY DEF TypeOK
<1>call. call \in [Threads -> CallType] /\ todo \in [Threads -> SUBSET Jobs] /\ jstate \in [Jobs -> JobState]
  BY DEF TypeOK
<1>1. LocalOK'
  BY <1>pc, <1>call DEF PreemptForceState, Goto, LocalOK, At, WorkPC, TrySchedulePC, FinishPC
<1>2. OwnerOK'
  <2>1. cur[Main] \in Jobs /\ At(Main) = "preempt_force" /\ At(Main)' = "release"
    BY <1>pc DEF PreemptForceState, Goto, LocalOK, At, WorkPC, TrySchedulePC
  <2>2. \A u \in Threads : u # Main => At(u)' = At(u)
    BY <1>pc DEF PreemptForceState, Goto, At
  <2>3. \A u \in Threads : u # Main /\ At(u) # "claim" => cur[u] # cur[Main]
    BY <2>1, HolderUnique
  <2>4. \A u \in Threads : At(u) \in WorkPC => cur[u] \in Jobs
    BY <1>pc DEF LocalOK
  <2>. QED
    BY <1>call, <2>1, <2>2, <2>3, <2>4 DEF OwnerOK, PreemptForceState, FinishPC, WorkPC
<1>3. ExclusiveExecution'
  BY <1>pc, <1>call DEF PreemptForceState, Goto, ExclusiveExecution, Holds, LocalOK, OwnerOK, At, WorkPC, TrySchedulePC, FinishPC
<1>4. TodoOK'
  BY <1>pc, <1>call DEF PreemptForceState, Goto, TodoOK, LocalOK, At, WorkPC, TrySchedulePC, FinishPC
<1>5. ReadyOK'
  BY <1>pc, <1>call DEF PreemptForceState, Goto, ReadyOK, Unsignalled, InNodes, LocalOK, At, WorkPC, TrySchedulePC, FinishPC
<1>6. EdgesOK'
  BY <1>pc, <1>call DEF PreemptForceState, Goto, EdgesOK, At, WorkPC, TrySchedulePC, FinishPC
<1>7. CountOK'
  BY <1>pc, <1>call DEF PreemptForceState, Goto, CountOK, Unsignalled, InNodes, At, WorkPC, TrySchedulePC, FinishPC
<1>8. DependencyOrder'
  <2>1. cur[Main] \in Jobs /\ jstate[cur[Main]] = "Preempted"
    BY <1>pc DEF PreemptForceState, LocalOK, OwnerOK, At, WorkPC, TrySchedulePC
  <2>2. \A x \in Jobs : InNodes(x)' = InNodes(x) /\ InNodes(x) \subseteq Jobs
    BY DEF PreemptForceState, InNodes
  <2>. QED
    BY <1>call, <2>1, <2>2 DEF DependencyOrder, PreemptForceState
<1>. QED
  BY <1>1, <1>2, <1>3, <1>4, <1>5, <1>6, <1>7, <1>8

(* get_job: a popped or stolen job is in hand, not yet held.               *)
LEMMA TakeInv ==
    ASSUME Inv, TypeOK', NEW t \in Threads, NEW j \in Jobs, pc[t] \notin BusyPC, Goto(t, "claim"),
           cur' = [cur EXCEPT ![t] = j], UNCHANGED <<children, jstate, pendingIn, todo, call, signalled>>
    PROVE  Inv'
<1>. USE ThreadFacts, JobAssumption DEF Inv
<1>pc. pc \in [Threads -> PC] /\ cur \in [Threads -> Jobs \union {NoJob}]
  BY DEF TypeOK
<1>t. At(t)' = "claim" /\ pc'[t] = "claim" /\ cur'[t] = j
  BY <1>pc DEF Goto, At, TrySchedulePC
<1>u. \A u \in Threads : u # t => At(u)' = At(u) /\ pc'[u] = pc[u] /\ cur'[u] = cur[u]
  BY <1>pc DEF Goto, At
<1>1. LocalOK'
  BY <1>t, <1>u DEF LocalOK, WorkPC, TrySchedulePC
<1>2. OwnerOK'
  BY <1>t, <1>u DEF OwnerOK, FinishPC
<1>3. ExclusiveExecution'
  <2>1. \A u \in Threads, x \in Jobs : Holds(u, x)' => Holds(u, x)
    BY <1>t, <1>u DEF Holds
  <2>. QED
    BY <2>1 DEF ExclusiveExecution
<1>4. TodoOK'
  BY <1>t, <1>u DEF TodoOK
<1>5. ReadyOK'
  BY <1>t, <1>u DEF ReadyOK, Unsignalled, InNodes
<1>6. EdgesOK' /\ CountOK' /\ DependencyOrder'
  BY JobFrame
<1>. QED
  BY <1>1, <1>2, <1>3, <1>4, <1>5, <1>6

(* get_job: a pop from an own queue.                                       *)
LEMMA PopOwnInv ==
    ASSUME Inv, TypeOK', NEW t \in Threads, NEW q \in {"public", "private"},
           NEW here \in PC \ BusyPC, NEW l \in PC \ BusyPC, PopOwn(t, here, q, l)
    PROVE  Inv'
<1>pc. pc \in [Threads -> PC]
  BY DEF Inv, TypeOK
<1>1. CASE queue[t][q] = <<>>
  <2>1. Quiet
    BY <1>1, <1>pc DEF PopOwn, Goto, Quiet, jobVars
  <2>. QED
    BY <2>1, QuietStep
<1>2. CASE queue[t][q] # <<>>
  <2>1. queue[t][q] \in Seq(Jobs)
    BY DEF Inv, TypeOK
  <2>2. Head(queue[t][q]) \in Jobs
    BY <1>2, <2>1
  <2>. QED
    BY <1>2, <2>2, TakeInv DEF PopOwn, jobVars
<1>. QED
  BY <1>1, <1>2

(* get_job: a theft.                                                       *)
LEMMA StealInv ==
    ASSUME Inv, TypeOK', NEW t \in Threads, Steal(t)
    PROVE  Inv'
<1>. DEFINE v == Stealable(t, stealRobin[t])
<1>1. CASE queue[v]["public"] = <<>>
  <2>1. Quiet
    BY <1>1 DEF Steal, Quiet, jobVars
  <2>. QED
    BY <2>1, QuietStep
<1>2. CASE queue[v]["public"] # <<>>
  <2>1. queue[v]["public"] \in Seq(Jobs)
    <3>1. v \in Threads
      BY StealRange DEF Inv, TypeOK
    <3>. QED
      BY <3>1 DEF Inv, TypeOK
  <2>2. Head(queue[v]["public"]) \in Jobs
    BY <1>2, <2>1
  <2>3. "steal" \notin BusyPC
    BY DEF BusyPC, WorkPC, TrySchedulePC, FinishPC
  <2>. QED
    BY <1>2, <2>2, <2>3, TakeInv DEF Steal, jobVars
<1>. QED
  BY <1>1, <1>2

(* Init satisfies the invariant.                                           *)
LEMMA InvInit == Init => Inv
<1>. SUFFICES ASSUME Init PROVE Inv
  OBVIOUS
<1>1. TypeOK
  BY TypeInit
<1>2. LocalOK /\ OwnerOK /\ TodoOK /\ ReadyOK
  BY DEF Init, LocalOK, OwnerOK, TodoOK, ReadyOK, At, WorkPC, FinishPC, TrySchedulePC, NoCall
<1>3. ExclusiveExecution /\ EdgesOK /\ DependencyOrder
  BY DEF Init, ExclusiveExecution, Holds, EdgesOK, DependencyOrder
<1>4. CountOK
  <2>1. \A c \in Jobs : Unsignalled(c) = InNodes(c)
    BY DEF Init, Unsignalled
  <2>. QED
    BY <2>1 DEF Init, CountOK
<1>. QED
  BY <1>1, <1>2, <1>3, <1>4 DEF Inv

(* Every step keeps it.                                                    *)
LEMMA InvStep == Inv /\ [Next]_vars => Inv'
<1>. SUFFICES ASSUME Inv, [Next]_vars PROVE Inv'
  OBVIOUS
<1>0. TypeOK'
  BY TypeStep DEF Inv
<1>1. ASSUME NEW t \in Threads, TryScheduleStep(t) PROVE Inv'
  BY <1>0, <1>1, TryScheduleExchangeInv, TryScheduleCountInv, DispatchInv, TryScheduleNotifyInv DEF TryScheduleStep
<1>2. ASSUME NEW t \in Threads, PopPrivate(t) \/ PopPublic(t) PROVE Inv'
  <2>1. {"pop_private", "pop_public", "steal"} \subseteq PC \ BusyPC
    BY DEF PC, BusyPC, WorkPC, TrySchedulePC, FinishPC
  <2>. QED
    BY <1>0, <1>2, <2>1, PopOwnInv DEF PopPrivate, PopPublic
<1>3. ASSUME NEW t \in Threads, StealFailed(t) PROVE Inv'
  BY <1>0, <1>3, QuietActions, QuietStep DEF Inv
<1>4. ASSUME NEW t \in Threads, GetJobStep(t) PROVE Inv'
  BY <1>0, <1>2, <1>3, <1>4, StealInv, ClaimInv DEF GetJobStep
<1>5. ASSUME NEW t \in Threads, ProcessStep(t) PROVE Inv'
  BY <1>0, <1>5, KernelDoneInv, SignalChildInv, ChildReadyInv, BarrierDoneInv, ReleaseJobInv, UnpendInv
     DEF ProcessStep
<1>6. ASSUME NEW t \in Threads, NEW j \in Jobs, NEW b \in Barriers \union {NoBarrier}, Schedule(t, j, b)
      PROVE  Inv'
  BY <1>0, <1>6, ScheduleInv
<1>7. ASSUME \/ \E t \in Workers : RunStep(t) \/ LockWakeMutex(t) \/ SpuriousWake(t)
             \/ BeginWait \/ WaitStep \/ ShutdownStep
      PROVE  Inv'
  BY <1>0, <1>7, QuietActions, QuietStep DEF Inv
<1>8. ASSUME NEW j \in Jobs, Preempt(j) PROVE Inv'
  BY <1>0, <1>8, PreemptInv
<1>9. ASSUME PreemptStep PROVE Inv'
  BY <1>0, <1>9, PreemptBarrierDoneInv, PreemptForceStateInv DEF PreemptStep
<1>10. CASE UNCHANGED vars
  <2>1. Quiet
    BY <1>10 DEF vars, jobVars, Quiet
  <2>. QED
    BY <1>0, <2>1, QuietStep
<1>. QED
  BY <1>1, <1>4, <1>5, <1>6, <1>7, <1>8, <1>9, <1>10 DEF Next, ThreadStep, MainStep, Down

(* The invariant holds in every state of every behaviour.                  *)
THEOREM Invariance == Spec => []Inv
BY InvInit, InvStep, PTL DEF Spec

-----------------------------------------------------------------------------
(* Results.                                                                *)

(* Type correctness: every queue holds jobs, every counter stays in its    *)
(* width and every index names a thread (dispatch, rr_next, the counters). *)
THEOREM TypeCorrect == Spec => []TypeOK
BY Invariance, PTL DEF Inv

(* Two threads never process one job: for any number of threads that pop,  *)
(* steal and preempt, the exchanges of the state exclude one another.      *)
THEOREM ExclusiveExecutionHolds == Spec => []ExclusiveExecution
BY Invariance, PTL DEF Inv

(* No job leaves Idle before all its parents are Processed, for any graph  *)
(* and any interleaving of the parents in schedule_children.               *)
THEOREM DependencyOrderHolds == Spec => []DependencyOrder
BY Invariance, PTL DEF Inv

(* Every step of the program is a step of every job's life cycle.          *)
LEMMA LifeCycleStep ==
    ASSUME Inv, [Next]_vars
    PROVE  \A j \in Jobs : LifeStep(j)
<1>. USE ThreadFacts
<1>0. jstate \in [Jobs -> JobState] /\ cur \in [Threads -> Jobs \union {NoJob}]
  BY DEF Inv, TypeOK
<1>1. ASSUME NEW t \in Threads, TryScheduleExchange(t) PROVE \A j \in Jobs : LifeStep(j)
  BY <1>0, <1>1 DEF TryScheduleExchange, LifeStep
<1>2. ASSUME NEW t \in Threads, Claim(t) PROVE \A j \in Jobs : LifeStep(j)
  BY <1>0, <1>2 DEF Claim, LifeStep
<1>3. ASSUME NEW t \in Threads, KernelDone(t) PROVE \A j \in Jobs : LifeStep(j)
  BY <1>0, <1>3 DEF KernelDone, LifeStep
<1>4. ASSUME NEW k \in Jobs, Preempt(k) PROVE \A j \in Jobs : LifeStep(j)
  BY <1>0, <1>4 DEF Preempt, Preemptable, LifeStep
<1>5. ASSUME PreemptForceState PROVE \A j \in Jobs : LifeStep(j)
  <2>1. jstate[cur[Main]] = "Preempted"
    BY <1>5 DEF Inv, OwnerOK, PreemptForceState, At, TrySchedulePC
  <2>. QED
    BY <1>0, <1>5, <2>1 DEF PreemptForceState, LifeStep
<1>6. ASSUME jstate' = jstate PROVE \A j \in Jobs : LifeStep(j)
  BY <1>6 DEF LifeStep
<1>7. ASSUME NEW t \in Threads, ThreadStep(t) PROVE \A j \in Jobs : LifeStep(j)
  <2>1. CASE TryScheduleCount(t) \/ Dispatch(t) \/ TryScheduleNotify(t)
    BY <1>6, <2>1 DEF TryScheduleCount, Dispatch, TryScheduleNotify, jobVars
  <2>2. CASE PopPrivate(t) \/ PopPublic(t) \/ Steal(t) \/ StealFailed(t)
    BY <1>6, <2>2 DEF PopPrivate, PopPublic, PopOwn, Steal, StealFailed, jobVars
  <2>3. CASE SignalChild(t) \/ ChildReady(t) \/ BarrierDone(t) \/ ReleaseJob(t) \/ Unpend(t)
    BY <1>6, <2>3 DEF SignalChild, ChildReady, BarrierDone, ReleaseJob, Unpend, jobVars
  <2>. QED
    BY <1>1, <1>2, <1>3, <1>7, <2>1, <2>2, <2>3 DEF ThreadStep, TryScheduleStep, GetJobStep, ProcessStep
<1>8. ASSUME NEW t \in Threads, NEW j \in Jobs, NEW b \in Barriers \union {NoBarrier}, Schedule(t, j, b)
      PROVE  \A i \in Jobs : LifeStep(i)
  BY <1>6, <1>8 DEF Schedule
<1>9. ASSUME NEW t \in Workers, RunStep(t) \/ LockWakeMutex(t) \/ SpuriousWake(t)
      PROVE  \A j \in Jobs : LifeStep(j)
  BY <1>6, <1>9 DEF RunStep, RunTop, CheckWake, FallAsleep, LockWakeMutex, SpuriousWake, jobVars
<1>10. ASSUME BeginWait \/ WaitStep \/ ShutdownStep PROVE \A j \in Jobs : LifeStep(j)
  <2>1. CASE BeginWait \/ WaitStep
    BY <1>6, <2>1 DEF BeginWait, WaitStep, WaitMore, WaitOver, IdleNotify, jobVars
  <2>2. CASE ShutdownStep
    BY <1>6, <2>2 DEF ShutdownStep, SetTerminate, TryLockNotify, Join, Joined, JoinTimeout, CancelJoin, jobVars
  <2>. QED
    BY <1>10, <2>1, <2>2
<1>11. ASSUME PreemptStep PROVE \A j \in Jobs : LifeStep(j)
  BY <1>5, <1>6, <1>11 DEF PreemptStep, PreemptBarrierDone, jobVars
<1>12. CASE UNCHANGED vars
  BY <1>6, <1>12 DEF vars, jobVars
<1>. QED
  BY <1>4, <1>7, <1>8, <1>9, <1>10, <1>11, <1>12 DEF Next, MainStep, Down

(* A job goes once through the states of JobState, in order: no thread     *)
(* starts a job again, or takes it out of the hands of the thread that     *)
(* runs or preempts it (the three exchanges and the forced store).         *)
THEOREM LifeCycleHolds == Spec => LifeCycle
<1>1. Inv /\ [Next]_vars => [\A j \in Jobs : LifeStep(j)]_vars
  BY LifeCycleStep
<1>. QED
  BY <1>1, Invariance, PTL DEF Spec, LifeCycle

-----------------------------------------------------------------------------
(* The counters: for every careful client, pending and the barriers count  *)
(* exactly what is handed over and not finished, so that a wait returns    *)
(* when it may, shutdown() leaves nothing behind, affinities are kept and  *)
(* JobSystem implements TaskGraph.                                         *)

(* Where a job may run when it may not be stolen.                          *)
Allowed(t, j) ==
    ~Affinity[j].stealable =>
        IF Affinity[j].balance THEN t >= Affinity[j].hint ELSE t = Affinity[j].hint

(* Public queues hold only jobs that may be stolen, a private queue and    *)
(* its thread only jobs that are allowed there.                            *)
AffinityOK ==
    \A t \in Threads :
        /\ \A i \in DOMAIN queue[t]["public"] : Affinity[queue[t]["public"][i]].stealable
        /\ \A i \in DOMAIN queue[t]["private"] : Allowed(t, queue[t]["private"][i])
        /\ At(t) \in {"claim", "kernel"} => Allowed(t, cur[t])

(* A thread between Task::schedule's walk and the addition to pending.     *)
Announcing(t) == pc[t] \in {"ts_cas", "ts_count"} /\ call[t].ret # "children"

(* The jobs handed over whose number is not in pending yet, and the others.*)
Uncounted == {j \in Jobs : \E t \in Threads : Announcing(t) /\ j \in Marked(call[t].job)}
Counted   == accepted \ Uncounted

(* What is handed over is a union of whole graphs, and holds every job     *)
(* that has left Idle.                                                     *)
AcceptedOK ==
    /\ children \in Graphs
    /\ \A j \in Jobs : jstate[j] # "Idle" => j \in accepted
    /\ \A j \in accepted : children[j] \subseteq accepted
    /\ \A j \in accepted : \E r \in accepted : InNodes(r) = {} /\ j \in Marked(r)

(* A call of try_schedule for a child announces nothing.                   *)
ChildCallOK ==
    \A t \in Threads :
        /\ pc[t] = "ts_count" => call[t].ret # "children"
        /\ pc[t] \in {"child_ready", "ts_cas"} /\ call[t].ret = "children" =>
             call[t].num = 0 /\ call[t].job \in children[cur[t]]

(* A call for a root announces the graph below it, which nobody has        *)
(* touched; no other thread announces the same graph.                      *)
RootCallOK ==
    \A t \in Threads : Announcing(t) =>
        /\ call[t].num = NumJobs(call[t].job)
        /\ InNodes(call[t].job) = {}
        /\ Marked(call[t].job) \subseteq accepted
        /\ call[t].job \in Spawned \/ t = Main
FreshOK ==
    \A t \in Threads : Announcing(t) =>
        \A j \in Marked(call[t].job) :
            jstate[j] = IF j = call[t].job /\ pc[t] = "ts_count" THEN "Pending" ELSE "Idle"
SoleOK ==
    \A t, u \in Threads : Announcing(t) /\ Announcing(u) /\ call[t].job = call[u].job => t = u

(* What is on its way to a queue, in a queue or in a thread's hands is in  *)
(* pending.                                                                *)
PushOK == \A t \in Threads : pc[t] = "ts_dispatch" => call[t].job \in Counted
CountedOK ==
    /\ \A t \in Threads, q \in {"public", "private"} :
          \A i \in DOMAIN queue[t][q] : queue[t][q][i] \in Counted
    /\ \A t \in Threads : cur[t] # NoJob => cur[t] \in Counted

(* A job goes back to the pool by the hand of the thread that processed it.*)
ReleasedOK ==
    /\ \A j \in Jobs : released[j] => jstate[j] = "Processed"
    /\ \A t \in Threads :
          cur[t] # NoJob /\ pc[t] # "claim" => (released[cur[t]] <=> pc[t] = "unpend")

(* The jobs pending stands for.                                            *)
Unpending(j) == \E t \in Threads : pc[t] = "unpend" /\ cur[t] = j
Owed == {j \in Counted : ~released[j] \/ Unpending(j)}
PendingOK == pending = Cardinality(Owed)

(* The jobs a barrier stands for.                                          *)
PastBarrier(j) ==
    released[j] \/ \E t \in Threads : cur[t] = j /\ pc[t] \in {"release", "unpend", "preempt_force"}
Expected(b) == {j \in accepted : barrierOf[j] = b /\ ~PastBarrier(j)}
BarrierOK == \A b \in Barriers : barrierPending[b] = Cardinality(Expected(b))

CallsOK ==
    /\ ChildCallOK
    /\ RootCallOK
    /\ FreshOK
    /\ SoleOK
    /\ PushOK

Books ==
    /\ AcceptedOK
    /\ CallsOK
    /\ CountedOK
    /\ ReleasedOK
    /\ PendingOK
    /\ BarrierOK
    /\ PendingIsHeld

(* Client code, waits and the shutdown are the main thread's.              *)
OnlyMain == Shutting \union {"client", "wait", "idle_notify", "preempt_kernel", "preempt_force"}
MainOK ==
    /\ \A t \in Threads : At(t) \in OnlyMain => t = Main
    /\ At(Main) \in {"client", "preempt_kernel", "preempt_force"} \union Shutting => goal = NoGoal
    /\ pc[Main] \in {"wait", "idle_notify", "pop_private", "pop_public", "steal", "claim"} =>
          goal \in Goals
    /\ goal \in Goals \union {NoGoal}

(* wake_mutex is held around the test of the predicate.                    *)
MutexOK == \A t \in Threads : pc[t] \in {"check", "presleep"} <=> mutex = t

(* Once the wait() of shutdown() is over nothing is left, and the workers  *)
(* stop one after the other.                                               *)
Over == {"stopped", "cancelled"}
ShutOK ==
    /\ pc[Main] \notin Shutting => joining = 1
    /\ pc[Main] \in Shutting =>
          /\ \A j \in accepted : released[j]
          /\ \A w \in Workers : w < joining \/ pc[Main] = "down" => pc[w] \in Over

-----------------------------------------------------------------------------
(* Facts about graphs.                                                     *)

(* What depth_first_walk marks: the root, what lies below, and every job   *)
(* but the root has a parent among the marked ones.                        *)
LEMMA ReachFacts ==
    ASSUME NEW g \in [Jobs -> SUBSET Jobs], NEW r \in Jobs
    PROVE  /\ Reach(g, r) \subseteq Jobs
           /\ r \in Reach(g, r)
           /\ \A x \in Reach(g, r) : g[x] \subseteq Reach(g, r)
           /\ \A x \in Reach(g, r) : x # r => \E p \in Reach(g, r) : x \in g[p]
           /\ \A X \in SUBSET Jobs : (r \in X /\ \A y \in X : g[y] \subseteq X) => Reach(g, r) \subseteq X
<1>1. /\ Reach(g, r) \subseteq Jobs
      /\ r \in Reach(g, r)
      /\ \A X \in SUBSET Jobs : (r \in X /\ \A y \in X : g[y] \subseteq X) => Reach(g, r) \subseteq X
  BY DEF Reach
<1>2. ASSUME NEW x \in Reach(g, r), NEW z \in g[x] PROVE z \in Reach(g, r)
  BY <1>1, <1>2 DEF Reach
<1>3. ASSUME NEW x \in Reach(g, r), x # r, \A p \in Reach(g, r) : x \notin g[p] PROVE FALSE
  <2>. DEFINE X == Reach(g, r) \ {x}
  <2>1. X \in SUBSET Jobs /\ r \in X
    BY <1>1, <1>3
  <2>2. \A y \in X : g[y] \subseteq X
    BY <1>2, <1>3
  <2>. QED
    BY <1>1, <2>1, <2>2
<1>. QED
  BY <1>1, <1>2, <1>3

(* Nobody changes a graph that is handed over.                             *)
LEMMA GraphStep == [Next]_vars => UNCHANGED children
<1>. SUFFICES ASSUME [Next]_vars PROVE children' = children
  OBVIOUS
<1>1. ASSUME NEW t \in Threads, ThreadStep(t) PROVE children' = children
  BY <1>1 DEF ThreadStep, TryScheduleStep, GetJobStep, ProcessStep, TryScheduleExchange, TryScheduleCount,
     Dispatch, TryScheduleNotify, PopPrivate, PopPublic, PopOwn, Steal, StealFailed, Claim, KernelDone,
     SignalChild, ChildReady, BarrierDone, ReleaseJob, Unpend, jobVars
<1>2. ASSUME NEW t \in Workers, RunStep(t) \/ LockWakeMutex(t) \/ SpuriousWake(t) PROVE children' = children
  BY <1>2 DEF RunStep, RunTop, CheckWake, FallAsleep, LockWakeMutex, SpuriousWake, jobVars
<1>3. ASSUME BeginWait \/ MainStep PROVE children' = children
  BY <1>3 DEF BeginWait, MainStep, PreemptStep, PreemptBarrierDone, PreemptForceState, WaitStep, WaitMore,
     WaitOver, IdleNotify, ShutdownStep, SetTerminate, TryLockNotify, Join, Joined, JoinTimeout, CancelJoin, jobVars
<1>. QED
  BY <1>1, <1>2, <1>3 DEF Next, Schedule, Preempt, Down, vars, jobVars

(* A walk marks the same jobs before and after a step.                     *)
LEMMA MarkedFrame ==
    ASSUME children' = children
    PROVE  /\ \A j \in Jobs : Marked(j)' = Marked(j)
           /\ \A j \in Jobs : NumJobs(j)' = NumJobs(j)
           /\ \A j \in Jobs : InNodes(j)' = InNodes(j)
BY DEF Marked, NumJobs, InNodes

(* The steps that have nothing to do with jobs leave all of them alone.    *)
LEMMA QuietFrame ==
    ASSUME \/ \E t \in Threads : StealFailed(t)
           \/ \E t \in Workers : RunStep(t) \/ LockWakeMutex(t) \/ SpuriousWake(t)
           \/ BeginWait \/ WaitStep \/ ShutdownStep
    PROVE  UNCHANGED <<queue, released, barrierOf, pending, barrierPending, accepted>>
<1>1. ASSUME NEW t \in Threads, StealFailed(t)
      PROVE  UNCHANGED <<queue, released, barrierOf, pending, barrierPending, accepted>>
  BY <1>1 DEF StealFailed, jobVars, countVars, clientVars
<1>2. ASSUME NEW t \in Workers, RunStep(t) \/ LockWakeMutex(t) \/ SpuriousWake(t)
      PROVE  UNCHANGED <<queue, released, barrierOf, pending, barrierPending, accepted>>
  BY <1>2 DEF RunStep, RunTop, CheckWake, FallAsleep, LockWakeMutex, SpuriousWake, jobVars, countVars, clientVars
<1>3. ASSUME BeginWait \/ WaitStep
      PROVE  UNCHANGED <<queue, released, barrierOf, pending, barrierPending, accepted>>
  BY <1>3 DEF BeginWait, WaitStep, WaitMore, WaitOver, IdleNotify, jobVars, countVars, clientVars
<1>4. ASSUME ShutdownStep
      PROVE  UNCHANGED <<queue, released, barrierOf, pending, barrierPending, accepted>>
  BY <1>4 DEF ShutdownStep, SetTerminate, TryLockNotify, Join, Joined, JoinTimeout, CancelJoin, jobVars,
     countVars, clientVars
<1>. QED
  BY <1>1, <1>2, <1>3, <1>4

-----------------------------------------------------------------------------
(* Affinities.                                                             *)

(* Steps that neither push nor pop, and bring no thread closer to a kernel.*)
LEMMA AffinityFrame ==
    ASSUME AffinityOK, queue' = queue,
           \A u \in Threads : At(u)' \in {"claim", "kernel"} =>
               At(u) \in {"claim", "kernel"} /\ cur'[u] = cur[u]
    PROVE  AffinityOK'
BY DEF AffinityOK, Allowed

(* dispatch pushes a job where it is allowed to run.                       *)
LEMMA DispatchAllowed ==
    ASSUME TypeOK, NEW t \in Threads, NEW j \in Jobs
    PROVE  Allowed(TargetOf(t, j), j)
<1>0. roundRobin[t] \in Threads /\ Affinity[j] \in AffinityType
  BY JobAssumption DEF TypeOK
<1>1. /\ roundRobin[t] \in Nat
      /\ Affinity[j].hint \in 0 .. ThreadCount - 1
      /\ ThreadCount \in Nat
  BY <1>0, ThreadAssumption DEF AffinityType, Threads
<1>2. roundRobin[t] % (ThreadCount - Affinity[j].hint) \in 0 .. (ThreadCount - Affinity[j].hint) - 1
  BY <1>1, ModRange
<1>. QED
  BY <1>1, <1>2 DEF TargetOf, Allowed

(* What is left in a queue after a pop was there before, and so was the    *)
(* popped job.                                                             *)
LEMMA PopFacts ==
    ASSUME NEW s \in Seq(Jobs), s # <<>>
    PROVE  /\ Head(s) = s[1] /\ 1 \in DOMAIN s
           /\ Tail(s) \in Seq(Jobs)
           /\ \A i \in DOMAIN Tail(s) : i + 1 \in DOMAIN s /\ Tail(s)[i] = s[i + 1]
OBVIOUS

(* Every step keeps jobs where they may run.                               *)
LEMMA AffinityStep ==
    ASSUME Inv, AffinityOK, [Next]_vars
    PROVE  AffinityOK'
<1>. USE ThreadFacts DEF Inv
<1>pc. pc \in [Threads -> PC] /\ cur \in [Threads -> Jobs \union {NoJob}] /\ call \in [Threads -> CallType]
  BY DEF TypeOK
<1>q. queue \in [Threads -> [{"public", "private"} -> Seq(Jobs)]]
  BY DEF TypeOK
<1>ret. \A u \in Threads : call[u].ret \notin TrySchedulePC /\ call[u].ret # "claim"
  BY <1>pc, CallFacts DEF TrySchedulePC, CallPC
<1>1. ASSUME NEW t \in Threads, TryScheduleExchange(t) \/ TryScheduleCount(t) \/ TryScheduleNotify(t)
      PROVE  AffinityOK'
  <2>1. queue' = queue /\ cur' = cur
    BY <1>1 DEF TryScheduleExchange, TryScheduleCount, TryScheduleNotify
  <2>2. \A u \in Threads : At(u)' = At(u) \/ (At(u) = "asleep" /\ At(u)' = "lock")
    <3>1. CASE TryScheduleExchange(t)
      BY <1>pc, <1>ret, <3>1 DEF TryScheduleExchange, Goto, At, TrySchedulePC, NoCall
    <3>2. CASE TryScheduleCount(t)
      BY <1>pc, <1>ret, <3>2 DEF TryScheduleCount, Goto, At, TrySchedulePC
    <3>3. CASE TryScheduleNotify(t)
      BY <1>pc, <1>ret, <3>3 DEF TryScheduleNotify, NotifyAll, At, TrySchedulePC
    <3>. QED
      BY <1>1, <3>1, <3>2, <3>3
  <2>. QED
    BY <2>1, <2>2, AffinityFrame
<1>2. ASSUME NEW t \in Threads, Dispatch(t) PROVE AffinityOK'
  <2>. DEFINE j == call[t].job
              w == TargetOf(t, j)
              q == QueueOf(j)
  <2>1. j \in Jobs
    BY <1>2 DEF Dispatch, LocalOK, TrySchedulePC
  <2>2. w \in Threads /\ q \in {"public", "private"} /\ Allowed(w, j)
    BY <2>1, DispatchType, DispatchAllowed
  <2>3. queue' = [queue EXCEPT ![w][q] = Append(@, j)] /\ cur' = cur
    BY <1>2 DEF Dispatch
  <2>4. \A u \in Threads : At(u)' = At(u)
    BY <1>pc, <1>2 DEF Dispatch, Goto, At, TrySchedulePC
  <2>5. q = "public" => Affinity[j].stealable
    BY DEF QueueOf
  <2>. HIDE DEF j, w, q
  <2>s. queue[w][q] \in Seq(Jobs)
    BY <1>q, <2>2
  <2>a. \A i \in DOMAIN Append(queue[w][q], j) :
            Append(queue[w][q], j)[i] = j \/ (i \in DOMAIN queue[w][q] /\ Append(queue[w][q], j)[i] = queue[w][q][i])
    BY <2>1, <2>s
  <2>6. \A u \in Threads, p \in {"public", "private"} : \A i \in DOMAIN queue'[u][p] :
            \/ i \in DOMAIN queue[u][p] /\ queue'[u][p][i] = queue[u][p][i]
            \/ u = w /\ p = q /\ queue'[u][p][i] = j
    BY <1>q, <2>1, <2>2, <2>3, <2>a
  <2>7. ASSUME NEW u \in Threads, NEW i \in DOMAIN queue'[u]["public"]
        PROVE  Affinity[queue'[u]["public"][i]].stealable
    BY <2>5, <2>6, <2>7 DEF AffinityOK
  <2>8. ASSUME NEW u \in Threads, NEW i \in DOMAIN queue'[u]["private"]
        PROVE  Allowed(u, queue'[u]["private"][i])
    BY <2>2, <2>6, <2>8 DEF AffinityOK
  <2>9. \A u \in Threads : At(u)' \in {"claim", "kernel"} => Allowed(u, cur'[u])
    BY <2>3, <2>4 DEF AffinityOK
  <2>. QED
    BY <2>7, <2>8, <2>9 DEF AffinityOK, Allowed
<1>3. ASSUME NEW t \in Threads, NEW v \in Threads, NEW p \in {"public", "private"}, p = "public" \/ v = t,
             queue[v][p] # <<>>, cur' = [cur EXCEPT ![t] = Head(queue[v][p])],
             queue' = [queue EXCEPT ![v][p] = Tail(@)], Goto(t, "claim"), call' = call
      PROVE  AffinityOK'
  <2>s. queue[v][p] \in Seq(Jobs)
    BY <1>q
  <2>1. \A u \in Threads, r \in {"public", "private"} : \A i \in DOMAIN queue'[u][r] :
            \E k \in DOMAIN queue[u][r] : queue'[u][r][i] = queue[u][r][k]
    BY <1>q, <1>3, <2>s, PopFacts
  <2>2. Allowed(t, Head(queue[v][p]))
    BY <1>3, <2>s, PopFacts DEF AffinityOK, Allowed
  <2>3. \A u \in Threads : At(u)' \in {"claim", "kernel"} => Allowed(u, cur'[u])
    BY <1>pc, <1>3, <2>2 DEF Goto, At, TrySchedulePC, AffinityOK
  <2>. QED
    BY <2>1, <2>3 DEF AffinityOK, Allowed
<1>4. ASSUME NEW t \in Threads, PopPrivate(t) \/ PopPublic(t) PROVE AffinityOK'
  <2>1. ASSUME NEW p \in {"public", "private"}, NEW h \in {"pop_private", "pop_public"},
               NEW o \in {"pop_public", "steal"}, PopOwn(t, h, p, o)
        PROVE  AffinityOK'
    <3>1. CASE queue[t][p] = <<>>
      <4>1. queue' = queue /\ cur' = cur /\ \A u \in Threads : At(u)' \in {"claim", "kernel"} => At(u)' = At(u)
        BY <1>pc, <2>1, <3>1 DEF PopOwn, Goto, At, TrySchedulePC
      <4>. QED
        BY <4>1, AffinityFrame
    <3>2. CASE queue[t][p] # <<>>
      BY <1>3, <2>1, <3>2 DEF PopOwn
    <3>. QED
      BY <3>1, <3>2
  <2>. QED
    BY <1>4, <2>1 DEF PopPrivate, PopPublic
<1>5. ASSUME NEW t \in Threads, Steal(t) PROVE AffinityOK'
  <2>. DEFINE v == Stealable(t, stealRobin[t])
  <2>1. v \in Threads
    BY StealRange DEF TypeOK
  <2>2. CASE queue[v]["public"] = <<>>
    <3>1. queue' = queue /\ cur' = cur /\ \A u \in Threads : At(u)' = At(u)
      BY <1>5, <2>2 DEF Steal, At
    <3>. QED
      BY <3>1, AffinityFrame
  <2>3. CASE queue[v]["public"] # <<>>
    BY <1>3, <1>5, <2>1, <2>3 DEF Steal
  <2>. QED
    BY <2>2, <2>3
<1>6. ASSUME NEW t \in Threads, Claim(t) PROVE AffinityOK'
  <2>1. queue' = queue /\ \A u \in Threads : At(u)' \in {"claim", "kernel"} =>
               At(u) \in {"claim", "kernel"} /\ cur'[u] = cur[u]
    BY <1>pc, <1>6 DEF Claim, Goto, Skip, At, TrySchedulePC
  <2>. QED
    BY <2>1, AffinityFrame
<1>7. ASSUME NEW t \in Threads, ProcessStep(t) PROVE AffinityOK'
  <2>1. queue' = queue
    BY <1>7 DEF ProcessStep, KernelDone, SignalChild, ChildReady, BarrierDone, ReleaseJob, Unpend
  <2>2. \A u \in Threads : At(u)' \in {"claim", "kernel"} => At(u)' = At(u) /\ cur'[u] = cur[u]
    <3>1. CASE KernelDone(t)
      BY <1>pc, <3>1 DEF KernelDone, Goto, At, TrySchedulePC
    <3>2. CASE SignalChild(t)
      BY <1>pc, <3>2 DEF SignalChild, Goto, At, TrySchedulePC
    <3>3. CASE ChildReady(t)
      <4>1. call[t].ret = "children"
        BY <3>3 DEF ChildReady, LocalOK
      <4>. QED
        BY <1>pc, <3>3, <4>1 DEF ChildReady, Goto, At, TrySchedulePC
    <3>4. CASE BarrierDone(t) \/ ReleaseJob(t)
      BY <1>pc, <3>4 DEF BarrierDone, ReleaseJob, Goto, At, TrySchedulePC
    <3>5. CASE Unpend(t)
      BY <1>pc, <3>5 DEF Unpend, Goto, LoopHead, At, TrySchedulePC
    <3>. QED
      BY <1>7, <3>1, <3>2, <3>3, <3>4, <3>5 DEF ProcessStep
  <2>. QED
    BY <2>1, <2>2, AffinityFrame
<1>8. ASSUME NEW t \in Threads, NEW j \in Jobs, NEW b \in Barriers \union {NoBarrier}, Schedule(t, j, b)
      PROVE  AffinityOK'
  <2>1. queue' = queue /\ cur' = cur /\ \A u \in Threads : At(u)' = At(u)
    BY <1>pc, <1>8 DEF Schedule, Goto, At, TrySchedulePC
  <2>. QED
    BY <2>1, AffinityFrame
<1>9. ASSUME \/ \E t \in Threads : StealFailed(t)
             \/ \E t \in Workers : RunStep(t) \/ LockWakeMutex(t) \/ SpuriousWake(t)
             \/ BeginWait \/ WaitStep \/ ShutdownStep
      PROVE  AffinityOK'
  <2>1. Quiet
    BY <1>9, QuietActions
  <2>2. queue' = queue
    BY <1>9, QuietFrame
  <2>3. \A u \in Threads : At(u)' \in {"claim", "kernel"} => At(u)' = At(u) /\ cur'[u] = cur[u]
    BY <2>1 DEF Quiet, At, BusyPC, WorkPC, TrySchedulePC
  <2>. QED
    BY <2>2, <2>3, AffinityFrame
<1>10. ASSUME NEW j \in Jobs, Preempt(j) PROVE AffinityOK'
  <2>1. queue' = queue /\ \A u \in Threads : At(u)' \in {"claim", "kernel"} => At(u)' = At(u) /\ cur'[u] = cur[u]
    BY <1>pc, <1>10 DEF Preempt, Goto, At, TrySchedulePC
  <2>. QED
    BY <2>1, AffinityFrame
<1>11. ASSUME PreemptStep PROVE AffinityOK'
  <2>1. queue' = queue /\ \A u \in Threads : At(u)' \in {"claim", "kernel"} => At(u)' = At(u) /\ cur'[u] = cur[u]
    BY <1>pc, <1>11 DEF PreemptStep, PreemptBarrierDone, PreemptForceState, Goto, At, TrySchedulePC
  <2>. QED
    BY <2>1, AffinityFrame
<1>12. CASE UNCHANGED vars
  BY <1>12, AffinityFrame DEF vars, At
<1>. QED
  BY <1>1, <1>2, <1>4, <1>5, <1>6, <1>7, <1>8, <1>9, <1>10, <1>11, <1>12
     DEF Next, ThreadStep, TryScheduleStep, GetJobStep, MainStep, Down

(* Work stealing does not break affinity: a job that may not be stolen     *)
(* runs where dispatch may send it, whatever the threads pop and steal.    *)
THEOREM AffinityRespectedHolds == Spec => []AffinityRespected
<1>1. Init => AffinityOK
  BY DEF Init, AffinityOK, At, TrySchedulePC
<1>2. Inv /\ AffinityOK /\ [Next]_vars => AffinityOK'
  BY AffinityStep
<1>3. AffinityOK => AffinityRespected
  BY DEF AffinityOK, AffinityRespected, Allowed, At, TrySchedulePC
<1>. QED
  BY <1>1, <1>2, <1>3, Invariance, PTL DEF Spec

-----------------------------------------------------------------------------
(* The counters: frames.                                                   *)

(* A graph that is being announced is named by a call.                     *)
LEMMA UncountedFrame ==
    ASSUME children' = children, accepted' = accepted,
           \A u \in Threads : Announcing(u)' <=> Announcing(u),
           \A u \in Threads : Announcing(u) => call'[u].job = call[u].job
    PROVE  Uncounted' = Uncounted /\ Counted' = Counted
BY DEF Uncounted, Counted, Marked

(* The places where a call of try_schedule is still to be counted or made. *)
CallingPC == {"child_ready", "ts_cas", "ts_count", "ts_dispatch"}

(* Steps that do not take part in a call.                                  *)
LEMMA CallsFrame ==
    ASSUME CallsOK, children' = children, accepted' = accepted,
           \A u \in Threads : pc'[u] \in CallingPC \/ pc[u] \in {"ts_cas", "ts_count"} =>
               pc'[u] = pc[u] /\ call'[u] = call[u] /\ cur'[u] = cur[u],
           \A j \in Jobs : j \in Uncounted => jstate'[j] = jstate[j],
           TypeOK, LocalOK
    PROVE  CallsOK' /\ Counted' = Counted /\ Uncounted' = Uncounted
<1>1. \A u \in Threads : Announcing(u)' <=> Announcing(u)
  BY DEF Announcing, CallingPC
<1>2. \A u \in Threads : Announcing(u) => call'[u] = call[u] /\ pc'[u] = pc[u] /\ call[u].job \in Jobs
  BY DEF Announcing, CallingPC, LocalOK, TrySchedulePC
<1>3. Counted' = Counted /\ Uncounted' = Uncounted
  BY <1>1, <1>2, UncountedFrame
<1>4. ChildCallOK'
  BY DEF CallsOK, ChildCallOK, CallingPC
<1>5. RootCallOK'
  BY <1>1, <1>2, MarkedFrame DEF CallsOK, RootCallOK
<1>6. FreshOK'
  <2>1. ASSUME NEW u \in Threads, Announcing(u)', NEW j \in Marked(call[u].job)
        PROVE  jstate'[j] = IF j = call[u].job /\ pc[u] = "ts_count" THEN "Pending" ELSE "Idle"
    <3>1. Announcing(u) /\ call[u].job \in Jobs
      BY <1>1, <1>2, <2>1
    <3>2. j \in Jobs /\ j \in Uncounted
      BY <3>1, <2>1 DEF Uncounted, Marked, Reach
    <3>. QED
      BY <3>1, <3>2, <2>1 DEF CallsOK, FreshOK
  <2>2. \A u \in Threads : Announcing(u)' =>
            Marked(call[u].job)' = Marked(call[u].job) /\ call'[u] = call[u] /\ pc'[u] = pc[u]
                /\ Marked(call[u].job)' = Reach(children', call'[u].job)
    BY <1>1, <1>2 DEF Marked
  <2>. QED
    BY <2>1, <2>2 DEF FreshOK
<1>7. SoleOK'
  BY <1>1, <1>2 DEF CallsOK, SoleOK
<1>8. PushOK'
  BY <1>3 DEF CallsOK, PushOK, CallingPC
<1>. QED
  BY <1>3, <1>4, <1>5, <1>6, <1>7, <1>8 DEF CallsOK

(* Steps that hand nothing over.                                           *)
LEMMA AcceptedFrame ==
    ASSUME AcceptedOK, children' = children, accepted' = accepted,
           \A j \in Jobs : jstate'[j] # "Idle" => jstate[j] # "Idle" \/ j \in accepted
    PROVE  AcceptedOK'
BY DEF AcceptedOK, InNodes, Marked

(* Steps that move no job.                                                 *)
LEMMA HeldFrame ==
    ASSUME PendingIsHeld, queue' = queue,
           \A j \in Jobs : jstate'[j] = "Pending" => jstate[j] = "Pending",
           \A u \in Threads : pc[u] \in {"ts_count", "ts_dispatch"} =>
               pc'[u] \in {"ts_count", "ts_dispatch"} /\ call'[u].job = call[u].job,
           \A u \in Threads : pc[u] = "claim" /\ jstate'[cur[u]] = "Pending" =>
               pc'[u] = "claim" /\ cur'[u] = cur[u]
    PROVE  PendingIsHeld'
<1>1. AllQueued' = AllQueued
  BY DEF AllQueued
<1>. QED
  BY <1>1 DEF PendingIsHeld

(* Steps that neither finish nor release a job.                            *)
LEMMA OwedFrame ==
    ASSUME Counted' = Counted, released' = released, \A j \in Jobs : Unpending(j)' <=> Unpending(j),
           accepted \subseteq Jobs, pending' = pending, PendingOK
    PROVE  PendingOK'
<1>1. Owed' = Owed
  BY DEF Owed, Counted
<1>. QED
  BY <1>1 DEF PendingOK

(* Steps that pass no barrier.                                             *)
LEMMA ExpectedFrame ==
    ASSUME accepted' = accepted, barrierOf' = barrierOf, \A j \in Jobs : PastBarrier(j)' <=> PastBarrier(j),
           accepted \subseteq Jobs, barrierPending' = barrierPending, BarrierOK
    PROVE  BarrierOK'
<1>1. \A b \in Barriers : Expected(b)' = Expected(b)
  BY DEF Expected
<1>. QED
  BY <1>1 DEF BarrierOK

(* Steps that have nothing to do with jobs.                                *)
LEMMA QuietBooks ==
    ASSUME Inv, Books, Quiet,
           UNCHANGED <<queue, released, barrierOf, pending, barrierPending, accepted>>
    PROVE  Books'
<1>. USE DEF Inv, Books
<1>0. accepted \subseteq Jobs
  BY DEF TypeOK
<1>1. CallsOK' /\ Counted' = Counted
  BY CallsFrame DEF Quiet, BusyPC, WorkPC, TrySchedulePC, FinishPC, CallingPC
<1>2. AcceptedOK'
  BY AcceptedFrame DEF Quiet
<1>3. CountedOK'
  BY <1>1 DEF CountedOK, Quiet
<1>4. ReleasedOK'
  BY DEF ReleasedOK, Quiet, LocalOK, At, BusyPC, WorkPC, TrySchedulePC, FinishPC
<1>5. PendingOK'
  <2>1. \A j \in Jobs : Unpending(j)' <=> Unpending(j)
    BY DEF Unpending, Quiet, BusyPC, WorkPC, TrySchedulePC, FinishPC
  <2>. QED
    BY <1>0, <1>1, <2>1, OwedFrame
<1>6. BarrierOK'
  <2>1. \A j \in Jobs : PastBarrier(j)' <=> PastBarrier(j)
    BY DEF PastBarrier, Quiet, BusyPC, WorkPC, TrySchedulePC, FinishPC
  <2>. QED
    BY <1>0, <2>1, ExpectedFrame
<1>7. PendingIsHeld'
  BY HeldFrame DEF Quiet, BusyPC, WorkPC, TrySchedulePC, FinishPC
<1>. QED
  BY <1>1, <1>2, <1>3, <1>4, <1>5, <1>6, <1>7

(* One job less: fetch_sub counts a set that lost an element.              *)
LEMMA FetchSubCard ==
    ASSUME NEW S \in SUBSET Jobs, NEW j \in S
    PROVE  FetchSub(Cardinality(S)) = Cardinality(S \ {j})
<1>1. IsFiniteSet(S) /\ Cardinality(S) \in Nat /\ IsFiniteSet(S \ {j}) /\ Cardinality(S \ {j}) \in Nat
  BY CountType, FS_Subset, FS_CardinalityType
<1>2. Cardinality(S \ {j}) = Cardinality(S) - 1
  BY <1>1, FS_RemoveElement
<1>. QED
  BY <1>1, <1>2 DEF FetchSub

(* More jobs: fetch_add counts the union of two sets that are disjoint.    *)
LEMMA FetchAddCard ==
    ASSUME NEW S \in SUBSET Jobs, NEW T \in SUBSET Jobs, S \cap T = {}
    PROVE  FetchAdd(Cardinality(S), Cardinality(T)) = Cardinality(S \union T)
<1>1. /\ IsFiniteSet(S) /\ IsFiniteSet(T) /\ Cardinality(S) \in Nat /\ Cardinality(T) \in Nat
      /\ Cardinality(S \union T) \in 0 .. SizeMax
  BY CountType
<1>2. Cardinality(S \union T) = Cardinality(S) + Cardinality(T)
  <2>1. Cardinality(S \union T) = Cardinality(S) + Cardinality(T) - Cardinality(S \cap T)
    BY <1>1, FS_Union
  <2>2. Cardinality(S \cap T) = 0
    BY FS_EmptySet
  <2>. QED
    BY <1>1, <2>1, <2>2
<1>. QED
  BY <1>1, <1>2, SizeAssumption DEF FetchAdd

(* Barrier::remove_dependency, when a job passes its barrier.              *)
LEMMA RemoveDependencyOK ==
    ASSUME TypeOK, BarrierOK, NEW j \in accepted, ~PastBarrier(j), accepted' = accepted, barrierOf' = barrierOf,
           \A k \in Jobs : PastBarrier(k)' <=> PastBarrier(k) \/ k = j, RemoveDependency(j)
    PROVE  BarrierOK'
<1>0. accepted \subseteq Jobs /\ barrierPending \in [Barriers -> 0 .. SizeMax]
  BY DEF TypeOK
<1>1. ASSUME NEW b \in Barriers PROVE barrierPending'[b] = Cardinality(Expected(b)')
  <2>1. CASE barrierOf[j] = b
    <3>1. Expected(b)' = Expected(b) \ {j} /\ j \in Expected(b) /\ Expected(b) \in SUBSET Jobs
      BY <1>0, <2>1 DEF Expected
    <3>2. barrierPending'[b] = FetchSub(barrierPending[b])
      BY <1>0, <2>1, JobAssumption DEF RemoveDependency
    <3>. QED
      BY <3>1, <3>2, FetchSubCard DEF BarrierOK
  <2>2. CASE barrierOf[j] # b
    <3>1. Expected(b)' = Expected(b)
      BY <1>0, <2>2 DEF Expected
    <3>2. barrierPending'[b] = barrierPending[b]
      BY <1>0, <2>2 DEF RemoveDependency
    <3>. QED
      BY <3>1, <3>2 DEF BarrierOK
  <2>. QED
    BY <2>1, <2>2
<1>. QED
  BY <1>1 DEF BarrierOK

-----------------------------------------------------------------------------
(* The counters: the steps of process() and of try_preempt_and_execute.    *)

(* A job that a thread works on is counted.                                *)
LEMMA CurFacts ==
    ASSUME Inv, Books, NEW t \in Threads, At(t) \in WorkPC
    PROVE  /\ cur[t] \in Jobs /\ cur[t] \in accepted /\ cur[t] \in Counted /\ cur[t] \notin Uncounted
           /\ cur[t] # NoJob
BY JobAssumption DEF Inv, TypeOK, LocalOK, Books, CountedOK, Counted

(* Nobody else holds it.                                                   *)
LEMMA CurSole ==
    ASSUME Inv, NEW t \in Threads, NEW u \in Threads, cur[u] = cur[t], cur[t] \in Jobs,
           pc[t] # "claim", pc[u] # "claim"
    PROVE  t = u
BY JobAssumption DEF Inv, ExclusiveExecution, Holds

(* The exchange that makes a thread the executor.                          *)
LEMMA ClaimBooks ==
    ASSUME Inv, Books, NEW t \in Threads, Claim(t)
    PROVE  Books'
<1>. USE DEF Inv, Books
<1>0. /\ accepted \subseteq Jobs /\ pc \in [Threads -> PC] /\ cur \in [Threads -> Jobs \union {NoJob}]
      /\ jstate \in [Jobs -> JobState]
  BY DEF TypeOK
<1>1. /\ pc[t] = "claim" /\ cur[t] \in Jobs /\ cur[t] \in accepted /\ cur[t] \notin Uncounted /\ cur[t] # NoJob
  BY CurFacts DEF Claim, At, TrySchedulePC, WorkPC
<1>u. UNCHANGED <<children, released, barrierOf, pending, barrierPending, accepted, queue, call>>
  BY DEF Claim, countVars, clientVars
<1>2. /\ \A u \in Threads : u # t => pc'[u] = pc[u] /\ cur'[u] = cur[u]
      /\ pc'[t] \in {"kernel", "idle_notify", "top"}
      /\ pc'[t] = "kernel" => jstate[cur[t]] = "Pending" /\ cur'[t] = cur[t]
      /\ pc'[t] # "kernel" => cur'[t] = NoJob /\ jstate[cur[t]] # "Pending"
      /\ \A j \in Jobs : j # cur[t] => jstate'[j] = jstate[j]
      /\ jstate'[cur[t]] = jstate[cur[t]] \/ (jstate[cur[t]] = "Pending" /\ jstate'[cur[t]] = "Executing")
      /\ jstate'[cur[t]] # "Pending"
  BY <1>0, <1>1 DEF Claim, Goto, Skip
<1>3. CallsOK' /\ Counted' = Counted
  BY <1>u, <1>1, <1>2, CallsFrame DEF CallingPC
<1>4. AcceptedOK'
  BY <1>u, <1>1, <1>2, AcceptedFrame
<1>5. CountedOK'
  BY <1>u, <1>1, <1>2, <1>3 DEF CountedOK
<1>6. ReleasedOK'
  BY <1>u, <1>1, <1>2 DEF ReleasedOK
<1>7. PendingOK'
  <2>1. \A j \in Jobs : Unpending(j)' <=> Unpending(j)
    BY <1>1, <1>2 DEF Unpending
  <2>. QED
    BY <1>0, <1>u, <1>3, <2>1, OwedFrame
<1>8. BarrierOK'
  <2>1. \A j \in Jobs : PastBarrier(j)' <=> PastBarrier(j)
    BY <1>u, <1>1, <1>2 DEF PastBarrier
  <2>. QED
    BY <1>0, <1>u, <2>1, ExpectedFrame
<1>9. PendingIsHeld'
  BY <1>u, <1>1, <1>2, HeldFrame
<1>. QED
  BY <1>3, <1>4, <1>5, <1>6, <1>7, <1>8, <1>9

(* The end of a kernel.                                                    *)
LEMMA KernelDoneBooks ==
    ASSUME Inv, Books, NEW t \in Threads, KernelDone(t)
    PROVE  Books'
<1>. USE DEF Inv, Books
<1>0. /\ accepted \subseteq Jobs /\ pc \in [Threads -> PC] /\ cur \in [Threads -> Jobs \union {NoJob}]
      /\ jstate \in [Jobs -> JobState]
  BY DEF TypeOK
<1>1. /\ pc[t] = "kernel" /\ cur[t] \in Jobs /\ cur[t] \in accepted /\ cur[t] \notin Uncounted /\ cur[t] # NoJob
  BY CurFacts DEF KernelDone, At, TrySchedulePC, WorkPC
<1>u. UNCHANGED <<children, released, barrierOf, pending, barrierPending, accepted, queue, call, cur>>
  BY DEF KernelDone, countVars, clientVars
<1>2. /\ \A u \in Threads : u # t => pc'[u] = pc[u]
      /\ pc'[t] = "children"
      /\ jstate[cur[t]] = "Executing" /\ jstate'[cur[t]] = "Processed"
      /\ \A j \in Jobs : j # cur[t] => jstate'[j] = jstate[j]
  <2>1. jstate[cur[t]] = "Executing"
    BY <1>1 DEF OwnerOK, At, TrySchedulePC
  <2>. QED
    BY <1>0, <1>1, <2>1 DEF KernelDone, Goto
<1>3. CallsOK' /\ Counted' = Counted
  BY <1>u, <1>1, <1>2, CallsFrame DEF CallingPC
<1>4. AcceptedOK'
  BY <1>u, <1>1, <1>2, AcceptedFrame
<1>5. CountedOK'
  BY <1>u, <1>3 DEF CountedOK
<1>6. ReleasedOK'
  BY <1>u, <1>1, <1>2 DEF ReleasedOK
<1>7. PendingOK'
  <2>1. \A j \in Jobs : Unpending(j)' <=> Unpending(j)
    BY <1>u, <1>1, <1>2 DEF Unpending
  <2>. QED
    BY <1>0, <1>u, <1>3, <2>1, OwedFrame
<1>8. BarrierOK'
  <2>1. \A j \in Jobs : PastBarrier(j)' <=> PastBarrier(j)
    BY <1>u, <1>1, <1>2 DEF PastBarrier
  <2>. QED
    BY <1>0, <1>u, <2>1, ExpectedFrame
<1>9. PendingIsHeld'
  BY <1>u, <1>1, <1>2, HeldFrame
<1>. QED
  BY <1>3, <1>4, <1>5, <1>6, <1>7, <1>8, <1>9

(* A job passes its barrier, in process() or after a preempted kernel.     *)
LEMMA PassBarrierBooks ==
    ASSUME Inv, Books, NEW t \in Threads, NEW l \in {"release", "preempt_force"},
           pc[t] \in {"children", "preempt_kernel"}, Goto(t, l), RemoveDependency(cur[t]),
           UNCHANGED <<jobVars, queue, pending, cur, call, accepted>>
    PROVE  Books'
<1>. USE DEF Inv, Books
<1>0. /\ accepted \subseteq Jobs /\ pc \in [Threads -> PC] /\ cur \in [Threads -> Jobs \union {NoJob}]
  BY DEF TypeOK
<1>1. /\ cur[t] \in Jobs /\ cur[t] \in accepted /\ cur[t] \notin Uncounted /\ cur[t] # NoJob
  BY CurFacts DEF At, TrySchedulePC, WorkPC, FinishPC
<1>u. UNCHANGED <<children, jstate, released, barrierOf, pending, accepted, queue, call, cur>>
  BY DEF jobVars
<1>2. /\ \A u \in Threads : u # t => pc'[u] = pc[u]
      /\ pc'[t] = l
  BY <1>0 DEF Goto
<1>3. CallsOK' /\ Counted' = Counted
  BY <1>u, <1>1, <1>2, CallsFrame DEF CallingPC
<1>4. AcceptedOK'
  BY <1>u, <1>1, <1>2, AcceptedFrame
<1>5. CountedOK'
  BY <1>u, <1>3 DEF CountedOK
<1>6. ReleasedOK'
  BY <1>u, <1>1, <1>2 DEF ReleasedOK
<1>7. PendingOK'
  <2>1. \A j \in Jobs : Unpending(j)' <=> Unpending(j)
    BY <1>u, <1>1, <1>2 DEF Unpending
  <2>. QED
    BY <1>0, <1>u, <1>3, <2>1, OwedFrame
<1>8. BarrierOK'
  <2>1. \A j \in Jobs : PastBarrier(j)' <=> PastBarrier(j) \/ j = cur[t]
    BY <1>u, <1>1, <1>2 DEF PastBarrier
  <2>2. ~PastBarrier(cur[t])
    <3>1. ~released[cur[t]]
      BY <1>1 DEF ReleasedOK
    <3>2. \A u \in Threads : cur[u] = cur[t] => pc[u] \notin {"release", "unpend", "preempt_force"}
      BY <1>1, CurSole
    <3>. QED
      BY <3>1, <3>2 DEF PastBarrier
  <2>. QED
    BY <1>1, <1>u, <2>1, <2>2, RemoveDependencyOK
<1>9. PendingIsHeld'
  BY <1>u, <1>1, <1>2, HeldFrame
<1>. QED
  BY <1>3, <1>4, <1>5, <1>6, <1>7, <1>8, <1>9

(* The state of a preempted job is forced.                                 *)
LEMMA PreemptForceStateBooks ==
    ASSUME Inv, Books, PreemptForceState
    PROVE  Books'
<1>. USE ThreadFacts DEF Inv, Books
<1>0. /\ accepted \subseteq Jobs /\ pc \in [Threads -> PC] /\ cur \in [Threads -> Jobs \union {NoJob}]
      /\ jstate \in [Jobs -> JobState]
  BY DEF TypeOK
<1>1. /\ pc[Main] = "preempt_force" /\ cur[Main] \in Jobs /\ cur[Main] \in accepted /\ cur[Main] \notin Uncounted
      /\ cur[Main] # NoJob
  BY CurFacts DEF PreemptForceState, At, TrySchedulePC, WorkPC
<1>u. UNCHANGED <<children, released, barrierOf, pending, barrierPending, accepted, queue, call, cur>>
  BY DEF PreemptForceState, countVars, clientVars
<1>2. /\ \A u \in Threads : u # Main => pc'[u] = pc[u]
      /\ pc'[Main] = "release"
      /\ jstate'[cur[Main]] = "Processed"
      /\ \A j \in Jobs : j # cur[Main] => jstate'[j] = jstate[j]
  BY <1>0, <1>1 DEF PreemptForceState, Goto
<1>3. CallsOK' /\ Counted' = Counted
  BY <1>u, <1>1, <1>2, CallsFrame DEF CallingPC
<1>4. AcceptedOK'
  BY <1>u, <1>1, <1>2, AcceptedFrame
<1>5. CountedOK'
  BY <1>u, <1>3 DEF CountedOK
<1>6. ReleasedOK'
  BY <1>u, <1>1, <1>2 DEF ReleasedOK
<1>7. PendingOK'
  <2>1. \A j \in Jobs : Unpending(j)' <=> Unpending(j)
    BY <1>u, <1>1, <1>2 DEF Unpending
  <2>. QED
    BY <1>0, <1>u, <1>3, <2>1, OwedFrame
<1>8. BarrierOK'
  <2>1. \A j \in Jobs : PastBarrier(j)' <=> PastBarrier(j)
    BY <1>u, <1>1, <1>2 DEF PastBarrier
  <2>. QED
    BY <1>0, <1>u, <2>1, ExpectedFrame
<1>9. PendingIsHeld'
  BY <1>u, <1>1, <1>2, HeldFrame
<1>. QED
  BY <1>3, <1>4, <1>5, <1>6, <1>7, <1>8, <1>9

(* A job goes back to the pool, still counted in pending.                  *)
LEMMA ReleaseJobBooks ==
    ASSUME Inv, Books, NEW t \in Threads, ReleaseJob(t)
    PROVE  Books'
<1>. USE DEF Inv, Books
<1>0. /\ accepted \subseteq Jobs /\ pc \in [Threads -> PC] /\ cur \in [Threads -> Jobs \union {NoJob}]
      /\ released \in [Jobs -> BOOLEAN]
  BY DEF TypeOK
<1>1. /\ pc[t] = "release" /\ cur[t] \in Jobs /\ cur[t] \in accepted /\ cur[t] \notin Uncounted /\ cur[t] # NoJob
  BY CurFacts DEF ReleaseJob, At, TrySchedulePC, WorkPC, FinishPC
<1>u. UNCHANGED <<children, jstate, barrierOf, pending, barrierPending, accepted, queue, call, cur>>
  BY DEF ReleaseJob, countVars, clientVars
<1>2. /\ \A u \in Threads : u # t => pc'[u] = pc[u]
      /\ pc'[t] = "unpend"
      /\ released'[cur[t]] = TRUE
      /\ \A j \in Jobs : j # cur[t] => released'[j] = released[j]
  BY <1>0, <1>1 DEF ReleaseJob, Goto
<1>r. ~released[cur[t]] /\ jstate[cur[t]] = "Processed"
  BY <1>1 DEF ReleasedOK, OwnerOK, At, TrySchedulePC, FinishPC
<1>s. \A u \in Threads : cur[u] = cur[t] /\ pc[u] # "claim" => u = t
  BY <1>1, CurSole
<1>3. CallsOK' /\ Counted' = Counted
  BY <1>u, <1>1, <1>2, CallsFrame DEF CallingPC
<1>4. AcceptedOK'
  BY <1>u, <1>1, <1>2, AcceptedFrame
<1>5. CountedOK'
  BY <1>u, <1>3 DEF CountedOK
<1>6. ReleasedOK'
  <2>1. \A j \in Jobs : released'[j] => jstate'[j] = "Processed"
    BY <1>u, <1>2, <1>r DEF ReleasedOK
  <2>2. ASSUME NEW u \in Threads, cur'[u] # NoJob, pc'[u] # "claim"
        PROVE  released'[cur'[u]] <=> pc'[u] = "unpend"
    <3>1. CASE u = t
      BY <1>u, <1>2, <3>1
    <3>2. CASE u # t
      BY <1>0, <1>u, <1>2, <1>s, <2>2, <3>2 DEF ReleasedOK
    <3>. QED
      BY <3>1, <3>2
  <2>. QED
    BY <2>1, <2>2 DEF ReleasedOK
<1>7. PendingOK'
  <2>1. \A j \in Jobs : (~released[j] \/ Unpending(j))' <=> (~released[j] \/ Unpending(j))
    BY <1>u, <1>1, <1>2, <1>r DEF Unpending
  <2>2. Owed' = Owed
    BY <1>0, <1>3, <2>1 DEF Owed, Counted
  <2>. QED
    BY <1>u, <2>2 DEF PendingOK
<1>8. BarrierOK'
  <2>1. \A j \in Jobs : PastBarrier(j)' <=> PastBarrier(j)
    BY <1>u, <1>1, <1>2 DEF PastBarrier
  <2>. QED
    BY <1>0, <1>u, <2>1, ExpectedFrame
<1>9. PendingIsHeld'
  BY <1>u, <1>1, <1>2, HeldFrame
<1>. QED
  BY <1>3, <1>4, <1>5, <1>6, <1>7, <1>8, <1>9

(* The job is taken out of pending.                                        *)
LEMMA UnpendBooks ==
    ASSUME Inv, Books, NEW t \in Threads, Unpend(t)
    PROVE  Books'
<1>. USE DEF Inv, Books
<1>0. /\ accepted \subseteq Jobs /\ pc \in [Threads -> PC] /\ cur \in [Threads -> Jobs \union {NoJob}]
  BY DEF TypeOK
<1>1. /\ pc[t] = "unpend" /\ cur[t] \in Jobs /\ cur[t] \in accepted /\ cur[t] \in Counted /\ cur[t] # NoJob
  BY CurFacts DEF Unpend, At, TrySchedulePC, WorkPC, FinishPC
<1>u. UNCHANGED <<children, jstate, released, barrierOf, barrierPending, accepted, queue, call>>
  BY DEF Unpend, clientVars, jobVars
<1>2. /\ \A u \in Threads : u # t => pc'[u] = pc[u] /\ cur'[u] = cur[u]
      /\ pc'[t] \in {"top", "client", "wait"}
      /\ cur'[t] = NoJob
      /\ pending' = FetchSub(pending)
  BY <1>0, <1>1 DEF Unpend, Goto, LoopHead
<1>r. released[cur[t]]
  BY <1>1 DEF ReleasedOK
<1>s. \A u \in Threads : cur[u] = cur[t] /\ pc[u] # "claim" => u = t
  BY <1>1, CurSole
<1>3. CallsOK' /\ Counted' = Counted
  BY <1>u, <1>1, <1>2, CallsFrame DEF CallingPC
<1>4. AcceptedOK'
  BY <1>u, <1>1, <1>2, AcceptedFrame
<1>5. CountedOK'
  BY <1>u, <1>2, <1>3 DEF CountedOK
<1>6. ReleasedOK'
  BY <1>u, <1>1, <1>2 DEF ReleasedOK
<1>7. PendingOK'
  <2>1. \A j \in Jobs : Unpending(j)' <=> Unpending(j) /\ j # cur[t]
    BY <1>0, <1>1, <1>2, <1>s, JobAssumption DEF Unpending
  <2>2. Owed' = Owed \ {cur[t]} /\ cur[t] \in Owed /\ Owed \in SUBSET Jobs
    BY <1>0, <1>u, <1>1, <1>3, <1>r, <2>1 DEF Owed, Counted, Unpending
  <2>. QED
    BY <1>2, <2>2, FetchSubCard DEF PendingOK
<1>8. BarrierOK'
  <2>1. \A j \in Jobs : PastBarrier(j)' <=> PastBarrier(j)
    BY <1>u, <1>1, <1>2, <1>r, JobAssumption DEF PastBarrier
  <2>. QED
    BY <1>0, <1>u, <2>1, ExpectedFrame
<1>9. PendingIsHeld'
  BY <1>u, <1>1, <1>2, HeldFrame
<1>. QED
  BY <1>3, <1>4, <1>5, <1>6, <1>7, <1>8, <1>9

(* A singular job is taken by the main thread: it is already counted,      *)
(* because nobody but the main thread can have scheduled it.               *)
LEMMA PreemptBooks ==
    ASSUME Inv, Books, CarefulClient, NEW j \in Jobs, Preempt(j)
    PROVE  Books'
<1>. USE ThreadFacts DEF Inv, Books
<1>0. /\ accepted \subseteq Jobs /\ pc \in [Threads -> PC] /\ cur \in [Threads -> Jobs \union {NoJob}]
      /\ jstate \in [Jobs -> JobState] /\ children \in [Jobs -> SUBSET Jobs]
  BY DEF TypeOK
<1>1. /\ pc[Main] = "client" /\ j \in accepted /\ j \in Preemptible /\ InNodes(j) = {}
      /\ jstate[j] \in {"Idle", "Pending"}
      /\ cur[Main] = NoJob
  BY DEF Preempt, CarefulClient, Preemptable, LocalOK, At, WorkPC, FinishPC, TrySchedulePC
<1>u. UNCHANGED <<children, released, barrierOf, pending, barrierPending, accepted, queue, call>>
  BY <1>1 DEF Preempt, countVars
<1>2. /\ \A u \in Threads : u # Main => pc'[u] = pc[u] /\ cur'[u] = cur[u]
      /\ pc'[Main] = "preempt_kernel" /\ cur'[Main] = j
      /\ jstate'[j] = "Preempted"
      /\ \A k \in Jobs : k # j => jstate'[k] = jstate[k]
  BY <1>0, <1>1 DEF Preempt, Goto
<1>c. j \notin Uncounted
  <2>. SUFFICES ASSUME NEW u \in Threads, Announcing(u), j \in Marked(call[u].job) PROVE FALSE
    BY DEF Uncounted
  <2>1. call[u].job \in Jobs
    BY DEF Announcing, LocalOK, TrySchedulePC
  <2>2. j = call[u].job
    <3>1. j # call[u].job => \E p \in Marked(call[u].job) : p \in Jobs /\ j \in children[p]
      BY <1>0, <2>1, ReachFacts DEF Marked
    <3>. QED
      BY <1>1, <3>1 DEF InNodes
  <2>3. j \in Spawned \/ u = Main
    BY <2>2 DEF CallsOK, RootCallOK
  <2>. QED
    BY <1>1, <2>3 DEF CarefulClient, Announcing
<1>r. ~released[j]
  BY <1>1 DEF ReleasedOK
<1>3. CallsOK' /\ Counted' = Counted
  BY <1>u, <1>c, <1>1, <1>2, CallsFrame DEF CallingPC
<1>4. AcceptedOK'
  BY <1>u, <1>1, <1>2, AcceptedFrame
<1>5. CountedOK'
  BY <1>u, <1>c, <1>1, <1>2, <1>3 DEF CountedOK, Counted
<1>6. ReleasedOK'
  BY <1>u, <1>r, <1>1, <1>2 DEF ReleasedOK
<1>7. PendingOK'
  <2>1. \A k \in Jobs : Unpending(k)' <=> Unpending(k)
    BY <1>u, <1>1, <1>2 DEF Unpending
  <2>. QED
    BY <1>0, <1>u, <1>3, <2>1, OwedFrame
<1>8. BarrierOK'
  <2>1. \A k \in Jobs : PastBarrier(k)' <=> PastBarrier(k)
    BY <1>u, <1>1, <1>2 DEF PastBarrier
  <2>. QED
    BY <1>0, <1>u, <2>1, ExpectedFrame
<1>9. PendingIsHeld'
  BY <1>u, <1>1, <1>2, HeldFrame
<1>. QED
  BY <1>3, <1>4, <1>5, <1>6, <1>7, <1>8, <1>9

-----------------------------------------------------------------------------
(* The counters: the calls of try_schedule.                                *)

(* Steps of a call that announces nothing.                                 *)
LEMMA CallerFrame ==
    ASSUME CallsOK, children' = children, accepted' = accepted, TypeOK, LocalOK,
           NEW t \in Threads, ~Announcing(t), ~Announcing(t)',
           \A u \in Threads : u # t /\ (pc'[u] \in CallingPC \/ pc[u] \in {"ts_cas", "ts_count"}) =>
               pc'[u] = pc[u] /\ call'[u] = call[u] /\ cur'[u] = cur[u],
           \A j \in Jobs : j \in Uncounted => jstate'[j] = jstate[j],
           pc'[t] # "ts_count",
           pc'[t] \in {"child_ready", "ts_cas"} /\ call'[t].ret = "children" =>
               call'[t].num = 0 /\ call'[t].job \in children[cur'[t]],
           pc'[t] = "ts_dispatch" => call'[t].job \in Counted
    PROVE  CallsOK' /\ Counted' = Counted /\ Uncounted' = Uncounted
<1>1. \A u \in Threads : Announcing(u)' <=> Announcing(u)
  BY DEF Announcing, CallingPC
<1>2. \A u \in Threads : Announcing(u) => call'[u] = call[u] /\ pc'[u] = pc[u] /\ call[u].job \in Jobs
  BY DEF Announcing, CallingPC, LocalOK, TrySchedulePC
<1>3. Counted' = Counted /\ Uncounted' = Uncounted
  BY <1>1, <1>2, UncountedFrame
<1>4. ChildCallOK'
  BY DEF CallsOK, ChildCallOK, CallingPC
<1>5. RootCallOK'
  BY <1>1, <1>2, MarkedFrame DEF CallsOK, RootCallOK
<1>6. FreshOK'
  <2>1. ASSUME NEW u \in Threads, Announcing(u)', NEW j \in Marked(call[u].job)
        PROVE  jstate'[j] = IF j = call[u].job /\ pc[u] = "ts_count" THEN "Pending" ELSE "Idle"
    <3>1. Announcing(u) /\ call[u].job \in Jobs
      BY <1>1, <1>2, <2>1
    <3>2. j \in Jobs /\ j \in Uncounted
      BY <3>1, <2>1 DEF Uncounted, Marked, Reach
    <3>. QED
      BY <3>1, <3>2, <2>1 DEF CallsOK, FreshOK
  <2>2. \A u \in Threads : Announcing(u)' =>
            Marked(call[u].job)' = Marked(call[u].job) /\ call'[u] = call[u] /\ pc'[u] = pc[u]
                /\ Marked(call[u].job)' = Reach(children', call'[u].job)
    BY <1>1, <1>2 DEF Marked
  <2>. QED
    BY <2>1, <2>2 DEF FreshOK
<1>7. SoleOK'
  BY <1>1, <1>2 DEF CallsOK, SoleOK
<1>8. PushOK'
  BY <1>3 DEF CallsOK, PushOK, CallingPC
<1>. QED
  BY <1>3, <1>4, <1>5, <1>6, <1>7, <1>8 DEF CallsOK

(* A step of a call that changes no job, no queue and no counter.          *)
LEMMA CallerBooks ==
    ASSUME Inv, Books, NEW t \in Threads, CallsOK', Counted' = Counted, 
           UNCHANGED <<children, jstate, released, barrierOf, pending, barrierPending, accepted, queue, cur>>,
           \A u \in Threads : u # t => call'[u] = call[u] /\ (pc'[u] = pc[u] \/ (pc[u] = "asleep" /\ pc'[u] = "lock")),
           pc[t] \in {"children", "child_ready", "ts_cas", "ts_notify"},
           pc'[t] \in {"client", "kernel", "preempt_kernel", "children", "child_ready", "ts_cas"}
    PROVE  Books'
<1>. USE DEF Inv, Books
<1>0. accepted \subseteq Jobs
  BY DEF TypeOK
<1>1. AcceptedOK'
  BY AcceptedFrame
<1>2. CountedOK'
  BY DEF CountedOK
<1>3. ReleasedOK'
  BY DEF ReleasedOK
<1>4. PendingOK'
  <2>1. \A j \in Jobs : Unpending(j)' <=> Unpending(j)
    BY DEF Unpending
  <2>. QED
    BY <1>0, <2>1, OwedFrame
<1>5. BarrierOK'
  <2>1. \A j \in Jobs : PastBarrier(j)' <=> PastBarrier(j)
    BY DEF PastBarrier
  <2>. QED
    BY <1>0, <2>1, ExpectedFrame
<1>6. PendingIsHeld'
  BY HeldFrame
<1>. QED
  BY <1>1, <1>2, <1>3, <1>4, <1>5, <1>6

(* schedule_children: the decrement.                                       *)
LEMMA SignalChildBooks ==
    ASSUME Inv, Books, NEW t \in Threads, SignalChild(t)
    PROVE  Books'
<1>. USE DEF Inv, Books
<1>0. /\ pc \in [Threads -> PC] /\ cur \in [Threads -> Jobs \union {NoJob}] /\ call \in [Threads -> CallType]
      /\ todo \in [Threads -> SUBSET Jobs]
  BY DEF TypeOK
<1>u. UNCHANGED <<children, jstate, released, barrierOf, pending, barrierPending, accepted, queue, cur>>
  BY DEF SignalChild, countVars, clientVars
<1>1. PICK c \in todo[t] : call' = [call EXCEPT ![t] = [job |-> c, num |-> 0, ret |-> "children"]]
  BY DEF SignalChild
<1>2. /\ pc[t] = "children" /\ pc'[t] = "child_ready" /\ \A u \in Threads : u # t => pc'[u] = pc[u] /\ call'[u] = call[u]
      /\ call'[t] = [job |-> c, num |-> 0, ret |-> "children"]
  BY <1>0, <1>1 DEF SignalChild, Goto
<1>3. c \in children[cur[t]]
  BY <1>0, <1>1, <1>2 DEF TodoOK, At, TrySchedulePC
<1>4. CallsOK' /\ Counted' = Counted
  BY <1>u, <1>2, <1>3, CallerFrame DEF Announcing
<1>. QED
  BY <1>u, <1>2, <1>4, CallerBooks

(* schedule_children: the test of is_ready().                              *)
LEMMA ChildReadyBooks ==
    ASSUME Inv, Books, NEW t \in Threads, ChildReady(t)
    PROVE  Books'
<1>. USE DEF Inv, Books
<1>0. /\ pc \in [Threads -> PC] /\ cur \in [Threads -> Jobs \union {NoJob}] /\ call \in [Threads -> CallType]
  BY DEF TypeOK
<1>u. UNCHANGED <<children, jstate, released, barrierOf, pending, barrierPending, accepted, queue, cur>>
  BY DEF ChildReady, jobVars, countVars, clientVars
<1>1. call[t].ret = "children"
  BY DEF ChildReady, LocalOK
<1>2. /\ pc[t] = "child_ready" /\ \A u \in Threads : u # t => pc'[u] = pc[u] /\ call'[u] = call[u]
      /\ \/ pc'[t] = "ts_cas" /\ call'[t] = call[t]
         \/ pc'[t] = "children"
  BY <1>0 DEF ChildReady, Goto
<1>3. CallsOK' /\ Counted' = Counted
  BY <1>u, <1>1, <1>2, CallerFrame DEF Announcing, CallsOK, ChildCallOK
<1>. QED
  BY <1>u, <1>2, <1>3, CallerBooks

(* The notification at the end of try_schedule.                            *)
LEMMA TryScheduleNotifyBooks ==
    ASSUME Inv, Books, NEW t \in Threads, TryScheduleNotify(t)
    PROVE  Books'
<1>. USE DEF Inv, Books
<1>0. /\ pc \in [Threads -> PC] /\ cur \in [Threads -> Jobs \union {NoJob}] /\ call \in [Threads -> CallType]
  BY DEF TypeOK
<1>u. UNCHANGED <<children, jstate, released, barrierOf, pending, barrierPending, accepted, queue, cur>>
  BY DEF TryScheduleNotify, jobVars, countVars, clientVars
<1>1. call[t].ret \in CallPC
  BY <1>0, CallFacts
<1>2. /\ pc[t] = "ts_notify" /\ pc'[t] \in CallPC
      /\ \A u \in Threads : u # t => call'[u] = call[u] /\ (pc'[u] = pc[u] \/ (pc[u] = "asleep" /\ pc'[u] = "lock"))
  BY <1>0, <1>1 DEF TryScheduleNotify, NotifyAll
<1>3. CallsOK' /\ Counted' = Counted
  BY <1>u, <1>2, CallerFrame DEF Announcing, CallPC, CallingPC
<1>. QED
  BY <1>u, <1>2, <1>3, CallerBooks DEF CallPC

(* A child that is ready is counted: no parent of it can be below a root   *)
(* that is still being announced.                                          *)
LEMMA ReadyChild ==
    ASSUME Inv, Books, NEW t \in Threads, pc[t] = "ts_cas", call[t].ret = "children"
    PROVE  call[t].job \in Jobs /\ call[t].job \in Counted
<1>. USE DEF Inv, Books
<1>. DEFINE c == call[t].job
<1>0. children \in [Jobs -> SUBSET Jobs]
  BY DEF TypeOK
<1>1. cur[t] \in Jobs /\ cur[t] \in accepted
  BY CurFacts DEF At, TrySchedulePC, WorkPC, FinishPC
<1>2. c \in children[cur[t]] /\ c \in Jobs /\ c \in accepted
  BY <1>0, <1>1 DEF CallsOK, ChildCallOK, AcceptedOK
<1>3. ASSUME NEW u \in Threads, Announcing(u), c \in Marked(call[u].job) PROVE FALSE
  <2>1. call[u].job \in Jobs /\ InNodes(call[u].job) = {}
    BY <1>3 DEF Announcing, LocalOK, TrySchedulePC, CallsOK, RootCallOK
  <2>2. c # call[u].job
    BY <1>1, <1>2, <2>1 DEF InNodes
  <2>3. PICK p \in Marked(call[u].job) : p \in Jobs /\ c \in children[p]
    BY <1>0, <1>3, <2>1, <2>2, ReachFacts DEF Marked
  <2>4. jstate[p] = "Processed"
    BY <1>2, <2>3 DEF ReadyOK, Unsignalled, InNodes, EdgesOK
  <2>. QED
    BY <1>3, <2>3, <2>4 DEF CallsOK, FreshOK
<1>. QED
  BY <1>2, <1>3 DEF Counted, Uncounted

(* Two graphs that are being announced have no job in common.              *)
LEMMA AnnouncedApart ==
    ASSUME Inv, Books, CarefulClient, NEW t \in Threads, NEW u \in Threads, t # u, Announcing(t), Announcing(u)
    PROVE  Marked(call[t].job) \cap Marked(call[u].job) = {}
<1>. USE DEF Inv, Books
<1>1. call[t].job # call[u].job
  BY DEF CallsOK, SoleOK
<1>2. call[t].job \in Jobs /\ call[u].job \in Jobs
  BY DEF Announcing, LocalOK, TrySchedulePC
<1>3. InNodes(call[t].job) = {} /\ InNodes(call[u].job) = {} /\ children \in Graphs
  BY DEF CallsOK, RootCallOK, AcceptedOK
<1>. QED
  BY <1>1, <1>2, <1>3 DEF CarefulClient, InNodes, Marked

(* A root that is being announced is its graph's first job.                *)
LEMMA AnnouncedRoot ==
    ASSUME Inv, Books, NEW t \in Threads, Announcing(t)
    PROVE  /\ call[t].job \in Jobs
           /\ call[t].job \in Marked(call[t].job)
           /\ Marked(call[t].job) \subseteq Jobs
           /\ call[t].num \in Nat \ {0}
           /\ jstate[call[t].job] = IF pc[t] = "ts_count" THEN "Pending" ELSE "Idle"
<1>. USE DEF Inv, Books
<1>1. call[t].job \in Jobs /\ children \in [Jobs -> SUBSET Jobs]
  BY DEF Announcing, LocalOK, TrySchedulePC, TypeOK
<1>2. call[t].job \in Marked(call[t].job) /\ Marked(call[t].job) \subseteq Jobs
  BY <1>1, ReachFacts DEF Marked
<1>3. call[t].num \in Nat \ {0}
  <2>1. IsFiniteSet(Marked(call[t].job)) /\ Cardinality(Marked(call[t].job)) \in Nat
    BY <1>2, CountType
  <2>2. Cardinality(Marked(call[t].job)) # 0
    BY <1>2, <2>1, FS_EmptySet
  <2>. QED
    BY <2>1, <2>2 DEF CallsOK, RootCallOK, NumJobs
<1>. QED
  BY <1>1, <1>2, <1>3 DEF CallsOK, FreshOK

(* try_schedule for a child: the exchange of its state.                    *)
LEMMA ChildExchangeBooks ==
    ASSUME Inv, Books, NEW t \in Threads, TryScheduleExchange(t), call[t].ret = "children"
    PROVE  Books'
<1>. USE DEF Inv, Books
<1>0. /\ accepted \subseteq Jobs /\ pc \in [Threads -> PC] /\ cur \in [Threads -> Jobs \union {NoJob}]
      /\ jstate \in [Jobs -> JobState] /\ call \in [Threads -> CallType]
  BY DEF TypeOK
<1>1. /\ pc[t] = "ts_cas" /\ call[t].job \in Jobs /\ call[t].job \in Counted /\ call[t].num = 0
      /\ call[t].job \notin Uncounted /\ call[t].job \in accepted
  BY ReadyChild DEF TryScheduleExchange, CallsOK, ChildCallOK, Counted
<1>u. UNCHANGED <<children, released, barrierOf, pending, barrierPending, accepted, queue, cur>>
  BY DEF TryScheduleExchange, countVars, clientVars
<1>2. CASE jstate[call[t].job] # "Idle"
  <2>1. /\ \A u \in Threads : u # t => pc'[u] = pc[u] /\ call'[u] = call[u]
        /\ pc'[t] = "children" /\ jstate' = jstate
    BY <1>0, <1>1, <1>2 DEF TryScheduleExchange, Goto
  <2>2. CallsOK' /\ Counted' = Counted
    BY <1>u, <1>1, <2>1, CallerFrame DEF Announcing
  <2>. QED
    BY <1>u, <1>1, <2>1, <2>2, CallerBooks
<1>3. CASE jstate[call[t].job] = "Idle"
  <2>1. /\ \A u \in Threads : u # t => pc'[u] = pc[u]
        /\ pc'[t] = "ts_dispatch" /\ call' = call
        /\ jstate'[call[t].job] = "Pending"
        /\ \A j \in Jobs : j # call[t].job => jstate'[j] = jstate[j]
    BY <1>0, <1>1, <1>3 DEF TryScheduleExchange, Goto
  <2>2. CallsOK' /\ Counted' = Counted
    BY <1>u, <1>1, <2>1, CallerFrame DEF Announcing
  <2>3. AcceptedOK'
    BY <1>u, <1>1, <2>1, AcceptedFrame
  <2>4. CountedOK'
    BY <1>u, <2>2 DEF CountedOK
  <2>5. ReleasedOK'
    BY <1>u, <1>1, <1>3, <2>1 DEF ReleasedOK
  <2>6. PendingOK'
    <3>1. \A j \in Jobs : Unpending(j)' <=> Unpending(j)
      BY <1>u, <1>1, <2>1 DEF Unpending
    <3>. QED
      BY <1>0, <1>u, <2>2, <3>1, OwedFrame
  <2>7. BarrierOK'
    <3>1. \A j \in Jobs : PastBarrier(j)' <=> PastBarrier(j)
      BY <1>u, <1>1, <2>1 DEF PastBarrier
    <3>. QED
      BY <1>0, <1>u, <3>1, ExpectedFrame
  <2>8. PendingIsHeld'
    <3>1. AllQueued' = AllQueued
      BY <1>u DEF AllQueued
    <3>. QED
      BY <1>u, <1>1, <2>1, <3>1 DEF PendingIsHeld
  <2>. QED
    BY <2>2, <2>3, <2>4, <2>5, <2>6, <2>7, <2>8
<1>. QED
  BY <1>2, <1>3

(* try_schedule for a root: the exchange of its state, which succeeds.     *)
LEMMA RootExchangeBooks ==
    ASSUME Inv, Books, CarefulClient, NEW t \in Threads, TryScheduleExchange(t), call[t].ret # "children"
    PROVE  Books'
<1>. USE DEF Inv, Books
<1>0. /\ accepted \subseteq Jobs /\ pc \in [Threads -> PC] /\ cur \in [Threads -> Jobs \union {NoJob}]
      /\ jstate \in [Jobs -> JobState] /\ call \in [Threads -> CallType]
  BY DEF TypeOK
<1>1. pc[t] = "ts_cas" /\ Announcing(t)
  BY DEF TryScheduleExchange, Announcing
<1>2. /\ call[t].job \in Jobs /\ call[t].job \in Marked(call[t].job) /\ call[t].num # 0
      /\ jstate[call[t].job] = "Idle" /\ call[t].job \in accepted
  BY <1>1, AnnouncedRoot DEF CallsOK, RootCallOK
<1>u. UNCHANGED <<children, released, barrierOf, pending, barrierPending, accepted, queue, cur, call>>
  BY <1>2 DEF TryScheduleExchange, countVars, clientVars
<1>3. /\ \A u \in Threads : u # t => pc'[u] = pc[u]
      /\ pc'[t] = "ts_count"
      /\ jstate'[call[t].job] = "Pending"
      /\ \A j \in Jobs : j # call[t].job => jstate'[j] = jstate[j]
  BY <1>0, <1>1, <1>2 DEF TryScheduleExchange, Goto
<1>4. \A u \in Threads : Announcing(u)' <=> Announcing(u)
  BY <1>u, <1>1, <1>3 DEF Announcing
<1>5. Counted' = Counted /\ Uncounted' = Uncounted
  BY <1>u, <1>4, UncountedFrame
<1>6. CallsOK'
  <2>1. ChildCallOK'
    BY <1>u, <1>1, <1>3 DEF CallsOK, ChildCallOK, Announcing
  <2>2. RootCallOK'
    <3>1. \A u \in Threads : Announcing(u) => call[u].job \in Jobs
      BY AnnouncedRoot
    <3>. QED
      BY <1>u, <1>4, <3>1, MarkedFrame DEF CallsOK, RootCallOK
  <2>3. FreshOK'
    <3>1. ASSUME NEW u \in Threads, Announcing(u)', NEW j \in Marked(call[u].job)
          PROVE  jstate'[j] = IF j = call[u].job /\ pc'[u] = "ts_count" THEN "Pending" ELSE "Idle"
      <4>1. Announcing(u) /\ j \in Jobs
        BY <1>4, <3>1, AnnouncedRoot
      <4>2. CASE u = t
        BY <1>1, <1>3, <3>1, <4>1, <4>2 DEF CallsOK, FreshOK
      <4>3. CASE u # t
        <5>1. j # call[t].job
          BY <1>1, <1>2, <3>1, <4>1, <4>3, AnnouncedApart
        <5>. QED
          BY <1>3, <3>1, <4>1, <4>3, <5>1 DEF CallsOK, FreshOK
      <4>. QED
        BY <4>2, <4>3
    <3>2. \A u \in Threads : Marked(call[u].job) = Reach(children', call'[u].job)
      BY <1>u DEF Marked
    <3>. QED
      BY <1>u, <3>1, <3>2 DEF FreshOK, Marked
  <2>4. SoleOK'
    BY <1>u, <1>4 DEF CallsOK, SoleOK
  <2>5. PushOK'
    BY <1>u, <1>3, <1>5 DEF CallsOK, PushOK
  <2>. QED
    BY <2>1, <2>2, <2>3, <2>4, <2>5 DEF CallsOK
<1>7. AcceptedOK'
  BY <1>u, <1>2, <1>3, AcceptedFrame
<1>8. CountedOK'
  BY <1>u, <1>5 DEF CountedOK
<1>9. ReleasedOK'
  BY <1>u, <1>1, <1>2, <1>3 DEF ReleasedOK
<1>10. PendingOK'
  <2>1. \A j \in Jobs : Unpending(j)' <=> Unpending(j)
    BY <1>u, <1>1, <1>3 DEF Unpending
  <2>. QED
    BY <1>0, <1>u, <1>5, <2>1, OwedFrame
<1>11. BarrierOK'
  <2>1. \A j \in Jobs : PastBarrier(j)' <=> PastBarrier(j)
    BY <1>u, <1>1, <1>3 DEF PastBarrier
  <2>. QED
    BY <1>0, <1>u, <2>1, ExpectedFrame
<1>12. PendingIsHeld'
  <2>1. AllQueued' = AllQueued
    BY <1>u DEF AllQueued
  <2>. QED
    BY <1>u, <1>1, <1>3, <2>1 DEF PendingIsHeld
<1>. QED
  BY <1>6, <1>7, <1>8, <1>9, <1>10, <1>11, <1>12

(* try_schedule for a root: its graph is added to pending.                 *)
LEMMA TryScheduleCountBooks ==
    ASSUME Inv, Books, CarefulClient, NEW t \in Threads, TryScheduleCount(t)
    PROVE  Books'
<1>. USE DEF Inv, Books
<1>. DEFINE r == call[t].job
<1>0. /\ accepted \subseteq Jobs /\ pc \in [Threads -> PC] /\ cur \in [Threads -> Jobs \union {NoJob}]
      /\ jstate \in [Jobs -> JobState] /\ call \in [Threads -> CallType]
  BY DEF TypeOK
<1>1. pc[t] = "ts_count" /\ Announcing(t)
  BY DEF TryScheduleCount, Announcing, CallsOK, ChildCallOK
<1>2. /\ r \in Jobs /\ r \in Marked(r) /\ Marked(r) \subseteq Jobs /\ Marked(r) \subseteq accepted
      /\ call[t].num = Cardinality(Marked(r))
  BY <1>1, AnnouncedRoot DEF CallsOK, RootCallOK, NumJobs
<1>u. UNCHANGED <<children, jstate, released, barrierOf, barrierPending, accepted, queue, cur, call>>
  BY DEF TryScheduleCount, jobVars, clientVars
<1>3. /\ \A u \in Threads : u # t => pc'[u] = pc[u]
      /\ pc'[t] = "ts_dispatch"
      /\ pending' = FetchAdd(pending, call[t].num)
  BY <1>0, <1>1 DEF TryScheduleCount, Goto
<1>4. \A u \in Threads : Announcing(u)' <=> Announcing(u) /\ u # t
  BY <1>u, <1>1, <1>3 DEF Announcing
<1>5. Uncounted' = Uncounted \ Marked(r)
  <2>1. ASSUME NEW j \in Uncounted', j \in Marked(r) PROVE FALSE
    <3>1. PICK u \in Threads : u # t /\ Announcing(u) /\ j \in Marked(call[u].job)
      BY <1>u, <1>4, <2>1 DEF Uncounted, Marked
    <3>. QED
      BY <1>1, <2>1, <3>1, AnnouncedApart
  <2>2. ASSUME NEW j \in Uncounted' PROVE j \in Uncounted
    BY <1>u, <1>4, <2>2 DEF Uncounted, Marked
  <2>3. ASSUME NEW j \in Uncounted, j \notin Marked(r) PROVE j \in Uncounted'
    BY <1>u, <1>4, <2>3 DEF Uncounted, Marked
  <2>. QED
    BY <2>1, <2>2, <2>3
<1>6. Counted' = Counted \union Marked(r) /\ Counted \cap Marked(r) = {}
  <2>1. Marked(r) \subseteq Uncounted
    BY <1>1, <1>2 DEF Uncounted
  <2>. QED
    BY <1>u, <1>2, <1>5, <2>1 DEF Counted
<1>7. CallsOK'
  <2>1. ChildCallOK'
    BY <1>u, <1>1, <1>3 DEF CallsOK, ChildCallOK
  <2>2. RootCallOK'
    <3>1. \A u \in Threads : Announcing(u) => call[u].job \in Jobs
      BY AnnouncedRoot
    <3>. QED
      BY <1>u, <1>4, <3>1, MarkedFrame DEF CallsOK, RootCallOK
  <2>3. FreshOK'
    BY <1>u, <1>3, <1>4 DEF CallsOK, FreshOK, Marked
  <2>4. SoleOK'
    BY <1>u, <1>4 DEF CallsOK, SoleOK
  <2>5. PushOK'
    BY <1>u, <1>2, <1>3, <1>6 DEF CallsOK, PushOK
  <2>. QED
    BY <2>1, <2>2, <2>3, <2>4, <2>5 DEF CallsOK
<1>8. AcceptedOK'
  BY <1>u, AcceptedFrame
<1>9. CountedOK'
  BY <1>u, <1>6 DEF CountedOK
<1>10. ReleasedOK'
  BY <1>u, <1>1, <1>3 DEF ReleasedOK
<1>11. PendingOK'
  <2>1. \A j \in Jobs : Unpending(j)' <=> Unpending(j)
    BY <1>u, <1>1, <1>3 DEF Unpending
  <2>2. \A j \in Marked(r) : ~released[j]
    <3>1. \A j \in Marked(r) : jstate[j] # "Processed"
      BY <1>1 DEF CallsOK, FreshOK
    <3>. QED
      BY <1>2, <3>1 DEF ReleasedOK
  <2>3. Owed' = Owed \union Marked(r) /\ Owed \cap Marked(r) = {} /\ Owed \subseteq Jobs
    BY <1>0, <1>u, <1>2, <1>6, <2>1, <2>2 DEF Owed, Counted
  <2>. QED
    BY <1>2, <1>3, <2>3, FetchAddCard DEF PendingOK
<1>12. BarrierOK'
  <2>1. \A j \in Jobs : PastBarrier(j)' <=> PastBarrier(j)
    BY <1>u, <1>1, <1>3 DEF PastBarrier
  <2>. QED
    BY <1>0, <1>u, <2>1, ExpectedFrame
<1>13. PendingIsHeld'
  BY <1>u, <1>1, <1>3, HeldFrame
<1>. QED
  BY <1>7, <1>8, <1>9, <1>10, <1>11, <1>12, <1>13

-----------------------------------------------------------------------------
(* The counters: the queues.                                               *)

(* try_schedule: the push.                                                 *)
LEMMA DispatchBooks ==
    ASSUME Inv, Books, NEW t \in Threads, Dispatch(t)
    PROVE  Books'
<1>. USE DEF Inv, Books
<1>. DEFINE j == call[t].job
            w == TargetOf(t, j)
            q == QueueOf(j)
<1>0. /\ accepted \subseteq Jobs /\ pc \in [Threads -> PC] /\ cur \in [Threads -> Jobs \union {NoJob}]
      /\ queue \in [Threads -> [{"public", "private"} -> Seq(Jobs)]]
  BY DEF TypeOK
<1>1. pc[t] = "ts_dispatch" /\ j \in Jobs /\ j \in Counted
  BY DEF Dispatch, LocalOK, TrySchedulePC, CallsOK, PushOK
<1>2. w \in Threads /\ q \in {"public", "private"}
  BY <1>1, DispatchType
<1>u. UNCHANGED <<children, jstate, released, barrierOf, pending, barrierPending, accepted, cur, call>>
  BY DEF Dispatch, jobVars, countVars, clientVars
<1>3. /\ \A u \in Threads : u # t => pc'[u] = pc[u]
      /\ pc'[t] = "ts_notify"
      /\ queue' = [queue EXCEPT ![w][q] = Append(@, j)]
  BY <1>0, <1>1 DEF Dispatch, Goto
<1>c. call[t].job = j
  OBVIOUS
<1>. HIDE DEF j, w, q
<1>s. queue[w][q] \in Seq(Jobs)
  BY <1>0, <1>2
<1>a. /\ \A i \in DOMAIN Append(queue[w][q], j) :
            Append(queue[w][q], j)[i] = j \/ (i \in DOMAIN queue[w][q] /\ Append(queue[w][q], j)[i] = queue[w][q][i])
      /\ \A i \in DOMAIN queue[w][q] : i \in DOMAIN Append(queue[w][q], j) /\ Append(queue[w][q], j)[i] = queue[w][q][i]
      /\ \E i \in DOMAIN Append(queue[w][q], j) : Append(queue[w][q], j)[i] = j
  <2>1. Len(queue[w][q]) + 1 \in DOMAIN Append(queue[w][q], j) /\ Append(queue[w][q], j)[Len(queue[w][q]) + 1] = j
    BY <1>1, <1>s
  <2>. QED
    BY <1>1, <1>s, <2>1
<1>4. \A u \in Threads, p \in {"public", "private"} : \A i \in DOMAIN queue'[u][p] :
            \/ i \in DOMAIN queue[u][p] /\ queue'[u][p][i] = queue[u][p][i]
            \/ queue'[u][p][i] = j
  BY <1>0, <1>1, <1>2, <1>3, <1>a
<1>5. CallsOK' /\ Counted' = Counted
  BY <1>u, <1>1, <1>3, CallsFrame DEF CallingPC
<1>6. AcceptedOK'
  BY <1>u, AcceptedFrame
<1>7. CountedOK'
  BY <1>u, <1>1, <1>4, <1>5 DEF CountedOK
<1>8. ReleasedOK'
  BY <1>u, <1>1, <1>3 DEF ReleasedOK
<1>9. PendingOK'
  <2>1. \A k \in Jobs : Unpending(k)' <=> Unpending(k)
    BY <1>u, <1>1, <1>3 DEF Unpending
  <2>. QED
    BY <1>0, <1>u, <1>5, <2>1, OwedFrame
<1>10. BarrierOK'
  <2>1. \A k \in Jobs : PastBarrier(k)' <=> PastBarrier(k)
    BY <1>u, <1>1, <1>3 DEF PastBarrier
  <2>. QED
    BY <1>0, <1>u, <2>1, ExpectedFrame
<1>11. PendingIsHeld'
  <2>1. \A u \in Threads, p \in {"public", "private"} : \A i \in DOMAIN queue[u][p] :
            i \in DOMAIN queue'[u][p] /\ queue'[u][p][i] = queue[u][p][i]
    BY <1>0, <1>2, <1>3, <1>a
  <2>2. AllQueued \subseteq AllQueued'
    <3>. SUFFICES ASSUME NEW k \in AllQueued PROVE k \in AllQueued'
      OBVIOUS
    <3>1. PICK u \in Threads, p \in {"public", "private"} : \E i \in DOMAIN queue[u][p] : queue[u][p][i] = k
      BY DEF AllQueued
    <3>. QED
      BY <2>1, <3>1 DEF AllQueued
  <2>3. j \in AllQueued'
    <3>1. \E i \in DOMAIN queue'[w][q] : queue'[w][q][i] = j
      BY <1>0, <1>2, <1>3, <1>a
    <3>. QED
      BY <1>1, <1>2, <3>1 DEF AllQueued
  <2>. QED
    BY <1>u, <1>1, <1>3, <1>c, <2>2, <2>3 DEF PendingIsHeld
<1>. QED
  BY <1>5, <1>6, <1>7, <1>8, <1>9, <1>10, <1>11

(* get_job: a thread takes the job at the head of a queue.                 *)
LEMMA TakeBooks ==
    ASSUME Inv, Books, NEW t \in Threads, NEW v \in Threads, NEW p \in {"public", "private"},
           pc[t] \in {"pop_private", "pop_public", "steal"}, queue[v][p] # <<>>,
           cur' = [cur EXCEPT ![t] = Head(queue[v][p])], queue' = [queue EXCEPT ![v][p] = Tail(@)],
           Goto(t, "claim"),
           UNCHANGED <<children, jstate, released, barrierOf, pending, barrierPending, accepted, call>>
    PROVE  Books'
<1>. USE DEF Inv, Books
<1>0. /\ accepted \subseteq Jobs /\ pc \in [Threads -> PC] /\ cur \in [Threads -> Jobs \union {NoJob}]
      /\ queue \in [Threads -> [{"public", "private"} -> Seq(Jobs)]]
  BY DEF TypeOK
<1>s. queue[v][p] \in Seq(Jobs)
  BY <1>0
<1>h. PICK h : h = Head(queue[v][p])
  OBVIOUS
<1>1. cur[t] = NoJob
  BY DEF LocalOK, At, WorkPC, FinishPC, TrySchedulePC
<1>2. /\ \A u \in Threads : u # t => pc'[u] = pc[u] /\ cur'[u] = cur[u]
      /\ pc'[t] = "claim" /\ cur'[t] = h
  BY <1>0, <1>h DEF Goto
<1>3. h \in Counted /\ h \in Jobs
  BY <1>s, <1>h, PopFacts DEF CountedOK
<1>4. \A u \in Threads, r \in {"public", "private"} : \A i \in DOMAIN queue'[u][r] :
            \E k \in DOMAIN queue[u][r] : queue'[u][r][i] = queue[u][r][k]
  BY <1>0, <1>s, PopFacts
<1>5. CallsOK' /\ Counted' = Counted
  BY <1>1, <1>2, CallsFrame DEF CallingPC
<1>6. AcceptedOK'
  BY AcceptedFrame
<1>7. CountedOK'
  BY <1>2, <1>3, <1>4, <1>5 DEF CountedOK
<1>8. ReleasedOK'
  BY <1>2 DEF ReleasedOK
<1>9. PendingOK'
  <2>1. \A k \in Jobs : Unpending(k)' <=> Unpending(k)
    BY <1>1, <1>2 DEF Unpending
  <2>. QED
    BY <1>0, <1>5, <2>1, OwedFrame
<1>10. BarrierOK'
  <2>1. \A k \in Jobs : PastBarrier(k)' <=> PastBarrier(k)
    BY <1>1, <1>2 DEF PastBarrier
  <2>. QED
    BY <1>0, <2>1, ExpectedFrame
<1>11. PendingIsHeld'
  <2>1. ASSUME NEW u \in Threads, NEW r \in {"public", "private"}, NEW i \in DOMAIN queue[u][r], queue[u][r][i] # h
        PROVE  \E k \in DOMAIN queue'[u][r] : queue'[u][r][k] = queue[u][r][i]
    <3>1. CASE u = v /\ r = p
      <4>1. i # 1 /\ i \in 1 .. Len(queue[v][p])
        BY <1>s, <1>h, <2>1, <3>1, PopFacts
      <4>2. i - 1 \in DOMAIN Tail(queue[v][p]) /\ Tail(queue[v][p])[i - 1] = queue[v][p][i]
        BY <1>s, <4>1
      <4>. QED
        BY <1>0, <3>1, <4>2
    <3>2. CASE ~(u = v /\ r = p)
      BY <1>0, <3>2
    <3>. QED
      BY <3>1, <3>2
  <2>2. \A k \in AllQueued : k # h => k \in AllQueued'
    <3>. SUFFICES ASSUME NEW k \in AllQueued, k # h PROVE k \in AllQueued'
      OBVIOUS
    <3>1. PICK u \in Threads, r \in {"public", "private"} : \E i \in DOMAIN queue[u][r] : queue[u][r][i] = k
      BY DEF AllQueued
    <3>2. \E i \in DOMAIN queue'[u][r] : queue'[u][r][i] = k
      BY <2>1, <3>1
    <3>. QED
      BY <3>2 DEF AllQueued
  <2>. QED
    BY <1>1, <1>2, <2>2, JobAssumption DEF PendingIsHeld
<1>. QED
  BY <1>5, <1>6, <1>7, <1>8, <1>9, <1>10, <1>11

-----------------------------------------------------------------------------
(* The counters: Task::schedule.                                           *)

(* A root that was not handed over has nothing in common with what was.    *)
LEMMA FreshGraph ==
    ASSUME Inv, Books, CarefulClient, NEW j \in Jobs, j \notin accepted, InNodes(j) = {}
    PROVE  /\ Marked(j) \subseteq Jobs /\ j \in Marked(j)
           /\ \A x \in Marked(j) : children[x] \subseteq Marked(j)
           /\ Marked(j) \cap accepted = {}
           /\ \A x \in Marked(j) : jstate[x] = "Idle"
<1>. USE DEF Inv, Books
<1>0. children \in [Jobs -> SUBSET Jobs] /\ accepted \subseteq Jobs
  BY DEF TypeOK
<1>1. /\ Marked(j) \subseteq Jobs /\ j \in Marked(j)
      /\ \A x \in Marked(j) : children[x] \subseteq Marked(j)
  BY <1>0, ReachFacts DEF Marked
<1>2. ASSUME NEW x \in Marked(j), x \in accepted PROVE FALSE
  <2>1. PICK r \in accepted : InNodes(r) = {} /\ x \in Marked(r)
    BY <1>2 DEF AcceptedOK
  <2>2. children \in Graphs /\ r \in Jobs /\ r # j
    BY <1>0 DEF AcceptedOK
  <2>. QED
    BY <1>2, <2>1, <2>2 DEF CarefulClient, InNodes, Marked
<1>. QED
  BY <1>1, <1>2 DEF AcceptedOK

(* A whole graph hands itself over.                                        *)
LEMMA ScheduleBooks ==
    ASSUME Inv, Books, MainOK, CarefulClient, NEW t \in Threads, NEW j \in Jobs,
           NEW b \in Barriers \union {NoBarrier}, Schedule(t, j, b)
    PROVE  Books'
<1>. USE DEF Inv, Books
<1>0. /\ accepted \subseteq Jobs /\ pc \in [Threads -> PC] /\ cur \in [Threads -> Jobs \union {NoJob}]
      /\ call \in [Threads -> CallType] /\ barrierOf \in [Jobs -> Barriers \union {NoBarrier}]
      /\ barrierPending \in [Barriers -> 0 .. SizeMax]
  BY DEF TypeOK
<1>1. /\ j \notin accepted /\ InNodes(j) = {} /\ accepted' = accepted \union Marked(j)
      /\ pc[t] \in {"client", "kernel", "preempt_kernel"}
      /\ pc[t] = "client" \/ j \in Spawned
  BY DEF Schedule
<1>m. /\ Marked(j) \subseteq Jobs /\ j \in Marked(j)
      /\ \A x \in Marked(j) : children[x] \subseteq Marked(j)
      /\ Marked(j) \cap accepted = {}
      /\ \A x \in Marked(j) : jstate[x] = "Idle"
  BY <1>1, FreshGraph
<1>u. UNCHANGED <<children, jstate, released, pending, queue, cur>>
  BY DEF Schedule
<1>2. /\ \A u \in Threads : u # t => pc'[u] = pc[u] /\ call'[u] = call[u]
      /\ pc'[t] = "ts_cas"
      /\ call'[t].job = j /\ call'[t].num = NumJobs(j) /\ call'[t].ret = pc[t]
  <2>1. call' = [call EXCEPT ![t] = [job |-> j, num |-> NumJobs(j), ret |-> pc[t]]] /\ Goto(t, "ts_cas")
    BY DEF Schedule
  <2>. QED
    BY <1>0, <2>1 DEF Goto
<1>3. \A u \in Threads : Announcing(u)' <=> Announcing(u) \/ u = t
  BY <1>1, <1>2 DEF Announcing
<1>n. ~Announcing(t)
  BY <1>1 DEF Announcing
<1>a. \A u \in Threads : Announcing(u) =>
          call'[u] = call[u] /\ pc'[u] = pc[u] /\ call[u].job \in Jobs /\ call[u].job \in accepted
  BY <1>n, <1>2, AnnouncedRoot DEF CallsOK, RootCallOK
<1>4. Uncounted' = Uncounted \union Marked(j)
  <2>1. ASSUME NEW x \in Uncounted' PROVE x \in Uncounted \union Marked(j)
    <3>1. PICK u \in Threads : Announcing(u)' /\ x \in Jobs /\ x \in Reach(children, call'[u].job)
      BY <1>u, <2>1 DEF Uncounted, Marked
    <3>2. CASE u = t
      BY <1>2, <3>1, <3>2 DEF Marked
    <3>3. CASE u # t
      BY <1>2, <1>3, <3>1, <3>3 DEF Uncounted, Marked
    <3>. QED
      BY <3>2, <3>3
  <2>2. ASSUME NEW x \in Uncounted PROVE x \in Uncounted'
    <3>1. PICK u \in Threads : Announcing(u) /\ x \in Jobs /\ x \in Marked(call[u].job)
      BY <2>2 DEF Uncounted
    <3>. QED
      BY <1>u, <1>3, <1>a, <3>1 DEF Uncounted, Marked
  <2>3. ASSUME NEW x \in Marked(j) PROVE x \in Uncounted'
    BY <1>u, <1>m, <1>2, <1>3, <2>3 DEF Uncounted, Marked
  <2>. QED
    BY <2>1, <2>2, <2>3
<1>5. Counted' = Counted
  <2>1. Uncounted \subseteq accepted
    BY DEF Uncounted, CallsOK, RootCallOK
  <2>. QED
    BY <1>1, <1>m, <1>4, <2>1 DEF Counted
<1>6. CallsOK'
  <2>1. ChildCallOK'
    BY <1>u, <1>1, <1>2 DEF CallsOK, ChildCallOK
  <2>2. RootCallOK'
    <3>1. ASSUME NEW u \in Threads, Announcing(u)'
          PROVE  /\ (call[u].num = NumJobs(call[u].job))'
                 /\ (InNodes(call[u].job) = {})'
                 /\ (Marked(call[u].job) \subseteq accepted)'
                 /\ (call[u].job \in Spawned \/ u = Main)'
      <4>1. CASE u = t
        <5>1. t = Main \/ j \in Spawned
          BY <1>1 DEF MainOK, OnlyMain, At, TrySchedulePC
        <5>3. call'[u].job = j /\ call'[u].num = NumJobs(j)
          BY <1>2, <4>1
        <5>. QED
          BY <1>u, <1>1, <4>1, <5>1, <5>3 DEF NumJobs, InNodes, Marked
      <4>2. CASE u # t
        <5>1. Announcing(u) /\ call'[u] = call[u] /\ call[u].job \in Jobs
          BY <1>a, <1>3, <3>1, <4>2
        <5>. QED
          BY <1>u, <1>1, <5>1 DEF NumJobs, InNodes, Marked, CallsOK, RootCallOK
      <4>. QED
        BY <4>1, <4>2
    <3>. QED
      BY <3>1 DEF RootCallOK
  <2>3. FreshOK'
    <3>1. ASSUME NEW u \in Threads, Announcing(u)', NEW x \in Reach(children, call'[u].job)
          PROVE  jstate[x] = IF x = call'[u].job /\ pc'[u] = "ts_count" THEN "Pending" ELSE "Idle"
      <4>1. CASE u = t
        BY <1>m, <1>2, <3>1, <4>1 DEF Marked
      <4>2. CASE u # t
        BY <1>a, <1>3, <3>1, <4>2 DEF Marked, CallsOK, FreshOK
      <4>. QED
        BY <4>1, <4>2
    <3>. QED
      BY <1>u, <3>1 DEF FreshOK, Marked
  <2>4. SoleOK'
    BY <1>a, <1>1, <1>2, <1>3 DEF CallsOK, SoleOK
  <2>5. PushOK'
    BY <1>2, <1>5 DEF CallsOK, PushOK
  <2>. QED
    BY <2>1, <2>2, <2>3, <2>4, <2>5 DEF CallsOK
<1>7. AcceptedOK'
  <2>1. children' \in Graphs /\ \A x \in Jobs : jstate'[x] # "Idle" => x \in accepted'
    BY <1>u, <1>1 DEF AcceptedOK
  <2>2. \A x \in accepted' : children'[x] \subseteq accepted'
    BY <1>u, <1>1, <1>m DEF AcceptedOK
  <2>3. ASSUME NEW x \in accepted' PROVE \E r \in accepted' : InNodes(r)' = {} /\ x \in Marked(r)'
    <3>1. CASE x \in Marked(j)
      <4>1. InNodes(j)' = {} /\ x \in Marked(j)'
        BY <1>u, <1>1, <3>1, MarkedFrame
      <4>. QED
        BY <1>1, <1>m, <4>1
    <3>2. CASE x \in accepted
      <4>1. PICK r \in accepted : InNodes(r) = {} /\ x \in Marked(r)
        BY <3>2 DEF AcceptedOK
      <4>2. InNodes(r)' = {} /\ x \in Marked(r)'
        BY <1>0, <1>u, <4>1, MarkedFrame
      <4>. QED
        BY <1>1, <4>2
    <3>. QED
      BY <1>1, <2>3, <3>1, <3>2
  <2>. QED
    BY <2>1, <2>2, <2>3 DEF AcceptedOK
<1>8. CountedOK'
  BY <1>u, <1>5 DEF CountedOK
<1>9. ReleasedOK'
  BY <1>u, <1>1, <1>2 DEF ReleasedOK
<1>10. PendingOK'
  <2>1. \A x \in Jobs : Unpending(x)' <=> Unpending(x)
    BY <1>u, <1>1, <1>2 DEF Unpending
  <2>. QED
    BY <1>0, <1>u, <1>5, <2>1, OwedFrame
<1>11. BarrierOK'
  <2>1. \A x \in Jobs : PastBarrier(x)' <=> PastBarrier(x)
    BY <1>u, <1>1, <1>2 DEF PastBarrier
  <2>2. \A x \in Marked(j) : ~PastBarrier(x)
    <3>1. \A x \in Marked(j) : ~released[x]
      BY <1>m DEF ReleasedOK
    <3>2. \A u \in Threads : cur[u] \notin Marked(j)
      BY <1>0, <1>m, JobAssumption DEF CountedOK, Counted
    <3>. QED
      BY <3>1, <3>2 DEF PastBarrier
  <2>3. \A x \in Jobs : barrierOf'[x] = IF x \in Marked(j) THEN b ELSE barrierOf[x]
    BY DEF Schedule
  <2>4. ASSUME NEW c \in Barriers PROVE barrierPending'[c] = Cardinality(Expected(c)')
    <3>1. CASE c = b
      <4>1. Expected(c)' = Expected(c) \union Marked(j) /\ Expected(c) \cap Marked(j) = {} /\ Expected(c) \subseteq Jobs
        BY <1>0, <1>1, <1>m, <2>1, <2>2, <2>3, <3>1 DEF Expected
      <4>2. barrierPending'[c] = FetchAdd(barrierPending[c], Cardinality(Marked(j)))
        BY <1>0, <3>1, JobAssumption DEF Schedule, NumJobs
      <4>3. barrierPending[c] = Cardinality(Expected(c))
        BY DEF BarrierOK
      <4>. QED
        BY <1>m, <4>1, <4>2, <4>3, FetchAddCard
    <3>2. CASE c # b
      <4>1. Expected(c)' = Expected(c)
        BY <1>0, <1>1, <1>m, <2>1, <2>2, <2>3, <3>2 DEF Expected
      <4>2. barrierPending'[c] = barrierPending[c]
        BY <1>0, <3>2 DEF Schedule
      <4>. QED
        BY <4>1, <4>2 DEF BarrierOK
    <3>. QED
      BY <3>1, <3>2
  <2>. QED
    BY <2>4 DEF BarrierOK
<1>12. PendingIsHeld'
  BY <1>u, <1>1, <1>2, HeldFrame
<1>. QED
  BY <1>6, <1>7, <1>8, <1>9, <1>10, <1>11, <1>12

-----------------------------------------------------------------------------
(* Every step keeps the books.                                             *)
LEMMA BooksStep ==
    ASSUME Inv, Books, MainOK, CarefulClient, [Next]_vars
    PROVE  Books'
<1>. USE ThreadFacts
<1>0. TypeOK
  BY DEF Inv
<1>1. ASSUME NEW t \in Threads, TryScheduleStep(t) PROVE Books'
  BY <1>1, ChildExchangeBooks, RootExchangeBooks, TryScheduleCountBooks, DispatchBooks, TryScheduleNotifyBooks
     DEF TryScheduleStep
<1>2. ASSUME NEW t \in Threads, NEW p \in {"public", "private"}, NEW h \in {"pop_private", "pop_public"},
             NEW o \in {"pop_public", "steal"}, PopOwn(t, h, p, o)
      PROVE  Books'
  <2>u. UNCHANGED <<children, jstate, pendingIn, released, barrierOf, pending, barrierPending, accepted, todo, call, signalled>>
    BY <1>2 DEF PopOwn, jobVars, countVars, clientVars
  <2>1. CASE queue[t][p] = <<>>
    <3>1. Quiet /\ queue' = queue
      BY <1>0, <1>2, <2>u, <2>1 DEF PopOwn, Quiet, Goto, BusyPC, WorkPC, TrySchedulePC, FinishPC, TypeOK
    <3>. QED
      BY <2>u, <3>1, QuietBooks
  <2>2. CASE queue[t][p] # <<>>
    BY <1>2, <2>u, <2>2, TakeBooks DEF PopOwn
  <2>. QED
    BY <2>1, <2>2
<1>3. ASSUME NEW t \in Threads, Steal(t) PROVE Books'
  <2>. DEFINE v == Stealable(t, stealRobin[t])
  <2>u. UNCHANGED <<children, jstate, pendingIn, released, barrierOf, pending, barrierPending, accepted, todo, call, signalled>>
    BY <1>3 DEF Steal, jobVars, countVars, clientVars
  <2>v. v \in Threads
    BY <1>0, StealRange DEF TypeOK
  <2>1. CASE queue[v]["public"] = <<>>
    <3>1. Quiet /\ queue' = queue
      BY <1>3, <2>u, <2>1 DEF Steal, Quiet
    <3>. QED
      BY <2>u, <3>1, QuietBooks
  <2>2. CASE queue[v]["public"] # <<>>
    BY <1>3, <2>u, <2>v, <2>2, TakeBooks DEF Steal
  <2>. QED
    BY <2>1, <2>2
<1>4. ASSUME \/ \E t \in Threads : StealFailed(t)
             \/ \E t \in Workers : RunStep(t) \/ LockWakeMutex(t) \/ SpuriousWake(t)
             \/ BeginWait \/ WaitStep \/ ShutdownStep
      PROVE  Books'
  BY <1>0, <1>4, QuietActions, QuietFrame, QuietBooks
<1>5. ASSUME NEW t \in Threads, GetJobStep(t) PROVE Books'
  BY <1>2, <1>3, <1>4, <1>5, ClaimBooks DEF GetJobStep, PopPrivate, PopPublic
<1>6. ASSUME NEW t \in Threads, BarrierDone(t) PROVE Books'
  BY <1>6, PassBarrierBooks DEF BarrierDone, clientVars
<1>7. ASSUME PreemptBarrierDone PROVE Books'
  BY <1>7, PassBarrierBooks DEF PreemptBarrierDone, clientVars
<1>8. ASSUME NEW t \in Threads, ProcessStep(t) PROVE Books'
  BY <1>6, <1>8, KernelDoneBooks, SignalChildBooks, ChildReadyBooks, ReleaseJobBooks, UnpendBooks DEF ProcessStep
<1>9. ASSUME NEW t \in Threads, NEW j \in Jobs, NEW b \in Barriers \union {NoBarrier}, Schedule(t, j, b)
      PROVE  Books'
  BY <1>9, ScheduleBooks
<1>10. ASSUME NEW j \in Jobs, Preempt(j) PROVE Books'
  BY <1>10, PreemptBooks
<1>11. ASSUME PreemptStep PROVE Books'
  BY <1>7, <1>11, PreemptForceStateBooks DEF PreemptStep
<1>12. CASE UNCHANGED vars
  BY <1>12, QuietBooks DEF vars, jobVars, countVars, clientVars, Quiet
<1>. QED
  BY <1>1, <1>4, <1>5, <1>8, <1>9, <1>10, <1>11, <1>12 DEF Next, ThreadStep, MainStep, Down

(* Nothing is handed over at the start.                                    *)
LEMMA BooksInit == Init => Books
<1>. SUFFICES ASSUME Init PROVE Books
  OBVIOUS
<1>1. \A t \in Threads : ~Announcing(t) /\ cur[t] = NoJob /\ pc[t] \in {"client", "top"} /\ call[t] = NoCall
  BY DEF Init, Announcing, NoCall
<1>2. Uncounted = {} /\ Counted = {} /\ Owed = {} /\ \A b \in Barriers : Expected(b) = {}
  BY <1>1 DEF Init, Uncounted, Counted, Owed, Expected
<1>3. AcceptedOK /\ CallsOK
  BY <1>1 DEF Init, AcceptedOK, CallsOK, ChildCallOK, RootCallOK, FreshOK, SoleOK, PushOK
<1>4. CountedOK
  BY <1>1 DEF Init, CountedOK
<1>5. ReleasedOK /\ PendingIsHeld
  BY <1>1 DEF Init, ReleasedOK, PendingIsHeld
<1>6. PendingOK /\ BarrierOK
  BY <1>2, FS_EmptySet DEF Init, PendingOK, BarrierOK
<1>. QED
  BY <1>3, <1>4, <1>5, <1>6 DEF Books

-----------------------------------------------------------------------------
(* The main thread, wake_mutex and the shutdown.                           *)

(* A thread that works or schedules moves nobody else, and stays out of    *)
(* the sleep, the shutdown and the client's code.                          *)
Working(t) ==
    /\ UNCHANGED <<mutex, goal, joining>>
    /\ \A u \in Threads : u # t => At(u)' = At(u) \/ (At(u) = "asleep" /\ At(u)' = "lock")
    /\ \A u \in Threads : u # t => pc'[u] = pc[u] \/ (pc[u] = "asleep" /\ pc'[u] = "lock")
    /\ pc[t] \notin {"check", "presleep"} \union Over \union Shutting
    /\ pc'[t] \notin {"check", "presleep"} \union Over \union Shutting
    /\ At(t)' \in OnlyMain => At(t)' = At(t) \/ t = Main
    /\ t = Main /\ At(t)' \in {"client", "preempt_kernel", "preempt_force"} \union Shutting =>
           At(t)' = At(t) \/ goal = NoGoal
    /\ t = Main /\ pc'[t] \in {"wait", "idle_notify", "pop_private", "pop_public", "steal", "claim"} =>
           goal \in Goals

(* Which steps these are.                                                  *)
LEMMA WorkingSteps ==
    ASSUME Inv, MainOK, NEW t \in Threads,
           ThreadStep(t) \/ \E j \in Jobs, b \in Barriers \union {NoBarrier} : Schedule(t, j, b)
    PROVE  Working(t)
<1>. USE ThreadFacts DEF Inv
<1>0. pc \in [Threads -> PC] /\ cur \in [Threads -> Jobs \union {NoJob}] /\ call \in [Threads -> CallType]
  BY DEF TypeOK
<1>ret. \A u \in Threads : call[u].ret \in {"client", "kernel", "preempt_kernel", "children"}
  BY <1>0, CallFacts DEF CallPC
<1>1. CASE TryScheduleExchange(t)
  <2>1. UNCHANGED <<mutex, goal, joining>>
    BY <1>1 DEF TryScheduleExchange, clientVars
  <2>2. /\ \A u \in Threads : u # t => pc'[u] = pc[u] /\ call'[u] = call[u]
        /\ pc[t] = "ts_cas" /\ pc'[t] \in {"ts_count", "ts_dispatch", "client", "kernel", "preempt_kernel", "children"}
        /\ At(t)' = At(t)
    BY <1>0, <1>1, <1>ret DEF TryScheduleExchange, Goto, At, TrySchedulePC
  <2>. QED
    BY <2>1, <2>2 DEF Working, At, Over, Shutting
<1>2. CASE TryScheduleCount(t) \/ Dispatch(t)
  <2>1. UNCHANGED <<mutex, goal, joining, call>>
    BY <1>2 DEF TryScheduleCount, Dispatch, clientVars
  <2>2. /\ \A u \in Threads : u # t => pc'[u] = pc[u]
        /\ pc[t] \in TrySchedulePC /\ pc'[t] \in TrySchedulePC
    BY <1>0, <1>2 DEF TryScheduleCount, Dispatch, Goto, TrySchedulePC
  <2>. QED
    BY <2>1, <2>2 DEF Working, At, Over, Shutting, TrySchedulePC
<1>3. CASE TryScheduleNotify(t)
  <2>1. UNCHANGED <<mutex, goal, joining>>
    BY <1>3 DEF TryScheduleNotify, clientVars
  <2>2. /\ \A u \in Threads : u # t => (pc'[u] = pc[u] \/ (pc[u] = "asleep" /\ pc'[u] = "lock")) /\ call'[u] = call[u]
        /\ pc[t] = "ts_notify" /\ pc'[t] \in {"client", "kernel", "preempt_kernel", "children"}
        /\ At(t)' = At(t)
    BY <1>0, <1>3, <1>ret DEF TryScheduleNotify, NotifyAll, At, TrySchedulePC
  <2>. QED
    BY <2>1, <2>2 DEF Working, At, Over, Shutting, TrySchedulePC
<1>4. CASE PopPrivate(t) \/ PopPublic(t) \/ Steal(t) \/ StealFailed(t) \/ Claim(t)
  <2>1. UNCHANGED <<mutex, goal, joining, call>>
    BY <1>4 DEF PopPrivate, PopPublic, PopOwn, Steal, StealFailed, Claim, clientVars
  <2>2. /\ \A u \in Threads : u # t => pc'[u] = pc[u]
        /\ pc[t] \in {"pop_private", "pop_public", "steal", "claim"}
        /\ pc'[t] \in {"pop_public", "steal", "claim", "kernel", "top", "lock", "idle_notify"}
        /\ pc'[t] = "idle_notify" => t = Main
    <3>1. CASE PopPrivate(t) \/ PopPublic(t)
      BY <1>0, <3>1 DEF PopPrivate, PopPublic, PopOwn, Goto
    <3>2. CASE Steal(t)
      BY <1>0, <3>2 DEF Steal, Goto
    <3>3. CASE StealFailed(t) \/ Claim(t)
      BY <1>0, <3>3 DEF StealFailed, Claim, Goto, NoWork, Skip
    <3>. QED
      BY <1>4, <3>1, <3>2, <3>3
  <2>3. t = Main => goal \in Goals
    BY <2>2 DEF MainOK
  <2>. QED
    BY <2>1, <2>2, <2>3 DEF Working, At, Over, Shutting, TrySchedulePC, OnlyMain
<1>5. CASE KernelDone(t) \/ SignalChild(t) \/ ChildReady(t) \/ BarrierDone(t) \/ ReleaseJob(t)
  <2>1. UNCHANGED <<mutex, goal, joining>>
    BY <1>5 DEF KernelDone, SignalChild, ChildReady, BarrierDone, ReleaseJob, clientVars
  <2>2. /\ \A u \in Threads : u # t => pc'[u] = pc[u] /\ call'[u] = call[u]
        /\ pc[t] \in {"kernel", "children", "child_ready", "release"}
        /\ pc'[t] \in {"children", "child_ready", "ts_cas", "release", "unpend"}
        /\ pc'[t] = "ts_cas" => call'[t].ret = "children"
    <3>1. CASE KernelDone(t) \/ BarrierDone(t) \/ ReleaseJob(t)
      BY <1>0, <3>1 DEF KernelDone, BarrierDone, ReleaseJob, Goto
    <3>2. CASE SignalChild(t)
      BY <1>0, <3>2 DEF SignalChild, Goto
    <3>3. CASE ChildReady(t)
      BY <1>0, <3>3 DEF ChildReady, Goto, LocalOK
    <3>. QED
      BY <1>5, <3>1, <3>2, <3>3
  <2>. QED
    BY <2>1, <2>2 DEF Working, At, Over, Shutting, TrySchedulePC, OnlyMain
<1>6. CASE Unpend(t)
  <2>1. UNCHANGED <<mutex, goal, joining, call>>
    BY <1>6 DEF Unpend, clientVars
  <2>2. /\ \A u \in Threads : u # t => pc'[u] = pc[u]
        /\ pc[t] = "unpend"
        /\ t # Main => pc'[t] = "top"
        /\ t = Main => pc'[t] = IF goal = NoGoal THEN "client" ELSE "wait"
    BY <1>0, <1>6 DEF Unpend, Goto, LoopHead
  <2>3. goal # NoGoal => goal \in Goals
    BY DEF MainOK
  <2>. QED
    BY <2>1, <2>2, <2>3 DEF Working, At, Over, Shutting, TrySchedulePC, OnlyMain
<1>7. ASSUME NEW j \in Jobs, NEW b \in Barriers \union {NoBarrier}, Schedule(t, j, b) PROVE Working(t)
  <2>1. UNCHANGED <<mutex, goal, joining>>
    BY <1>7 DEF Schedule
  <2>2. /\ \A u \in Threads : u # t => pc'[u] = pc[u] /\ call'[u] = call[u]
        /\ pc[t] \in {"client", "kernel", "preempt_kernel"} /\ pc'[t] = "ts_cas" /\ At(t)' = At(t)
    BY <1>0, <1>7 DEF Schedule, Goto, At, TrySchedulePC
  <2>. QED
    BY <2>1, <2>2 DEF Working, At, Over, Shutting, TrySchedulePC
<1>. QED
  BY <1>1, <1>2, <1>3, <1>4, <1>5, <1>6, <1>7 DEF ThreadStep, TryScheduleStep, GetJobStep, ProcessStep

(* What is handed over can be waited for, now and later.                   *)
LEMMA GoalsGrow ==
    ASSUME accepted \subseteq accepted'
    PROVE  Goals \subseteq Goals'
BY DEF Goals

(* Nothing that was handed over is taken back.                             *)
LEMMA AcceptedGrows == [Next]_vars => accepted \subseteq accepted'
<1>. SUFFICES ASSUME [Next]_vars PROVE accepted \subseteq accepted'
  OBVIOUS
<1>1. ASSUME NEW t \in Threads, ThreadStep(t) PROVE accepted \subseteq accepted'
  BY <1>1 DEF ThreadStep, TryScheduleStep, GetJobStep, ProcessStep, TryScheduleExchange, TryScheduleCount,
     Dispatch, TryScheduleNotify, PopPrivate, PopPublic, PopOwn, Steal, StealFailed, Claim, KernelDone,
     SignalChild, ChildReady, BarrierDone, ReleaseJob, Unpend, clientVars
<1>2. ASSUME PreemptStep PROVE accepted \subseteq accepted'
  BY <1>2 DEF PreemptStep, PreemptBarrierDone, PreemptForceState, clientVars
<1>. QED
  BY <1>1, <1>2, QuietFrame DEF Next, MainStep, Schedule, Preempt, Down, vars, clientVars

(* Every step keeps the main thread's place.                               *)
LEMMA MainStepOK ==
    ASSUME Inv, MainOK, [Next]_vars
    PROVE  MainOK'
<1>. USE ThreadFacts DEF Inv
<1>0. pc \in [Threads -> PC] /\ call \in [Threads -> CallType]
  BY DEF TypeOK
<1>g. Goals \subseteq Goals'
  BY AcceptedGrows, GoalsGrow
<1>m. \A w \in Workers : w # Main
  BY DEF Workers, Main
<1>1. ASSUME NEW t \in Threads, Working(t) PROVE MainOK'
  <2>1. \A u \in Threads : At(u)' \in OnlyMain => u = Main
    BY <1>1 DEF Working, MainOK, OnlyMain, Shutting
  <2>2. At(Main)' \in {"client", "preempt_kernel", "preempt_force"} \union Shutting => goal' = NoGoal
    BY <1>1 DEF Working, MainOK, OnlyMain, Shutting
  <2>3. pc'[Main] \in {"wait", "idle_notify", "pop_private", "pop_public", "steal", "claim"} => goal' \in Goals'
    BY <1>g, <1>1 DEF Working, MainOK
  <2>4. goal' \in Goals' \union {NoGoal}
    BY <1>g, <1>1 DEF Working, MainOK
  <2>. QED
    BY <2>1, <2>2, <2>3, <2>4 DEF MainOK
<1>2. ASSUME NEW t \in Workers, RunStep(t) \/ LockWakeMutex(t) \/ SpuriousWake(t) PROVE MainOK'
  <2>1. UNCHANGED <<goal, call>>
    BY <1>2 DEF RunStep, RunTop, CheckWake, FallAsleep, LockWakeMutex, SpuriousWake, clientVars
  <2>2. /\ \A u \in Threads : u # t => pc'[u] = pc[u]
        /\ pc[t] \notin TrySchedulePC /\ pc'[t] \notin TrySchedulePC \union OnlyMain
    BY <1>0, <1>2 DEF RunStep, RunTop, CheckWake, FallAsleep, LockWakeMutex, SpuriousWake, Goto, TrySchedulePC, OnlyMain, Shutting
  <2>3. \A u \in Threads : u # t => At(u)' = At(u)
    BY <2>1, <2>2 DEF At
  <2>4. At(t)' \notin OnlyMain
    BY <2>2 DEF At
  <2>. QED
    BY <1>g, <1>m, <2>1, <2>2, <2>3, <2>4 DEF MainOK
<1>3. ASSUME NEW j \in Jobs, Preempt(j) PROVE MainOK'
  <2>1. UNCHANGED <<goal, call>> /\ pc[Main] = "client" /\ pc'[Main] = "preempt_kernel"
        /\ \A u \in Threads : u # Main => pc'[u] = pc[u]
    BY <1>0, <1>3 DEF Preempt, Goto
  <2>. QED
    BY <1>g, <2>1 DEF MainOK, At, TrySchedulePC, OnlyMain, Shutting
<1>4. ASSUME BeginWait PROVE MainOK'
  <2>1. UNCHANGED call /\ goal' \in Goals /\ pc'[Main] = "wait" /\ \A u \in Threads : u # Main => pc'[u] = pc[u]
    BY <1>0, <1>4 DEF BeginWait, Goto
  <2>. QED
    BY <1>g, <2>1 DEF MainOK, At, TrySchedulePC, OnlyMain, Shutting
<1>5. ASSUME PreemptStep PROVE MainOK'
  <2>1. UNCHANGED <<goal, call>> /\ pc[Main] \in {"preempt_kernel", "preempt_force"}
        /\ pc'[Main] \in {"preempt_force", "release"}
        /\ \A u \in Threads : u # Main => pc'[u] = pc[u]
    BY <1>0, <1>5 DEF PreemptStep, PreemptBarrierDone, PreemptForceState, Goto, clientVars
  <2>. QED
    BY <1>g, <2>1 DEF MainOK, At, TrySchedulePC, OnlyMain, Shutting
<1>6. ASSUME WaitStep PROVE MainOK'
  <2>1. /\ UNCHANGED call /\ pc[Main] \in {"wait", "idle_notify"}
        /\ \/ pc'[Main] \in {"pop_private", "wait"} /\ goal' = goal
           \/ pc'[Main] \in {"client", "term_flag"} /\ goal' = NoGoal
        /\ \A u \in Threads : u # Main => pc'[u] = pc[u] \/ (pc[u] = "asleep" /\ pc'[u] = "lock")
    <3>1. CASE WaitMore \/ WaitOver
      BY <1>0, <3>1 DEF WaitMore, WaitOver, Goto, clientVars
    <3>2. CASE IdleNotify
      BY <1>0, <3>2 DEF IdleNotify, NotifyAll, clientVars
    <3>. QED
      BY <1>6, <3>1, <3>2 DEF WaitStep
  <2>2. \A u \in Threads : u # Main => At(u)' = At(u) \/ At(u)' = "lock"
    BY <2>1 DEF At, TrySchedulePC
  <2>3. \A u \in Threads : At(u)' \in OnlyMain => u = Main
    BY <2>2 DEF MainOK, OnlyMain, Shutting
  <2>4. /\ At(Main)' \in {"client", "preempt_kernel", "preempt_force"} \union Shutting => goal' = NoGoal
        /\ pc'[Main] \in {"wait", "idle_notify", "pop_private", "pop_public", "steal", "claim"} => goal' \in Goals'
        /\ goal' \in Goals' \union {NoGoal}
    BY <1>g, <2>1 DEF MainOK, At, TrySchedulePC, Shutting
  <2>. QED
    BY <2>3, <2>4 DEF MainOK
<1>7. ASSUME ShutdownStep PROVE MainOK'
  <2>0. joining \in Workers
    BY DEF TypeOK
  <2>1. /\ UNCHANGED <<call, goal>> /\ pc[Main] \in Shutting /\ pc'[Main] \in Shutting
        /\ \A u \in Threads : u # Main => pc'[u] = pc[u] \/ (pc[u] \in {"asleep", "stopped"} /\ pc'[u] \in {"lock"} \union Over)
    <3>1. CASE SetTerminate \/ TryLockNotify \/ JoinTimeout
      BY <1>0, <3>1 DEF SetTerminate, TryLockNotify, JoinTimeout, Goto, NotifyAll, clientVars, Shutting
    <3>2. CASE Join
      BY <1>0, <1>m, <2>0, <3>2 DEF Join, Joined, Shutting, Over
    <3>3. CASE CancelJoin
      BY <1>0, <1>m, <2>0, <3>3 DEF CancelJoin, Joined, Shutting, Over
    <3>. QED
      BY <1>7, <3>1, <3>2, <3>3 DEF ShutdownStep
  <2>2. \A u \in Threads : u # Main => At(u)' = At(u) \/ At(u)' \in {"lock"} \union Over
    BY <2>1 DEF At, TrySchedulePC, Over
  <2>3. \A u \in Threads : At(u)' \in OnlyMain => u = Main
    BY <2>2 DEF MainOK, OnlyMain, Shutting, Over
  <2>4. goal = NoGoal /\ pc'[Main] \in Shutting
    BY <2>1 DEF MainOK, At, TrySchedulePC, Shutting
  <2>. QED
    BY <2>1, <2>3, <2>4 DEF MainOK, Shutting
<1>8. CASE UNCHANGED vars
  BY <1>g, <1>8 DEF vars, clientVars, MainOK, At
<1>. QED
  BY <1>1, <1>2, <1>3, <1>4, <1>5, <1>6, <1>7, <1>8, WorkingSteps DEF Next, MainStep, Down

(* The steps of the sleep and of the client: only LockWakeMutex, CheckWake *)
(* and FallAsleep touch wake_mutex.                                        *)
LEMMA MutexStep ==
    ASSUME Inv, MainOK, MutexOK, [Next]_vars
    PROVE  MutexOK'
<1>. USE ThreadFacts DEF Inv
<1>0. pc \in [Threads -> PC] /\ mutex \in Threads \union {NoThread} /\ joining \in Workers
  BY DEF TypeOK
<1>m. \A w \in Workers : w # Main
  BY DEF Workers, Main
<1>f. ASSUME mutex' = mutex,
             \A u \in Threads : pc'[u] = pc[u] \/ (pc[u] \notin {"check", "presleep"} /\ pc'[u] \notin {"check", "presleep"})
      PROVE  MutexOK'
  BY <1>f DEF MutexOK
<1>1. ASSUME NEW t \in Threads, Working(t) PROVE MutexOK'
  BY <1>f, <1>1 DEF Working
<1>2. ASSUME NEW t \in Workers, RunTop(t) \/ SpuriousWake(t) PROVE MutexOK'
  BY <1>0, <1>f, <1>2 DEF RunTop, SpuriousWake, Goto
<1>3. ASSUME NEW t \in Workers, LockWakeMutex(t) PROVE MutexOK'
  BY <1>0, <1>3, ThreadAssumption DEF LockWakeMutex, Goto, MutexOK
<1>4. ASSUME NEW t \in Workers, CheckWake(t) PROVE MutexOK'
  <2>1. pc[t] = "check" /\ mutex = t
    BY <1>4 DEF CheckWake, MutexOK
  <2>2. CASE WakePredicate(t)
    BY <1>0, <1>4, <2>1, <2>2, ThreadAssumption DEF CheckWake, Goto, MutexOK
  <2>3. CASE ~WakePredicate(t)
    BY <1>0, <1>4, <2>1, <2>3, ThreadAssumption DEF CheckWake, Goto, MutexOK
  <2>. QED
    BY <2>2, <2>3
<1>5. ASSUME NEW t \in Workers, FallAsleep(t) PROVE MutexOK'
  <2>1. pc[t] = "presleep" /\ mutex = t
    BY <1>5 DEF FallAsleep, MutexOK
  <2>. QED
    BY <1>0, <1>5, <2>1, ThreadAssumption DEF FallAsleep, Goto, MutexOK
<1>6. ASSUME (\E j \in Jobs : Preempt(j)) \/ BeginWait \/ PreemptStep PROVE MutexOK'
  BY <1>0, <1>f, <1>6 DEF Preempt, BeginWait, PreemptStep, PreemptBarrierDone, PreemptForceState, Goto
<1>7. ASSUME WaitStep PROVE MutexOK'
  <2>1. CASE WaitMore \/ WaitOver
    BY <1>0, <1>f, <2>1 DEF WaitMore, WaitOver, Goto
  <2>2. CASE IdleNotify
    BY <1>0, <1>f, <2>2 DEF IdleNotify, NotifyAll
  <2>. QED
    BY <1>7, <2>1, <2>2 DEF WaitStep
<1>8. ASSUME ShutdownStep PROVE MutexOK'
  <2>1. CASE SetTerminate \/ JoinTimeout
    BY <1>0, <1>f, <2>1 DEF SetTerminate, JoinTimeout, Goto
  <2>2. CASE TryLockNotify
    BY <1>0, <1>f, <2>2 DEF TryLockNotify, Goto, NotifyAll
  <2>3. CASE Join
    BY <1>0, <1>f, <1>m, <2>3 DEF Join, Joined
  <2>4. CASE CancelJoin
    BY <1>0, <1>f, <1>m, <2>4 DEF CancelJoin, Joined
  <2>. QED
    BY <1>8, <2>1, <2>2, <2>3, <2>4 DEF ShutdownStep
<1>9. CASE UNCHANGED vars
  BY <1>f, <1>9 DEF vars
<1>. QED
  BY <1>1, <1>2, <1>3, <1>4, <1>5, <1>6, <1>7, <1>8, <1>9, WorkingSteps DEF Next, RunStep, MainStep, Down

(* When pending is zero no job is left: a job that is not counted yet is   *)
(* announced by a kernel, and the job of that kernel is counted.           *)
LEMMA PendingZero ==
    ASSUME Inv, Books, MainOK, pending = 0, pc[Main] = "wait"
    PROVE  \A j \in accepted : released[j]
<1>. USE ThreadFacts DEF Inv, Books
<1>1. accepted \subseteq Jobs /\ call \in [Threads -> CallType]
  BY DEF TypeOK
<1>2. Owed = {}
  <2>1. Owed \subseteq Jobs
    BY <1>1 DEF Owed, Counted
  <2>2. IsFiniteSet(Owed)
    BY <2>1, CountType
  <2>. QED
    BY <2>2, FS_EmptySet DEF PendingOK
<1>3. ASSUME NEW t \in Threads, Announcing(t) PROVE FALSE
  <2>1. call[t].ret \in {"client", "kernel", "preempt_kernel"} /\ At(t) = call[t].ret
    BY <1>1, <1>3, CallFacts DEF Announcing, CallPC, At, TrySchedulePC
  <2>2. At(t) = "kernel"
    <3>1. t # Main
      BY <1>3 DEF Announcing
    <3>. QED
      BY <2>1, <3>1 DEF MainOK, OnlyMain
  <2>3. cur[t] \in Counted /\ cur[t] \in Jobs /\ cur[t] # NoJob
    BY <2>2, CurFacts DEF WorkPC
  <2>4. ~released[cur[t]]
    BY <1>3, <2>3 DEF Announcing, ReleasedOK
  <2>. QED
    BY <1>2, <2>3, <2>4 DEF Owed
<1>4. Counted = accepted
  BY <1>3 DEF Counted, Uncounted
<1>. QED
  BY <1>2, <1>4 DEF Owed

(* Nobody schedules once everything is finished.                           *)
LEMMA NoScheduleAfter ==
    ASSUME Inv, Books, MainOK, pc[Main] \in Shutting, \A j \in accepted : released[j],
           NEW t \in Threads, NEW j \in Jobs, NEW b \in Barriers \union {NoBarrier}, Schedule(t, j, b)
    PROVE  FALSE
<1>. USE ThreadFacts DEF Inv, Books
<1>1. pc[t] \in {"client", "kernel", "preempt_kernel"}
  BY DEF Schedule
<1>2. pc[t] = "kernel"
  <2>1. t # Main
    BY <1>1 DEF Shutting
  <2>. QED
    BY <1>1, <2>1 DEF MainOK, OnlyMain, At, TrySchedulePC
<1>3. cur[t] \in accepted /\ cur[t] # NoJob
  BY <1>2, CurFacts DEF At, TrySchedulePC, WorkPC
<1>. QED
  BY <1>2, <1>3 DEF ReleasedOK

(* Every step keeps what the shutdown has reached.                         *)
LEMMA ShutStep ==
    ASSUME Inv, Books, MainOK, ShutOK, [Next]_vars
    PROVE  ShutOK'
<1>. USE ThreadFacts DEF Inv
<1>0. /\ pc \in [Threads -> PC] /\ joining \in Workers /\ released \in [Jobs -> BOOLEAN]
      /\ cur \in [Threads -> Jobs \union {NoJob}] /\ accepted \subseteq Jobs
  BY DEF TypeOK
<1>m. \A w \in Workers : w # Main /\ w \in Threads
  BY DEF Workers, Main, Threads
<1>f. ASSUME joining' = joining, pc'[Main] \in Shutting <=> pc[Main] \in Shutting, pc'[Main] = "down" => pc[Main] = "down",
             pc[Main] \in Shutting => accepted' = accepted,
             \A j \in Jobs : released[j] => released'[j],
             \A u \in Threads : u # Main /\ pc[u] \in Over => pc'[u] \in Over
      PROVE  ShutOK'
  BY <1>0, <1>m, <1>f DEF ShutOK
<1>1. ASSUME NEW t \in Threads, ThreadStep(t) PROVE ShutOK'
  <2>1. Working(t)
    BY <1>1, WorkingSteps
  <2>2. accepted' = accepted /\ \A j \in Jobs : released[j] => released'[j]
    <3>1. CASE TryScheduleStep(t) \/ GetJobStep(t)
      BY <3>1 DEF TryScheduleStep, GetJobStep, TryScheduleExchange, TryScheduleCount, Dispatch, TryScheduleNotify,
         PopPrivate, PopPublic, PopOwn, Steal, StealFailed, Claim, clientVars, jobVars
    <3>2. CASE ProcessStep(t)
      BY <1>0, <3>2 DEF ProcessStep, KernelDone, SignalChild, ChildReady, BarrierDone, ReleaseJob, Unpend, clientVars, jobVars
    <3>. QED
      BY <1>1, <3>1, <3>2 DEF ThreadStep
  <2>. QED
    BY <1>f, <2>1, <2>2 DEF Working, Shutting, Over
<1>2. ASSUME NEW t \in Threads, NEW j \in Jobs, NEW b \in Barriers \union {NoBarrier}, Schedule(t, j, b) PROVE ShutOK'
  <2>1. Working(t)
    BY <1>2, WorkingSteps
  <2>2. pc[Main] \notin Shutting
    BY <1>2, NoScheduleAfter DEF ShutOK
  <2>3. released' = released
    BY <1>2 DEF Schedule
  <2>. QED
    BY <1>f, <2>1, <2>2, <2>3 DEF Working, Shutting, Over
<1>3. ASSUME NEW t \in Workers, RunStep(t) \/ LockWakeMutex(t) \/ SpuriousWake(t) PROVE ShutOK'
  <2>1. UNCHANGED <<joining, accepted, released>>
    BY <1>3 DEF RunStep, RunTop, CheckWake, FallAsleep, LockWakeMutex, SpuriousWake, clientVars, jobVars
  <2>2. pc[t] \notin Over /\ \A u \in Threads : u # t => pc'[u] = pc[u]
    BY <1>0, <1>3 DEF RunStep, RunTop, CheckWake, FallAsleep, LockWakeMutex, SpuriousWake, Goto, Over
  <2>. QED
    BY <1>f, <1>m, <1>3, <2>1, <2>2
<1>4. ASSUME (\E j \in Jobs : Preempt(j)) \/ BeginWait \/ PreemptStep PROVE ShutOK'
  <2>1. UNCHANGED <<joining, released>> /\ \A u \in Threads : u # Main => pc'[u] = pc[u]
    BY <1>0, <1>4 DEF Preempt, BeginWait, PreemptStep, PreemptBarrierDone, PreemptForceState, Goto, clientVars, jobVars
  <2>2. pc[Main] \notin Shutting /\ pc'[Main] \notin Shutting
    BY <1>0, <1>4 DEF Preempt, BeginWait, PreemptStep, PreemptBarrierDone, PreemptForceState, Goto, Shutting
  <2>. QED
    BY <1>f, <2>1, <2>2 DEF Shutting
<1>5. ASSUME WaitMore \/ IdleNotify PROVE ShutOK'
  <2>1. UNCHANGED <<joining, accepted, released>> /\ pc[Main] \notin Shutting /\ pc'[Main] \notin Shutting
        /\ \A u \in Threads : u # Main => pc'[u] = pc[u] \/ pc[u] \notin Over
    <3>1. CASE WaitMore
      BY <1>0, <3>1 DEF WaitMore, Goto, clientVars, jobVars, Shutting
    <3>2. CASE IdleNotify
      BY <1>0, <3>2 DEF IdleNotify, NotifyAll, clientVars, jobVars, Shutting, Over
    <3>. QED
      BY <1>5, <3>1, <3>2
  <2>. QED
    BY <1>f, <2>1 DEF Shutting
<1>6. ASSUME WaitOver PROVE ShutOK'
  <2>1. /\ UNCHANGED <<joining, accepted, released>> /\ \A u \in Threads : u # Main => pc'[u] = pc[u]
        /\ pc[Main] = "wait" /\ pc'[Main] = IF goal.kind = "shutdown" THEN "term_flag" ELSE "client"
    BY <1>0, <1>6 DEF WaitOver, Goto, jobVars
  <2>2. joining = 1
    BY <2>1 DEF ShutOK, Shutting
  <2>3. CASE goal.kind # "shutdown"
    BY <2>1, <2>2, <2>3 DEF ShutOK, Shutting
  <2>4. CASE goal.kind = "shutdown"
    <3>1. pending = 0
      BY <1>6, <2>4 DEF WaitOver, StillWaiting, TypeOK
    <3>2. \A j \in accepted : released[j]
      BY <2>1, <3>1, PendingZero
    <3>3. \A w \in Workers : ~(w < joining)
      BY <2>2 DEF Workers
    <3>. QED
      BY <2>1, <2>2, <2>4, <3>2, <3>3 DEF ShutOK, Shutting
  <2>. QED
    BY <2>3, <2>4
<1>7. ASSUME SetTerminate \/ TryLockNotify \/ JoinTimeout PROVE ShutOK'
  <2>1. UNCHANGED <<joining, accepted, released>>
    BY <1>7 DEF SetTerminate, TryLockNotify, JoinTimeout, clientVars, jobVars
  <2>2. /\ pc[Main] \in Shutting /\ pc'[Main] \in Shutting \ {"down"}
        /\ \A u \in Threads : u # Main => pc'[u] = pc[u] \/ pc[u] \notin Over
    <3>1. CASE SetTerminate \/ JoinTimeout
      BY <1>0, <3>1 DEF SetTerminate, JoinTimeout, Goto, Shutting
    <3>2. CASE TryLockNotify
      BY <1>0, <3>2 DEF TryLockNotify, Goto, NotifyAll, Shutting, Over
    <3>. QED
      BY <1>7, <3>1, <3>2
  <2>. QED
    BY <1>f, <2>1, <2>2
<1>8. ASSUME NEW s, NEW l \in Over, Joined(s, l), pc[Main] \in Shutting PROVE ShutOK'
  <2>1. /\ UNCHANGED <<accepted, released>>
        /\ \A u \in Threads : u # Main /\ u # joining => pc'[u] = pc[u]
        /\ pc'[joining] = l
        /\ pc'[Main] = IF joining = ThreadCount - 1 THEN "down" ELSE "term_flag"
        /\ joining' = IF joining = ThreadCount - 1 THEN joining ELSE joining + 1
    BY <1>0, <1>m, <1>8 DEF Joined, jobVars
  <2>2. ASSUME NEW w \in Workers, w < joining' \/ pc'[Main] = "down" PROVE pc'[w] \in Over
    <3>1. w = joining \/ w < joining
      BY <1>0, <2>1, <2>2, ThreadAssumption DEF Workers
    <3>2. CASE w = joining
      BY <1>8, <2>1, <3>2
    <3>3. CASE w < joining /\ w # joining
      BY <1>m, <1>8, <2>1, <3>3 DEF ShutOK
    <3>. QED
      BY <3>1, <3>2, <3>3
  <2>. QED
    BY <1>8, <2>1, <2>2 DEF ShutOK, Shutting
<1>9. ASSUME Join \/ CancelJoin PROVE ShutOK'
  BY <1>8, <1>9 DEF Join, CancelJoin, Over, Shutting
<1>10. CASE UNCHANGED vars
  BY <1>f, <1>10 DEF vars, clientVars, jobVars
<1>. QED
  BY <1>1, <1>2, <1>3, <1>4, <1>5, <1>6, <1>7, <1>9, <1>10 DEF Next, MainStep, WaitStep, ShutdownStep, Down

-----------------------------------------------------------------------------
(* Results about the counters, for every careful client.                   *)

Full == Inv /\ Books /\ MainOK /\ MutexOK /\ ShutOK

(* The invariant holds in every state of every behaviour.                  *)
THEOREM FullInvariance == ASSUME CarefulClient PROVE Spec => []Full
<1>1. Init => Full
  <2>. SUFFICES ASSUME Init PROVE Full
    OBVIOUS
  <2>1. Inv /\ Books
    BY InvInit, BooksInit
  <2>2. MainOK
    BY ThreadFacts DEF Init, MainOK, At, TrySchedulePC, OnlyMain, Shutting
  <2>3. MutexOK
    BY ThreadAssumption DEF Init, MutexOK
  <2>4. ShutOK
    BY ThreadFacts DEF Init, ShutOK, Shutting
  <2>. QED
    BY <2>1, <2>2, <2>3, <2>4 DEF Full
<1>2. Full /\ [Next]_vars => Full'
  <2>. SUFFICES ASSUME Full, [Next]_vars PROVE Full'
    OBVIOUS
  <2>1. Inv' /\ Books'
    BY InvStep, BooksStep DEF Full
  <2>2. MainOK' /\ MutexOK' /\ ShutOK'
    BY MainStepOK, MutexStep, ShutStep DEF Full
  <2>. QED
    BY <2>1, <2>2 DEF Full
<1>. QED
  BY <1>1, <1>2, PTL DEF Spec

(* pending counts what is handed over and not finished: a Pending job is   *)
(* in a queue or in some thread's hands, a wait() that sees zero has       *)
(* nothing left to wait for, and zero is reached when all is finished.     *)
THEOREM PendingSoundHolds == ASSUME CarefulClient PROVE Spec => []PendingSound
<1>1. Full => PendingSound
  <2>. SUFFICES ASSUME Full PROVE PendingSound
    OBVIOUS
  <2>1. PendingIsHeld /\ WaitSound
    BY PendingZero DEF Full, Books, WaitSound
  <2>2. PendingDrains
    <3>. SUFFICES ASSUME \A j \in accepted : released[j],
                         \A t \in Threads : cur[t] = NoJob /\ call[t] = NoCall
                  PROVE  pending = 0
      BY DEF PendingDrains
    <3>1. accepted \subseteq Jobs
      BY DEF Full, Inv, TypeOK
    <3>2. \A t \in Threads : pc[t] # "unpend"
      BY DEF Full, Inv, LocalOK, At, TrySchedulePC, WorkPC, FinishPC
    <3>3. Owed = {}
      BY <3>2 DEF Owed, Counted, Unpending
    <3>. QED
      BY <3>3, FS_EmptySet DEF Full, Books, PendingOK
  <2>. QED
    BY <2>1, <2>2 DEF PendingSound
<1>. QED
  BY <1>1, FullInvariance, PTL

(* A finished barrier has no kernel left.                                  *)
LEMMA BarrierFacts == Full => BarrierSound
<1>. USE ThreadFacts DEF Full, Inv, Books
<1>. SUFFICES ASSUME Full, NEW b \in Barriers, barrierPending[b] = 0, NEW j \in accepted, barrierOf[j] = b
              PROVE  jstate[j] = "Processed" \/ (pc[Main] = "preempt_force" /\ cur[Main] = j)
  BY DEF BarrierSound
<1>0. accepted \subseteq Jobs
  BY DEF TypeOK
<1>1. Expected(b) = {}
  <2>1. IsFiniteSet(Expected(b))
    BY <1>0, CountType DEF Expected
  <2>. QED
    BY <2>1, FS_EmptySet DEF BarrierOK
<1>2. PastBarrier(j)
  BY <1>1 DEF Expected
<1>3. CASE released[j]
  BY <1>0, <1>3 DEF ReleasedOK
<1>4. ASSUME NEW t \in Threads, cur[t] = j, pc[t] \in {"release", "unpend"} PROVE jstate[j] = "Processed"
  BY <1>4 DEF OwnerOK, At, TrySchedulePC, FinishPC
<1>5. ASSUME NEW t \in Threads, pc[t] = "preempt_force" PROVE t = Main
  BY <1>5 DEF MainOK, OnlyMain, At, TrySchedulePC
<1>. QED
  BY <1>2, <1>3, <1>4, <1>5 DEF PastBarrier

(* No counter wraps or counts more than was handed over, a finished        *)
(* barrier has no kernel left, and shutdown() leaves no thread, no lock    *)
(* and no job behind.                                                      *)
THEOREM CountersSoundHolds == ASSUME CarefulClient PROVE Spec => []CountersSound
<1>1. Full => CountersSound
  <2>. SUFFICES ASSUME Full PROVE CountersSound
    OBVIOUS
  <2>. USE ThreadFacts DEF Full, Inv, Books
  <2>0. accepted \subseteq Jobs /\ mutex \in Threads \union {NoThread}
    BY DEF TypeOK
  <2>1. CountersBounded
    <3>1. Owed \subseteq accepted /\ IsFiniteSet(accepted)
      BY <2>0, CountType DEF Owed, Counted
    <3>2. Cardinality(Owed) <= Cardinality(accepted)
      BY <3>1, FS_Subset
    <3>3. ASSUME NEW b \in Barriers PROVE barrierPending[b] <= Cardinality({j \in accepted : barrierOf[j] = b})
      <4>1. Expected(b) \subseteq {j \in accepted : barrierOf[j] = b} /\ IsFiniteSet({j \in accepted : barrierOf[j] = b})
        BY <2>0, CountType DEF Expected
      <4>2. Cardinality(Expected(b)) <= Cardinality({j \in accepted : barrierOf[j] = b})
        BY <4>1, FS_Subset
      <4>. QED
        BY <4>2 DEF BarrierOK
    <3>. QED
      BY <3>2, <3>3 DEF CountersBounded, PendingOK
  <2>2. BarrierSound
    BY BarrierFacts
  <2>3. DownQuiescent
    <3>. SUFFICES ASSUME pc[Main] = "down"
                  PROVE  /\ \A w \in Workers : pc[w] \in {"stopped", "cancelled"}
                         /\ mutex = NoThread
                         /\ \A j \in accepted : released[j]
      BY DEF DownQuiescent
    <3>1. /\ \A j \in accepted : released[j]
          /\ \A w \in Workers : pc[w] \in {"stopped", "cancelled"}
      BY DEF ShutOK, Shutting, Over
    <3>2. \A t \in Threads : t = Main \/ t \in Workers
      BY ThreadAssumption DEF Threads, Workers, Main
    <3>. QED
      BY <2>0, <3>1, <3>2 DEF MutexOK
  <2>. QED
    BY <2>1, <2>2, <2>3 DEF CountersSound
<1>. QED
  BY <1>1, FullInvariance, PTL

-----------------------------------------------------------------------------
(* JobSystem implements TaskGraph.                                         *)

PhaseMap  == [j \in Jobs |-> PhaseOf(j)]
ClientMap == IF pc[Main] \in Shutting THEN [kind |-> "closed", on |-> NoJob] ELSE goal

(* Steps the client does not see: at most they make a job Pending.         *)
LEMMA Hidden ==
    ASSUME AcceptedOK, UNCHANGED <<children, accepted, barrierOf, goal>>,
           \A j \in Jobs : jstate'[j] = jstate[j] \/ (jstate[j] = "Idle" /\ jstate'[j] = "Pending"),
           pc'[Main] \in Shutting <=> pc[Main] \in Shutting
    PROVE  UNCHANGED Promise!vars
<1>1. \A j \in Jobs : PhaseOf(j)' = PhaseOf(j)
  BY DEF PhaseOf
<1>2. ClientMap' = ClientMap
  BY DEF ClientMap
<1>. QED
  BY <1>1, <1>2 DEF Promise!vars, ClientMap

(* What the phases say.                                                    *)
LEMMA PhaseFacts ==
    ASSUME TypeOK, NEW j \in Jobs
    PROVE  /\ PhaseOf(j) = "done" <=> jstate[j] = "Processed"
           /\ PhaseOf(j) = "running" <=> jstate[j] \in {"Executing", "Preempted"}
           /\ PhaseOf(j) = "accepted" <=> jstate[j] \in {"Idle", "Pending"} /\ j \in accepted
           /\ PhaseOf(j) = "new" <=> jstate[j] \in {"Idle", "Pending"} /\ j \notin accepted
<1>1. jstate[j] \in {"Idle", "Pending", "Preempted", "Executing", "Processed"}
  BY DEF TypeOK, JobState
<1>. QED
  BY <1>1 DEF PhaseOf

(* A kernel starts.                                                        *)
LEMMA StartStep ==
    ASSUME Inv, Inv', NEW j \in accepted, jstate[j] \in {"Idle", "Pending"},
           jstate' = [jstate EXCEPT ![j] = "Executing"] \/ jstate' = [jstate EXCEPT ![j] = "Preempted"],
           UNCHANGED <<children, accepted, barrierOf, goal>>,
           pc'[Main] \in Shutting <=> pc[Main] \in Shutting
    PROVE  Promise!Start(j)
<1>. USE DEF Inv
<1>0. j \in Jobs /\ jstate \in [Jobs -> JobState]
  BY DEF TypeOK
<1>1. PhaseOf(j) = "accepted" /\ PhaseOf(j)' = "running"
  <2>1. jstate'[j] \in {"Executing", "Preempted"}
    BY <1>0
  <2>. QED
    BY <1>0, <2>1, PhaseFacts DEF PhaseOf
<1>2. \A k \in Jobs : k # j => PhaseOf(k)' = PhaseOf(k)
  BY <1>0 DEF PhaseOf
<1>3. \A p \in InNodes(j) : p \in Jobs /\ PhaseOf(p) = "done"
  <2>1. jstate'[j] # "Idle" /\ \A p \in InNodes(j) : jstate'[p] = "Processed"
    BY <1>0 DEF DependencyOrder, InNodes
  <2>2. \A p \in InNodes(j) : p \in Jobs /\ jstate[p] = "Processed"
    BY <1>0, <2>1 DEF InNodes
  <2>. QED
    BY <2>2 DEF PhaseOf
<1>4. PhaseMap' = [PhaseMap EXCEPT ![j] = "running"]
  BY <1>0, <1>1, <1>2 DEF PhaseMap
<1>5. ClientMap' = ClientMap
  BY DEF ClientMap
<1>. QED
  BY <1>0, <1>1, <1>3, <1>4, <1>5 DEF Promise!Start, Promise!Parents, InNodes, PhaseMap, ClientMap

(* A kernel ends.                                                          *)
LEMMA FinishStep ==
    ASSUME TypeOK, NEW j \in Jobs, jstate[j] \in {"Executing", "Preempted"},
           jstate' = [jstate EXCEPT ![j] = "Processed"],
           UNCHANGED <<children, accepted, barrierOf, goal>>,
           pc'[Main] \in Shutting <=> pc[Main] \in Shutting
    PROVE  Promise!Finish(j)
<1>0. jstate \in [Jobs -> JobState]
  BY DEF TypeOK
<1>1. PhaseOf(j) = "running" /\ PhaseOf(j)' = "done"
  BY <1>0 DEF PhaseOf
<1>2. \A k \in Jobs : k # j => PhaseOf(k)' = PhaseOf(k)
  BY <1>0 DEF PhaseOf
<1>3. PhaseMap' = [PhaseMap EXCEPT ![j] = "done"]
  BY <1>1, <1>2 DEF PhaseMap
<1>4. ClientMap' = ClientMap
  BY DEF ClientMap
<1>. QED
  BY <1>1, <1>3, <1>4 DEF Promise!Finish, PhaseMap, ClientMap

(* A graph is handed over.                                                 *)
LEMMA AcceptStep ==
    ASSUME Full, CarefulClient, NEW t \in Threads, NEW j \in Jobs, NEW b \in Barriers \union {NoBarrier}, Schedule(t, j, b)
    PROVE  Promise!Accept(j, b)
<1>. USE ThreadFacts DEF Full, Inv
<1>1. /\ j \notin accepted /\ InNodes(j) = {} /\ accepted' = accepted \union Marked(j)
      /\ barrierOf' = [x \in Jobs |-> IF x \in Marked(j) THEN b ELSE barrierOf[x]]
      /\ UNCHANGED <<children, jstate, goal>>
  BY DEF Schedule
<1>2. Marked(j) \subseteq Jobs /\ j \in Marked(j) /\ Marked(j) \cap accepted = {} /\ \A x \in Marked(j) : jstate[x] = "Idle"
  BY <1>1, FreshGraph
<1>3. pc[Main] \notin Shutting /\ pc'[Main] \notin Shutting
  <2>1. Working(t)
    BY WorkingSteps
  <2>2. pc[Main] \notin Shutting
    BY NoScheduleAfter DEF ShutOK
  <2>. QED
    BY <2>1, <2>2 DEF Working, Shutting
<1>4. ClientMap' = ClientMap /\ ClientMap # [kind |-> "closed", on |-> NoJob]
  <2>1. goal.kind # "closed"
    BY DEF MainOK, Goals, NoGoal
  <2>2. ClientMap = goal /\ ClientMap' = goal
    BY <1>1, <1>3 DEF ClientMap
  <2>. QED
    BY <2>1, <2>2
<1>5. PhaseMap' = [x \in Jobs |-> IF x \in Marked(j) /\ PhaseMap[x] = "new" THEN "accepted" ELSE PhaseMap[x]]
  <2>1. ASSUME NEW x \in Jobs PROVE PhaseOf(x)' = IF x \in Marked(j) /\ PhaseOf(x) = "new" THEN "accepted" ELSE PhaseOf(x)
    <3>1. CASE x \in Marked(j)
      <4>1. PhaseOf(x) = "new" /\ PhaseOf(x)' = "accepted"
        BY <1>1, <1>2, <3>1 DEF PhaseOf
      <4>. QED
        BY <3>1, <4>1
    <3>2. CASE x \notin Marked(j)
      BY <1>1, <3>2 DEF PhaseOf
    <3>. QED
      BY <3>1, <3>2
  <2>. QED
    BY <2>1 DEF PhaseMap
<1>6. PhaseMap[j] = "new"
  BY <1>1, <1>2 DEF PhaseMap, PhaseOf
<1>7. Promise!Below(j) = Marked(j) /\ Promise!Parents(j) = InNodes(j)
  BY DEF Promise!Below, Promise!Parents, Marked, Reach, InNodes
<1>. QED
  BY <1>1, <1>4, <1>5, <1>6, <1>7 DEF Promise!Accept, Promise!Closed, PhaseMap, ClientMap

(* A wait begins.                                                          *)
LEMMA WaitBegins ==
    ASSUME Full, BeginWait
    PROVE  Promise!Wait
<1>. USE ThreadFacts DEF Full, Inv
<1>0. pc \in [Threads -> PC] /\ accepted \subseteq Jobs
  BY DEF TypeOK
<1>1. /\ UNCHANGED <<children, jstate, accepted, barrierOf>> /\ goal' \in Goals
      /\ pc[Main] = "client" /\ pc'[Main] = "wait"
  BY <1>0 DEF BeginWait, Goto, jobVars
<1>2. goal = NoGoal
  BY <1>1 DEF MainOK, At, TrySchedulePC
<1>3. ClientMap = [kind |-> "none", on |-> NoJob] /\ ClientMap' = goal'
  BY <1>1, <1>2 DEF ClientMap, NoGoal, Shutting
<1>4. PhaseMap' = PhaseMap
  BY <1>1 DEF PhaseMap, PhaseOf
<1>5. \/ \E k \in {"all", "shutdown"} : goal' = [kind |-> k, on |-> NoJob]
      \/ \E g \in Barriers : goal' = [kind |-> "barrier", on |-> g]
      \/ \E j \in Jobs : goal' = [kind |-> "task", on |-> j]
  BY <1>0, <1>1 DEF Goals
<1>. QED
  BY <1>1, <1>3, <1>4, <1>5 DEF Promise!Wait, Promise!Idle, PhaseMap, ClientMap

(* A wait returns: everything it covers is done.                           *)
LEMMA WaitReturns ==
    ASSUME Full, WaitOver
    PROVE  Promise!Return
<1>. USE ThreadFacts DEF Full, Inv
<1>0. pc \in [Threads -> PC] /\ accepted \subseteq Jobs
  BY DEF TypeOK
<1>1. /\ UNCHANGED <<children, jstate, accepted, barrierOf>> /\ goal' = NoGoal
      /\ pc[Main] = "wait" /\ pc'[Main] = IF goal.kind = "shutdown" THEN "term_flag" ELSE "client"
      /\ ~StillWaiting
  BY <1>0 DEF WaitOver, Goto, jobVars
<1>2. goal \in Goals
  BY <1>1 DEF MainOK
<1>3. ClientMap = goal /\ ClientMap' = IF goal.kind = "shutdown" THEN [kind |-> "closed", on |-> NoJob] ELSE [kind |-> "none", on |-> NoJob]
  BY <1>1 DEF ClientMap, NoGoal, Shutting
<1>4. goal.kind \in {"all", "shutdown", "barrier", "task"}
  BY <1>2 DEF Goals
<1>5. PhaseMap' = PhaseMap
  BY <1>1 DEF PhaseMap, PhaseOf
<1>6. \A j \in Jobs : PhaseMap[j] = PhaseOf(j)
  BY DEF PhaseMap
<1>7. \A j \in Jobs : PhaseOf(j) # "new" => j \in accepted
  BY PhaseFacts DEF Books, AcceptedOK
<1>8. CASE goal.kind \in {"all", "shutdown"}
  <2>1. pending = 0
    BY <1>1, <1>8 DEF StillWaiting, TypeOK
  <2>2. \A j \in accepted : jstate[j] = "Processed"
    BY <1>0, <1>1, <2>1, PendingZero DEF Books, ReleasedOK
  <2>3. \A j \in Jobs : PhaseMap[j] # "new" => PhaseMap[j] = "done"
    BY <1>6, <1>7, <2>2, PhaseFacts
  <2>. QED
    BY <1>1, <1>3, <1>5, <1>8, <2>3 DEF Promise!Return, Promise!Covered, Promise!Idle, Promise!Closed, PhaseMap, ClientMap
<1>9. CASE goal.kind = "barrier"
  <2>1. goal.on \in Barriers /\ barrierPending[goal.on] = 0
    BY <1>1, <1>2, <1>9 DEF StillWaiting, Goals
  <2>2. \A j \in accepted : barrierOf[j] = goal.on => jstate[j] = "Processed"
    BY <1>1, <2>1, BarrierFacts DEF BarrierSound
  <2>3. \A j \in Jobs : PhaseMap[j] # "new" /\ barrierOf[j] = goal.on => PhaseMap[j] = "done"
    BY <1>6, <1>7, <2>2, PhaseFacts
  <2>. QED
    BY <1>1, <1>3, <1>5, <1>9, <2>3 DEF Promise!Return, Promise!Covered, Promise!Idle, Promise!Closed, PhaseMap, ClientMap
<1>10. CASE goal.kind = "task"
  <2>1. goal.on \in Jobs /\ jstate[goal.on] = "Processed"
    BY <1>0, <1>1, <1>2, <1>10 DEF StillWaiting, Goals
  <2>2. PhaseMap[goal.on] = "done"
    BY <1>6, <2>1, PhaseFacts
  <2>. QED
    BY <1>1, <1>3, <1>5, <1>10, <2>2 DEF Promise!Return, Promise!Covered, Promise!Idle, Promise!Closed, PhaseMap, ClientMap
<1>. QED
  BY <1>4, <1>8, <1>9, <1>10

(* Every step of the job system is a step of TaskGraph or hidden from it.  *)
LEMMA Simulation ==
    ASSUME Full, Full', CarefulClient, [Next]_vars
    PROVE  [Promise!Next]_(Promise!vars)
<1>. USE ThreadFacts DEF Full, Inv
<1>0. /\ pc \in [Threads -> PC] /\ jstate \in [Jobs -> JobState] /\ accepted \subseteq Jobs /\ joining \in Workers
      /\ AcceptedOK
  BY DEF TypeOK, Books
<1>m. \A w \in Workers : w # Main
  BY DEF Workers, Main
<1>w. ASSUME NEW t \in Threads, ThreadStep(t) PROVE pc'[Main] \in Shutting <=> pc[Main] \in Shutting
  <2>1. Working(t)
    BY <1>w, WorkingSteps
  <2>. QED
    BY <2>1 DEF Working, Shutting
<1>u. ASSUME NEW t \in Threads, ThreadStep(t) PROVE UNCHANGED <<children, accepted, barrierOf, goal>>
  BY <1>u DEF ThreadStep, TryScheduleStep, GetJobStep, ProcessStep, TryScheduleExchange, TryScheduleCount,
     Dispatch, TryScheduleNotify, PopPrivate, PopPublic, PopOwn, Steal, StealFailed, Claim, KernelDone,
     SignalChild, ChildReady, BarrierDone, ReleaseJob, Unpend, clientVars, jobVars
<1>1. ASSUME NEW t \in Threads, TryScheduleExchange(t) PROVE UNCHANGED Promise!vars
  <2>1. \A j \in Jobs : jstate'[j] = jstate[j] \/ (jstate[j] = "Idle" /\ jstate'[j] = "Pending")
    BY <1>0, <1>1 DEF TryScheduleExchange
  <2>2. ThreadStep(t)
    BY <1>1 DEF ThreadStep, TryScheduleStep
  <2>. QED
    BY <1>0, <1>u, <1>w, <2>1, <2>2, Hidden
<1>2. ASSUME NEW t \in Threads, ThreadStep(t), jstate' = jstate PROVE UNCHANGED Promise!vars
  BY <1>0, <1>u, <1>w, <1>2, Hidden
<1>3. ASSUME NEW t \in Threads, Claim(t) PROVE [Promise!Next]_(Promise!vars)
  <2>0. ThreadStep(t)
    BY <1>3 DEF ThreadStep, GetJobStep
  <2>1. cur[t] \in accepted /\ cur[t] \in Jobs
    BY <1>3, CurFacts DEF Claim, At, TrySchedulePC, WorkPC
  <2>2. CASE jstate[cur[t]] = "Pending"
    <3>1. Promise!Start(cur[t])
      BY <1>3, <1>u, <1>w, <2>0, <2>1, <2>2, StartStep DEF Claim
    <3>. QED
      BY <2>1, <3>1 DEF Promise!Next
  <2>3. CASE jstate[cur[t]] # "Pending"
    BY <1>2, <1>3, <2>0, <2>3 DEF Claim
  <2>. QED
    BY <2>2, <2>3
<1>4. ASSUME NEW t \in Threads, KernelDone(t) PROVE [Promise!Next]_(Promise!vars)
  <2>0. ThreadStep(t)
    BY <1>4 DEF ThreadStep, ProcessStep
  <2>1. cur[t] \in Jobs /\ jstate[cur[t]] = "Executing"
    BY <1>4, CurFacts DEF KernelDone, At, TrySchedulePC, WorkPC, OwnerOK
  <2>2. Promise!Finish(cur[t])
    BY <1>4, <1>u, <1>w, <2>0, <2>1, FinishStep DEF KernelDone
  <2>. QED
    BY <2>1, <2>2 DEF Promise!Next
<1>5. ASSUME NEW t \in Threads, ThreadStep(t) PROVE [Promise!Next]_(Promise!vars)
  <2>1. CASE TryScheduleCount(t) \/ Dispatch(t) \/ TryScheduleNotify(t)
    BY <1>2, <1>5, <2>1 DEF TryScheduleCount, Dispatch, TryScheduleNotify, jobVars
  <2>2. CASE PopPrivate(t) \/ PopPublic(t) \/ Steal(t) \/ StealFailed(t)
    BY <1>2, <1>5, <2>2 DEF PopPrivate, PopPublic, PopOwn, Steal, StealFailed, jobVars
  <2>3. CASE SignalChild(t) \/ ChildReady(t) \/ BarrierDone(t) \/ ReleaseJob(t) \/ Unpend(t)
    BY <1>2, <1>5, <2>3 DEF SignalChild, ChildReady, BarrierDone, ReleaseJob, Unpend, jobVars
  <2>. QED
    BY <1>1, <1>3, <1>4, <1>5, <2>1, <2>2, <2>3 DEF ThreadStep, TryScheduleStep, GetJobStep, ProcessStep
<1>6. ASSUME NEW t \in Threads, NEW j \in Jobs, NEW b \in Barriers \union {NoBarrier}, Schedule(t, j, b)
      PROVE  [Promise!Next]_(Promise!vars)
  <2>1. Promise!Accept(j, b)
    BY <1>6, AcceptStep
  <2>. QED
    BY <2>1 DEF Promise!Next
<1>7. ASSUME NEW t \in Workers, RunStep(t) \/ LockWakeMutex(t) \/ SpuriousWake(t) PROVE UNCHANGED Promise!vars
  <2>1. UNCHANGED <<children, jstate, accepted, barrierOf, goal>>
    BY <1>7 DEF RunStep, RunTop, CheckWake, FallAsleep, LockWakeMutex, SpuriousWake, clientVars, jobVars
  <2>2. pc'[Main] = pc[Main]
    BY <1>0, <1>m, <1>7 DEF RunStep, RunTop, CheckWake, FallAsleep, LockWakeMutex, SpuriousWake, Goto
  <2>. QED
    BY <1>0, <2>1, <2>2, Hidden
<1>8. ASSUME NEW j \in Jobs, Preempt(j) PROVE [Promise!Next]_(Promise!vars)
  <2>1. /\ j \in accepted /\ jstate[j] \in {"Idle", "Pending"} /\ accepted' = accepted
        /\ jstate' = [jstate EXCEPT ![j] = "Preempted"] /\ UNCHANGED <<children, barrierOf, goal>>
    BY <1>8 DEF Preempt, Preemptable, CarefulClient
  <2>2. pc[Main] \notin Shutting /\ pc'[Main] \notin Shutting
    BY <1>0, <1>8 DEF Preempt, Goto, Shutting
  <2>3. Promise!Start(j)
    BY <2>1, <2>2, StartStep
  <2>. QED
    BY <2>3 DEF Promise!Next
<1>9. ASSUME PreemptBarrierDone PROVE UNCHANGED Promise!vars
  <2>1. UNCHANGED <<children, jstate, accepted, barrierOf, goal>>
    BY <1>9 DEF PreemptBarrierDone, clientVars, jobVars
  <2>2. pc[Main] \notin Shutting /\ pc'[Main] \notin Shutting
    BY <1>0, <1>9 DEF PreemptBarrierDone, Goto, Shutting
  <2>. QED
    BY <1>0, <2>1, <2>2, Hidden
<1>10. ASSUME PreemptForceState PROVE [Promise!Next]_(Promise!vars)
  <2>1. cur[Main] \in Jobs /\ jstate[cur[Main]] = "Preempted"
    BY <1>10, CurFacts DEF PreemptForceState, At, TrySchedulePC, WorkPC, OwnerOK
  <2>2. pc[Main] \notin Shutting /\ pc'[Main] \notin Shutting
    BY <1>0, <1>10 DEF PreemptForceState, Goto, Shutting
  <2>3. UNCHANGED <<children, accepted, barrierOf, goal>>
    BY <1>10 DEF PreemptForceState, clientVars
  <2>4. Promise!Finish(cur[Main])
    BY <1>10, <2>1, <2>2, <2>3, FinishStep DEF PreemptForceState
  <2>. QED
    BY <2>1, <2>4 DEF Promise!Next
<1>11. ASSUME BeginWait \/ WaitOver PROVE [Promise!Next]_(Promise!vars)
  BY <1>11, WaitBegins, WaitReturns DEF Promise!Next
<1>12. ASSUME WaitMore \/ IdleNotify PROVE UNCHANGED Promise!vars
  <2>1. UNCHANGED <<children, jstate, accepted, barrierOf, goal>>
    BY <1>12 DEF WaitMore, IdleNotify, clientVars, jobVars
  <2>2. pc[Main] \notin Shutting /\ pc'[Main] \notin Shutting
    BY <1>0, <1>12 DEF WaitMore, IdleNotify, Goto, NotifyAll, Shutting
  <2>. QED
    BY <1>0, <2>1, <2>2, Hidden
<1>13. ASSUME ShutdownStep PROVE UNCHANGED Promise!vars
  <2>1. UNCHANGED <<children, jstate, accepted, barrierOf, goal>>
    BY <1>13 DEF ShutdownStep, SetTerminate, TryLockNotify, Join, Joined, JoinTimeout, CancelJoin, clientVars, jobVars
  <2>2. pc[Main] \in Shutting /\ pc'[Main] \in Shutting
    <3>1. CASE SetTerminate \/ TryLockNotify \/ JoinTimeout
      BY <1>0, <3>1 DEF SetTerminate, TryLockNotify, JoinTimeout, Goto, NotifyAll, Shutting
    <3>2. CASE Join \/ CancelJoin
      BY <1>0, <1>m, <3>2 DEF Join, CancelJoin, Joined, Shutting
    <3>. QED
      BY <1>13, <3>1, <3>2 DEF ShutdownStep
  <2>. QED
    BY <1>0, <2>1, <2>2, Hidden
<1>14. CASE UNCHANGED vars
  BY <1>0, <1>14, Hidden DEF vars, jobVars, clientVars
<1>. QED
  BY <1>5, <1>6, <1>7, <1>8, <1>9, <1>10, <1>11, <1>12, <1>13, <1>14
     DEF Next, MainStep, PreemptStep, WaitStep, Down

(* The job system keeps the promises of TaskGraph: a task runs once, after *)
(* its parents, and a wait returns only when what it covers is done.       *)
THEOREM ImplementsTaskGraphHolds == ASSUME CarefulClient PROVE Spec => ImplementsTaskGraph
<1>1. Init => Promise!Init
  <2>. SUFFICES ASSUME Init PROVE Promise!Init
    OBVIOUS
  <2>1. \A j \in Jobs : PhaseOf(j) = "new"
    BY DEF Init, PhaseOf
  <2>2. ClientMap = [kind |-> "none", on |-> NoJob]
    BY ThreadFacts DEF Init, ClientMap, NoGoal, Shutting
  <2>. QED
    BY <2>1, <2>2 DEF Init, Promise!Init, Promise!Idle, ClientMap
<1>2. Full /\ Full' /\ [Next]_vars => [Promise!Next]_(Promise!vars)
  BY Simulation
<1>. QED
  BY <1>1, <1>2, FullInvariance, PTL DEF Spec, ImplementsTaskGraph, Promise!Spec
=============================================================================
