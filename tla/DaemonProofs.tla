----------------------------- MODULE DaemonProofs -----------------------------
(***************************************************************************)
(* Proofs about DaemonScheduler, for any number of daemons and workers and *)
(* any ttl, when no daemon is still running as update() comes to it, and   *)
(* about Monitor, for any number of threads, jobs and reports.             *)
(***************************************************************************)
EXTENDS MCDaemonScheduler, Sequences, FiniteSetTheorems, NaturalsInduction,
        WellFoundedInduction, TLAPS

USE DaemonAssumption

LEMMA InitInv == Init => Inv
<1>. SUFFICES ASSUME Init PROVE Inv
  OBVIOUS
<1>1. TypeOK /\ Updating
  BY DEF Init, TypeOK, Updating, JobState
<1>2. \A d \in Daemons : OneFlight(d) /\ Fate(d) /\ RunsCounted(d)
  BY DEF Init, OneFlight, Fate, RunsCounted, InFlight, Gone, Spent, RunDue
<1>3. {d \in Daemons : queued[d] > 0} = {} /\ {w \in Workers : wpc[w] # "idle"} = {}
  BY DEF Init
<1>4. PendingCounted
  <2>1. Cardinality({}) = 0
    BY FS_EmptySet
  <2>. QED
    BY <1>3, <2>1 DEF Init, PendingCounted
<1>. QED
  BY <1>1, <1>2, <1>4 DEF Inv, Init

(* The client's calls.                                                     *)
LEMMA CreateInv ==
    ASSUME Inv, NEW d \in Daemons, Create(d)
    PROVE  Inv'
<1>. USE DEF Create, jobVars, updateVars, workVars
<1>1. TypeOK' /\ Updating'
  BY DEF Inv, TypeOK, Updating, InFlight
<1>2. \A e \in Daemons : OneFlight(e)' /\ RunsCounted(e)'
  BY DEF Inv, OneFlight, RunsCounted, RunDue
<1>3. \A e \in Daemons : Fate(e)'
  BY DEF Inv, Fate, Gone, Spent, InFlight, TypeOK
<1>4. PendingCounted'
  BY DEF Inv, PendingCounted
<1>. QED
  BY <1>1, <1>2, <1>3, <1>4 DEF Inv

LEMMA KillInv ==
    ASSUME Inv, NEW d \in Daemons, Kill(d)
    PROVE  Inv'
<1>. USE DEF Kill, updateVars, workVars
<1>0. marked' \in [Daemons -> BOOLEAN] /\ \A e \in Daemons : marked[e] => marked'[e]
  BY DEF Inv, TypeOK
<1>1. TypeOK' /\ Updating'
  BY <1>0 DEF Inv, TypeOK, Updating, InFlight
<1>2. \A e \in Daemons : OneFlight(e)' /\ RunsCounted(e)'
  BY DEF Inv, OneFlight, RunsCounted, RunDue
<1>3. \A e \in Daemons : Fate(e)'
  BY <1>0 DEF Inv, Fate, Gone, Spent, InFlight, TypeOK
<1>4. PendingCounted'
  BY DEF Inv, PendingCounted
<1>. QED
  BY <1>1, <1>2, <1>3, <1>4 DEF Inv

LEMMA BeginUpdateInv == Inv /\ BeginUpdate => Inv'
<1>. SUFFICES ASSUME Inv, BeginUpdate PROVE Inv'
  OBVIOUS
<1>. USE DEF BeginUpdate, jobVars, workVars
<1>1. TypeOK' /\ Updating'
  BY DEF Inv, TypeOK, Updating, InFlight
<1>2. \A e \in Daemons : OneFlight(e)' /\ RunsCounted(e)'
  BY DEF Inv, OneFlight, RunsCounted, RunDue
<1>3. \A e \in Daemons : Fate(e)'
  BY DEF Inv, Fate, Gone, Spent, InFlight, TypeOK
<1>4. PendingCounted'
  BY DEF Inv, PendingCounted
<1>. QED
  BY <1>1, <1>2, <1>3, <1>4 DEF Inv

LEMMA CleanupInv == Inv /\ Cleanup => Inv'
<1>. SUFFICES ASSUME Inv, Cleanup PROVE Inv'
  OBVIOUS
<1>. USE DEF Cleanup, jobVars, workVars
<1>1. TypeOK' /\ Updating'
  BY DEF Inv, TypeOK, Updating, InFlight
<1>2. \A e \in Daemons : OneFlight(e)' /\ RunsCounted(e)'
  BY DEF Inv, OneFlight, RunsCounted, RunDue
<1>3. \A e \in Daemons : Fate(e)'
  BY DEF Inv, Fate, Gone, Spent, InFlight, TypeOK
<1>4. PendingCounted'
  BY DEF Inv, PendingCounted
<1>. QED
  BY <1>1, <1>2, <1>3, <1>4 DEF Inv

LEMMA DestroyInv == Inv /\ Destroy /\ Prompt => Inv'
<1>. SUFFICES ASSUME Inv, Destroy, Prompt PROVE Inv'
  OBVIOUS
<1>. USE DEF Destroy, workVars
<1>1. TypeOK' /\ Updating'
  BY DEF Inv, TypeOK, Updating, InFlight, JobState
<1>2. \A e \in Daemons : OneFlight(e)' /\ RunsCounted(e)'
  BY DEF Inv, OneFlight, RunsCounted, RunDue, InFlight
<1>3. \A e \in Daemons : Fate(e)'
  BY DEF Inv, Fate, Gone, Spent, InFlight, TypeOK, Updating
<1>4. PendingCounted' /\ released' \in [Daemons -> Nat]
  BY DEF Inv, PendingCounted
<1>. QED
  BY <1>1, <1>2, <1>3, <1>4 DEF Inv

(* The steps of update().                                                  *)
LEMMA VisitMarkedInv ==
    ASSUME Inv, Prompt, NEW d \in Daemons, VisitMarked(d)
    PROVE  Inv'
<1>. USE DEF VisitMarked, workVars
<1>1. TypeOK' /\ Updating'
  BY DEF Inv, TypeOK, Updating, InFlight, JobState
<1>2. \A e \in Daemons : OneFlight(e)' /\ RunsCounted(e)'
  BY DEF Inv, OneFlight, RunsCounted, RunDue, InFlight, TypeOK
<1>3. \A e \in Daemons : Fate(e)'
  BY DEF Inv, Fate, Gone, Spent, InFlight, TypeOK, Updating
<1>4. PendingCounted' /\ released' \in [Daemons -> Nat]
  BY DEF Inv, PendingCounted
<1>. QED
  BY <1>1, <1>2, <1>3, <1>4 DEF Inv

LEMMA VisitEarlyInv ==
    ASSUME Inv, NEW d \in Daemons, VisitEarly(d)
    PROVE  Inv'
<1>. USE DEF VisitEarly, workVars, jobVars
<1>1. TypeOK' /\ Updating'
  BY DEF Inv, TypeOK, Updating, InFlight
<1>2. \A e \in Daemons : OneFlight(e)' /\ RunsCounted(e)'
  BY DEF Inv, OneFlight, RunsCounted, RunDue
<1>3. \A e \in Daemons : Fate(e)'
  BY DEF Inv, Fate, Gone, Spent, InFlight, TypeOK
<1>4. PendingCounted'
  BY DEF Inv, PendingCounted
<1>. QED
  BY <1>1, <1>2, <1>3, <1>4 DEF Inv

LEMMA VisitDueInv ==
    ASSUME Inv, Prompt, NEW d \in Daemons, VisitDue(d)
    PROVE  Inv'
<1>. USE DEF VisitDue, workVars, TtlLeft, KeepAlive
<1>1. TypeOK' /\ Updating'
  BY DEF Inv, TypeOK, Updating, InFlight
<1>2. \A e \in Daemons : OneFlight(e)' /\ RunsCounted(e)'
  BY DEF Inv, OneFlight, RunsCounted, RunDue, InFlight, TypeOK, Updating, Fate, Spent, Gone
<1>3. ASSUME NEW e \in Daemons, e # d PROVE Fate(e)'
  <2>1. /\ ttl'[e] = ttl[e] /\ keepAlive'[e] = keepAlive[e] /\ released' = released
        /\ e \in killList' <=> e \in killList
        /\ cur' # e /\ cur # e
    BY <1>3 DEF Inv, TypeOK, Updating
  <2>. QED
    BY <2>1 DEF Inv, Fate, Gone, Spent, InFlight
<1>4. Fate(d)'
  <2>1. /\ d \in daemons /\ d \notin killList /\ ~Gone(d) /\ released[d] = 0 /\ ~Spent(d)
        /\ ttl[d] \in Nat /\ Ttl[d] \in Nat /\ ttl[d] <= Ttl[d]
    BY DEF Inv, TypeOK, Updating, Gone, Fate, RunsCounted
  <2>2. /\ ttl'[d] = TtlLeft(d) /\ cur' = d /\ upc' # "destroyed" /\ released' = released
        /\ daemons' = daemons /\ created' = created
    BY DEF Inv, TypeOK
  <2>3. Spent(d)' <=> ttl[d] = 1
    BY <2>1, <2>2 DEF Spent
  <2>4. keepAlive'[d] <=> keepAlive[d] /\ ttl[d] # 1
    BY DEF Inv, TypeOK
  <2>5. keepAlive[d]
    BY <2>1 DEF Inv, Fate
  <2>6. Gone(d)' <=> ttl[d] = 1
    BY <2>1, <2>2 DEF Gone
  <2>. QED
    BY <2>1, <2>2, <2>3, <2>4, <2>5, <2>6 DEF Fate
<1>5. PendingCounted'
  BY DEF Inv, PendingCounted
<1>. QED
  BY <1>1, <1>2, <1>3, <1>4, <1>5 DEF Inv

LEMMA ResetInv == Inv /\ Reset => Inv'
<1>. SUFFICES ASSUME Inv, Reset PROVE Inv'
  OBVIOUS
<1>. USE DEF Reset, workVars
<1>1. TypeOK' /\ Updating'
  BY DEF Inv, TypeOK, Updating, InFlight, JobState
<1>2. \A e \in Daemons : OneFlight(e)' /\ RunsCounted(e)'
  BY DEF Inv, OneFlight, RunsCounted, RunDue, InFlight, TypeOK, Updating
<1>3. \A e \in Daemons : Fate(e)'
  BY DEF Inv, Fate, Gone, Spent, InFlight, TypeOK, Updating
<1>4. PendingCounted'
  BY DEF Inv, PendingCounted
<1>. QED
  BY <1>1, <1>2, <1>3, <1>4 DEF Inv

LEMMA ScheduleInv == Inv /\ Schedule => Inv'
<1>. SUFFICES ASSUME Inv, Schedule PROVE Inv'
  OBVIOUS
<1>. USE DEF Schedule, workVars
<1>0. PICK d \in Daemons : d = cur
  BY DEF Inv, TypeOK, Updating
<1>a. /\ queued[d] = 0 /\ queued' = [queued EXCEPT ![d] = 1] /\ pending' = pending + 1
      /\ jstate' = [jstate EXCEPT ![d] = "Pending"] /\ cur' = NoDaemon
      /\ \A w \in Workers : wjob[w] # d
  BY <1>0 DEF Inv, TypeOK, Updating, InFlight
<1>1. TypeOK' /\ Updating'
  BY <1>0, <1>a DEF Inv, TypeOK, Updating, InFlight, JobState
<1>2. \A e \in Daemons : OneFlight(e)' /\ RunsCounted(e)'
  BY <1>0, <1>a DEF Inv, OneFlight, RunsCounted, RunDue, TypeOK
<1>3. \A e \in Daemons : Fate(e)'
  BY <1>0, <1>a DEF Inv, Fate, Gone, Spent, InFlight, TypeOK
<1>4. PendingCounted'
  <2>. DEFINE Q == {e \in Daemons : queued[e] > 0}
              B == {w \in Workers : wpc[w] # "idle"}
  <2>1. {e \in Daemons : queued'[e] > 0} = Q \union {d} /\ d \notin Q
    BY <1>a DEF Inv, TypeOK
  <2>2. IsFiniteSet(Q) /\ IsFiniteSet(B)
    BY FS_Subset
  <2>3. Cardinality(Q \union {d}) = Cardinality(Q) + 1
    BY <2>1, <2>2, FS_AddElement
  <2>4. Cardinality(Q) \in Nat /\ Cardinality(B) \in Nat
    BY <2>2, FS_CardinalityType
  <2>5. pending = Cardinality(Q) + Cardinality(B)
    BY DEF Inv, PendingCounted
  <2>6. {w \in Workers : wpc'[w] # "idle"} = B
    OBVIOUS
  <2>7. pending' = Cardinality(Q \union {d}) + Cardinality(B)
    <3>. HIDE DEF Q, B
    <3>. QED
      BY <1>a, <2>3, <2>4, <2>5
  <2>. QED
    BY <2>1, <2>6, <2>7 DEF PendingCounted
<1>. QED
  BY <1>1, <1>2, <1>3, <1>4 DEF Inv

-----------------------------------------------------------------------------
(* The workers.                                                            *)
LEMMA PopInv ==
    ASSUME Inv, NEW w \in Workers, NEW d \in Daemons, Pop(w, d)
    PROVE  Inv'
<1>. USE DEF Pop, WorkerGoto, updateVars
<1>a. /\ queued[d] = 1 /\ queued' = [queued EXCEPT ![d] = 0] /\ jstate[d] = "Pending"
      /\ \A v \in Workers : wjob[v] # d
      /\ wjob' = [wjob EXCEPT ![w] = d] /\ wpc' = [wpc EXCEPT ![w] = "claim"]
      /\ wjob[w] = NoDaemon /\ d # NoDaemon
  <2>1. queued[d] = 1
    BY DEF Inv, TypeOK, OneFlight
  <2>2. queued' = [queued EXCEPT ![d] = 0]
    BY <2>1
  <2>. QED
    BY <2>1, <2>2 DEF Inv, TypeOK, OneFlight
<1>b. wjob' \in [Workers -> Daemons \union {NoDaemon}]
  BY <1>a DEF Inv, TypeOK
<1>c. \A e \in Daemons : InFlight(e)' <=> InFlight(e)
  BY <1>a, <1>b DEF Inv, TypeOK, InFlight
<1>d. \A e \in Daemons : RunDue(e)' <=> RunDue(e)
  BY <1>a, <1>b DEF Inv, TypeOK, RunDue
<1>1. TypeOK' /\ Updating'
  BY <1>a, <1>b, <1>c DEF Inv, TypeOK, Updating
<1>2. \A e \in Daemons : OneFlight(e)'
  BY <1>a, <1>b DEF Inv, OneFlight, TypeOK
<1>3. \A e \in Daemons : Fate(e)' /\ RunsCounted(e)'
  BY <1>c, <1>d DEF Inv, Fate, Gone, Spent, RunsCounted
<1>4. PendingCounted'
  <2>. DEFINE Q == {e \in Daemons : queued[e] > 0}
              B == {v \in Workers : wpc[v] # "idle"}
  <2>1. {e \in Daemons : queued'[e] > 0} = Q \ {d} /\ d \in Q
    BY <1>a DEF Inv, TypeOK
  <2>2. {v \in Workers : wpc'[v] # "idle"} = B \union {w} /\ w \notin B
    BY <1>a DEF Inv, TypeOK
  <2>3. IsFiniteSet(Q) /\ IsFiniteSet(B)
    BY FS_Subset
  <2>4. Cardinality(Q \ {d}) = Cardinality(Q) - 1 /\ Cardinality(B \union {w}) = Cardinality(B) + 1
    BY <2>1, <2>2, <2>3, FS_AddElement, FS_RemoveElement
  <2>5. Cardinality(Q) \in Nat /\ Cardinality(B) \in Nat
    BY <2>3, FS_CardinalityType
  <2>6. pending = Cardinality(Q) + Cardinality(B) /\ pending' = pending
    BY DEF Inv, PendingCounted
  <2>7. PendingCounted' <=> pending' = Cardinality(Q \ {d}) + Cardinality(B \union {w})
    BY <2>1, <2>2 DEF PendingCounted
  <2>. HIDE DEF Q, B
  <2>. QED
    BY <2>4, <2>5, <2>6, <2>7
<1>5. wpc' \in [Workers -> {"idle", "claim", "kernel", "exchange", "finish", "unpend"}]
  BY <1>a DEF Inv
<1>. QED
  BY <1>1, <1>2, <1>3, <1>4, <1>5 DEF Inv

(* A worker that stays busy is counted as before.                          *)
LEMMA BusySame ==
    ASSUME Inv, NEW w \in Workers, NEW l, wpc[w] # "idle", l # "idle", wpc' = [wpc EXCEPT ![w] = l],
           UNCHANGED <<queued, pending>>
    PROVE  PendingCounted'
<1>1. {v \in Workers : wpc'[v] # "idle"} = {v \in Workers : wpc[v] # "idle"}
  BY DEF Inv
<1>. QED
  BY <1>1 DEF Inv, PendingCounted

(* A worker that has a job is the only one to have it.                     *)
LEMMA HolderAlone ==
    ASSUME Inv, NEW w \in Workers, NEW d \in Daemons, d = wjob[w]
    PROVE  queued[d] = 0 /\ cur # d /\ \A v \in Workers : wjob[v] = d => v = w
BY DEF Inv, TypeOK, OneFlight, Updating, InFlight

LEMMA ClaimInv ==
    ASSUME Inv, NEW w \in Workers, Claim(w)
    PROVE  Inv'
<1>. USE DEF Claim, WorkerGoto, updateVars
<1>0. PICK d \in Daemons : d = wjob[w]
  BY DEF Inv, TypeOK
<1>a. /\ jstate[d] = "Pending" /\ queued[d] = 0
      /\ \A v \in Workers : wjob[v] = d => v = w
      /\ wpc[w] = "claim"
  BY <1>0 DEF Inv, TypeOK, OneFlight
<1>b. /\ jstate' = [jstate EXCEPT ![d] = "Executing"] /\ wjob' = wjob
      /\ wpc' = [wpc EXCEPT ![w] = "kernel"]
  BY <1>0, <1>a
<1>c. \A e \in Daemons : InFlight(e)' <=> InFlight(e)
  BY <1>b DEF InFlight
<1>d. \A e \in Daemons : RunDue(e)' <=> RunDue(e)
  BY <1>a, <1>b DEF Inv, TypeOK, RunDue
<1>1. TypeOK' /\ Updating'
  <2>1. jstate'[cur] = jstate[cur] \/ cur \notin Daemons \/ upc # "schedule"
    BY <1>0, <1>b DEF Inv, TypeOK, Updating, InFlight
  <2>. QED
    BY <1>0, <1>a, <1>b, <1>c, <2>1 DEF Inv, TypeOK, Updating, JobState
<1>2. \A e \in Daemons : OneFlight(e)'
  BY <1>0, <1>a, <1>b DEF Inv, OneFlight, TypeOK
<1>3. \A e \in Daemons : Fate(e)' /\ RunsCounted(e)'
  BY <1>c, <1>d DEF Inv, Fate, Gone, Spent, RunsCounted
<1>4. PendingCounted'
  BY <1>a, <1>b, BusySame
<1>5. wpc' \in [Workers -> {"idle", "claim", "kernel", "exchange", "finish", "unpend"}]
  BY <1>b DEF Inv
<1>. QED
  BY <1>1, <1>2, <1>3, <1>4, <1>5 DEF Inv

LEMMA KernelReturnsInv ==
    ASSUME Inv, NEW w \in Workers, NEW stop \in BOOLEAN, KernelReturns(w, stop)
    PROVE  Inv'
<1>. USE DEF KernelReturns, WorkerGoto, updateVars
<1>0. PICK d \in Daemons : d = wjob[w]
  BY DEF Inv, TypeOK
<1>a. /\ queued[d] = 0 /\ cur # d
      /\ \A v \in Workers : wjob[v] = d => v = w
      /\ wpc[w] = "kernel" /\ wpc' = [wpc EXCEPT ![w] = "exchange"]
      /\ runs' = [runs EXCEPT ![d] = IF Ttl[d] > 0 THEN @ + 1 ELSE @]
      /\ marked' = [marked EXCEPT ![d] = @ \/ stop]
  <2>1. queued[d] = 0 /\ cur # d /\ \A v \in Workers : wjob[v] = d => v = w
    BY <1>0, HolderAlone
  <2>2. marked' = [marked EXCEPT ![d] = @ \/ stop]
    BY <1>0, Zenon
  <2>. QED
    BY <1>0, <2>1, <2>2
<1>b. /\ marked' \in [Daemons -> BOOLEAN]
      /\ \A e \in Daemons : marked[e] => marked'[e]
      /\ \A e \in Daemons : e # d => marked'[e] = marked[e]
  BY <1>a DEF Inv, TypeOK
<1>c. \A e \in Daemons : InFlight(e)' <=> InFlight(e)
  BY DEF InFlight
<1>d. /\ \A e \in Daemons : e # d => (RunDue(e)' <=> RunDue(e))
      /\ RunDue(d) /\ ~RunDue(d)'
  BY <1>0, <1>a DEF Inv, TypeOK, RunDue
<1>1. TypeOK' /\ Updating'
  BY <1>0, <1>a, <1>b, <1>c DEF Inv, TypeOK, Updating
<1>2. \A e \in Daemons : OneFlight(e)'
  BY <1>0, <1>a DEF Inv, OneFlight, TypeOK
<1>3. \A e \in Daemons : Fate(e)'
  BY <1>b, <1>c DEF Inv, Fate, Gone, Spent
<1>4. \A e \in Daemons : RunsCounted(e)'
  BY <1>a, <1>d DEF Inv, RunsCounted, TypeOK
<1>5. PendingCounted'
  BY <1>a, BusySame
<1>6. /\ wpc' \in [Workers -> {"idle", "claim", "kernel", "exchange", "finish", "unpend"}]
      /\ runs' \in [Daemons -> Nat]
  BY <1>a DEF Inv, TypeOK
<1>. QED
  BY <1>1, <1>2, <1>3, <1>4, <1>5, <1>6 DEF Inv

LEMMA ExchangeInv ==
    ASSUME Inv, NEW w \in Workers, ExchangeProcessed(w)
    PROVE  Inv'
<1>. USE DEF ExchangeProcessed, WorkerGoto, updateVars
<1>0. PICK d \in Daemons : d = wjob[w]
  BY DEF Inv, TypeOK
<1>a. /\ queued[d] = 0 /\ cur # d
      /\ \A v \in Workers : wjob[v] = d => v = w
      /\ wpc[w] = "exchange" /\ wpc' = [wpc EXCEPT ![w] = "finish"]
      /\ jstate' \in [Daemons -> JobState] /\ \A e \in Daemons : e # d => jstate'[e] = jstate[e]
  <2>1. queued[d] = 0 /\ cur # d /\ \A v \in Workers : wjob[v] = d => v = w
    BY <1>0, HolderAlone
  <2>2. jstate' = jstate \/ jstate' = [jstate EXCEPT ![d] = "Processed"]
    BY <1>0
  <2>. QED
    BY <1>0, <2>1, <2>2 DEF Inv, TypeOK, JobState
<1>c. \A e \in Daemons : InFlight(e)' <=> InFlight(e)
  BY DEF InFlight
<1>d. \A e \in Daemons : RunDue(e)' <=> RunDue(e)
  BY <1>0, <1>a DEF Inv, TypeOK, RunDue
<1>1. TypeOK' /\ Updating'
  BY <1>0, <1>a, <1>c DEF Inv, TypeOK, Updating
<1>2. \A e \in Daemons : OneFlight(e)'
  BY <1>0, <1>a DEF Inv, OneFlight, TypeOK
<1>3. \A e \in Daemons : Fate(e)' /\ RunsCounted(e)'
  BY <1>c, <1>d DEF Inv, Fate, Gone, Spent, RunsCounted
<1>4. PendingCounted'
  BY <1>a, BusySame
<1>5. wpc' \in [Workers -> {"idle", "claim", "kernel", "exchange", "finish", "unpend"}]
  BY <1>a DEF Inv
<1>. QED
  BY <1>1, <1>2, <1>3, <1>4, <1>5 DEF Inv

LEMMA FinishInv ==
    ASSUME Inv, NEW w \in Workers, Finish(w)
    PROVE  Inv'
<1>. USE DEF Finish, WorkerGoto, updateVars
<1>0. PICK d \in Daemons : d = wjob[w]
  BY DEF Inv, TypeOK
<1>a. /\ queued[d] = 0 /\ cur # d
      /\ \A v \in Workers : wjob[v] = d => v = w
      /\ wpc[w] = "finish" /\ wpc' = [wpc EXCEPT ![w] = "unpend"]
      /\ wjob' = [wjob EXCEPT ![w] = NoDaemon]
      /\ released' = [released EXCEPT ![d] = IF keepAlive[d] THEN @ ELSE @ + 1]
  BY <1>0 DEF Inv, TypeOK, OneFlight, Updating, InFlight
<1>b. /\ wjob' \in [Workers -> Daemons \union {NoDaemon}] /\ released' \in [Daemons -> Nat]
      /\ \A e \in Daemons : e # d => released'[e] = released[e]
      /\ keepAlive[d] => released'[d] = released[d]
      /\ ~keepAlive[d] => released'[d] = released[d] + 1
  BY <1>a DEF Inv, TypeOK
<1>c. /\ \A e \in Daemons : e # d => (InFlight(e)' <=> InFlight(e))
      /\ InFlight(d) /\ ~InFlight(d)'
  BY <1>0, <1>a DEF Inv, TypeOK, InFlight
<1>d. \A e \in Daemons : RunDue(e)' <=> RunDue(e)
  BY <1>0, <1>a DEF Inv, TypeOK, RunDue
<1>1. TypeOK' /\ Updating'
  BY <1>0, <1>a, <1>b, <1>c DEF Inv, TypeOK, Updating
<1>2. \A e \in Daemons : OneFlight(e)'
  BY <1>0, <1>a DEF Inv, OneFlight, TypeOK
<1>3. ASSUME NEW e \in Daemons, e # d PROVE Fate(e)'
  BY <1>3, <1>b, <1>c DEF Inv, Fate, Gone, Spent
<1>4. Fate(d)'
  BY <1>a, <1>b, <1>c DEF Inv, Fate, Gone, Spent
<1>5. \A e \in Daemons : RunsCounted(e)'
  BY <1>d DEF Inv, RunsCounted
<1>6. PendingCounted'
  BY <1>a, BusySame
<1>7. wpc' \in [Workers -> {"idle", "claim", "kernel", "exchange", "finish", "unpend"}]
  BY <1>a DEF Inv
<1>. QED
  BY <1>1, <1>2, <1>3, <1>4, <1>5, <1>6, <1>7, <1>b DEF Inv

LEMMA UnpendInv ==
    ASSUME Inv, NEW w \in Workers, Unpend(w)
    PROVE  Inv'
<1>. USE DEF Unpend, WorkerGoto, updateVars
<1>a. /\ wpc[w] = "unpend" /\ wpc' = [wpc EXCEPT ![w] = "idle"] /\ wjob[w] = NoDaemon
  BY DEF Inv, TypeOK
<1>c. \A e \in Daemons : InFlight(e)' <=> InFlight(e)
  BY DEF InFlight
<1>d. \A e \in Daemons : RunDue(e)' <=> RunDue(e)
  BY <1>a DEF Inv, TypeOK, RunDue
<1>1. PendingCounted' /\ pending' \in Nat
  <2>. DEFINE Q == {e \in Daemons : queued[e] > 0}
              B == {v \in Workers : wpc[v] # "idle"}
  <2>1. {v \in Workers : wpc'[v] # "idle"} = B \ {w} /\ w \in B
    BY <1>a DEF Inv, TypeOK
  <2>2. IsFiniteSet(Q) /\ IsFiniteSet(B)
    BY FS_Subset
  <2>3. Cardinality(B \ {w}) = Cardinality(B) - 1 /\ IsFiniteSet(B \ {w})
    BY <2>1, <2>2, FS_RemoveElement
  <2>4. Cardinality(Q) \in Nat /\ Cardinality(B) \in Nat /\ Cardinality(B \ {w}) \in Nat
    BY <2>2, <2>3, FS_CardinalityType
  <2>5. pending = Cardinality(Q) + Cardinality(B)
    BY DEF Inv, PendingCounted
  <2>6. PendingCounted' <=> pending' = Cardinality(Q) + Cardinality(B \ {w})
    BY <2>1 DEF PendingCounted
  <2>. HIDE DEF Q, B
  <2>. QED
    BY <2>3, <2>4, <2>5, <2>6
<1>2. TypeOK' /\ Updating'
  BY <1>a, <1>c, <1>1 DEF Inv, TypeOK, Updating
<1>3. \A e \in Daemons : OneFlight(e)'
  BY <1>a DEF Inv, OneFlight, TypeOK
<1>4. \A e \in Daemons : Fate(e)' /\ RunsCounted(e)'
  BY <1>c, <1>d DEF Inv, Fate, Gone, Spent, RunsCounted
<1>5. wpc' \in [Workers -> {"idle", "claim", "kernel", "exchange", "finish", "unpend"}]
  BY <1>a DEF Inv
<1>. QED
  BY <1>1, <1>2, <1>3, <1>4, <1>5 DEF Inv

-----------------------------------------------------------------------------
LEMMA StepInv == Prompt /\ Inv /\ [Next]_vars => Inv'
<1>. SUFFICES ASSUME Prompt, Inv, [Next]_vars PROVE Inv'
  OBVIOUS
<1>1. CASE UNCHANGED vars
  BY <1>1 DEF vars, jobVars, updateVars, workVars, Inv, TypeOK, Updating, OneFlight, Fate,
              RunsCounted, PendingCounted, InFlight, Gone, Spent, RunDue
<1>2. ASSUME NEW d \in Daemons, Create(d) \/ Kill(d) PROVE Inv'
  BY <1>2, CreateInv, KillInv
<1>3. CASE BeginUpdate \/ Cleanup \/ Reset \/ Schedule \/ Destroy
  BY <1>3, BeginUpdateInv, CleanupInv, ResetInv, ScheduleInv, DestroyInv
<1>4. CASE Visit
  BY <1>4, VisitMarkedInv, VisitEarlyInv, VisitDueInv DEF Visit
<1>5. ASSUME NEW w \in Workers, WorkerStep(w) PROVE Inv'
  BY <1>5, PopInv, ClaimInv, KernelReturnsInv, ExchangeInv, FinishInv, UnpendInv DEF WorkerStep
<1>. QED
  BY <1>1, <1>2, <1>3, <1>4, <1>5 DEF Next, UpdateStep

LEMMA InvImplies == Inv => DaemonsAccounted
<1>. SUFFICES ASSUME Inv PROVE DaemonsAccounted
  OBVIOUS
<1>1. ReleasedOnce
  BY DEF Inv, TypeOK, ReleasedOnce, Fate, Updating, Gone
<1>2. NoLeak
  BY DEF Inv, TypeOK, NoLeak, Fate, Updating, Gone
<1>3. TtlKept
  BY DEF Inv, TypeOK, TtlKept, Fate, Updating, Gone, Spent, RunsCounted, RunDue, InFlight
<1>4. PendingMatches
  <2>. SUFFICES ASSUME \A d \in Daemons : queued[d] = 0, \A w \in Workers : wpc[w] = "idle"
                PROVE  pending = 0
    BY DEF PendingMatches
  <2>1. {d \in Daemons : queued[d] > 0} = {} /\ {w \in Workers : wpc[w] # "idle"} = {}
    OBVIOUS
  <2>2. Cardinality({}) = 0
    BY FS_EmptySet
  <2>3. pending = Cardinality({}) + Cardinality({})
    BY <2>1 DEF Inv, PendingCounted
  <2>. QED
    BY <2>2, <2>3
<1>. QED
  BY <1>1, <1>2, <1>3, <1>4 DEF DaemonsAccounted

(* For any number of daemons, workers and runs, when update() and the      *)
(* destructor meet no daemon with a run queued or on a worker, due, killed *)
(* or ended by its own kernel: every job goes back to the pool exactly     *)
(* once and unused, every ttl is honoured, and the counter wait() looks at *)
(* is zero when nothing is left to do.                                     *)
THEOREM DaemonsAccountedHolds ==
    ASSUME Prompt
    PROVE  Spec => []DaemonsAccounted
<1>1. Inv /\ [Next]_vars => Inv'
  BY StepInv
<1>. QED
  BY <1>1, InitInv, InvImplies, PTL DEF Spec

-----------------------------------------------------------------------------
(* Monitor.                                                                *)

HIDE DaemonAssumption

Entries == [tid : M!All, executed : Nat]

-----------------------------------------------------------------------------
(* Summing up the reports of a thread: FoldLeft, with the operation that   *)
(* update_statistics gives it.                                             *)

(* A set of natural numbers has a least element.                           *)
LEMMA LeastNat ==
    ASSUME NEW S \in SUBSET Nat, S # {}
    PROVE  \E m \in S : \A k \in S : m <= k
<1>. DEFINE R == {p \in Nat \X Nat : p[1] < p[2]}
<1>1. IsWellFoundedOn(R, Nat)
  BY NatLessThanWellFounded DEF OpToRel
<1>2. PICK m \in S : \A k \in S : ~(<<k, m>> \in R)
  <2>. HIDE DEF R
  <2>. QED
    BY <1>1, WFMin
<1>3. \A k \in S : ~(k < m)
  BY <1>2
<1>. QED
  BY <1>3

LEMMA MaxOfSubset ==
    ASSUME NEW n \in Nat, NEW s \in SUBSET (1 .. n), s # {}
    PROVE  M!Max(s) \in s /\ \A y \in s : M!Max(s) >= y
<1>. DEFINE D == {k \in Nat : \E y \in s : k + y = n}
<1>1. D # {}
  <2>1. PICK y \in s : TRUE
    OBVIOUS
  <2>2. y \in 1 .. n /\ n - y \in Nat /\ (n - y) + y = n
    BY <2>1
  <2>. QED
    BY <2>2
<1>2. PICK e \in D : \A z \in D : e <= z
  BY <1>1, LeastNat
<1>3. PICK m \in s : e + m = n
  BY <1>2
<1>4. ASSUME NEW y \in s PROVE m >= y
  <2>1. y \in 1 .. n /\ m \in 1 .. n /\ n - y \in Nat /\ (n - y) + y = n
    OBVIOUS
  <2>2. e <= n - y
    BY <1>2, <2>1
  <2>. QED
    BY <1>3, <2>1, <2>2
<1>. QED
  BY <1>3, <1>4 DEF M!Max

LEMMA MaxOfInitial ==
    ASSUME NEW n \in Nat \ {0}
    PROVE  M!Max(1 .. n) = n /\ (1 .. n) \ {n} = 1 .. (n - 1) /\ 1 .. n # {}
<1>1. n \in 1 .. n /\ \A y \in 1 .. n : n >= y
  OBVIOUS
<1>2. M!Max(1 .. n) \in 1 .. n /\ \A y \in 1 .. n : M!Max(1 .. n) >= y
  BY <1>1 DEF M!Max
<1>3. M!Max(1 .. n) = n
  BY <1>1, <1>2
<1>4. \A y : y \in (1 .. n) \ {n} <=> y \in 1 .. (n - 1)
  OBVIOUS
<1>. QED
  BY <1>1, <1>3, <1>4

(* One report, and the equation of the fold on the subsets of 1 .. n.      *)
Add(t, m, r) == IF r.tid = t THEN m + r.executed ELSE m
Folds1(t, b, q, n, G) ==
    G = [s \in SUBSET (1 .. n) |->
            IF s = {} THEN b ELSE LET x == M!Max(s) IN Add(t, G[s \ {x}], q[x])]

Tally(t, b, q) == M!FoldLeft(LAMBDA m, r : IF r.tid = t THEN m + r.executed ELSE m, b, q)

LEMMA FoldsExist ==
    ASSUME NEW t, NEW b, NEW q, NEW n \in Nat
    PROVE  \E G : Folds1(t, b, q, n, G)
<1>. DEFINE Bad == {k \in Nat : ~ \E G : Folds1(t, b, q, k, G)}
<1>. SUFFICES Bad = {}
  OBVIOUS
<1>. SUFFICES ASSUME Bad # {} PROVE FALSE
  OBVIOUS
<1>1. PICK k \in Bad : \A j \in Bad : k <= j
  BY LeastNat
<1>2. k # 0
  <2>. DEFINE G == [s \in SUBSET (1 .. 0) |-> b]
  <2>1. SUBSET (1 .. 0) = {{}}
    OBVIOUS
  <2>2. Folds1(t, b, q, 0, G)
    BY <2>1 DEF Folds1
  <2>. QED
    BY <2>2
<1>3. PICK F : Folds1(t, b, q, k - 1, F)
  BY <1>1, <1>2
<1>. DEFINE G == [s \in SUBSET (1 .. k) |-> IF k \in s THEN Add(t, F[s \ {k}], q[k]) ELSE F[s]]
<1>4. ASSUME NEW s \in SUBSET (1 .. k), s # {}
      PROVE  G[s] = LET x == M!Max(s) IN Add(t, G[s \ {x}], q[x])
  <2>2. M!Max(s) \in s /\ \A y \in s : M!Max(s) >= y
    BY <1>4, MaxOfSubset
  <2>3. PICK x \in 1 .. k : x = M!Max(s)
    BY <2>2
  <2>4. s \ {x} \in SUBSET (1 .. (k - 1)) /\ k \notin s \ {x} /\ s \ {x} \in SUBSET (1 .. k)
    <3>1. ASSUME NEW y \in s, y # x PROVE y \in 1 .. (k - 1) /\ y # k
      <4>1. y <= x /\ y \in 1 .. k
        BY <2>2, <2>3
      <4>. QED
        BY <3>1, <4>1
    <3>. QED
      BY <3>1
  <2>5. G[s \ {x}] = F[s \ {x}]
    BY <2>4
  <2>6. CASE k \in s
    <3>1. x = k
      BY <2>2, <2>3, <2>6
    <3>. QED
      BY <2>3, <2>5, <2>6, <3>1
  <2>7. CASE k \notin s
    <3>1. s \in SUBSET (1 .. (k - 1))
      BY <2>7
    <3>2. F[s] = Add(t, F[s \ {x}], q[x])
      BY <1>3, <1>4, <3>1, <2>3 DEF Folds1
    <3>. QED
      BY <2>3, <2>5, <2>7, <3>2
  <2>. QED
    BY <2>6, <2>7
<1>5. G[{}] = b
  <2>1. {} \in SUBSET (1 .. (k - 1))
    OBVIOUS
  <2>2. F[{}] = b
    BY <1>3, <2>1 DEF Folds1
  <2>. QED
    BY <2>2
<1>6. Folds1(t, b, q, k, G)
  <2>. HIDE DEF G
  <2>1. \A s \in SUBSET (1 .. k) : G[s] = IF s = {} THEN b ELSE LET x == M!Max(s) IN Add(t, G[s \ {x}], q[x])
    BY <1>4, <1>5
  <2>2. G = [s \in SUBSET (1 .. k) |-> G[s]]
    BY DEF G
  <2>. QED
    BY <2>1, <2>2 DEF Folds1
<1>. QED
  BY <1>1, <1>6

LEMMA TallyDef ==
    ASSUME NEW t, NEW b, NEW q, NEW n \in Nat, DOMAIN q = 1 .. n
    PROVE  \E G : Folds1(t, b, q, n, G) /\ Tally(t, b, q) = G[1 .. n]
<1>. DEFINE C == CHOOSE G : Folds1(t, b, q, n, G)
<1>1. Folds1(t, b, q, n, C)
  BY FoldsExist
<1>2. Tally(t, b, q) = C[1 .. n]
  BY DEF Tally, M!FoldLeft, M!MapThenFoldSet, Folds1, Add
<1>. QED
  BY <1>1, <1>2

(* The fold of the first reports does not depend on the later ones.        *)
SameUpTo(q, p, n) == \A i \in 1 .. n : q[i] = p[i]

LEMMA FoldsAgree ==
    ASSUME NEW t, NEW b, NEW q, NEW p, NEW n \in Nat, NEW m \in Nat, n <= m,
           SameUpTo(q, p, n),
           NEW F, Folds1(t, b, q, n, F), NEW G, Folds1(t, b, p, m, G)
    PROVE  \A k \in 0 .. n : F[1 .. k] = G[1 .. k]
<1>. DEFINE Bad == {k \in 0 .. n : F[1 .. k] # G[1 .. k]}
<1>. SUFFICES ASSUME Bad # {} PROVE FALSE
  OBVIOUS
<1>0. Bad \in SUBSET Nat
  OBVIOUS
<1>1. PICK k \in Bad : \A j \in Bad : k <= j
  BY <1>0, LeastNat
<1>2. k \in 0 .. n /\ F[1 .. k] # G[1 .. k]
  OBVIOUS
<1>3. (1 .. k) \in SUBSET (1 .. n) /\ (1 .. k) \in SUBSET (1 .. m)
  BY <1>2
<1>4. CASE k = 0
  <2>1. 1 .. k = {}
    BY <1>4
  <2>2. F[{}] = b /\ G[{}] = b
    BY <1>3, <2>1 DEF Folds1
  <2>. QED
    BY <1>2, <2>1, <2>2
<1>5. CASE k # 0
  <2>1. M!Max(1 .. k) = k /\ (1 .. k) \ {k} = 1 .. (k - 1) /\ 1 .. k # {}
    <3>1. k \in Nat \ {0}
      BY <1>2, <1>5
    <3>. QED
      BY <3>1, MaxOfInitial
  <2>2. F[1 .. k] = Add(t, F[1 .. (k - 1)], q[k]) /\ G[1 .. k] = Add(t, G[1 .. (k - 1)], p[k])
    <3>1. F[1 .. k] = Add(t, F[(1 .. k) \ {M!Max(1 .. k)}], q[M!Max(1 .. k)])
      BY <1>3, <2>1 DEF Folds1
    <3>2. G[1 .. k] = Add(t, G[(1 .. k) \ {M!Max(1 .. k)}], p[M!Max(1 .. k)])
      BY <1>3, <2>1 DEF Folds1
    <3>. QED
      BY <2>1, <3>1, <3>2
  <2>3. k - 1 \in 0 .. n /\ k \in 1 .. n /\ ~(k <= k - 1)
    BY <1>2, <1>5
  <2>4. F[1 .. (k - 1)] = G[1 .. (k - 1)]
    BY <1>1, <2>3
  <2>. QED
    BY <1>2, <2>2, <2>3, <2>4 DEF SameUpTo
<1>. QED
  BY <1>4, <1>5

LEMMA TallyEmpty ==
    ASSUME NEW t, NEW b
    PROVE  Tally(t, b, <<>>) = b
<1>1. PICK G : Folds1(t, b, <<>>, 0, G) /\ Tally(t, b, <<>>) = G[1 .. 0]
  <2>1. DOMAIN <<>> = 1 .. 0
    OBVIOUS
  <2>. QED
    BY <2>1, TallyDef
<1>2. 1 .. 0 = {} /\ {} \in SUBSET (1 .. 0)
  OBVIOUS
<1>. QED
  BY <1>1, <1>2 DEF Folds1

LEMMA TallyAppend ==
    ASSUME NEW t, NEW b, NEW S, NEW q \in Seq(S), NEW r \in S
    PROVE  Tally(t, b, Append(q, r)) = Add(t, Tally(t, b, q), r)
<1>. DEFINE n == Len(q)
            p == Append(q, r)
<1>1. n \in Nat /\ DOMAIN q = 1 .. n /\ DOMAIN p = 1 .. (n + 1) /\ p[n + 1] = r
  OBVIOUS
<1>2. SameUpTo(q, p, n)
  BY DEF SameUpTo
<1>. HIDE DEF n, p
<1>3. PICK F : Folds1(t, b, q, n, F) /\ Tally(t, b, q) = F[1 .. n]
  BY <1>1, TallyDef
<1>4. PICK G : Folds1(t, b, p, n + 1, G) /\ Tally(t, b, p) = G[1 .. (n + 1)]
  BY <1>1, TallyDef
<1>5. n \in 0 .. n /\ n <= n + 1 /\ n + 1 \in Nat \ {0} /\ (n + 1) - 1 = n
  BY <1>1
<1>6. F[1 .. n] = G[1 .. n]
  <2>1. PICK m \in Nat : m = n + 1
    BY <1>5
  <2>2. n <= m /\ Folds1(t, b, p, m, G)
    BY <1>4, <1>5, <2>1
  <2>3. n \in Nat /\ Folds1(t, b, q, n, F)
    BY <1>1, <1>3
  <2>4. \A k \in 0 .. n : F[1 .. k] = G[1 .. k]
    BY <1>2, <2>2, <2>3, FoldsAgree
  <2>. QED
    BY <1>5, <2>4
<1>7. M!Max(1 .. (n + 1)) = n + 1 /\ (1 .. (n + 1)) \ {n + 1} = 1 .. n /\ 1 .. (n + 1) # {}
  BY <1>5, MaxOfInitial
<1>8. G[1 .. (n + 1)] = Add(t, G[1 .. n], p[n + 1])
  BY <1>4, <1>7 DEF Folds1
<1>. QED
  BY <1>1, <1>3, <1>4, <1>6, <1>8 DEF p

(* The sum can be split: what was counted before is only added to.         *)
LEMMA TallySplit ==
    ASSUME NEW t, NEW b \in Nat, NEW q \in Seq(Entries)
    PROVE  Tally(t, b, q) = b + Tally(t, 0, q) /\ Tally(t, 0, q) \in Nat
<1>. DEFINE P(p) == Tally(t, b, p) = b + Tally(t, 0, p) /\ Tally(t, 0, p) \in Nat
            Bad == {k \in Nat : \E p \in Seq(Entries) : Len(p) = k /\ ~P(p)}
<1>. SUFFICES ASSUME Bad # {} PROVE FALSE
  OBVIOUS
<1>1. PICK k \in Bad : \A j \in Bad : k <= j
  BY LeastNat
<1>2. PICK p \in Seq(Entries) : Len(p) = k /\ ~P(p)
  OBVIOUS
<1>3. CASE p = <<>>
  BY <1>2, <1>3, TallyEmpty
<1>4. CASE p # <<>>
  <2>. DEFINE f == SubSeq(p, 1, Len(p) - 1)
              r == p[Len(p)]
  <2>1. f \in Seq(Entries) /\ r \in Entries /\ Len(f) = k - 1 /\ p = Append(f, r) /\ k - 1 \in Nat
    BY <1>2, <1>4
  <2>. HIDE DEF f, r
  <2>2. P(f)
    BY <1>1, <2>1
  <2>3. /\ Tally(t, b, p) = Add(t, Tally(t, b, f), r)
        /\ Tally(t, 0, p) = Add(t, Tally(t, 0, f), r)
    BY <2>1, TallyAppend
  <2>4. r.executed \in Nat
    BY <2>1 DEF Entries
  <2>. QED
    BY <1>2, <2>2, <2>3, <2>4 DEF Add
<1>. QED
  BY <1>3, <1>4

-----------------------------------------------------------------------------
(* The inductive invariant: the counters, and what they count.             *)
MonitorInv ==
    /\ activity \in [M!All -> Nat] /\ stats \in [M!All -> Nat] /\ executed \in [M!All -> Nat]
    /\ reports \in Seq(Entries)
    /\ M!JobsCounted

LEMMA ReportedIsTally == \A t \in M!All : M!Reported(t) = Tally(t, 0, reports)
BY DEF M!Reported, Tally

LEMMA MonitorInit == M!Init => MonitorInv
<1>. SUFFICES ASSUME M!Init PROVE MonitorInv
  OBVIOUS
<1>1. \A t \in M!All : M!Reported(t) = 0
  BY ReportedIsTally, TallyEmpty DEF M!Init
<1>. QED
  BY <1>1 DEF M!Init, MonitorInv, M!JobsCounted, M!zero

(* A thread hands in its counters.                                         *)
LEMMA ReportInv ==
    ASSUME MonitorInv, NEW t \in M!All, M!report_thread_activity(t), UNCHANGED <<stats, executed>>
    PROVE  MonitorInv'
<1>. DEFINE r == [tid |-> t, executed |-> activity[t]]
<1>1. r \in Entries /\ reports' = Append(reports, r)
  BY DEF MonitorInv, Entries, M!report_thread_activity
<1>2. /\ activity' = [activity EXCEPT ![t] = 0] /\ activity' \in [M!All -> Nat]
      /\ reports' \in Seq(Entries)
  BY <1>1 DEF MonitorInv, M!report_thread_activity
<1>3. ASSUME NEW u \in M!All PROVE M!Reported(u)' = Add(u, M!Reported(u), r)
  <2>1. M!Reported(u)' = Tally(u, 0, reports')
    BY DEF M!Reported, Tally, M!FoldLeft, M!MapThenFoldSet
  <2>2. Tally(u, 0, reports') = Add(u, Tally(u, 0, reports), r)
    BY <1>1, TallyAppend DEF MonitorInv
  <2>. QED
    BY <2>1, <2>2, ReportedIsTally
<1>4. ASSUME NEW u \in M!All PROVE M!Reported(u) \in Nat
  <2>1. Tally(u, 0, reports) \in Nat
    BY TallySplit DEF MonitorInv
  <2>. QED
    BY <2>1, ReportedIsTally
<1>5. ASSUME NEW u \in M!All
      PROVE  stats'[u] + M!Reported(u)' + activity'[u] = executed'[u]
  <2>1. /\ stats[u] \in Nat /\ activity[u] \in Nat /\ M!Reported(u) \in Nat
        /\ stats[u] + M!Reported(u) + activity[u] = executed[u]
    BY <1>4 DEF MonitorInv, M!JobsCounted
  <2>2. CASE u = t
    BY <1>2, <1>3, <2>1, <2>2 DEF Add, MonitorInv
  <2>3. CASE u # t
    BY <1>2, <1>3, <2>1, <2>3 DEF Add, MonitorInv
  <2>. QED
    BY <2>2, <2>3
<1>. QED
  BY <1>2, <1>5 DEF MonitorInv, M!JobsCounted

(* The main thread adds up a queue.                                        *)
LEMMA UpdateStatistics ==
    ASSUME MonitorInv, NEW q \in Seq(Entries), NEW t \in M!All
    PROVE  M!update_statistics(q)[t] = stats[t] + Tally(t, 0, q) /\ Tally(t, 0, q) \in Nat
<1>1. M!update_statistics(q)[t] = Tally(t, stats[t], q)
  BY DEF M!update_statistics, Tally
<1>2. stats[t] \in Nat
  BY DEF MonitorInv
<1>. QED
  BY <1>1, <1>2, TallySplit

LEMMA EndWaitInv ==
    ASSUME MonitorInv, M!EndWait
    PROVE  MonitorInv'
<1>. DEFINE r == [tid |-> "main", executed |-> activity["main"]]
            q == Append(reports, r)
<1>1. "main" \in M!All /\ r \in Entries /\ q \in Seq(Entries) /\ reports \in Seq(Entries)
  BY DEF MonitorInv, Entries, M!All
<1>2. /\ stats' = M!update_statistics(q) /\ reports' = <<>> /\ executed' = executed
      /\ activity' = [activity EXCEPT !["main"] = 0]
  BY DEF M!EndWait
<1>3. ASSUME NEW u \in M!All
      PROVE  /\ stats'[u] = stats[u] + Add(u, M!Reported(u), r) /\ M!Reported(u)' = 0
             /\ M!Reported(u) \in Nat /\ Add(u, M!Reported(u), r) \in Nat
  <2>1. stats'[u] = stats[u] + Tally(u, 0, q) /\ Tally(u, 0, q) \in Nat
    <3>. HIDE DEF q
    <3>. QED
      BY <1>1, <1>2, UpdateStatistics
  <2>2. Tally(u, 0, q) = Add(u, Tally(u, 0, reports), r)
    <3>. HIDE DEF r
    <3>. QED
      BY <1>1, TallyAppend
  <2>3. M!Reported(u) = Tally(u, 0, reports) /\ Tally(u, 0, reports) \in Nat
    BY <1>1, TallySplit, ReportedIsTally
  <2>4. M!Reported(u)' = Tally(u, 0, reports')
    BY DEF M!Reported, Tally, M!FoldLeft, M!MapThenFoldSet
  <2>5. Tally(u, 0, <<>>) = 0
    BY TallyEmpty
  <2>. QED
    BY <1>2, <2>1, <2>2, <2>3, <2>4, <2>5
<1>4. /\ stats' = [u \in M!All |-> stats'[u]]
  BY <1>2 DEF M!update_statistics
<1>5. stats' \in [M!All -> Nat] /\ activity' \in [M!All -> Nat] /\ reports' \in Seq(Entries)
  <2>1. \A u \in M!All : stats'[u] \in Nat
    BY <1>3 DEF MonitorInv
  <2>2. stats' \in [M!All -> Nat]
    BY <1>4, <2>1
  <2>3. activity' \in [M!All -> Nat]
    BY <1>1, <1>2 DEF MonitorInv
  <2>4. reports' \in Seq(Entries)
    BY <1>2
  <2>. QED
    BY <2>2, <2>3, <2>4
<1>6. ASSUME NEW u \in M!All
      PROVE  stats'[u] + M!Reported(u)' + activity'[u] = executed'[u]
  <2>1. /\ stats[u] \in Nat /\ activity[u] \in Nat /\ M!Reported(u) \in Nat
        /\ stats[u] + M!Reported(u) + activity[u] = executed[u]
    BY <1>3 DEF MonitorInv, M!JobsCounted
  <2>2. CASE u = "main"
    BY <1>1, <1>2, <1>3, <2>1, <2>2 DEF Add, MonitorInv
  <2>3. CASE u # "main"
    BY <1>2, <1>3, <2>1, <2>3 DEF Add, MonitorInv
  <2>. QED
    BY <2>2, <2>3
<1>. QED
  BY <1>2, <1>5, <1>6 DEF MonitorInv, M!JobsCounted

LEMMA ShutdownInv ==
    ASSUME MonitorInv, M!Shutdown
    PROVE  MonitorInv'
<1>1. stats' = M!update_statistics(reports) /\ reports' = <<>> /\ UNCHANGED <<executed, activity>>
  BY DEF M!Shutdown
<1>2. ASSUME NEW u \in M!All
      PROVE  stats'[u] = stats[u] + M!Reported(u) /\ M!Reported(u)' = 0 /\ M!Reported(u) \in Nat
  <2>1. stats'[u] = stats[u] + Tally(u, 0, reports) /\ Tally(u, 0, reports) \in Nat
    BY <1>1, UpdateStatistics DEF MonitorInv
  <2>2. M!Reported(u)' = Tally(u, 0, reports')
    BY DEF M!Reported, Tally, M!FoldLeft, M!MapThenFoldSet
  <2>3. Tally(u, 0, <<>>) = 0
    BY TallyEmpty
  <2>. QED
    BY <1>1, <2>1, <2>2, <2>3, ReportedIsTally
<1>3. stats' = [u \in M!All |-> stats'[u]]
  BY <1>1 DEF M!update_statistics
<1>4. stats' \in [M!All -> Nat]
  BY <1>2, <1>3 DEF MonitorInv
<1>. QED
  BY <1>1, <1>2, <1>4 DEF MonitorInv, M!JobsCounted

(* A thread executes a job.                                                *)
LEMMA ProcessInv ==
    ASSUME MonitorInv, NEW t \in M!All, M!process(t), UNCHANGED <<stats, reports>>
    PROVE  MonitorInv'
<1>1. /\ activity' = [activity EXCEPT ![t] = @ + 1] /\ activity' \in [M!All -> Nat]
      /\ executed' = [executed EXCEPT ![t] = @ + 1] /\ executed' \in [M!All -> Nat]
  BY DEF MonitorInv, M!process
<1>2. \A u \in M!All : M!Reported(u)' = M!Reported(u)
  BY DEF M!Reported, M!FoldLeft, M!MapThenFoldSet
<1>3. \A u \in M!All : M!Reported(u) \in Nat
  BY TallySplit, ReportedIsTally DEF MonitorInv
<1>4. ASSUME NEW u \in M!All
      PROVE  stats'[u] + M!Reported(u)' + activity'[u] = executed'[u]
  <2>1. /\ stats[u] \in Nat /\ activity[u] \in Nat /\ M!Reported(u) \in Nat
        /\ stats[u] + M!Reported(u) + activity[u] = executed[u]
    BY <1>3 DEF MonitorInv, M!JobsCounted
  <2>2. CASE u = t
    <3>1. activity'[u] = activity[u] + 1 /\ executed'[u] = executed[u] + 1
      BY <1>1, <2>2 DEF MonitorInv
    <3>. QED
      BY <1>2, <2>1, <3>1
  <2>3. CASE u # t
    BY <1>1, <1>2, <2>1, <2>3 DEF MonitorInv
  <2>. QED
    BY <2>2, <2>3
<1>. QED
  BY <1>1, <1>4 DEF MonitorInv, M!JobsCounted

LEMMA MonitorStep == MonitorInv /\ [M!Next]_(M!vars) => MonitorInv'
<1>. SUFFICES ASSUME MonitorInv, [M!Next]_(M!vars) PROVE MonitorInv'
  OBVIOUS
<1>0. ASSUME UNCHANGED <<activity, stats, executed, reports>> PROVE MonitorInv'
  <2>1. \A u \in M!All : M!Reported(u)' = M!Reported(u)
    BY <1>0 DEF M!Reported, M!FoldLeft, M!MapThenFoldSet
  <2>. QED
    BY <1>0, <2>1 DEF MonitorInv, M!JobsCounted
<1>1. ASSUME NEW w \in Background, M!WorkerStep(w) PROVE MonitorInv'
  <2>0. w \in M!All
    BY DEF M!All
  <2>1. CASE M!Work(w)
    BY <2>0, <2>1, ProcessInv DEF M!Work
  <2>2. CASE M!Report(w)
    BY <2>0, <2>2, ReportInv DEF M!Report
  <2>3. CASE M!Sleep(w) \/ M!Wake(w) \/ M!Stop(w)
    BY <1>0, <2>3 DEF M!Sleep, M!Wake, M!Stop
  <2>. QED
    BY <1>1, <2>1, <2>2, <2>3 DEF M!WorkerStep
<1>2. ASSUME NEW w \in Background, M!Schedule(w) PROVE MonitorInv'
  BY <1>0, <1>2 DEF M!Schedule
<1>3. ASSUME NEW w \in Background, M!foreground_work(w) PROVE MonitorInv'
  <2>1. "main" \in M!All
    BY DEF M!All
  <2>. QED
    BY <1>3, <2>1, ProcessInv DEF M!foreground_work
<1>4. CASE M!BeginWait \/ UNCHANGED M!vars
  BY <1>0, <1>4 DEF M!BeginWait, M!vars
<1>5. CASE M!EndWait \/ M!Shutdown
  BY <1>5, EndWaitInv, ShutdownInv
<1>. QED
  BY <1>1, <1>2, <1>3, <1>4, <1>5 DEF M!Next

(* For any number of threads, jobs, waits and reports: the statistics, the *)
(* reports on their way and the counters of a thread always add up to the  *)
(* jobs that thread has executed.                                          *)
THEOREM JobsCountedHolds == M!Spec => []JobsCounted
<1>1. MonitorInv => JobsCounted
  BY DEF MonitorInv, JobsCounted
<1>. QED
  BY <1>1, MonitorInit, MonitorStep, PTL DEF M!Spec
=============================================================================
