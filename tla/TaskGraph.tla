------------------------------ MODULE TaskGraph ------------------------------
(***************************************************************************)
(* What the job system promises its client, without threads, queues or     *)
(* counters: a task runs once, after every task it depends on, and a wait  *)
(* returns only when everything it covers is done.  JobSystem implements   *)
(* this specification.                                                     *)
(***************************************************************************)
EXTENDS FiniteSets

CONSTANTS Jobs, Graphs, Groups, NoGroup, NoTask

VARIABLES
    children,  \* the graph the client built
    phase,     \* the progress of every task
    group,     \* the barrier a task was scheduled under
    client     \* what the client waits for

vars == <<children, phase, group, client>>

Phase  == {"new", "accepted", "running", "done"}
Idle   == [kind |-> "none", on |-> NoTask]
Closed == [kind |-> "closed", on |-> NoTask]

Below(j) ==
    {x \in Jobs :
        \A X \in SUBSET Jobs :
            (j \in X /\ \A y \in X : children[y] \subseteq X) => x \in X}
Parents(j) == {p \in Jobs : j \in children[p]}

(* The tasks a wait stands for.                                            *)
Covered ==
    CASE client.kind \in {"all", "shutdown"} -> {j \in Jobs : phase[j] # "new"}
      [] client.kind = "barrier" -> {j \in Jobs : phase[j] # "new" /\ group[j] = client.on}
      [] client.kind = "task"    -> {client.on}
      [] OTHER                   -> {}

Init ==
    /\ children \in Graphs
    /\ phase = [j \in Jobs |-> "new"]
    /\ group = [j \in Jobs |-> NoGroup]
    /\ client = Idle

(* A root is handed over with everything below it.                         *)
Accept(j, g) ==
    /\ client # Closed
    /\ Parents(j) = {}
    /\ phase[j] = "new"
    /\ phase' = [x \in Jobs |-> IF x \in Below(j) /\ phase[x] = "new" THEN "accepted" ELSE phase[x]]
    /\ group' = [x \in Jobs |-> IF x \in Below(j) THEN g ELSE group[x]]
    /\ UNCHANGED <<children, client>>

(* A lone task may also be run by its owner before it is handed over.      *)
Start(j) ==
    /\ phase[j] = "accepted" \/ (phase[j] = "new" /\ children[j] = {})
    /\ \A p \in Parents(j) : phase[p] = "done"
    /\ phase' = [phase EXCEPT ![j] = "running"]
    /\ UNCHANGED <<children, group, client>>

Finish(j) ==
    /\ phase[j] = "running"
    /\ phase' = [phase EXCEPT ![j] = "done"]
    /\ UNCHANGED <<children, group, client>>

Wait ==
    /\ client = Idle
    /\ \/ \E k \in {"all", "shutdown"} : client' = [kind |-> k, on |-> NoTask]
       \/ \E g \in Groups : client' = [kind |-> "barrier", on |-> g]
       \/ \E j \in Jobs   : client' = [kind |-> "task", on |-> j]
    /\ UNCHANGED <<children, phase, group>>

Return ==
    /\ client \notin {Idle, Closed}
    /\ \A j \in Covered : phase[j] = "done"
    /\ client' = IF client.kind = "shutdown" THEN Closed ELSE Idle
    /\ UNCHANGED <<children, phase, group>>

Next ==
    \/ \E j \in Jobs, g \in Groups \union {NoGroup} : Accept(j, g)
    \/ \E j \in Jobs : Start(j) \/ Finish(j)
    \/ Wait
    \/ Return

Spec == Init /\ [][Next]_vars
=============================================================================
