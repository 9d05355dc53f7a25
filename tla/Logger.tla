-------------------------------- MODULE Logger --------------------------------
(***************************************************************************)
(* A kb::log::Channel (logger/channel.cpp) with its policies and sinks.    *)
(* The threads of the job system submit entries.  In synchronous mode the  *)
(* caller passes them to the sinks, one after the other and without a      *)
(* lock; in asynchronous mode a job on the private queue of one worker     *)
(* does, under sink_mutex_.  A fatal entry, and a signal, end the program  *)
(* once the pending entries are out.                                       *)
(*                                                                         *)
(* Of an entry are kept the thread and its number there.  The messages of  *)
(* the job system itself go to another channel, and a client's job never   *)
(* runs on the worker that logs.                                           *)
(***************************************************************************)
EXTENDS Integers, Sequences, FiniteSets, SequencesExt

CONSTANTS
    Threads,       \* the workers that run the client's jobs, next to "main"
    SinkNames,     \* sinks; "file" is one of them
    MaxEntries,    \* bound: accepted entries of a thread
    MaxChanges,    \* bound: calls of main that change the channel
    Disciplined    \* main alone logs in synchronous mode, and only calls flush()
                   \* and leaves asynchronous mode when no job is pending

ASSUME LoggerAssumption ==
    /\ {"main", "logger", "nobody"} \intersect Threads = {}
    /\ "file" \in SinkNames

VARIABLES
    async,      \* s_js_ is set
    level,      \* level_
    policy,     \* the UID filter: its kind, and whether it lists the uid of the client
    sinks,      \* sinks_
    mutex,      \* who holds sink_mutex_
    queue,      \* the private queue of the worker that logs
    pass,       \* the loop over the sinks each actor is in
    pc,         \* where each thread is
    sent,       \* how many entries of each thread were accepted
    changes,    \* calls that changed the channel
    out,        \* what each sink received
    due,        \* for every accepted entry the sinks that have to get it
    refused     \* the most severe entry a policy has refused

vars == <<async, level, policy, sinks, mutex, queue, pass, pc, sent, changes, out, due, refused>>

Clients == Threads \union {"main"}
Actors == Clients \union {"logger"}
Fatal == 0
Warn == 2
Info == 3
nobody == "nobody"
Idle == [work |-> "none", entry |-> <<>>, i |-> 0, inside |-> FALSE]
Loop(work, entry) == [work |-> work, entry |-> entry, i |-> 1, inside |-> FALSE]

Init ==
    /\ async = FALSE /\ level = Info
    /\ policy \in {[kind |-> "white", listed |-> FALSE], [kind |-> "black", listed |-> TRUE]}
    /\ sinks = <<"file">> /\ mutex = nobody /\ queue = <<>>
    /\ pass = [a \in Actors |-> Idle]
    /\ pc = [t \in Clients |-> "idle"]
    /\ sent = [t \in Clients |-> 0] /\ changes = 0
    /\ out = [s \in SinkNames |-> <<>>]
    /\ due = <<>>
    /\ refused = Info + 1

-----------------------------------------------------------------------------
(* Policies.  An entry has a uid or none.                                  *)

UIDWhitelist(sev, uid) == ~uid \/ sev <= 2 \/ policy.listed
UIDBlacklist(sev, uid) == ~uid \/ sev <= 2 \/ ~policy.listed
transform_filter(sev, uid) ==
    IF policy.kind = "white" THEN UIDWhitelist(sev, uid) ELSE UIDBlacklist(sev, uid)

-----------------------------------------------------------------------------
(* submit().                                                               *)

Ready(t) == pc[t] = "idle" /\ pass[t] = Idle

Refuse == \E t \in Clients, sev \in {Fatal, Warn, Info}, uid \in BOOLEAN :
    /\ Ready(t) /\ sev <= level /\ ~transform_filter(sev, uid)
    /\ refused' = IF sev < refused THEN sev ELSE refused
    /\ UNCHANGED <<async, level, policy, sinks, mutex, queue, pass, pc, sent, changes, out, due>>

\* A fatal entry sends the thread to shutdown() or, without job system, to the
\* last flush.
submit(t, sev) ==
    LET entry == <<t, sent[t] + 1>>
    IN  /\ sent[t] < MaxEntries /\ sent' = [sent EXCEPT ![t] = @ + 1]
        /\ due' = Append(due, [entry |-> entry, sinks |-> ToSet(sinks)])
        /\ IF async THEN queue' = Append(queue, entry) /\ UNCHANGED pass
           ELSE pass' = [pass EXCEPT ![t] = Loop("log", entry)] /\ UNCHANGED queue
        /\ pc' = IF sev = Fatal THEN [pc EXCEPT ![t] = IF async THEN "shutdown" ELSE "flush"] ELSE pc

Submit == \E t \in Clients, sev \in {Fatal, Warn, Info}, uid \in BOOLEAN :
    /\ Ready(t) /\ (t = "main" \/ async \/ ~Disciplined)
    /\ sev <= level /\ transform_filter(sev, uid)
    /\ submit(t, sev)
    /\ UNCHANGED <<async, level, policy, sinks, mutex, changes, out, refused>>

-----------------------------------------------------------------------------
(* The loops over the sinks: entries and flushes.                          *)

\* The worker pops a logging job, which locks.
TakeEntry ==
    /\ queue # <<>> /\ pass["logger"] = Idle /\ pc["main"] \notin {"joined", "flush", "exited"}
    /\ mutex = nobody /\ mutex' = "logger"
    /\ queue' = Tail(queue)
    /\ pass' = [pass EXCEPT !["logger"] = Loop("log", Head(queue))]
    /\ UNCHANGED <<async, level, policy, sinks, pc, sent, changes, out, due, refused>>

EnterSink(a) ==
    /\ pass[a] # Idle /\ ~pass[a].inside /\ pass[a].i <= Len(sinks)
    /\ pass' = [pass EXCEPT ![a].inside = TRUE]
    /\ UNCHANGED <<async, level, policy, sinks, mutex, queue, pc, sent, changes, out, due, refused>>

LeaveSink(a) ==
    /\ pass[a].inside
    /\ pass' = [pass EXCEPT ![a].inside = FALSE, ![a].i = @ + 1]
    /\ out' = IF pass[a].work = "log" THEN [out EXCEPT ![sinks[pass[a].i]] = Append(@, pass[a].entry)] ELSE out
    /\ UNCHANGED <<async, level, policy, sinks, mutex, queue, pc, sent, changes, due, refused>>

\* MUTANT: the lock is kept.
EndLoopLocked(a) ==
    /\ pass[a] # Idle /\ ~pass[a].inside /\ pass[a].i > Len(sinks)
    /\ pass' = [pass EXCEPT ![a] = Idle]
    /\ UNCHANGED <<async, level, policy, sinks, mutex, queue, pc, sent, changes, out, due, refused>>

EndLoop(a) ==
    /\ pass[a] # Idle /\ ~pass[a].inside /\ pass[a].i > Len(sinks)
    /\ pass' = [pass EXCEPT ![a] = Idle]
    /\ mutex' = IF mutex = a THEN nobody ELSE mutex
    /\ UNCHANGED <<async, level, policy, sinks, queue, pc, sent, changes, out, due, refused>>

-----------------------------------------------------------------------------
(* The end of the program.                                                 *)

JobsDone == \A t \in Threads : pc[t] = "done"
NoJobPending == JobsDone /\ queue = <<>> /\ pass["logger"] = Idle

EndJob == \E t \in Threads :
    /\ Ready(t)
    /\ pc' = [pc EXCEPT ![t] = "done"]
    /\ UNCHANGED <<async, level, policy, sinks, mutex, queue, pass, sent, changes, out, due, refused>>

\* MUTANT: shutdown() does not wait for pending jobs.
ShutdownEarly ==
    /\ pc["main"] = "shutdown"
    /\ JobsDone
    /\ async' = FALSE /\ pc' = [pc EXCEPT !["main"] = "flush"]
    /\ UNCHANGED <<level, policy, sinks, mutex, queue, pass, sent, changes, out, due, refused>>

\* shutdown() by the main thread: once no job is pending the workers are
\* joined.  A worker that calls it waits for its own job and never returns.
Shutdown ==
    /\ pc["main"] = "shutdown"
    /\ NoJobPending
    /\ async' = FALSE /\ pc' = [pc EXCEPT !["main"] = "flush"]
    /\ UNCHANGED <<level, policy, sinks, mutex, queue, pass, sent, changes, out, due, refused>>

\* abort(), in the handler of a signal that reached the main thread between two
\* calls: the workers end the jobs they are in; one that waits in shutdown() is
\* cancelled after a timeout.
Abort ==
    /\ async /\ Ready("main")
    /\ pc' = [pc EXCEPT !["main"] = "abort"]
    /\ UNCHANGED <<async, level, policy, sinks, mutex, queue, pass, sent, changes, out, due, refused>>

Joined ==
    /\ pc["main"] = "abort"
    /\ pass["logger"] = Idle
    /\ \A t \in Threads : pc[t] \in {"done", "shutdown"}
    /\ async' = FALSE /\ pc' = [pc EXCEPT !["main"] = "joined"]
    /\ UNCHANGED <<level, policy, sinks, mutex, queue, pass, sent, changes, out, due, refused>>

\* panic(): the main thread runs the essential jobs left in the queue.
Panic ==
    /\ pc["main"] = "joined" /\ pass["main"] = Idle
    /\ IF queue # <<>>
       THEN /\ mutex = nobody /\ mutex' = "main"
            /\ queue' = Tail(queue)
            /\ pass' = [pass EXCEPT !["main"] = Loop("log", Head(queue))]
            /\ UNCHANGED pc
       ELSE pc' = [pc EXCEPT !["main"] = "exited"] /\ UNCHANGED <<mutex, queue, pass>>
    /\ UNCHANGED <<async, level, policy, sinks, sent, changes, out, due, refused>>

\* The flush after a fatal entry; exit() follows the loop.
FlushAndExit == \E t \in Clients :
    /\ pc[t] = "flush" /\ pass[t] = Idle
    /\ pass' = [pass EXCEPT ![t] = Loop("flush", <<>>)]
    /\ pc' = [pc EXCEPT ![t] = "exited"]
    /\ UNCHANGED <<async, level, policy, sinks, mutex, queue, sent, changes, out, due, refused>>

-----------------------------------------------------------------------------
(* Calls of the main thread on the channel.                                *)

Change == Ready("main") /\ changes < MaxChanges /\ changes' = changes + 1

\* A sink that is attached twice gets everything twice; no client does that.
AttachSink(s) ==
    /\ Change /\ mutex = nobody /\ s \notin ToSet(sinks)
    /\ sinks' = Append(sinks, s)
    /\ UNCHANGED <<async, level, policy, mutex, queue, pass, pc, sent, out, due, refused>>

DetachSink(s) ==
    /\ Change /\ mutex = nobody
    /\ \E i \in DOMAIN sinks : sinks[i] = s /\ sinks' = RemoveAt(sinks, i)
    /\ due' = [k \in DOMAIN due |-> [due[k] EXCEPT !.sinks = @ \ {s}]]
    /\ UNCHANGED <<async, level, policy, mutex, queue, pass, pc, sent, out, refused>>

SetSeverityLevel ==
    /\ Change
    /\ level' \in {Warn, Info} \ {level}
    /\ UNCHANGED <<async, policy, sinks, mutex, queue, pass, pc, sent, out, due, refused>>

\* add() and remove() of the UID filter
ChangeFilter ==
    /\ Change
    /\ policy' = [policy EXCEPT !.listed = ~@]
    /\ UNCHANGED <<async, level, sinks, mutex, queue, pass, pc, sent, out, due, refused>>

flush ==
    /\ Change
    /\ async /\ Disciplined => NoJobPending
    /\ pass' = [pass EXCEPT !["main"] = Loop("flush", <<>>)]
    /\ UNCHANGED <<async, level, policy, sinks, mutex, queue, pc, sent, out, due, refused>>

set_async ==
    /\ Change
    /\ async /\ Disciplined => NoJobPending
    /\ async' = ~async
    /\ UNCHANGED <<level, policy, sinks, mutex, queue, pass, pc, sent, out, due, refused>>

-----------------------------------------------------------------------------
Next ==
    \/ Refuse \/ Submit \/ TakeEntry \/ EndJob
    \/ \E a \in Actors : EnterSink(a) \/ LeaveSink(a) \/ EndLoop(a)
    \/ Shutdown \/ Abort \/ Joined \/ Panic \/ FlushAndExit
    \/ \E s \in SinkNames : AttachSink(s) \/ DetachSink(s)
    \/ SetSeverityLevel \/ ChangeFilter \/ flush \/ set_async

\* Loops go on; the worker takes its jobs until abort() tells it to stop, and
\* abort() waits for jobs that end.
Fairness ==
    /\ WF_vars(TakeEntry /\ pc["main"] # "abort") /\ WF_vars(Joined) /\ WF_vars(Panic)
    /\ WF_vars(EndJob /\ pc["main"] = "abort")
    /\ \A a \in Actors : WF_vars(EnterSink(a)) /\ WF_vars(LeaveSink(a)) /\ WF_vars(EndLoop(a))

Spec == Init /\ [][Next]_vars /\ Fairness

-----------------------------------------------------------------------------
(* "Sink access is synchronized by a mutex": no two actors are inside the  *)
(* same sink, none of which is safe against it, and the list of sinks does *)
(* not change below one that walks it.                                     *)
SinkExclusive ==
    /\ \A a \in Actors : pass[a].inside => pass[a].i \in DOMAIN sinks
    /\ \A a, b \in Actors :
         a # b /\ pass[a].inside /\ pass[b].inside => sinks[pass[a].i] # sinks[pass[b].i]

(* A sink receives the entries of a thread in the order they were made,    *)
(* and none twice, whatever the mode and whoever writes them.              *)
LogOrder ==
    \A s \in SinkNames : \A i, j \in DOMAIN out[s] :
        i < j /\ out[s][i][1] = out[s][j][1] => out[s][i][2] < out[s][j][2]

(* When the program ends by a fatal entry or a signal, every accepted      *)
(* entry has reached the sinks that were attached since: "force JobSystem  *)
(* to finish pending logging tasks before the program ends".               *)
Delivered(d) == \A s \in d.sinks : d.entry \in ToSet(out[s])
EndComplete == pc["main"] = "exited" => \A k \in DOMAIN due : Delivered(due[k])

(* A policy never refuses a warning, an error or a fatal entry, which      *)
(* would keep the program running.                                         *)
SevereKept == refused > Warn

(* The sinks are used by one thread at a time, get the entries of a thread *)
(* in order, and all of them before the program ends; no severe entry is   *)
(* filtered out.                                                           *)
LogSound == SinkExclusive /\ LogOrder /\ EndComplete /\ SevereKept

(* Every accepted entry reaches its sinks, also from a worker that hangs   *)
(* in shutdown(): nobody keeps the lock and no entry is forgotten.         *)
AllDelivered == \A k \in 1 .. (MaxEntries * Cardinality(Clients)) :
    k \in DOMAIN due ~> k \in DOMAIN due /\ Delivered(due[k])

-----------------------------------------------------------------------------
(* The inductive invariant of LogSound, when Disciplined holds.            *)

Entry == Clients \X Nat
Walk == [work : {"none", "log", "flush"}, entry : Entry \union {<<>>}, i : Nat, inside : BOOLEAN]
PC == {"idle", "done", "shutdown", "flush", "abort", "joined", "exited"}

TypeOK ==
    /\ async \in BOOLEAN /\ sinks \in Seq(SinkNames) /\ queue \in Seq(Entry)
    /\ pass \in [Actors -> Walk] /\ pc \in [Clients -> PC] /\ sent \in [Clients -> Nat]
    /\ out \in [SinkNames -> Seq(Entry)]
    /\ due \in Seq([entry : Entry, sinks : SUBSET SinkNames])
    /\ policy \in [kind : {"white", "black"}, listed : BOOLEAN]

(* A loop stands before a sink, in it or behind the last.                  *)
WalksOK == \A a \in Actors :
    pass[a] # Idle =>
        /\ pass[a].i \in 1 .. Len(sinks) + 1 /\ (pass[a].inside => pass[a].i <= Len(sinks))
        /\ pass[a].work = "log" => pass[a].entry \in Entry

(* Who can be in a loop, in which mode, and what may be waiting then.      *)
ModesOK ==
    /\ \A t \in Threads : pass[t] = Idle /\ pc[t] \in {"idle", "done", "shutdown"}
    /\ pass["logger"] # Idle => mutex = "logger"
    /\ ~async => pass["logger"] = Idle /\ (queue = <<>> \/ pc["main"] = "joined")
    /\ pass["main"] # Idle => pass["logger"] = Idle /\ (async => queue = <<>> /\ JobsDone)
    /\ pc["main"] \in {"joined", "flush", "exited"} => ~async
    /\ pc["main"] = "exited" => pass["main"].work # "log"

(* No sink is in the list twice; of a thread, what is out comes before     *)
(* what is being written and this before what is queued, in order.         *)
Before(e, f) == e[1] = f[1] => e[2] < f[2]
Made(e) == e[2] <= sent[e[1]]
Ahead(a, s) == pass[a].work = "log" /\ \E m \in pass[a].i .. Len(sinks) : sinks[m] = s
SinksOnce == \A i, j \in DOMAIN sinks : sinks[i] = sinks[j] => i = j
QueueOrder ==
    /\ \A i \in DOMAIN queue : Made(queue[i])
    /\ \A i, j \in DOMAIN queue : i < j => Before(queue[i], queue[j])
PassOrder == \A a \in Actors :
    pass[a].work = "log" =>
        Made(pass[a].entry) /\ \A i \in DOMAIN queue : Before(pass[a].entry, queue[i])
OutOrder == \A s \in SinkNames : \A k \in DOMAIN out[s] :
    /\ Made(out[s][k])
    /\ \A i \in DOMAIN queue : Before(out[s][k], queue[i])
    /\ \A a \in Actors : Ahead(a, s) => Before(out[s][k], pass[a].entry)

(* Nothing is lost: an entry a sink has to get is out, being written or    *)
(* queued.                                                                 *)
Kept == \A k \in DOMAIN due : \A s \in due[k].sinks :
    /\ \E i \in DOMAIN sinks : sinks[i] = s
    /\ \/ \E i \in DOMAIN out[s] : out[s][i] = due[k].entry
       \/ \E i \in DOMAIN queue : queue[i] = due[k].entry
       \/ \E a \in Actors : Ahead(a, s) /\ pass[a].entry = due[k].entry

Inv ==
    /\ TypeOK /\ WalksOK /\ ModesOK /\ SinksOnce /\ QueueOrder /\ PassOrder /\ OutOrder
    /\ LogOrder /\ Kept /\ SevereKept
=============================================================================
