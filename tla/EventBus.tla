------------------------------- MODULE EventBus -------------------------------
(***************************************************************************)
(* kb::event::EventBus and its EventQueues (source/kibble/event).  The bus *)
(* is used by one thread; what makes it delicate is that handlers run in   *)
(* the middle of dispatch() and fire() and call back into the bus.  One    *)
(* action is a call of the client, or the stretch of dispatch() or fire()  *)
(* between two handlers.                                                   *)
(*                                                                         *)
(* Event types are numbers, in the order of their ids in the std::map;     *)
(* events are numbered in the order in which they are enqueued or fired.   *)
(* A handler does not touch the list or the queue of the event type it is  *)
(* being called for, except by enqueue(): the code iterates over them.     *)
(***************************************************************************)
EXTENDS Integers, FiniteSets, SequencesExt

CONSTANTS
    TypeCount,      \* the number of event types
    Handlers,       \* functions and instances that can be subscribed
    Priorities,
    Timeout,        \* whether dispatch() is given a timeout
    StableSize,     \* the longest list std::sort sorts stably (16 in libstdc++)
    MaxEvents       \* bound: the number of events

EventTypes == 1 .. TypeCount

ASSUME BusAssumption ==
    /\ TypeCount \in Nat \ {0}
    /\ Priorities \subseteq Nat
    /\ Timeout \in BOOLEAN
    /\ StableSize \in Nat
    /\ MaxEvents \in Nat

VARIABLES
    entry,      \* event_queues_: no entry, a null pointer or a queue
    delegates,  \* EventQueue::delegates_
    queue,      \* EventQueue::queue_
    pc,         \* where dispatch() or fire() is
    at,         \* the event type in hand
    it,         \* the reverse iterator over delegates[at]
    firing,     \* the call is fire(), not dispatch()
    events,     \* the number of events so far
    regs,       \* history: the handlers of a type in the order of registration
    called,     \* history: the handlers called for the event in hand
    owed        \* history: the events enqueued, neither dropped nor shown to handlers yet

busVars  == <<entry, delegates, queue, regs>>
callVars == <<pc, at, it, firing, called>>
vars     == <<busVars, callVars, events, owed>>

Entry    == {"absent", "null", "queue"}
PC       == {"client", "empty", "process", "deliver", "handler", "pop", "crashed"}
HandlersOf(ty) == {delegates[ty][i].handler : i \in DOMAIN delegates[ty]}

-----------------------------------------------------------------------------
Init ==
    /\ entry = [ty \in EventTypes |-> "absent"]
    /\ delegates = [ty \in EventTypes |-> <<>>]
    /\ queue = [ty \in EventTypes |-> <<>>]
    /\ pc = "client"
    /\ at = 1
    /\ it = 0
    /\ firing = FALSE
    /\ events = 0
    /\ regs = [ty \in EventTypes |-> <<>>]
    /\ called = {}
    /\ owed = {}

(* The bus is called by the client between two calls, and by a handler:    *)
(* for another event type than its own, enqueue() and has_queue() apart.   *)
Free(ty) == pc = "client" \/ (pc = "handler" /\ ty # at)
Reentrant == pc \in {"client", "handler"}

(* std::sort by priority: stable up to StableSize elements, so that a new  *)
(* delegate comes to lie behind those of its own priority; any order of    *)
(* equal priorities beyond.                                                *)
Ordered(s) == \A i, j \in 1 .. Len(s) : i < j => s[i].priority <= s[j].priority
Behind(s, d) ==
    {k \in 0 .. Len(s) : /\ \A i \in 1 .. k : s[i].priority <= d.priority
                         /\ \A i \in k + 1 .. Len(s) : s[i].priority > d.priority}
Sort(s, d) ==
    IF Len(s) < StableSize THEN {InsertAt(s, k + 1, d) : k \in Behind(s, d)}
    ELSE {q \in SetToSeqs(ToSet(s) \union {d}) : Ordered(q)}

Subscribe(ty, h, p) ==
    /\ Free(ty)
    /\ entry' = [entry EXCEPT ![ty] = "queue"]
    /\ IF h \in HandlersOf(ty)
       THEN UNCHANGED <<delegates, regs>>
       ELSE /\ \E s \in Sort(delegates[ty], [handler |-> h, priority |-> p]) :
                    delegates' = [delegates EXCEPT ![ty] = s]
            /\ regs' = [regs EXCEPT ![ty] = Append(@, h)]
    /\ UNCHANGED <<queue, callVars, events, owed>>

Unsubscribe(ty, h) ==
    /\ Free(ty)
    /\ entry' = [entry EXCEPT ![ty] = "queue"]
    /\ IF h \in HandlersOf(ty)
       THEN /\ \E i \in DOMAIN delegates[ty] :
                /\ delegates[ty][i].handler = h
                /\ delegates' = [delegates EXCEPT ![ty] = RemoveAt(@, i)]
            /\ \E i \in DOMAIN regs[ty] :
                /\ regs[ty][i] = h
                /\ regs' = [regs EXCEPT ![ty] = RemoveAt(@, i)]
       ELSE UNCHANGED <<delegates, regs>>
    /\ UNCHANGED <<queue, callVars, events, owed>>

(* Calls through a null pointer do not return.                             *)
Crash == pc' = "crashed" /\ UNCHANGED <<busVars, at, it, firing, called, events, owed>>

Enqueue(ty) ==
    /\ Reentrant
    /\ entry[ty] # "absent"
    /\ events < MaxEvents
    /\ IF entry[ty] = "null" THEN Crash
       ELSE /\ events' = events + 1
            /\ queue' = [queue EXCEPT ![ty] = Append(@, events')]
            /\ owed' = owed \union {events'}
            /\ UNCHANGED <<entry, delegates, regs, callVars>>

(* drop<EventT>() and drop().                                              *)
Drop(ty) ==
    /\ Free(ty)
    /\ entry[ty] # "absent"
    /\ IF entry[ty] = "null" THEN Crash
       ELSE /\ queue' = [queue EXCEPT ![ty] = <<>>]
            /\ owed' = owed \ ToSet(queue[ty])
            /\ UNCHANGED <<entry, delegates, regs, callVars, events>>

DropAll ==
    /\ pc = "client"
    /\ IF \E ty \in EventTypes : entry[ty] = "null" THEN Crash
       ELSE /\ queue' = [ty \in EventTypes |-> <<>>]
            /\ owed' = {}
            /\ UNCHANGED <<entry, delegates, regs, callVars, events>>

(* has_queue() indexes the map and so creates a null entry.                *)
HasQueue(ty) ==
    /\ Reentrant
    /\ entry' = [entry EXCEPT ![ty] = IF @ = "absent" THEN "null" ELSE @]
    /\ UNCHANGED <<delegates, queue, regs, callVars, events, owed>>

-----------------------------------------------------------------------------
(* fire() by the client: the event is delivered at once.                   *)
Fire(ty) ==
    /\ pc = "client"
    /\ entry[ty] # "absent"
    /\ events < MaxEvents
    /\ IF entry[ty] = "null" THEN Crash
       ELSE /\ events' = events + 1
            /\ at' = ty
            /\ it' = Len(delegates[ty])
            /\ firing' = TRUE
            /\ called' = {}
            /\ pc' = "deliver"
            /\ UNCHANGED <<busVars, owed>>

BeginDispatch ==
    /\ pc = "client"
    /\ pc' = "empty"
    /\ at' = 1
    /\ UNCHANGED <<busVars, it, firing, called, events, owed>>

(* while (!empty()): empty() goes through the queues up to the first one   *)
(* that has events.                                                        *)
AllEmpty    == \A ty \in EventTypes : queue[ty] = <<>>
NullInFront ==
    \E ty \in EventTypes : entry[ty] = "null" /\ \A u \in 1 .. ty - 1 : queue[u] = <<>>

(* Mutant: the queues are gone through once.                               *)
DispatchOnce ==
    /\ pc = "empty"
    /\ IF AllEmpty \/ at = TypeCount
       THEN pc' = "client" /\ UNCHANGED at
       ELSE at' = 1 /\ pc' = "process"
    /\ UNCHANGED <<busVars, it, firing, called, events, owed>>

DispatchLoop ==
    /\ pc = "empty"
    /\ IF NullInFront THEN Crash
       ELSE /\ IF AllEmpty
               THEN pc' = "client" /\ UNCHANGED at
               ELSE at' = 1 /\ pc' = "process"
            /\ UNCHANGED <<busVars, it, firing, called, events, owed>>

(* EventQueue::process: the next event of the queue, or the next queue of  *)
(* the loop of dispatch().                                                 *)
Process ==
    /\ pc = "process"
    /\ CASE entry[at] = "null" -> Crash
         [] queue[at] # <<>> ->
                /\ it' = Len(delegates[at])
                /\ called' = {}
                /\ pc' = "deliver"
                /\ UNCHANGED <<busVars, at, firing, events, owed>>
         [] OTHER ->
                /\ IF at = TypeCount THEN pc' = "empty" /\ UNCHANGED at
                   ELSE at' = at + 1 /\ UNCHANGED pc
                /\ UNCHANGED <<busVars, it, firing, called, events, owed>>

(* The delegates from last to first, until one returns true.               *)
(* Mutant: the loop stops short of the first delegate.                     *)
AtEndEarly == it <= 1
AtEnd      == it = 0

Delivered ==
    /\ pc' = IF firing THEN "client" ELSE "pop"
    /\ firing' = FALSE
    /\ owed' = IF firing THEN owed ELSE owed \ {Head(queue[at])}

Deliver ==
    /\ pc = "deliver"
    /\ IF AtEnd
       THEN Delivered /\ UNCHANGED called
       ELSE /\ pc' = "handler"
            /\ called' = called \union {delegates[at][it].handler}
            /\ UNCHANGED <<firing, owed>>
    /\ UNCHANGED <<busVars, at, it, events>>

HandlerReturns(consumed) ==
    /\ pc = "handler"
    /\ IF consumed
       THEN Delivered /\ UNCHANGED it
       ELSE pc' = "deliver" /\ it' = it - 1 /\ UNCHANGED <<firing, owed>>
    /\ UNCHANGED <<busVars, at, called, events>>

(* The event is popped, then the clock is looked at.                       *)
(* Mutant: the event stays.                                                *)
PopForgotten == pc = "pop" /\ pc' = "process" /\ UNCHANGED <<busVars, at, it, firing, called, events, owed>>
Pop ==
    /\ pc = "pop"
    /\ queue' = [queue EXCEPT ![at] = Tail(@)]
    /\ pc' \in {"process"} \union (IF Timeout THEN {"client"} ELSE {})
    /\ UNCHANGED <<entry, delegates, regs, at, it, firing, called, events, owed>>

Step == DispatchLoop \/ Process \/ Deliver \/ (\E c \in BOOLEAN : HandlerReturns(c)) \/ Pop

Next ==
    \/ \E ty \in EventTypes :
        \/ Enqueue(ty) \/ Drop(ty) \/ HasQueue(ty) \/ Fire(ty)
        \/ \E h \in Handlers : Unsubscribe(ty, h) \/ \E p \in Priorities : Subscribe(ty, h, p)
    \/ DropAll
    \/ BeginDispatch
    \/ Step

Spec == Init /\ [][Next]_vars

(* A handler returns, and the thread inside dispatch() goes on.            *)
FairSpec == Spec /\ WF_vars(Step)

-----------------------------------------------------------------------------
(* Properties.                                                             *)

(* Every variable keeps its type: the iterator stays inside the list of    *)
(* delegates and only types that have a queue have delegates or events.    *)
TypeOK ==
    /\ entry \in [EventTypes -> Entry]
    /\ delegates \in [EventTypes -> Seq([handler : Handlers, priority : Priorities])]
    /\ queue \in [EventTypes -> Seq(1 .. MaxEvents)]
    /\ \A ty \in EventTypes : entry[ty] # "queue" => delegates[ty] = <<>> /\ queue[ty] = <<>>
    /\ pc \in PC
    /\ at \in EventTypes
    /\ it \in Nat
    /\ pc = "deliver" => it \in 0 .. Len(delegates[at])
    /\ pc = "handler" => it \in DOMAIN delegates[at]
    /\ firing \in BOOLEAN
    /\ events \in 0 .. MaxEvents
    /\ called \subseteq Handlers
    /\ owed \subseteq 1 .. events

Registered(ty, h) == CHOOSE i \in DOMAIN regs[ty] : regs[ty][i] = h

(* event_bus.h:385, subscribe: handlers with higher priority execute       *)
(* first, and of two with the same priority the last one to register.  The *)
(* list is walked backwards, so it must be sorted this way after every     *)
(* subscription and removal.                                               *)
HandlerOrder ==
    \A ty \in EventTypes : \A i, j \in DOMAIN delegates[ty] :
        LET d == delegates[ty][i]
            e == delegates[ty][j]
        IN  i < j => \/ d.priority < e.priority
                     \/ /\ d.priority = e.priority
                        /\ Registered(ty, d.handler) < Registered(ty, e.handler)

(* An event that no handler consumes reaches every handler subscribed to   *)
(* its type, in their order, whatever the handlers do to the bus meanwhile.*)
ReachesEveryHandler ==
    []HandlerOrder /\ [][(pc = "deliver" /\ pc' \in {"pop", "client"}) => called = HandlersOf(at)]_vars

(* event_bus.h:555, dispatch: true means that all events were processed.   *)
(* No event is still owed to its handlers, those that handlers enqueued in *)
(* a queue that the loop had already passed included.                      *)
DispatchesAll == [][(pc = "empty" /\ pc' = "client") => owed = {}]_vars

(* dispatch() returns, once the handlers stop enqueuing events, or has met *)
(* a null entry of has_queue().                                            *)
DispatchReturns == pc = "empty" ~> pc \in {"client", "crashed"}

-----------------------------------------------------------------------------
(* Why they hold.                                                          *)

(* With this many handlers no list is too long to be sorted stably.        *)
FewHandlers == IsFiniteSet(Handlers) /\ Cardinality(Handlers) <= StableSize

(* The delegates of a type are its registrations, each once, and sorted    *)
(* by priority and then by registration.                                   *)
Each(s, r) ==
    /\ \A i, j \in DOMAIN s : s[i].handler = s[j].handler => i = j
    /\ \A a, b \in DOMAIN r : r[a] = r[b] => a = b
    /\ \A i \in DOMAIN s : \E a \in DOMAIN r : r[a] = s[i].handler
    /\ \A a \in DOMAIN r : \E i \in DOMAIN s : r[a] = s[i].handler
Sorted(s, r) ==
    \A i, j \in DOMAIN s : i < j =>
        \/ s[i].priority < s[j].priority
        \/ /\ s[i].priority = s[j].priority
           /\ \A a, b \in DOMAIN r : r[a] = s[i].handler /\ r[b] = s[j].handler => a < b
Lists == \A ty \in EventTypes : Each(delegates[ty], regs[ty]) /\ Sorted(delegates[ty], regs[ty])

(* The handlers called are those behind the iterator, and where it points  *)
(* while one runs.                                                         *)
Walk ==
    /\ pc = "deliver" => called = {delegates[at][i].handler : i \in it + 1 .. Len(delegates[at])}
    /\ pc = "handler" => called = {delegates[at][i].handler : i \in it .. Len(delegates[at])}

(* What is owed lies in a queue; the event in hand is the first of its     *)
(* queue until it is popped.                                               *)
OwedQueued ==
    /\ \A e \in owed : \E ty \in EventTypes : \E i \in DOMAIN queue[ty] : queue[ty][i] = e
    /\ pc = "pop" => queue[at] # <<>> /\ Head(queue[at]) \notin owed
    /\ pc \in {"deliver", "handler"} /\ ~firing => queue[at] # <<>>

Inv == TypeOK /\ Walk /\ OwedQueued
=============================================================================
