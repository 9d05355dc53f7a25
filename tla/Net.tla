--------------------------------- MODULE Net ---------------------------------
(***************************************************************************)
(* TCPAcceptor, TCPConnector, TCPStream (net/) and the NetSink of the      *)
(* logger, as far as the descriptors of their sockets go.  The kernel      *)
(* gives out the lowest descriptor that is free, so one that was closed    *)
(* soon belongs to somebody else.                                          *)
(***************************************************************************)
EXTENDS Integers, FiniteSets, FiniteSetsExt

CONSTANTS
    MaxFd      \* bound: descriptors, from 3 on

VARIABLES
    open,      \* the descriptors the program has open
    acceptor,  \* the acceptor: whether it exists, lfd_ and listening_
    accepted,  \* the descriptors of the streams accept() returned
    sink,      \* the descriptor of the stream of the NetSink, 0 for none
    leaked     \* descriptors nobody refers to any more

vars == <<open, acceptor, accepted, sink, leaked>>

Fds == 3 .. MaxFd
Free == Fds \ open

\* What socket() and accept() may return: they may fail at any time, and must
\* when no descriptor is left.
Failed == -1
socket == {Failed} \union IF Free = {} THEN {} ELSE {Min(Free)}
Valid(fd) == {fd} \ {0, Failed}

Init ==
    /\ open = {} /\ accepted = {} /\ sink = 0 /\ leaked = {}
    /\ acceptor = [alive |-> TRUE, lfd |-> 0, listening |-> FALSE]

\* What start() forgets when it makes a new socket.
Forgotten == Valid(acceptor.lfd)

\* MUTANT: a socket that could not be bound is closed, but lfd_ keeps its number.
StartFailsClosing == \E fd \in socket :
    /\ acceptor.alive /\ ~acceptor.listening
    /\ acceptor' = [acceptor EXCEPT !.lfd = fd]
    /\ UNCHANGED <<open, accepted, sink, leaked>>

\* start(), when bind() or listen() fails, as they do after socket() failed: the
\* result of socket() is unchecked, and lfd_ may become -1.  A socket stays open
\* until the destructor, or until a second start() forgets it.
StartFails == \E fd \in socket :
    /\ acceptor.alive /\ ~acceptor.listening
    /\ acceptor' = [acceptor EXCEPT !.lfd = fd]
    /\ open' = open \union Valid(fd)
    /\ leaked' = leaked \union Forgotten
    /\ UNCHANGED <<accepted, sink>>

Start == \E fd \in socket \ {Failed} :
    /\ acceptor.alive /\ ~acceptor.listening
    /\ acceptor' = [acceptor EXCEPT !.lfd = fd, !.listening = TRUE]
    /\ open' = open \union {fd}
    /\ leaked' = leaked \union Forgotten
    /\ UNCHANGED <<accepted, sink>>

\* An accept() that fails returns no stream and changes nothing.
Accept == \E fd \in socket \ {Failed} :
    /\ acceptor.alive /\ acceptor.listening
    /\ accepted' = accepted \union {fd}
    /\ open' = open \union {fd}
    /\ UNCHANGED <<acceptor, sink, leaked>>

\* The destructor closes what is not 0; closing -1 does nothing.

DestroyAcceptor ==
    /\ acceptor.alive
    /\ acceptor' = [acceptor EXCEPT !.alive = FALSE]
    /\ open' = open \ {acceptor.lfd}
    /\ UNCHANGED <<accepted, sink, leaked>>

\* The caller deletes a stream.
DestroyStream == \E fd \in accepted :
    /\ accepted' = accepted \ {fd}
    /\ open' = open \ {fd}
    /\ UNCHANGED <<acceptor, sink, leaked>>

\* NetSink::connect(); the stream of an earlier call, and the socket of a call
\* that fails, as it does after socket() failed, are forgotten.
Connect == \E fd \in socket, success \in BOOLEAN :
    /\ success => fd # Failed
    /\ open' = open \union Valid(fd)
    /\ sink' = IF success THEN fd ELSE 0
    /\ leaked' = leaked \union (IF success THEN {} ELSE Valid(fd)) \union Valid(sink)
    /\ UNCHANGED <<acceptor, accepted>>

DestroySink ==
    /\ sink # 0
    /\ sink' = 0
    /\ open' = open \ {sink}
    /\ UNCHANGED <<acceptor, accepted, leaked>>

\* A new acceptor
NewAcceptor ==
    /\ ~acceptor.alive
    /\ acceptor' = [alive |-> TRUE, lfd |-> 0, listening |-> FALSE]
    /\ UNCHANGED <<open, accepted, sink, leaked>>

Next ==
    \/ StartFails \/ Start \/ Accept \/ DestroyAcceptor \/ NewAcceptor \/ DestroyStream
    \/ Connect \/ DestroySink

Spec == Init /\ [][Next]_vars

-----------------------------------------------------------------------------
(* Every object that is alive has a descriptor of its own, which nobody    *)
(* else has closed, or none: an object closes each of its descriptors      *)
(* once, before the kernel can give the number to another.  An acceptor    *)
(* that listens has one, also when calls of socket() failed.               *)
FdExclusive ==
    LET listening == IF acceptor.alive THEN Valid(acceptor.lfd) ELSE {}
        sending == Valid(sink)
    IN  /\ acceptor.alive /\ acceptor.listening => acceptor.lfd \in open
        /\ listening \union sending \union accepted \subseteq open
        /\ listening \intersect (sending \union accepted \union leaked) = {}
        /\ sending \intersect (accepted \union leaked) = {}
        /\ accepted \intersect leaked = {}

(* The inductive invariant: what leaked is still open, so that the kernel  *)
(* does not give it out again, and neither 0 nor -1 is a descriptor.       *)
Inv ==
    /\ open \subseteq Fds /\ accepted \subseteq Fds /\ leaked \subseteq open
    /\ acceptor \in [alive : BOOLEAN, lfd : Fds \union {0, Failed}, listening : BOOLEAN]
    /\ sink \in Fds \union {0}
    /\ FdExclusive
=============================================================================
