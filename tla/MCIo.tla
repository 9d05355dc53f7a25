-------------------------------- MODULE MCIo --------------------------------
(***************************************************************************)
(* Files, packs, archives, checksums, logging and sockets on small         *)
(* instances: a behaviour picks one of them and makes its calls; the       *)
(* others stay as they were built.  Any files in any order are packed, the *)
(* streams are those of a pack that holds a directory.  At first one entry *)
(* of each tree of sync() may be a directory.                              *)
(***************************************************************************)
EXTENDS IoParts, TLC

CONSTANTS
    Ignored, Kinds, OffsetRange, BufferSize, MaxStreams, MaxOpened         \* PackFile

VARIABLES
    subject,   \* what the behaviour is about
    sample,    \* two sequences to build objects from that are archived
    builder, added, pack, base, streams, opened, last

pack_vars == <<builder, added, pack, base, streams, opened, last>>
all_vars == <<subject, sample, vars, save_vars, pack_vars, fs_vars, md5_vars, net_vars>>

(* Three files of a pack, one of them empty.                               *)
MCContent == "a" :> <<11, 12, 13>> @@ "b" :> <<21>> @@ "c" :> <<>>
(* Directories and a pack with a name in common.                           *)
MCDirs == "d1" :> {"a"} @@ "d2" :> {"b"} @@ "cwd" :> {"b"}
MCPacks == "p1" :> {"a"}

P == INSTANCE PackFile WITH Content <- MCContent

(* The contents of the objects that are archived, empty ones among them.   *)
Strings == {<<>>, <<1>>, <<1, 2>>, <<2, 2, 0>>}

MCInit ==
    /\ subject \in {"save", "pack", "streams", "archive", "sync", "path", "md5", "log", "net"}
    /\ Init /\ (subject # "log" => policy.listed)
    /\ S!Init /\ P!Init /\ M!Init /\ N!Init
    /\ F!Init /\ (subject # "sync" => source = F!EmptyDir /\ target = F!EmptyDir)
    /\ \A t \in {source, target} : t["b"].kind # "dir"
    /\ sample = <<<<>>, <<>>>>

(* The disjuncts differ in the component that makes a step.                *)
MCNext ==
    \/ subject = "log" /\ Next
         /\ UNCHANGED <<subject, sample, save_vars, pack_vars, fs_vars, md5_vars, net_vars>>
    \/ subject = "save" /\ S!Next
         /\ UNCHANGED <<subject, sample, vars, pack_vars, fs_vars, md5_vars, net_vars>>
    \/ subject = "pack" /\ P!BuilderNext
         /\ UNCHANGED <<subject, sample, vars, save_vars, fs_vars, md5_vars, net_vars>>
    \/ subject = "streams" /\ (P!AddDirectory \/ P!ExportPack \/ P!StreamNext)
         /\ UNCHANGED <<subject, sample, vars, save_vars, fs_vars, md5_vars, net_vars>>
    \/ subject = "sync" /\ F!SyncNext
         /\ UNCHANGED <<subject, sample, vars, save_vars, pack_vars, md5_vars, net_vars>>
    \/ subject = "path" /\ F!PathNext
         /\ UNCHANGED <<subject, sample, vars, save_vars, pack_vars, md5_vars, net_vars>>
    \/ subject = "md5" /\ M!Next
         /\ UNCHANGED <<subject, sample, vars, save_vars, pack_vars, fs_vars, net_vars>>
    \/ subject = "net" /\ N!Next
         /\ UNCHANGED <<subject, sample, vars, save_vars, pack_vars, fs_vars, md5_vars>>
    \/ subject = "archive" /\ sample' \in Strings \X Strings
         /\ UNCHANGED <<subject, vars, save_vars, pack_vars, fs_vars, md5_vars, net_vars>>

MCSpec == MCInit /\ [][MCNext]_all_vars /\ Fairness

-----------------------------------------------------------------------------
(* read() is the inverse of write(), also for containers in containers,    *)
(* and refuses what was cut.                                               *)
ArchiveRoundTrip == subject = "archive" =>
    LET s == sample[1]
        t == sample[2]
    IN  /\ P!RoundTrip(P!vector(P!string), <<s, t>>)
        /\ P!RoundTrip(P!pair(P!string, P!pod), <<s, Len(t)>>)
        /\ P!RoundTrip(P!array(2, P!vector(P!pod)), <<t, s>>)
        /\ P!RoundTrip(P!set(P!string), {s, t})
        /\ P!RoundTrip(P!map(P!pod, P!set(P!pod)), {<<1, ToSet(s)>>, <<2, ToSet(t)>>})
        /\ P!RoundTrip(P!tuple(<<P!pod, P!vector(P!pair(P!string, P!pod)), P!string>>),
                       <<7, <<<<s, 3>>, <<t, 0>>>>, s>>)

(* The index of an exported pack leads to the files that were added, a     *)
(* stream of the pack reads its own file and nothing else, and what was    *)
(* archived is read back.                                                  *)
PacksExact == P!PackExact /\ P!ReadsOwnFile /\ ArchiveRoundTrip

=============================================================================
