------------------------------ MODULE PackFile ------------------------------
(***************************************************************************)
(* Resource packs (filesystem/resource_pack.cpp): PackFileBuilder collects *)
(* files and exports them behind an index, PackFile reads the index back   *)
(* and opens PackFileStreams (stream/packfile_stream.cpp) on single files. *)
(* All streams of a pack share the one stream below them, which is a file  *)
(* or a block of memory (stream/memory_stream.cpp).                        *)
(*                                                                         *)
(* Paths stand for their hashes, which are taken to differ.  Positions are *)
(* counted in cells (see Archive) rather than bytes.                       *)
(***************************************************************************)
EXTENDS Archive, FiniteSetsExt

CONSTANTS
    Content,      \* the files of the directory: path -> sequence of characters
    Ignored,      \* what its kpakignore lists; {} when there is none
    Kinds,        \* what the pack is read from: "file", "memory"
    OffsetRange,  \* 2^32: values of a uint32_t
    BufferSize,   \* the characters a stream reads ahead
    MaxStreams,   \* bound: streams open at the same time
    MaxOpened     \* bound: streams opened one after the other

VARIABLES
    builder,   \* index, data_, current_offset_ and ignore_ of the builder, and the
               \* room it had to export to, -1 before
    added,     \* the paths add_file() has accepted
    pack,      \* the exported cells
    base,      \* of the PackFile: pak_, and base_stream_ with its kind, position
               \* and failbit
    streams,   \* the open streams: path, start_, size_, the get area, the
               \* position the client has reached, and whether the stream
               \* below is where this one left it
    opened,    \* how many were opened
    last       \* what the last call returned and what a file of its own
               \* would have, and whether the two are claimed to agree

vars == <<builder, added, pack, base, streams, opened, last>>

Paths == DOMAIN Content
eof == -1
sizeof_Header == 1
Magic == "KPAK"
PackIndex == map(pod, pod)
nothing == [got |-> 0, due |-> 0, claimed |-> FALSE]

Init ==
    /\ builder = [index |-> <<>>, data |-> <<>>, current_offset |-> 0, ignore |-> {}, room |-> -1]
    /\ added = {} /\ pack = <<>>
    /\ base \in [index : {{}}, kind : Kinds, pos : {0}, fail : {FALSE}]
    /\ streams = <<>> /\ opened = 0 /\ last = nothing

-----------------------------------------------------------------------------
(* The builder.                                                            *)

Indexed(b) == {e[1] : e \in Range(b.index)}

\* The data is kept whole; its offset and its size are of 32 bits.
uint32_t(n) == n % OffsetRange

add_file(b, path) ==
    LET size == uint32_t(Len(Content[path]))
    IN  IF path \in Indexed(b) THEN b
        ELSE [b EXCEPT !.data = @ \o Content[path],
                       !.index = Append(@, <<path, [offset |-> b.current_offset, size |-> size]>>),
                       !.current_offset = uint32_t(@ + size)]

check_ignore(b) == [b EXCEPT !.ignore = @ \union Ignored]

AddFile == \E path \in Paths :
    /\ builder.room = -1
    /\ builder' = add_file(builder, path)
    /\ added' = added \union {path}
    /\ UNCHANGED <<pack, base, streams, opened, last>>

\* The directory is walked in any order.
AddDirectory == \E order \in SetToSeqs(Paths) :
    LET b == check_ignore(builder)
        kept == SelectSeq(order, LAMBDA path : path \notin b.ignore)
    IN  /\ builder.room = -1
        /\ builder' = FoldLeft(add_file, b, kept)
        /\ added' = added \union (Paths \ b.ignore)
        /\ UNCHANGED <<pack, base, streams, opened, last>>

export_size_bytes(b) == sizeof_Header + (1 + 2 * Len(b.index)) + (1 + Len(b.data))

\* What an OutputMemoryStream of a given size takes; the stream goes bad when
\* the rest does not fit.
xsputn(cells, room) == SubSeq(cells, 1, Min({Len(cells), room}))

\* The index a PackFile reads back when it is constructed.
ReadIndex(cells) ==
    IF cells # <<>> /\ Head(cells) = Magic THEN read(PackIndex, Tail(cells)).object ELSE {}

\* To a block of memory that is large enough, or one cell too small.  A builder
\* exports once: its offsets are now those of the pack.
ExportPack == \E missing \in {0, 1} :
    LET size == export_size_bytes(builder)
        initial == size - Len(builder.data)
        moved == [i \in DOMAIN builder.index |->
                    <<builder.index[i][1], [builder.index[i][2] EXCEPT !.offset = uint32_t(@ + initial)]>>]
        cells == <<Magic>> \o <<Len(moved)>> \o write_elements(pair(pod, pod), moved)
                     \o write(vector(pod), builder.data)
    IN  /\ builder.room = -1 /\ added # {}
        /\ pack' = IF xsputn(cells, size - missing) = cells THEN cells ELSE <<>>
        /\ builder' = [builder EXCEPT !.index = moved, !.room = size - missing]
        /\ base' = [base EXCEPT !.index = ReadIndex(pack')]
        /\ UNCHANGED <<added, streams, opened, last>>

-----------------------------------------------------------------------------
(* The stream below.  A memory stream has no position behind its last cell. *)

base_seek(b, pos) ==
    IF b.fail THEN b
    ELSE IF b.kind = "memory" /\ pos >= Len(pack) THEN [b EXCEPT !.fail = TRUE]
    ELSE [b EXCEPT !.pos = pos]

base_tell(b) == IF b.fail \/ (b.kind = "memory" /\ b.pos >= Len(pack)) THEN -1 ELSE b.pos

\* xsgetn; fewer cells than asked for set failbit.
base_read(b, n) ==
    LET avail == IF b.fail THEN 0 ELSE Min({n, Len(pack) - b.pos})
    IN  [cells |-> SubSeq(pack, b.pos + 1, b.pos + avail),
         base |-> [b EXCEPT !.pos = @ + avail, !.fail = @ \/ avail < n]]

-----------------------------------------------------------------------------
(* The streams of single files, at the level of their std::streambuf.      *)

OpenAt(path, offset, size) ==
    [path |-> path, start |-> offset, size |-> size, area |-> <<>>, cursor |-> 0, placed |-> TRUE]

\* The streams when the stream below was moved for number i.
Displaced(i) == [k \in DOMAIN streams |-> [streams[k] EXCEPT !.placed = @ /\ k = i]]

GetInputStream == \E e \in base.index :
    /\ opened < MaxOpened /\ Len(streams) < MaxStreams
    /\ streams' = Append(Displaced(0), OpenAt(e[1], e[2].offset, e[2].size))
    /\ base' = base_seek(base, e[2].offset)
    /\ opened' = opened + 1
    /\ last' = nothing
    /\ UNCHANGED <<builder, added, pack>>

underflow(s, b) ==
    LET n == Min({BufferSize, s.size - (base_tell(b) - s.start)})
        got == base_read(b, n)
    IN  IF s.area # <<>> \/ n <= 0 THEN [area |-> s.area, base |-> b]
        ELSE [area |-> got.cells, base |-> got.base]

\* The client reads one character.
Get == \E i \in DOMAIN streams :
    LET s == streams[i]
        u == underflow(s, base)
    IN  /\ base' = u.base
        /\ streams' = [(IF u.base = base THEN streams ELSE Displaced(i)) EXCEPT
              ![i].area = IF u.area = <<>> THEN <<>> ELSE Tail(u.area),
              ![i].cursor = IF s.cursor < Len(Content[s.path]) THEN @ + 1 ELSE @]
        /\ last' = [got |-> IF u.area = <<>> THEN eof ELSE Head(u.area),
                    due |-> IF s.cursor < Len(Content[s.path])
                            THEN Content[s.path][s.cursor + 1] ELSE eof,
                    claimed |-> s.placed /\ base_tell(base) # -1]
        /\ UNCHANGED <<builder, added, pack, opened>>

\* MUTANT: what was read ahead is not taken back.
seek_from_ahead(s, b, dir, off) ==
    CASE dir = "beg" -> s.start + off
      [] dir = "cur" -> base_tell(b) + off
      [] dir = "end" -> s.start + s.size + off

seek_target(s, b, dir, off) ==
    CASE dir = "beg" -> s.start + off
      [] dir = "cur" -> base_tell(b) - Len(s.area) + off
      [] dir = "end" -> s.start + s.size + off

Due(s, dir, off) ==
    LET pos == CASE dir = "beg" -> off [] dir = "cur" -> s.cursor + off
                 [] dir = "end" -> Len(Content[s.path]) + off
    IN  IF pos \in 0 .. Len(Content[s.path]) THEN pos ELSE -1

\* seekg() and tellg()
Seek == \E i \in DOMAIN streams, dir \in {"beg", "cur", "end"}, off \in -1 .. 1 :
    LET s == streams[i]
        pos == seek_target(s, base, dir, off)
        inside == s.start <= pos /\ pos <= s.start + s.size
    IN  /\ base' = IF inside THEN base_seek(base, pos) ELSE base
        /\ streams' = [(IF inside THEN Displaced(i) ELSE streams) EXCEPT
              ![i].area = IF inside THEN <<>> ELSE @,
              ![i].placed = @ \/ (inside /\ dir # "cur"),
              ![i].cursor = IF Due(s, dir, off) = -1 THEN @ ELSE Due(s, dir, off)]
        /\ last' = [got |-> IF inside THEN pos - s.start ELSE -1, due |-> Due(s, dir, off),
                    claimed |-> dir # "cur" \/ (s.placed /\ base_tell(base) # -1)]
        /\ UNCHANGED <<builder, added, pack, opened>>

Close == \E i \in DOMAIN streams :
    /\ streams' = RemoveAt(streams, i)
    /\ last' = nothing
    /\ UNCHANGED <<builder, added, pack, base, opened>>

BuilderNext == AddFile \/ AddDirectory \/ ExportPack
StreamNext == GetInputStream \/ Get \/ Seek \/ Close
Next == BuilderNext \/ StreamNext

Spec == Init /\ [][Next]_vars

-----------------------------------------------------------------------------
(* The pack is small enough for its offsets: less than 4 GiB.              *)
Addressable == export_size_bytes(builder) <= OffsetRange

(* A block of export_size_bytes() is enough for the pack.  The index of    *)
(* the pack names the files that were added, each once, and leads to their *)
(* characters in whatever order they came.                                 *)
PackExact ==
    builder.room # -1 /\ Addressable =>
        /\ pack # <<>> <=> builder.room = export_size_bytes(builder)
        /\ pack # <<>> =>
             /\ {e[1] : e \in base.index} = added /\ Cardinality(base.index) = Cardinality(added)
             /\ \A e \in base.index :
                  SubSeq(pack, e[2].offset + 1, e[2].offset + e[2].size) = Content[e[1]]

(* A stream of the pack behaves as a file of its own as long as no other   *)
(* stream of the pack was opened, read or placed since it was opened or    *)
(* placed from the beginning or the end: every character it returns is the *)
(* next one of its file, every seek arrives where it should, the end is    *)
(* the end of the file.  Streams can take turns when each starts its turn  *)
(* with such a seek.  Nothing is claimed of streams used alternately       *)
(* without it, or of a pack in memory once its last byte was reached:      *)
(* those do not behave "as if they were separate files on the disk".       *)
ReadsOwnFile == last.claimed /\ Addressable => last.got = last.due
=============================================================================
