------------------------------- MODULE Archive ------------------------------
(***************************************************************************)
(* StreamSerializer, StreamDeserializer and the archivers of the standard  *)
(* types (filesystem/serialization).  A stream is a sequence of cells; a   *)
(* trivially serializable object, a size or a character is one cell.       *)
(*                                                                         *)
(* A type is a record with its kind and the types of its parts.  Strings,  *)
(* vectors, arrays, pairs and tuples are sequences, sets are sets, and a   *)
(* map is the set of its pairs.                                            *)
(***************************************************************************)
EXTENDS Integers, Sequences, FiniteSets, SequencesExt

pod == [kind |-> "pod"]
string == [kind |-> "string"]
vector(t) == [kind |-> "vector", of |-> t]
array(n, t) == [kind |-> "array", size |-> n, of |-> t]
tuple(ts) == [kind |-> "tuple", of |-> ts]
pair(t, u) == tuple(<<t, u>>)
set(t) == [kind |-> "set", of |-> t]
map(t, u) == [kind |-> "map", of |-> pair(t, u)]

-----------------------------------------------------------------------------
RECURSIVE write(_, _)

\* The parts one after the other.
write_all(types, parts) ==
    FoldLeft(LAMBDA cells, i : cells \o write(types[i], parts[i]), <<>>, [i \in DOMAIN parts |-> i])

write_elements(t, parts) == write_all([i \in DOMAIN parts |-> t], parts)

\* The size first, then the data.
write_string(object) == <<Len(object)>> \o object
write_tuple(t, object) == write_all(t.of, object)
write_array(t, object) == write_elements(t.of, object)
write_vector(t, object) == <<Len(object)>> \o write_elements(t.of, object)
write_set(t, object) == <<Cardinality(object)>> \o write_elements(t.of, SetToSeq(object))
write_map(t, object) == <<Cardinality(object)>> \o write_elements(t.of, SetToSeq(object))

write(t, object) ==
    CASE t.kind = "pod" -> <<object>>
      [] t.kind = "string" -> write_string(object)
      [] t.kind = "tuple" -> write_tuple(t, object)
      [] t.kind = "array" -> write_array(t, object)
      [] t.kind = "vector" -> write_vector(t, object)
      [] t.kind = "set" -> write_set(t, object)
      [] t.kind = "map" -> write_map(t, object)

-----------------------------------------------------------------------------
\* What a read leaves: whether the stream is good, the object and the rest of
\* the stream.
Result(ok, object, rest) == [ok |-> ok, object |-> object, rest |-> rest]
Bad == Result(FALSE, <<>>, <<>>)

read_blob(cells, n) ==
    IF n <= Len(cells) THEN Result(TRUE, SubSeq(cells, 1, n), SubSeq(cells, n + 1, Len(cells))) ELSE Bad

read_pod(cells) == IF cells = <<>> THEN Bad ELSE Result(TRUE, Head(cells), Tail(cells))

RECURSIVE read(_, _)

\* Parts one after the other, up to the first that cannot be read.
read_all(types, cells) ==
    FoldLeft(LAMBDA got, t :
                IF ~got.ok THEN got
                ELSE LET r == read(t, got.rest)
                     IN  IF r.ok THEN Result(TRUE, Append(got.object, r.object), r.rest) ELSE Bad,
             Result(TRUE, <<>>, cells), types)

read_elements(t, n, cells) == read_all([i \in 1 .. n |-> t], cells)

read_string(cells) ==
    LET size == read_pod(cells)
    IN  IF size.ok THEN read_blob(size.rest, size.object) ELSE Bad

read_tuple(t, cells) == read_all(t.of, cells)
read_array(t, cells) == read_elements(t.of, t.size, cells)

read_vector(t, cells) ==
    LET size == read_pod(cells)
    IN  IF size.ok THEN read_elements(t.of, size.object, size.rest) ELSE Bad

\* A key that comes twice is inserted once.
read_set(t, cells) ==
    LET r == read_vector(t, cells)
    IN  IF r.ok THEN Result(TRUE, Range(r.object), r.rest) ELSE Bad

\* The first value of a key stays.
read_map(t, cells) ==
    LET r == read_vector(t, cells)
        new(i) == \A j \in 1 .. i - 1 : r.object[j][1] # r.object[i][1]
    IN  IF r.ok THEN Result(TRUE, {r.object[i] : i \in {j \in DOMAIN r.object : new(j)}}, r.rest) ELSE Bad

read(t, cells) ==
    CASE t.kind = "pod" -> read_pod(cells)
      [] t.kind = "string" -> read_string(cells)
      [] t.kind = "tuple" -> read_tuple(t, cells)
      [] t.kind = "array" -> read_array(t, cells)
      [] t.kind = "vector" -> read_vector(t, cells)
      [] t.kind = "set" -> read_set(t, cells)
      [] t.kind = "map" -> read_map(t, cells)

-----------------------------------------------------------------------------
\* What is written is read back, and nothing of what follows with it; from a
\* stream that was cut anywhere, the reading reports failure.
RoundTrip(t, object) ==
    LET cells == write(t, object)
        whole == read(t, cells \o <<0, 0>>)
    IN  /\ whole.ok /\ whole.object = object /\ whole.rest = <<0, 0>>
        /\ \A n \in 0 .. Len(cells) - 1 : ~read(t, SubSeq(cells, 1, n)).ok
=============================================================================
