------------------------------ MODULE HashMap -------------------------------
(***************************************************************************)
(* ankerl::unordered_dense (util/unordered_dense.h), the hash table behind *)
(* the event bus and A*: the pairs lie in one vector without holes, and an *)
(* array of buckets holds, for each pair, its index, the distance from its *)
(* home bucket and a fingerprint of its hash.  Insertion is robin hood     *)
(* hashing, erasure shifts buckets back and moves the last pair.           *)
(*                                                                         *)
(* Loops that walk along the buckets are given by where they stop.  A hash *)
(* has HashBits bits: the top ones give the home bucket, the last one is   *)
(* the fingerprint.                                                        *)
(***************************************************************************)
EXTENDS Integers, Sequences, FiniteSets, FiniteSetsExt, SequencesExt

CONSTANTS
    Keys, Mapped,   \* the user's keys and values
    Hashes,         \* the hash functions to try: Keys -> 0 .. 2^HashBits - 1
    HashBits,       \* the width of a hash
    LoadFactors,    \* the maximal load factors to try, in tenths
    MaxContainer    \* bound on the length of the container given to replace()

VARIABLES
    hash_of,   \* the user's hash function
    table,     \* m_values, m_buckets, 64 - m_shifts, m_max_load_factor and
               \* m_max_bucket_capacity
    contents   \* the pairs the user has put into the table

vars == <<hash_of, table, contents>>

absent == "absent"
dist_inc == 2          \* one more than the fingerprint's mask
initial_bits == 2      \* 64 - initial_shifts
default_max_load_factor == 8

-----------------------------------------------------------------------------
(* Buckets.                                                                *)

EmptyBucket == [d |-> 0, v |-> 0]
calc_num_buckets(bits) == 2 ^ bits
num_buckets(t) == calc_num_buckets(t.bits)

\* The bucket i steps behind b, past the end to the first one.
next(t, b, i) == (b + i) % num_buckets(t)

\* The user's hash; any function of the key is one.
mixed_hash(k) == hash_of[k]

dist_and_fingerprint_from_hash(h) == dist_inc + (h % dist_inc)
bucket_idx_from_hash(t, h) == h \div (2 ^ (HashBits - t.bits))

\* The walk for a key: its i-th bucket, and the distance a pair would have there.
Walk(t, k, i) == t.buckets[next(t, bucket_idx_from_hash(t, mixed_hash(k)), i)]
DistAt(k, i) == dist_and_fingerprint_from_hash(mixed_hash(k)) + i * dist_inc
Steps(t) == 0 .. 2 * num_buckets(t)

Holds(t, bucket, k) == t.values[bucket.v + 1][1] = k

capacity_for(bits, lf) == (calc_num_buckets(bits) * lf) \div 10

allocate_buckets_from_shift(t, bits) ==
    [t EXCEPT !.bits = bits, !.capacity = capacity_for(bits, t.lf),
              !.buckets = [b \in 0 .. calc_num_buckets(bits) - 1 |-> EmptyBucket]]

clear_buckets(t) == [t EXCEPT !.buckets = [b \in DOMAIN t.buckets |-> EmptyBucket]]

\* The smallest number of bits, from the initial one, whose capacity is enough.
calc_shifts_for_size(t, s) ==
    Min({bits \in initial_bits .. HashBits : capacity_for(bits, t.lf) >= s} \union {HashBits})

\* Where a key not in the table belongs: the first bucket whose pair is no
\* farther from home.
next_while_less(t, k) == Min({i \in Steps(t) : DistAt(k, i) >= Walk(t, k, i).d})

\* The pairs from `place` to the next empty bucket move up by one.
place_and_shift_up(t, bucket, place) ==
    LET len == Min({i \in Steps(t) : t.buckets[next(t, place, i)].d = 0})
        moved(b) == \E i \in 1 .. len : next(t, place, i) = b
        below(b) == t.buckets[next(t, b, num_buckets(t) - 1)]
    IN  [t EXCEPT !.buckets = [b \in DOMAIN t.buckets |->
            IF b = place THEN bucket
            ELSE IF moved(b) THEN [below(b) EXCEPT !.d = @ + dist_inc] ELSE t.buckets[b]]]

place_at(t, k, v, i) ==
    place_and_shift_up(t, [d |-> DistAt(k, i), v |-> v],
                       next(t, bucket_idx_from_hash(t, mixed_hash(k)), i))

clear_and_fill_buckets_from_values(t) ==
    FoldLeft(LAMBDA u, v : place_at(u, t.values[v][1], v - 1, next_while_less(u, t.values[v][1])),
             clear_buckets(t), [v \in DOMAIN t.values |-> v])

is_full(t) == Len(t.values) > t.capacity

increase_size(t) ==
    clear_and_fill_buckets_from_values(allocate_buckets_from_shift(t, t.bits + 1))

-----------------------------------------------------------------------------
(* Searches.                                                               *)

\* The loop of do_find, do_try_emplace, emplace and replace: where the key is
\* found, or where it becomes certain that it is not in the table.
probe(t, k) ==
    Min({i \in Steps(t) : \/ DistAt(k, i) > Walk(t, k, i).d
                          \/ DistAt(k, i) = Walk(t, k, i).d /\ Holds(t, Walk(t, k, i), k)})

found(t, k) == DistAt(k, probe(t, k)) = Walk(t, k, probe(t, k)).d

\* The index of the pair, or the length for end().
do_find(t, k) ==
    IF t.values # <<>> /\ found(t, k) THEN Walk(t, k, probe(t, k)).v ELSE Len(t.values)

contains(t, k) == do_find(t, k) < Len(t.values)
do_at(t, k) == t.values[do_find(t, k) + 1]

\* The bucket that holds the pair of index v, looked for by this index alone.
bucket_of_value(t, v) ==
    LET k == t.values[v + 1][1]
    IN  next(t, bucket_idx_from_hash(t, mixed_hash(k)),
             Min({i \in Steps(t) : Walk(t, k, i).v = v}))

-----------------------------------------------------------------------------
(* Insertion and erasure, as functions of the table.                       *)

do_place_element(t, k, m, i) ==
    LET u == [t EXCEPT !.values = Append(@, <<k, m>>)]
    IN  IF is_full(u) THEN increase_size(u) ELSE place_at(u, k, Len(t.values), i)

do_try_emplace(t, k, m) ==
    IF found(t, k) THEN t ELSE do_place_element(t, k, m, probe(t, k))

\* emplace constructs the pair at the end first, and drops it again when the
\* key was there.
emplace(t, k, m) ==
    LET u == [t EXCEPT !.values = Append(@, <<k, m>>)]
    IN  IF found(u, k) THEN [u EXCEPT !.values = Front(@)]
        ELSE IF is_full(u) THEN increase_size(u) ELSE place_at(u, k, Len(t.values), probe(u, k))

do_insert_or_assign(t, k, m) ==
    IF found(t, k) THEN [t EXCEPT !.values[do_find(t, k) + 1] = <<k, m>>]
    ELSE do_try_emplace(t, k, m)

\* MUTANT: the erased bucket is emptied and the chain behind it left where it is.
shift_down_not(t, b) == [t EXCEPT !.buckets[b] = EmptyBucket]

\* The buckets behind b that are not at home move back by one.
shift_down(t, b) ==
    LET len == Min({i \in Steps(t) : t.buckets[next(t, b, i + 1)].d < 2 * dist_inc})
        target(c) == \E i \in 0 .. len - 1 : next(t, b, i) = c
    IN  [t EXCEPT !.buckets = [c \in DOMAIN t.buckets |->
            IF target(c) THEN [t.buckets[next(t, c, 1)] EXCEPT !.d = @ - dist_inc]
            ELSE IF c = next(t, b, len) THEN EmptyBucket ELSE t.buckets[c]]]

\* The last pair takes the place i.
back_into(values, i) == Front([values EXCEPT ![i] = Last(values)])

\* The last pair replaces the erased one, and its bucket learns the new index.
do_erase(t, b) ==
    LET v == t.buckets[b].v
        back == Len(t.values) - 1
        u == shift_down(t, b)
        k == Last(u.values)[1]
        of_back == next(t, bucket_idx_from_hash(t, mixed_hash(k)),
                        Min({i \in Steps(t) : Walk(u, k, i).v = back}))
    IN  IF v = back THEN [u EXCEPT !.values = Front(@)]
        ELSE [u EXCEPT !.values = back_into(t.values, v + 1), !.buckets[of_back].v = v]

\* Past the buckets with a larger distance, along those of the same.
do_erase_key(t, k) ==
    LET i == Min({j \in Steps(t) : j >= next_while_less(t, k)
                    /\ (DistAt(k, j) = Walk(t, k, j).d => Holds(t, Walk(t, k, j), k))})
    IN  IF t.values = <<>> \/ DistAt(k, i) # Walk(t, k, i).d THEN t
        ELSE do_erase(t, next(t, bucket_idx_from_hash(t, mixed_hash(k)), i))

\* erase(iterator)
erase_at(t, v) == do_erase(t, bucket_of_value(t, v))

\* erase(first, last): from the left as long as pairs behind the range can
\* fill the holes, then from the right.
erase_range(t, first, last) ==
    LET mid == first + Min({last - first, Len(t.values) - last})
        left == [i \in 1 .. mid - first |-> first + i - 1]
        right == [i \in 1 .. last - mid |-> last - i]
    IN  FoldLeft(erase_at, t, left \o right)

\* erase_if: from back to front.
erase_if(t, doomed) ==
    FoldLeft(LAMBDA u, i : IF u.values[i][1] \in doomed THEN erase_at(u, i - 1) ELSE u,
             t, Reverse([i \in DOMAIN t.values |-> i]))

\* replace(): pair after pair; one whose key is there already gives way to the
\* last pair, which is looked at next.
fill_unique(t) ==
    LET step(a, n) ==
          IF a.at > Len(a.t.values) THEN a
          ELSE LET k == a.t.values[a.at][1]
               IN  IF found(a.t, k)
                   THEN [a EXCEPT !.t.values = back_into(a.t.values, a.at)]
                   ELSE [t |-> place_at(a.t, k, a.at - 1, probe(a.t, k)), at |-> a.at + 1]
    IN  FoldLeft(step, [t |-> t, at |-> 1], [n \in DOMAIN t.values |-> n]).t

replace(t, container) ==
    LET bits == calc_shifts_for_size(t, Len(container))
        u == IF bits > t.bits THEN allocate_buckets_from_shift(t, bits) ELSE clear_buckets(t)
    IN  fill_unique([u EXCEPT !.values = container])

rehash(t, count) ==
    LET bits == calc_shifts_for_size(t, Max({count, Len(t.values)}))
    IN  IF bits = t.bits THEN t
        ELSE clear_and_fill_buckets_from_values(allocate_buckets_from_shift(t, bits))

reserve(t, capa) ==
    LET bits == calc_shifts_for_size(t, Max({capa, Len(t.values)}))
    IN  IF bits <= t.bits THEN t
        ELSE clear_and_fill_buckets_from_values(allocate_buckets_from_shift(t, bits))

set_max_load_factor(t, lf) == [t EXCEPT !.lf = lf, !.capacity = capacity_for(t.bits, lf)]

empty_table(lf) ==
    allocate_buckets_from_shift([values |-> <<>>, buckets |-> <<>>, bits |-> 0,
                                 capacity |-> 0, lf |-> lf], initial_bits)

\* The copy of an empty table starts over with the initial buckets.
copy(t) == IF t.values = <<>> THEN empty_table(t.lf) ELSE t

-----------------------------------------------------------------------------
(* The user's calls.                                                       *)

Init ==
    /\ hash_of \in Hashes
    /\ table = empty_table(default_max_load_factor)
    /\ contents = [k \in Keys |-> absent]

Pairs == Keys \X Mapped

\* The pair of a key that a container with duplicates leaves behind.
FirstOf(container) ==
    [k \in Keys |->
        LET at == {i \in DOMAIN container : container[i][1] = k}
        IN  IF at = {} THEN absent ELSE container[Min(at)][2]]

IfAbsent(p) == IF contents[p[1]] = absent THEN [contents EXCEPT ![p[1]] = p[2]] ELSE contents

Insert == \E p \in Pairs : table' = emplace(table, p[1], p[2]) /\ contents' = IfAbsent(p)

TryEmplace == \E p \in Pairs : table' = do_try_emplace(table, p[1], p[2]) /\ contents' = IfAbsent(p)

InsertOrAssign == \E p \in Pairs :
    /\ table' = do_insert_or_assign(table, p[1], p[2])
    /\ contents' = [contents EXCEPT ![p[1]] = p[2]]

EraseKey == \E k \in Keys :
    /\ table' = do_erase_key(table, k)
    /\ contents' = [contents EXCEPT ![k] = absent]

Without(ks) == [k \in Keys |-> IF k \in ks THEN absent ELSE contents[k]]

EraseRange == \E first, last \in 0 .. Len(table.values) :
    /\ first < last
    /\ table' = erase_range(table, first, last)
    /\ contents' = Without({table.values[i][1] : i \in first + 1 .. last})

EraseIf == \E doomed \in SUBSET Keys :
    /\ table' = erase_if(table, doomed)
    /\ contents' = Without(doomed)

Clear ==
    /\ table' = clear_buckets([table EXCEPT !.values = <<>>])
    /\ contents' = Without(Keys)

Replace == \E n \in 1 .. MaxContainer, m \in Mapped : \E container \in [1 .. n -> Keys \X {m}] :
    /\ table' = replace(table, container)
    /\ contents' = FirstOf(container)

Resize ==
    /\ \/ \E n \in 0 .. calc_num_buckets(initial_bits) : table' \in {rehash(table, n), reserve(table, n)}
       \/ \E lf \in LoadFactors : table' = set_max_load_factor(table, lf)
       \/ table' = copy(table)
    /\ UNCHANGED contents

\* Assigned to another table by a move: "it's empty".
MoveAway ==
    /\ table' = empty_table(default_max_load_factor)
    /\ contents' = Without(Keys)

Next ==
    /\ \/ Insert \/ TryEmplace \/ InsertOrAssign \/ EraseKey \/ EraseRange \/ EraseIf \/ Clear \/ Replace
       \/ Resize \/ MoveAway
    /\ UNCHANGED hash_of

Spec == Init /\ [][Next]_vars

-----------------------------------------------------------------------------
(* Properties.                                                             *)

Used == {b \in DOMAIN table.buckets : table.buckets[b].d # 0}

\* The buckets in use hold indices of pairs, and there are as many as the
\* shift says.
TypeOK ==
    /\ table.bits \in initial_bits .. HashBits
    /\ DOMAIN table.buckets = 0 .. num_buckets(table) - 1
    /\ \A i \in DOMAIN table.values : table.values[i] \in Pairs
    /\ \A b \in Used : table.buckets[b].v \in 0 .. Len(table.values) - 1

\* A lookup returns the pair the user put in last, and end() for a key that
\* was erased, for every hash function and through every rehash.
FindExact ==
    \A k \in Keys : /\ contains(table, k) <=> contents[k] # absent
                    /\ contains(table, k) => do_at(table, k) = <<k, contents[k]>>

\* Iteration visits each pair of the user once and nothing else.
IterationExact ==
    /\ IsInjective([i \in DOMAIN table.values |-> table.values[i][1]])
    /\ {table.values[i] : i \in DOMAIN table.values} =
          {<<k, contents[k]>> : k \in {x \in Keys : contents[x] # absent}}

\* Each pair has one bucket, marked with its distance from home and its
\* fingerprint, and no pair on the way is nearer to its own home: what lets a
\* search stop early.
RobinHood ==
    /\ Cardinality(Used) = Len(table.values)
    /\ \A b \in Used :
         LET k == table.values[table.buckets[b].v + 1][1]
         IN  \E i \in 0 .. num_buckets(table) - 1 :
               /\ next(table, bucket_idx_from_hash(table, mixed_hash(k)), i) = b
               /\ table.buckets[b].d = DistAt(k, i)
               /\ \A j \in 0 .. i - 1 : Walk(table, k, j).d >= DistAt(k, j)
=============================================================================
