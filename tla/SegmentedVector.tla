-------------------------- MODULE SegmentedVector ---------------------------
(***************************************************************************)
(* ankerl's segmented_vector (util/unordered_dense.h), the container of    *)
(* the segmented maps: elements lie in blocks of a fixed size, so that     *)
(* they keep their place when the vector grows.  Two vectors that share an *)
(* allocator, or not, are copied into and moved out of one another.        *)
(***************************************************************************)
EXTENDS Integers, Sequences, FiniteSets, FiniteSetsExt, SequencesExt

CONSTANTS
    Elements,      \* the values of T
    num_bits,      \* a block holds 2^num_bits elements
    MaxSegments,   \* bound: blocks the allocators can give
    MaxLength      \* bound on the length of a vector

SegmentAssumption ==
    /\ num_bits \in Nat /\ 2 ^ num_bits \in Nat \ {0}
    /\ MaxSegments \in Nat /\ MaxLength \in Nat

VARIABLES
    seg,       \* for each vector: m_blocks, m_size and its allocator
    memory,    \* the elements of each block; junk where none is constructed
    owned,     \* the blocks taken from an allocator, and which one gave them
    model      \* what the user has put into each vector

vars == <<seg, memory, owned, model>>

Vectors == {"a", "b"}
Other(x) == IF x = "a" THEN "b" ELSE "a"
junk == "junk"
free == 0
num_elements_in_block == 2 ^ num_bits
Segments == 1 .. MaxSegments
Blank == [i \in 0 .. num_elements_in_block - 1 |-> junk]

Init ==
    /\ \E allocs \in {<<1, 1>>, <<1, 2>>} :
         seg = [x \in Vectors |-> [blocks |-> <<>>, size |-> 0,
                                   alloc |-> IF x = "a" THEN allocs[1] ELSE allocs[2]]]
    /\ memory = [s \in Segments |-> Blank]
    /\ owned = [s \in Segments |-> free]
    /\ model = [x \in Vectors |-> <<>>]

capacity(v) == Len(v.blocks) * num_elements_in_block

calc_num_blocks_for_capacity(c) == (c + num_elements_in_block - 1) \div num_elements_in_block

\* operator[] : the block and the place in it of the i-th element.
block_at(v, i) == v.blocks[i \div num_elements_in_block + 1]
place_at(i) == i % num_elements_in_block

\* One vector together with the memory it works on.
State(x) == [v |-> seg[x], memory |-> memory, owned |-> owned]

Free(st) == {s \in Segments : st.owned[s] = free}

increase_capacity(st) ==
    LET s == Min(Free(st))
    IN  [st EXCEPT !.v.blocks = Append(@, s), !.owned[s] = st.v.alloc]

reserve(st, new_capacity) ==
    LET missing == calc_num_blocks_for_capacity(new_capacity) - Len(st.v.blocks)
    IN  FoldLeft(LAMBDA u, i : increase_capacity(u), st, [i \in 1 .. missing |-> i])

emplace_back(st, e) ==
    LET u == IF st.v.size = capacity(st.v) THEN increase_capacity(st) ELSE st
    IN  [u EXCEPT !.memory[block_at(u.v, u.v.size)][place_at(u.v.size)] = e, !.v.size = @ + 1]

pop_back(st) ==
    LET i == st.v.size - 1
    IN  [st EXCEPT !.memory[block_at(st.v, i)][place_at(i)] = junk, !.v.size = i]

clear(st) ==
    [st EXCEPT !.v.size = 0,
               !.memory = [s \in Segments |-> IF s \in Range(st.v.blocks) THEN Blank ELSE @[s]]]

GiveBack(st, blocks) ==
    [st EXCEPT !.owned = [s \in Segments |-> IF s \in Range(blocks) THEN free ELSE @[s]]]

\* Mutant: a move assignment forgets its own blocks.
dealloc_nothing(st) == st

dealloc(st) == GiveBack(st, st.v.blocks)

shrink_to_fit(st) ==
    LET kept == calc_num_blocks_for_capacity(st.v.size)
    IN  [GiveBack(st, SubSeq(st.v.blocks, kept + 1, Len(st.v.blocks)))
           EXCEPT !.v.blocks = SubSeq(@, 1, Min({kept, Len(@)}))]

Element(v, i) == memory[block_at(v, i)][place_at(i)]
Contents(v) == [i \in 1 .. v.size |-> Element(v, i - 1)]

append_everything_from(st, other) ==
    FoldLeft(emplace_back, reserve(st, st.v.size + other.size), Contents(other))

-----------------------------------------------------------------------------
Becomes(x, st, elements) ==
    /\ seg' = [seg EXCEPT ![x] = st.v]
    /\ memory' = st.memory
    /\ owned' = st.owned
    /\ model' = [model EXCEPT ![x] = elements]

Room == Cardinality(Free(State("a")))

EmplaceBack == \E x \in Vectors, e \in Elements :
    /\ seg[x].size < MaxLength /\ Room > 0
    /\ Becomes(x, emplace_back(State(x), e), Append(model[x], e))

PopBack == \E x \in Vectors :
    /\ seg[x].size > 0
    /\ Becomes(x, pop_back(State(x)), Front(model[x]))

ClearAll == \E x \in Vectors : Becomes(x, clear(State(x)), <<>>)

Reserve == \E x \in Vectors, c \in 1 .. MaxLength :
    /\ calc_num_blocks_for_capacity(c) - Len(seg[x].blocks) <= Room
    /\ Becomes(x, reserve(State(x), c), model[x])

ShrinkToFit == \E x \in Vectors : Becomes(x, shrink_to_fit(State(x)), model[x])

\* x = other
CopyAssign == \E x \in Vectors :
    /\ calc_num_blocks_for_capacity(seg[Other(x)].size) - Len(seg[x].blocks) <= Room
    /\ Becomes(x, append_everything_from(clear(State(x)), seg[Other(x)]), model[Other(x)])

\* x = std::move(other), same allocator: the blocks change hands.
MoveBlocks == \E x \in Vectors :
    LET y == Other(x)
        st == dealloc(clear(State(x)))
    IN  /\ seg[x].alloc = seg[y].alloc
        /\ seg' = [seg EXCEPT ![x] = seg[y], ![y].blocks = <<>>, ![y].size = 0]
        /\ memory' = st.memory /\ owned' = st.owned
        /\ model' = [model EXCEPT ![x] = model[y], ![y] = <<>>]

\* Another allocator: the elements are moved one by one into new blocks, and
\* other keeps what the moves leave of them (here: all).  The type of the
\* allocator decides whether x takes it over.
MoveElements == \E x \in Vectors : \E alloc \in {seg["a"].alloc, seg["b"].alloc} :
    LET y == Other(x)
        st == dealloc(clear(State(x)))
        fresh == [st EXCEPT !.v = [blocks |-> <<>>, size |-> 0, alloc |-> alloc]]
    IN  /\ seg[x].alloc # seg[y].alloc
        /\ calc_num_blocks_for_capacity(seg[y].size) <= Cardinality(Free(st))
        /\ Becomes(x, append_everything_from(fresh, seg[y]), model[y])

Next ==
    \/ EmplaceBack \/ PopBack \/ ClearAll \/ Reserve \/ ShrinkToFit \/ CopyAssign
    \/ MoveBlocks \/ MoveElements

Spec == Init /\ [][Next]_vars

-----------------------------------------------------------------------------
(* Indexing and iteration return what the user put in, in its order, from  *)
(* constructed elements of blocks the vector has room for.                 *)
SegmentsExact ==
    \A x \in Vectors : seg[x].size <= capacity(seg[x]) /\ Contents(seg[x]) = model[x]

(* Every block taken from an allocator belongs to one vector, and goes     *)
(* back to the allocator it came from.                                     *)
BlocksOwned ==
    \A s \in Segments :
        IF owned[s] = free THEN \A x \in Vectors : s \notin Range(seg[x].blocks)
        ELSE \E x \in Vectors : /\ s \in Range(seg[x].blocks) /\ seg[x].alloc = owned[s]
                                /\ s \notin Range(seg[Other(x)].blocks)

-----------------------------------------------------------------------------
(* Why they hold.                                                          *)

\* A vector and the memory it works on, when the other vector has taken the
\* blocks taken.
StateOK(st, taken) ==
    /\ st = [v |-> st.v, memory |-> st.memory, owned |-> st.owned]
    /\ st.v = [blocks |-> st.v.blocks, size |-> st.v.size, alloc |-> st.v.alloc]
    /\ st.v.blocks \in Seq(Segments) /\ IsInjective(st.v.blocks)
    /\ st.v.size \in 0 .. capacity(st.v)
    /\ st.v.alloc \in {1, 2}
    /\ st.memory = [s \in Segments |-> st.memory[s]]
    /\ \A s \in Segments : st.memory[s] = [i \in 0 .. num_elements_in_block - 1 |-> st.memory[s][i]]
    /\ st.owned \in [Segments -> {free, 1, 2}]
    /\ taken \subseteq Segments
    /\ \A s \in Range(st.v.blocks) : s \notin taken /\ st.owned[s] = st.v.alloc
    /\ \A s \in Segments : st.owned[s] = free <=> s \notin Range(st.v.blocks) \union taken

Inv ==
    /\ seg = [x \in Vectors |-> seg[x]] /\ model \in [Vectors -> Seq(Elements)]
    /\ \A x \in Vectors :
          /\ StateOK(State(x), Range(seg[Other(x)].blocks))
          /\ Contents(seg[x]) = model[x]
=============================================================================
