-------------------------------- MODULE Tlsf --------------------------------
(***************************************************************************)
(* kb::memory::TLSFAllocator: blocks that tile a pool, free ones in lists  *)
(* by size class, the classes with a block marked in two bitmaps.          *)
(*                                                                         *)
(* The allocator is a record; each operator maps the record before a call  *)
(* to the one after it.  Sizes and addresses are bytes.  blk maps the      *)
(* address of each header to its fields: the two low bits of the size word *)
(* are free and prevFree, prev is prev_physical.  lists holds each doubly  *)
(* linked list of free blocks from its head, fl and sl the bits set.       *)
(***************************************************************************)
EXTENDS Integers, Sequences, SequencesExt

CONSTANTS
    SlLog2,       \* k_sl_index_count_log2
    FlIndexMax,   \* k_fl_index_max
    IntBits       \* the bits of an int, 32

k_align_size       == 8
k_sl_index_count   == 2 ^ SlLog2
k_fl_index_shift   == SlLog2 + 3
k_fl_index_count   == FlIndexMax - k_fl_index_shift + 1
k_small_block_size == 2 ^ k_fl_index_shift
header_size        == 32
header_overhead    == 8
start_offset       == 16
k_block_size_min   == header_size - 8
k_block_size_max   == 2 ^ FlIndexMax
k_pool_overhead    == 2 * header_overhead
nullptr            == 0

align_up(x, a)   == ((x + a - 1) \div a) * a
align_down(x, a) == x - (x % a)

(* The bit searches: the last bit set in a word, the first in a bitmap.    *)
fls(n)        == CHOOSE b \in 0 .. FlIndexMax : 2 ^ b <= n /\ n < 2 ^ (b + 1)
fls_size_t(n) == fls(n)
ffs(bits)     == Min(bits)

(* int(size), and the exclusive or with the bit k_sl_index_count.          *)
as_int(size) ==
    LET low == size % 2 ^ IntBits
    IN  IF low < 2 ^ (IntBits - 1) THEN low ELSE low - 2 ^ IntBits
toggled(n) ==
    IF (n \div k_sl_index_count) % 2 = 1 THEN n - k_sl_index_count ELSE n + k_sl_index_count

(* From a size of 2 ^ (IntBits - 1) the second index is out of range.      *)
mapping_insert(size) ==
    IF size < k_small_block_size
    THEN <<0, as_int(size) \div (k_small_block_size \div k_sl_index_count)>>
    ELSE LET f == fls_size_t(size)
         IN  <<f - (k_fl_index_shift - 1), toggled(as_int(size) \div 2 ^ (f - SlLog2))>>

(* Rounds up to the next class, whose blocks are all large enough.         *)
mapping_search(size) ==
    mapping_insert(IF size >= k_small_block_size
                   THEN size + 2 ^ (fls_size_t(size) - SlLog2) - 1 ELSE size)

-----------------------------------------------------------------------------
(* The headers.                                                            *)

block_size(s, b) == s.blk[b].size
is_last(s, b)    == block_size(s, b) = 0
is_free(s, b)    == s.blk[b].free
is_prev_free(s, b) == s.blk[b].prevFree
to_void_ptr(b)   == b + start_offset
from_void_ptr(p) == p - start_offset
get_next(s, b)   == to_void_ptr(b) + block_size(s, b) - header_overhead
can_split(s, b, size) == block_size(s, b) >= header_size + size

link_next(s, b) == [s EXCEPT !.blk[get_next(s, b)].prev = b]
set_prev_free(s, b, value) == [s EXCEPT !.blk[b].prevFree = value]

(* Mutant: the next block is not told.                                     *)
mark_as_free_alone(s, b) == [link_next(s, b) EXCEPT !.blk[b].free = TRUE]
mark_as_free(s, b) ==
    LET linked == link_next(s, b)
    IN  [set_prev_free(linked, get_next(s, b), TRUE) EXCEPT !.blk[b].free = TRUE]
mark_as_used(s, b) == [set_prev_free(s, get_next(s, b), FALSE) EXCEPT !.blk[b].free = FALSE]

(* The second part starts at remaining; its prev_free bit is whatever the  *)
(* memory held, until the caller sets it.                                  *)
remaining(b, size) == to_void_ptr(b) + size - header_overhead
split(s, b, size) ==
    LET r    == remaining(b, size)
        rest == [size     |-> block_size(s, b) - (size + header_overhead), free |-> FALSE,
                 prevFree |-> s.garbage, prev |-> nullptr]
    IN  mark_as_free([s EXCEPT !.blk = [a \in DOMAIN @ \union {r} |->
                          IF a = r THEN rest ELSE IF a = b THEN [@[b] EXCEPT !.size = size] ELSE @[a]]], r)

-----------------------------------------------------------------------------
(* The control structure.                                                  *)

Control(garbage) ==
    [garbage |-> garbage, used |-> 0, pool |-> nullptr,
     fl      |-> {}, sl |-> {}, blk |-> <<>>,
     lists   |-> [m \in (0 .. k_fl_index_count - 1) \X (0 .. k_sl_index_count - 1) |-> <<>>]]

(* The class of the block to take, or none.                                *)
(* Mutant: larger first-level classes are not looked at.                   *)
search_same_level(s, m) ==
    LET sl_map == {j \in m[2] .. k_sl_index_count - 1 : <<m[1], j>> \in s.sl}
    IN  IF sl_map # {} THEN <<m[1], ffs(sl_map)>> ELSE <<>>
search_suitable_block(s, m) ==
    LET sl_map == {j \in m[2] .. k_sl_index_count - 1 : <<m[1], j>> \in s.sl}
        fl_map == {i \in s.fl : i > m[1]}
        fli    == ffs(fl_map)
    IN  IF sl_map # {} THEN <<m[1], ffs(sl_map)>>
        ELSE IF fl_map = {} THEN <<>>
        ELSE <<fli, ffs({j \in 0 .. k_sl_index_count - 1 : <<fli, j>> \in s.sl})>>

(* Unlinks the block, and clears the bits of a list it leaves empty.       *)
remove_free_block(s, b, m) ==
    LET lists == [c \in DOMAIN s.lists |-> SelectSeq(s.lists[c], LAMBDA x : x # b)]
        empty == s.lists[m] # <<>> /\ Head(s.lists[m]) = b /\ lists[m] = <<>>
        sl    == IF empty THEN s.sl \ {m} ELSE s.sl
    IN  [s EXCEPT !.lists = lists, !.sl = sl,
                  !.fl = IF empty /\ \A c \in sl : c[1] # m[1] THEN @ \ {m[1]} ELSE @]

insert_free_block(s, b, m) ==
    [s EXCEPT !.lists[m] = <<b>> \o @, !.fl = @ \union {m[1]}, !.sl = @ \union {m}]
remove_block(s, b) == remove_free_block(s, b, mapping_insert(block_size(s, b)))
insert_block(s, b) == insert_free_block(s, b, mapping_insert(block_size(s, b)))

(* block disappears into prev.                                             *)
absorb(s, prev, block) ==
    link_next([s EXCEPT !.blk = [a \in DOMAIN @ \ {block} |->
                  IF a = prev THEN [@[a] EXCEPT !.size = @ + block_size(s, block) + header_overhead]
                  ELSE @[a]]], prev)

(* The block that is left once b has been merged with a free predecessor.  *)
merged(s, b) == IF is_prev_free(s, b) THEN s.blk[b].prev ELSE b
merge_prev(s, b) ==
    IF is_prev_free(s, b) THEN absorb(remove_block(s, merged(s, b)), merged(s, b), b) ELSE s
merge_next(s, b) ==
    LET next == get_next(s, b)
    IN  IF is_free(s, next) THEN absorb(remove_block(s, next), b, next) ELSE s

trim_free(s, b, size) ==
    LET r == remaining(b, size)
    IN  IF can_split(s, b, size)
        THEN insert_block(set_prev_free(link_next(split(s, b, size), b), r, TRUE), r)
        ELSE s

(* The leading part goes back to the pool: the caller keeps the second.    *)
trim_free_leading(s, b, size) ==
    LET r == remaining(b, size - header_overhead)
    IN  IF can_split(s, b, size)
        THEN insert_block(link_next(set_prev_free(split(s, b, size - header_overhead), r, TRUE), b), b)
        ELSE s
after_leading(s, b, size) == IF can_split(s, b, size) THEN remaining(b, size - header_overhead) ELSE b

(* Mutant: the rest of a shrunk block is not merged with a free successor. *)
trim_used_only(s, b, size) ==
    LET r == remaining(b, size)
    IN  IF can_split(s, b, size) THEN insert_block(set_prev_free(split(s, b, size), r, FALSE), r) ELSE s
trim_used(s, b, size) ==
    LET r == remaining(b, size)
    IN  IF can_split(s, b, size)
        THEN insert_block(merge_next(set_prev_free(split(s, b, size), r, FALSE), r), r)
        ELSE s

(* The block locate_free_block returns, taken out of its list by located.  *)
locate_free_block(s, size) ==
    LET m == mapping_search(size)
        c == search_suitable_block(s, m)
    IN  IF size = 0 \/ m[1] >= k_fl_index_count \/ c = <<>> THEN nullptr ELSE Head(s.lists[c])
located(s, size) ==
    remove_free_block(s, locate_free_block(s, size), search_suitable_block(s, mapping_search(size)))

prepare_used(s, b, size) == mark_as_used(trim_free(s, b, size), b)

-----------------------------------------------------------------------------
(* The allocator: the calls return a record of the allocator and the       *)
(* pointer for the caller.                                                 *)

adjust_request_size(size, alignment) ==
    LET aligned == align_up(size, alignment)
    IN  IF size = 0 \/ aligned >= k_block_size_max THEN 0
        ELSE IF aligned > k_block_size_min THEN aligned ELSE k_block_size_min

create_pool(s, pool, size) ==
    LET bytes == align_down(size - k_pool_overhead, k_align_size)
        block == pool - header_overhead
        last  == to_void_ptr(block) + bytes - header_overhead
        main  == [size |-> bytes, free |-> TRUE, prevFree |-> FALSE, prev |-> nullptr]
        end   == [size |-> 0, free |-> FALSE, prevFree |-> TRUE, prev |-> block]
    IN  insert_block([s EXCEPT !.pool = pool,
                               !.blk  = [a \in {block, last} |-> IF a = block THEN main ELSE end]], block)

used(s, b) == [s EXCEPT !.used = @ + block_size(s, b)]
failure(s) == [s |-> s, ptr |-> nullptr]

(* A gap in front of the aligned address must hold a free block.           *)
gap_before(ptr, alignment, user_offset) ==
    LET aligned == align_up(ptr + user_offset, alignment)
        gap     == aligned - ptr - user_offset
        further == IF header_size - gap > alignment THEN header_size - gap ELSE alignment
    IN  IF gap > 0 /\ gap < header_size
        THEN align_up(aligned + further, alignment) - ptr - user_offset ELSE gap

allocate_aligned(s, size, alignment, user_offset) ==
    LET adjust == adjust_request_size(size, k_align_size)
        wanted == IF adjust = 0 THEN 0 ELSE adjust_request_size(adjust + alignment + header_size, alignment)
        block  == locate_free_block(s, wanted)
        gap    == gap_before(to_void_ptr(block), alignment, user_offset)
        taken  == located(s, wanted)
        b      == IF gap = 0 THEN block ELSE after_leading(taken, block, gap)
        lead   == IF gap = 0 THEN taken ELSE trim_free_leading(taken, block, gap)
    IN  IF block = nullptr THEN failure(s)
        ELSE [s |-> used(prepare_used(lead, b, adjust), b), ptr |-> to_void_ptr(b)]

tlsf_allocate(s, size, alignment, user_offset) ==
    LET adjust == adjust_request_size(size, k_align_size)
        block  == locate_free_block(s, adjust)
    IN  IF alignment > k_align_size THEN allocate_aligned(s, size, alignment, user_offset)
        ELSE IF block = nullptr THEN failure(s)
        ELSE [s |-> used(prepare_used(located(s, adjust), block, adjust), block), ptr |-> to_void_ptr(block)]

tlsf_deallocate(s, ptr) ==
    LET block == from_void_ptr(ptr)
        freed == mark_as_free([s EXCEPT !.used = @ - block_size(s, block)], block)
        b     == merged(freed, block)
    IN  insert_block(merge_next(merge_prev(freed, block), b), b)

(* In place when the block, with a free successor, is large enough.        *)
(* Mutant: used_size_ keeps the old size.                                  *)
reallocate_uncounted(s, block, adjust) ==
    LET grown == IF adjust > block_size(s, block) THEN mark_as_used(merge_next(s, block), block) ELSE s
    IN  trim_used(grown, block, adjust)
reallocate_in_place(s, block, adjust) ==
    LET cursize == block_size(s, block)
        grown   == IF adjust > cursize THEN mark_as_used(merge_next(s, block), block) ELSE s
        trimmed == trim_used(grown, block, adjust)
    IN  [trimmed EXCEPT !.used = @ + block_size(trimmed, block) - cursize]
reallocate(s, ptr, size, alignment, offset) ==
    LET block    == from_void_ptr(ptr)
        next     == get_next(s, block)
        cursize  == block_size(s, block)
        combined == cursize + block_size(s, next) + header_overhead
        adjust   == adjust_request_size(size, k_align_size)
        moved    == tlsf_allocate(s, size, alignment, offset)
    IN  IF ptr = nullptr THEN tlsf_allocate(s, size, alignment, offset)
        ELSE IF size = 0 THEN [s |-> tlsf_deallocate(s, ptr), ptr |-> nullptr]
        ELSE IF adjust > cursize /\ (~is_free(s, next) \/ adjust > combined)
        THEN IF moved.ptr = nullptr THEN moved
             ELSE [s |-> tlsf_deallocate(moved.s, ptr), ptr |-> moved.ptr]
        ELSE [s |-> reallocate_in_place(s, block, adjust), ptr |-> ptr]

-----------------------------------------------------------------------------
(* The debugging aids.                                                     *)

(* The blocks walk_pool visits, in the order of their addresses.           *)
walk_pool(s) ==
    LET count == Cardinality(DOMAIN s.blk)
        at[n \in 0 .. count] ==
            IF n = 0 THEN s.pool - header_overhead
            ELSE IF is_last(s, at[n - 1]) THEN at[n - 1] ELSE get_next(s, at[n - 1])
    IN  SelectSeq([n \in 1 .. count |-> at[n - 1]], LAMBDA b : ~is_last(s, b))

(* The blocks whose prev_free bit is not the state of their predecessor.   *)
check_pool(s) ==
    LET w == walk_pool(s)
    IN  {i \in DOMAIN w : is_prev_free(s, w[i]) # (i > 1 /\ is_free(s, w[i - 1]))}

(* The classes the bitmaps or the lists are wrong about.                   *)
check_consistency(s) ==
    LET bad(m, b) == \/ ~is_free(s, b) \/ is_prev_free(s, b)
                     \/ is_free(s, get_next(s, b)) \/ ~is_prev_free(s, get_next(s, b))
                     \/ block_size(s, b) < k_block_size_min
                     \/ mapping_insert(block_size(s, b)) # m
    IN  {m \in DOMAIN s.lists :
            \/ m \in s.sl /\ (m[1] \notin s.fl \/ s.lists[m] = <<>>)
            \/ m \notin s.sl /\ s.lists[m] # <<>>
            \/ m \in s.sl /\ \E b \in ToSet(s.lists[m]) : bad(m, b)}
=============================================================================
