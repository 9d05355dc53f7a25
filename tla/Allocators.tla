----------------------------- MODULE Allocators -----------------------------
(***************************************************************************)
(* The heap area and the simple allocators of kb::memory: linear, pool,    *)
(* atomic pool, and the linear buffer.  An area and an allocator are       *)
(* records; a call maps the record before it to the one after it and, when *)
(* it returns a pointer, to [a |-> allocator, ptr |-> pointer].  Addresses *)
(* are bytes, nullptr is 0.                                                *)
(***************************************************************************)
EXTENDS Integers, Sequences, Tlsf

CONSTANTS
    CacheLine,    \* k_cache_line_size
    HeadRange     \* head_ of a LinearAllocator is a uint32_t: 2^32

alignment_padding(address, alignment) ==
    IF address % alignment = 0 THEN 0 ELSE (address \div alignment + 1) * alignment - address

round_up_pow2(base, multiple) == align_up(base, multiple)

-----------------------------------------------------------------------------
(* HeapArea                                                                *)

HeapArea(begin, size) == [begin |-> begin, size |-> size, head |-> begin, items |-> <<>>]

(* end() is one more than the first byte past the area.                    *)
area_end(area)  == area.begin + area.size + 1
area_used(area) == area.head - area.begin
area_free(area) == area_end(area) - area.head

(* Slabs start at a cache line.  The range a slab is given ends one byte   *)
(* after the slab.                                                         *)
require_slab(area, size, name) ==
    LET padding == alignment_padding(area.head, CacheLine)
        first   == area.head + padding
    IN  [range |-> <<first, first + size + 1>>,
         fits  |-> first + size < area_end(area),
         area  |-> [area EXCEPT !.head  = first + size,
                                !.items = Append(@, [name |-> name, begin |-> first,
                                                     end  |-> first + size + 1, size |-> size + padding])]]

-----------------------------------------------------------------------------
(* LinearAllocator.  head_ wraps at HeadRange.                             *)

LinearAllocator(range) == [begin |-> range[1], end |-> range[2], head |-> 0]
LinearTotal(a)         == a.end - a.begin

(* Mutant: the padding is not counted.                                     *)
linear_allocate_tight(a, size, alignment, offset) ==
    LET current == a.begin + a.head
        padding == alignment_padding(current + offset, alignment)
    IN  IF current + size > a.end THEN [a |-> a, ptr |-> nullptr]
        ELSE [a |-> [a EXCEPT !.head = (@ + padding + size) % HeadRange], ptr |-> current + padding]
linear_allocate(a, size, alignment, offset) ==
    LET current == a.begin + a.head
        padding == alignment_padding(current + offset, alignment)
    IN  IF current + padding + size > a.end THEN [a |-> a, ptr |-> nullptr]
        ELSE [a |-> [a EXCEPT !.head = (@ + padding + size) % HeadRange], ptr |-> current + padding]

linear_reset(a) == [a EXCEPT !.head = 0]

-----------------------------------------------------------------------------
(* Freelist: the nodes that are free, the next one to acquire first.       *)

freelist_init(begin, element_size, max_elements) ==
    [i \in 1 .. max_elements |-> begin + (i - 1) * element_size]
freelist_acquire(list) == IF list = <<>> THEN nullptr ELSE Head(list)
freelist_release(list, node) == <<node>> \o list

-----------------------------------------------------------------------------
(* PoolAllocator and AtomicPoolAllocator: nodes of one size.               *)

pool_node_size(user_size, decoration_size, max_alignment) ==
    round_up_pow2(user_size + decoration_size + max_alignment, max_alignment)
PoolAllocator(begin, node_size, max_nodes) ==
    [begin |-> begin, node_size |-> node_size, count |-> 0,
     free  |-> freelist_init(begin, node_size, max_nodes)]
PoolUsed(a) == a.count * a.node_size

node_address(a, node, alignment, offset) == node + alignment_padding(node + offset, alignment)
pool_allocate(a, size, alignment, offset) ==
    LET node == freelist_acquire(a.free)
    IN  IF node = nullptr THEN [a |-> a, ptr |-> nullptr]
        ELSE [a   |-> [a EXCEPT !.free = Tail(@), !.count = @ + 1],
              ptr |-> node_address(a, node, alignment, offset)]

(* Back from the padded address to the start of the node.                  *)
(* Mutant: the padding is forgotten.                                       *)
node_of_padded(a, ptr) == ptr
node_of(a, ptr) == ptr - ((ptr - a.begin) % a.node_size)
(* Mutant: the node is not counted back.                                   *)
pool_deallocate_uncounted(a, ptr) == [a EXCEPT !.free = freelist_release(@, node_of(a, ptr))]
pool_deallocate(a, ptr) ==
    [a EXCEPT !.free = freelist_release(@, node_of(a, ptr)), !.count = @ - 1]

(* The nodes of the atomic pool have no room for alignment padding, and    *)
(* its queue is first in, first out.  pop() spins on an empty queue.       *)
atomic_node_size(user_size, decoration_size, max_alignment) ==
    round_up_pow2(user_size + decoration_size, max_alignment)
AtomicPoolAllocator(begin, node_size, max_nodes) == PoolAllocator(begin, node_size, max_nodes)
atomic_pop(a, alignment, offset) ==
    [a |-> [a EXCEPT !.free = Tail(@)], ptr |-> node_address(a, Head(a.free), alignment, offset)]
atomic_push(a, ptr) == [a EXCEPT !.free = Append(@, node_of(a, ptr))]

-----------------------------------------------------------------------------
(* LinearBuffer.  The bytes copied are left out.  warned is history: a     *)
(* fatal entry went to the log channel.  The copy is made all the same     *)
(* (or, if fatal entries exit, the program ends here).  A buffer whose     *)
(* constructor was given its size has no channel: its entries are dropped. *)

LinearBuffer(range, channel) ==
    [begin |-> range[1], end |-> range[2], head |-> range[1], channel |-> channel, warned |-> FALSE]

(* Mutant: > instead of >=.                                                *)
buffer_full_late(b, size) == b.head + size > b.end
buffer_full(b, size) == b.head + size >= b.end
buffer_copy(b, size) ==
    [b EXCEPT !.head = @ + size, !.warned = @ \/ (b.channel /\ buffer_full(b, size))]
buffer_write(b, size) == buffer_copy(b, size)
buffer_read(b, size)  == buffer_copy(b, size)
(* A string is a 32-bit length and its bytes.                              *)
buffer_write_str(b, size) == buffer_write(buffer_write(b, 4), size)
buffer_read_str(b, size)  == buffer_read(buffer_read(b, 4), size)
buffer_reset(b)     == [b EXCEPT !.head = b.begin]
buffer_seek(b, ptr) == [b EXCEPT !.head = ptr]
=============================================================================
