-------------------------------- MODULE Arena --------------------------------
(***************************************************************************)
(* kb::memory::MemoryArena over each of the allocators, with its thread    *)
(* guard, bounds checking and memory tracking policies, and the calls of   *)
(* several threads interleaved.  An arena of the atomic pool has no guard: *)
(* the queue of the pool synchronizes, its counter does not.  This arena,  *)
(* behind the linear arena of the workers, is the memory of a job system.  *)
(* Kind "raw" is a TLSFAllocator used without its arena, "buffer" a        *)
(* LinearBuffer.                                                           *)
(*                                                                         *)
(* An assertion that fails stops a debug build; the model goes on, as a    *)
(* release build does, and returns the null pointer.                       *)
(***************************************************************************)
EXTENDS Allocators, FiniteSets, TLC

CONSTANTS
    Threads,
    Kinds,         \* the arenas to explore
    AreaBegins,    \* addresses the heap area may be at
    Sizes,         \* bytes the client asks for
    Alignments,
    Offsets,       \* 0, or sizeof(SizeType) for an array of objects
    SlabSize,      \* size of a linear arena, of a buffer, of a TLSF pool used directly
    PoolSize,      \* size of the TLSF pool of an arena
    ControlSize,   \* sizeof(tlsf::Control)
    MaxNodes,      \* nodes of a pool
    NodeUser,      \* bytes of user data in a node
    MaxLive,       \* bound: allocations alive at a time
    MaxDrift       \* bound: how far the counter of the atomic pool is followed out of range

ASSUME ArenaAssumption ==
    /\ Sizes \union Alignments \union {MaxNodes, NodeUser, MaxLive, SlabSize} \subseteq Nat \ {0}
    /\ \A a \in Alignments : \E e \in 0 .. 12 : a = 2 ^ e
    /\ Offsets \subseteq {0, 8}
    /\ AreaBegins # {} /\ \A b \in AreaBegins : b \in Nat \ {0} /\ b % 16 = 0
    /\ CacheLine \in Nat /\ CacheLine >= 16
    /\ "nobody" \notin Threads

(* The linear arenas are smaller than 4 GiB and the TLSF pools than 2 GiB: *)
(* head_ and the second-level index hold their positions and sizes.        *)
ASSUME WidthAssumption ==
    /\ HeadRange \in Nat /\ SlabSize + 1 < HeadRange /\ 7 * CacheLine + 1 < HeadRange
    /\ IntBits \in Nat \ {0}
    /\ SlabSize < 2 ^ (IntBits - 1) /\ PoolSize < 2 ^ (IntBits - 1)

VARIABLES
    kind,
    guarded,      \* the arena has the MultiThread<std::mutex> policy
    sentinel,     \* size of a sentinel: 8 with SimpleBoundsChecking, else 0
    area,
    slab,         \* what the allocator got from the area: [begin, size, fits]
    al,           \* allocator_
    owner,        \* who holds the mutex of the guard
    th,           \* per thread: pc and the arguments or locals of its call
    live,         \* the allocations the client has: the words in front of their data
    tracker       \* the tracking policy: num_allocs_ and the keys of allocations_

vars == <<kind, guarded, sentinel, area, slab, al, owner, th, live, tracker>>

Symmetry == Permutations(Threads)

Nobody == "nobody"
Idle   == [pc |-> "idle"]
Tracked(n, keys) == [n |-> n, keys |-> keys]

k_front_overhead      == IF kind = "raw" THEN 0 ELSE sentinel + 8
k_back_overhead       == IF kind = "raw" THEN 0 ELSE sentinel
k_allocation_overhead == k_front_overhead + k_back_overhead

-----------------------------------------------------------------------------
(* The memory of a job system: the arena of its barriers, shared state and *)
(* workers, whose sizes are multiples of the cache line, and the pool.     *)
(* config.h defines KIBBLE_JOBSYS_ATOMIC_POOL as ON or as OFF, and the     *)
(* code asks with #ifdef: no build has a pool of the other kind.           *)

Lines(n) == n * CacheLine
barrier_alloc_size(barriers) == Lines(barriers) + CacheLine
worker_alloc_size(workers)   == Lines(workers)
shared_state_size            == Lines(1) + CacheLine
local_arena_requirements(barriers, workers) ==
    barrier_alloc_size(barriers) + worker_alloc_size(workers) + shared_state_size + CacheLine
(* Mutant: no room for the alignment of the area.                          *)
get_memory_requirements_tight(barriers, workers, job) ==
    local_arena_requirements(barriers, workers) + MaxNodes * round_up_pow2(job + 8, CacheLine)
get_memory_requirements(barriers, workers, job) ==
    local_arena_requirements(barriers, workers)
    + MaxNodes * round_up_pow2(job + 8, CacheLine) + CacheLine

(* The three allocations of the constructor, each with 8 bytes for its     *)
(* size, the two arrays with 8 more for their length.                      *)
Constructor(begin, barriers, workers) ==
    LET a0 == LinearAllocator(<<begin, begin + local_arena_requirements(barriers, workers) + 1>>)
        a1 == linear_allocate(a0, Lines(barriers) + 16, CacheLine, 16)
        a2 == linear_allocate(a1.a, Lines(1) + 8, CacheLine, 8)
        a3 == linear_allocate(a2.a, Lines(workers) + 16, CacheLine, 16)
    IN  <<a1, a2, a3>>

-----------------------------------------------------------------------------
(* The constructors.                                                       *)

Slab(r, size) == [begin |-> r.range[1], size |-> size, fits |-> r.fits]
Decorated(sen) == 8 + 2 * sen

InitLinear(begin, size) ==
    LET r == require_slab(HeapArea(begin, 512), size, kind)
    IN  kind = "linear" /\ area = r.area /\ slab = Slab(r, size) /\ al = LinearAllocator(r.range)
InitPool(begin) ==
    LET node == pool_node_size(NodeUser, Decorated(sentinel), 16)
        r    == require_slab(HeapArea(begin, 512), node * MaxNodes, kind)
    IN  /\ kind = "pool" /\ area = r.area /\ slab = Slab(r, node * MaxNodes)
        /\ al = PoolAllocator(r.range[1], node, MaxNodes)
InitJobs(begin, barriers, workers) ==
    LET node  == atomic_node_size(CacheLine, 8, CacheLine)
        first == require_slab(HeapArea(begin, get_memory_requirements(barriers, workers, CacheLine)),
                              local_arena_requirements(barriers, workers), "local")
        r     == require_slab(first.area, node * MaxNodes, kind)
        done  == Constructor(first.range[1], barriers, workers)
    IN  /\ kind = "atomic" /\ sentinel = 0 /\ area = r.area
        /\ slab = [Slab(r, node * MaxNodes) EXCEPT !.fits =
                      @ /\ first.fits /\ \A i \in DOMAIN done : done[i].ptr # nullptr]
        /\ al = AtomicPoolAllocator(r.range[1], node, MaxNodes)
(* The pool of the TLSF allocator follows its control structure.           *)
InitTlsf(begin, size) ==
    LET r == require_slab(HeapArea(begin, 512), ControlSize + 8 + size, kind)
        p == r.range[1] + ControlSize
    IN  /\ kind \in {"tlsf", "raw"} /\ area = r.area /\ slab = Slab(r, ControlSize + 8 + size)
        /\ \E garbage \in BOOLEAN :
              al = create_pool(Control(garbage), p + alignment_padding(p, k_align_size), size)
InitBuffer(begin, size) ==
    LET r == require_slab(HeapArea(begin, 512), size, kind)
    IN  /\ kind = "buffer" /\ area = r.area /\ slab = Slab(r, size)
        /\ \E channel \in BOOLEAN : al = LinearBuffer(r.range, channel)

Init ==
    /\ kind \in Kinds
    /\ guarded \in (IF kind \in {"linear", "pool"} THEN BOOLEAN ELSE {FALSE})
    /\ sentinel \in (IF kind \in {"pool", "tlsf"} THEN {0, 8} ELSE {0})
    /\ \/ \E begin \in AreaBegins, n \in 1 .. 2 : InitJobs(begin, n, 3 - n)
       \/ LET begin == Min(AreaBegins)
          IN  \/ InitPool(begin) \/ InitLinear(begin, SlabSize) \/ InitBuffer(begin, SlabSize)
              \/ InitTlsf(begin, IF kind = "raw" THEN SlabSize ELSE PoolSize)
    /\ owner = Nobody
    /\ th = [t \in Threads |-> Idle]
    /\ live = {}
    /\ tracker = Tracked(0, {})

(* An arena without a guard, other than the atomic pool, is not called     *)
(* from two threads at a time.                                             *)
Users == IF guarded \/ kind = "atomic" THEN Threads
         ELSE {t \in Threads : \A u \in Threads \ {t} : th[u] = Idle}

-----------------------------------------------------------------------------
(* The thread guard.                                                       *)

(* Mutant: the mutex is taken whoever has it.                              *)
enter_unlocked(t) == IF guarded THEN owner' = t ELSE UNCHANGED owner
enter(t) == IF guarded THEN owner = Nobody /\ owner' = t ELSE UNCHANGED owner
leave(t) == IF guarded THEN owner' = Nobody ELSE UNCHANGED owner

-----------------------------------------------------------------------------
(* allocate.  The allocator aligns the user pointer.                       *)

BeginAllocate(t, size, alignment, offset) ==
    /\ kind # "buffer" /\ th[t] = Idle /\ Cardinality(live) < MaxLive
    /\ kind = "pool" => size + offset <= NodeUser /\ alignment <= 16
    /\ kind = "atomic" => size <= CacheLine /\ alignment = CacheLine /\ offset = 0 /\ al.count \in -MaxDrift .. MaxNodes + MaxDrift
    /\ enter(t)
    /\ th' = [th EXCEPT ![t] = [pc |-> "allocate", size |-> size + offset, align |-> alignment, off |-> offset]]
    /\ UNCHANGED <<kind, guarded, sentinel, area, slab, al, live, tracker>>

(* allocator_.allocate()                                                   *)
AllocatorResult(c) ==
    LET size   == k_allocation_overhead + c.size
        offset == c.off + k_front_overhead
        tlsf   == tlsf_allocate(al, size, c.align, offset)
    IN  CASE kind = "linear" -> linear_allocate(al, size, c.align, offset)
          [] kind = "pool"   -> pool_allocate(al, size, c.align, offset)
          [] kind = "atomic" -> atomic_pop(al, c.align, offset)
          [] OTHER           -> [a |-> tlsf.s, ptr |-> tlsf.ptr]

Allocation(begin, c) ==
    [begin |-> begin, size |-> k_allocation_overhead + c.size, align |-> c.align, off |-> c.off]
on_allocation(begin) ==
    tracker' = IF kind \notin {"pool", "tlsf"} THEN tracker
               ELSE Tracked(tracker.n + 1, tracker.keys \union {begin})
(* Mutant: the entry goes, the count stays.                                *)
on_deallocation_uncounted(begin) == tracker' = Tracked(tracker.n, tracker.keys \ {begin})
on_deallocation(begin) ==
    tracker' = IF kind \notin {"pool", "tlsf"} THEN tracker
               ELSE Tracked(tracker.n - 1, tracker.keys \ {begin})

(* Out of memory: the function returns without leaving the guard.          *)
AllocateFails(t) ==
    /\ th[t].pc = "allocate"
    /\ kind # "atomic" /\ AllocatorResult(th[t]).ptr = nullptr
    /\ th' = [th EXCEPT ![t] = Idle]
    /\ UNCHANGED <<kind, guarded, sentinel, area, slab, al, owner, live, tracker>>

(* The atomic pool waits for a node, and has its counter still to count.   *)
Allocate(t) ==
    /\ th[t].pc = "allocate"
    /\ kind = "atomic" => al.free # <<>>
    /\ LET r == AllocatorResult(th[t])
       IN  /\ r.ptr # nullptr
           /\ al' = r.a
           /\ live' = live \union {Allocation(r.ptr, th[t])}
           /\ on_allocation(r.ptr)
    /\ th' = [th EXCEPT ![t] = IF kind = "atomic" THEN [pc |-> "count", by |-> 1] ELSE [pc |-> "leave"]]
    /\ UNCHANGED <<kind, guarded, sentinel, area, slab, owner>>

(* ++node_count_ and --node_count_ of the atomic pool: a load and a store. *)
CountLoad(t) ==
    /\ th[t].pc = "count"
    /\ th' = [th EXCEPT ![t] = [pc |-> "store", value |-> al.count + th[t].by, by |-> th[t].by, ptr |->
                 IF th[t].by = 1 THEN nullptr ELSE th[t].ptr]]
    /\ UNCHANGED <<kind, guarded, sentinel, area, slab, al, owner, live, tracker>>
CountStore(t) ==
    /\ th[t].pc = "store"
    /\ al' = [al EXCEPT !.count = th[t].value]
    /\ th' = [th EXCEPT ![t] = IF th[t].by = 1 THEN [pc |-> "leave"] ELSE [pc |-> "push", ptr |-> th[t].ptr]]
    /\ UNCHANGED <<kind, guarded, sentinel, area, slab, owner, live, tracker>>

Leave(t) ==
    /\ th[t].pc = "leave"
    /\ leave(t)
    /\ th' = [th EXCEPT ![t] = Idle]
    /\ UNCHANGED <<kind, guarded, sentinel, area, slab, al, live, tracker>>

-----------------------------------------------------------------------------
(* deallocate                                                              *)

BeginDeallocate(t, x) ==
    /\ th[t] = Idle /\ x \in live
    /\ enter(t)
    /\ live' = live \ {x}
    /\ th' = [th EXCEPT ![t] = IF kind = "atomic" THEN [pc |-> "count", by |-> -1, ptr |-> x.begin]
                               ELSE [pc |-> "deallocate", ptr |-> x.begin]]
    /\ UNCHANGED <<kind, guarded, sentinel, area, slab, al, tracker>>

Deallocate(t) ==
    /\ th[t].pc = "deallocate"
    /\ on_deallocation(th[t].ptr)
    /\ al' = CASE kind = "linear" -> al
               [] kind = "pool"   -> pool_deallocate(al, th[t].ptr)
               [] OTHER           -> tlsf_deallocate(al, th[t].ptr)
    /\ th' = [th EXCEPT ![t] = [pc |-> "leave"]]
    /\ UNCHANGED <<kind, guarded, sentinel, area, slab, owner, live>>

Push(t) ==
    /\ th[t].pc = "push"
    /\ al' = atomic_push(al, th[t].ptr)
    /\ th' = [th EXCEPT ![t] = [pc |-> "leave"]]
    /\ UNCHANGED <<kind, guarded, sentinel, area, slab, owner, live, tracker>>

(* reset() empties a linear arena at once.                                 *)
Reset(t) ==
    /\ kind = "linear" /\ th[t] = Idle /\ live # {}
    /\ IF guarded THEN owner = Nobody ELSE TRUE
    /\ al' = linear_reset(al)
    /\ live' = {}
    /\ UNCHANGED <<kind, guarded, sentinel, area, slab, owner, th, tracker>>

(* TLSFAllocator::reallocate, which the arena does not offer.              *)
Reallocate(x, size) ==
    /\ kind = "raw" /\ \A t \in Threads : th[t] = Idle
    /\ x \in live
    /\ LET r == reallocate(al, x.begin, size, x.align, x.off)
       IN  /\ al' = r.s
           /\ live' = (IF r.ptr = nullptr /\ size > 0 THEN live ELSE live \ {x})
                      \union (IF r.ptr = nullptr THEN {}
                              ELSE {[x EXCEPT !.begin = r.ptr, !.size = size]})
    /\ UNCHANGED <<kind, guarded, sentinel, area, slab, owner, th, tracker>>

-----------------------------------------------------------------------------
(* LinearBuffer                                                            *)

BufferNext ==
    /\ kind = "buffer"
    /\ \/ /\ al.head < al.end
          /\ \E size \in Sizes : al' \in {buffer_write(al, size), buffer_write_str(al, size),
                                         buffer_read(al, size), buffer_read_str(al, size)}
       \/ al' = buffer_reset(al)
       \/ \E ptr \in {al.begin + 4, al.end - 1} : ptr < al.end /\ al' = buffer_seek(al, ptr)
    /\ UNCHANGED <<kind, guarded, sentinel, area, slab, owner, th, live, tracker>>

Next ==
    \/ \E t \in Users :
          \/ \E size \in Sizes, alignment \in Alignments, offset \in Offsets :
                BeginAllocate(t, size, alignment, offset)
          \/ AllocateFails(t) \/ Allocate(t) \/ CountLoad(t) \/ CountStore(t) \/ Leave(t)
          \/ \E x \in live : BeginDeallocate(t, x)
          \/ Deallocate(t) \/ Push(t) \/ Reset(t)
    \/ \E x \in live, size \in Sizes \union {0} : Reallocate(x, size)
    \/ BufferNext

Spec == Init /\ [][Next]_vars

-----------------------------------------------------------------------------
(* Properties.                                                             *)

TypeOK ==
    /\ kind \in Kinds /\ owner \in Threads \union {Nobody}
    /\ \A t \in Threads :
          th[t].pc \in {"idle", "allocate", "count", "store", "leave", "deallocate", "push"}
    /\ tracker.n \in 0 .. MaxLive
    /\ kind = "pool" => al.count \in 0 .. MaxNodes
    /\ kind \in {"tlsf", "raw"} => al.used \in 0 .. slab.size

Quiet == \A t \in Threads : th[t] = Idle
User(x) == x.begin + k_front_overhead + x.off

(* The threads that give a node back: the client has let go of it, the     *)
(* allocator does not have it yet.                                         *)
Returns(c) == c.pc \in {"deallocate", "push"} \/ (c.pc \in {"count", "store"} /\ c.by = -1)
Returning == {t \in Threads : Returns(th[t])}

(* No two allocations share a byte, decoration included; each lies inside  *)
(* its slab, in a linear arena with the byte after it, and its user        *)
(* pointer has the alignment asked for.                                    *)
LiveSound ==
    \A x \in live :
        /\ User(x) % x.align = 0
        /\ slab.begin <= x.begin
        /\ x.begin + x.size <= slab.begin + slab.size + (IF kind = "linear" THEN 1 ELSE 0)
        /\ \A y \in live : x = y \/ x.begin + x.size <= y.begin \/ y.begin + y.size <= x.begin

(* TLSF: the blocks tile the pool, the integrity checks of the class find  *)
(* nothing, and the used blocks are those of the client, large enough.     *)
Tiled ==
    kind \in {"tlsf", "raw"} =>
        /\ check_pool(al) = {} /\ check_consistency(al) = {}
        /\ {b \in DOMAIN al.blk : ~is_last(al, b)} = ToSet(walk_pool(al))
        /\ \A x \in live : LET b == from_void_ptr(x.begin)
                           IN  b \in DOMAIN al.blk /\ ~is_free(al, b) /\ x.size <= block_size(al, b)
        /\ Quiet => Cardinality(live) = Cardinality({b \in ToSet(walk_pool(al)) : ~is_free(al, b)})

(* TLSF: after the last deallocation the pool is one free block again.     *)
Coalesced == kind \in {"tlsf", "raw"} /\ live = {} /\ Quiet => Len(walk_pool(al)) = 1

(* TLSF: a request is refused only when every free block is smaller than   *)
(* it, or than its size rounded up to the next class.                      *)
SearchComplete ==
    kind \in {"tlsf", "raw"} => \A size \in Sizes :
        LET adjust == adjust_request_size(size, k_align_size)
            slack  == IF adjust < k_small_block_size THEN 0 ELSE 2 ^ (fls_size_t(adjust) - SlLog2) - 1
        IN  locate_free_block(al, adjust) = nullptr =>
               \A b \in DOMAIN al.blk : is_free(al, b) => block_size(al, b) < adjust + slack

(* TLSF keeps its blocks, its lists and its bitmaps in step.               *)
TlsfSound == Tiled /\ Coalesced /\ SearchComplete

(* used_size() is what the blocks of the client occupy.                    *)
UsedExact ==
    Quiet => CASE kind = "pool" -> al.count = Cardinality(live)
               [] kind \in {"tlsf", "raw"} ->
                     al.used = FoldSet(LAMBDA x, sum : sum + block_size(al, from_void_ptr(x.begin)), 0, live)
               [] kind = "linear" -> \A x \in live : x.begin + x.size <= al.begin + al.head
               [] OTHER -> TRUE

(* A pool hands each node to one owner: the free ones and those in use are *)
(* distinct, and all there.                                                *)
NodesConserved ==
    kind \in {"pool", "atomic"} =>
        LET nodes == {node_of(al, x.begin) : x \in live}
            held  == {node_of(al, th[t].ptr) : t \in Returning}
        IN  /\ ToSet(al.free) \union nodes \union held =
                  {slab.begin + i * al.node_size : i \in 0 .. MaxNodes - 1}
            /\ Len(al.free) + Cardinality(live) + Cardinality(held) = MaxNodes

(* The tracking policy knows the allocations that are alive.               *)
TrackerExact ==
    kind \in {"pool", "tlsf"} /\ Quiet =>
        tracker.n = Cardinality(live) /\ tracker.keys = {x.begin : x \in live}

(* A guarded arena is used by one thread at a time.                        *)
GuardExclusive ==
    guarded => \A t \in Threads : th[t] # Idle => owner = t

(* Sizes, nodes and tracked allocations agree with what is alive, whoever  *)
(* calls and however the calls interleave.                                 *)
AccountsExact == UsedExact /\ NodesConserved /\ TrackerExact /\ GuardExclusive

(* What get_memory_requirements() asks for is enough for both arenas of a  *)
(* job system, wherever the area starts.                                   *)
SlabsFit == kind = "atomic" => slab.fits

(* A LinearBuffer with a log channel whose head has left its slab has      *)
(* reported a copy.  One without a channel reports nothing.                *)
OverrunReported ==
    kind = "buffer" /\ al.channel /\ al.head > slab.begin + slab.size => al.warned

(* The arenas of a job system fit into their area, and a buffer that can   *)
(* report says when it leaves its slab.                                    *)
InBounds == SlabsFit /\ OverrunReported

(* A call that returned has left the thread guard.                         *)
GuardReleased == \A t \in Threads : owner = t => th[t] # Idle

-----------------------------------------------------------------------------
(* Why they hold, for all kinds but the two of TLSF.                       *)

(* What a thread carries through a call, as far as the arenas look at it.  *)
CallOK(c) ==
    /\ c.pc \in {"idle", "allocate", "count", "store", "leave", "deallocate", "push"}
    /\ c.pc = "idle" => c = Idle
    /\ c.pc = "allocate" =>
          /\ c.size \in Nat \ {0} /\ c.align \in Nat \ {0} /\ c.off \in {0, 8}
          /\ kind = "pool" => c.size <= NodeUser /\ c.align <= 16
          /\ kind = "atomic" => c.size <= CacheLine /\ c.align = CacheLine /\ c.off = 0
    /\ c.pc \in {"count", "store"} => c.by \in {1, -1}
    /\ c.pc = "store" => c.value \in Int
    /\ c.pc \in {"count", "store", "push"} => kind = "atomic"
    /\ c.pc = "deallocate" => kind # "atomic"
    /\ kind = "buffer" => c.pc = "idle"
CallsOK ==
    /\ th = [t \in Threads |-> th[t]]
    /\ \A t \in Threads : CallOK(th[t])

(* The parts of the configuration that never change.                       *)
Fixed ==
    /\ kind \in {"linear", "pool", "atomic", "buffer", "tlsf", "raw"}
    /\ guarded \in BOOLEAN /\ (guarded => kind \in {"linear", "pool"})
    /\ sentinel \in {0, 8} /\ (kind \in {"linear", "atomic"} => sentinel = 0)
    /\ kind # "tlsf" /\ kind # "raw" => slab.begin \in Nat \ {0}
    /\ kind = "atomic" => slab.begin % CacheLine = 0

(* A linear arena: what is alive lies between the start and the head, each *)
(* allocation behind the ones before it.                                   *)
LinearOK == kind = "linear" =>
    /\ al \in [begin : {slab.begin}, end : {slab.begin + SlabSize + 1}, head : Nat]
    /\ al.begin + al.head <= al.end
    /\ slab.size = SlabSize
    /\ \A x \in live : x.begin + x.size <= al.begin + al.head

(* A pool: its nodes are alive, on the way back, or free, one of these     *)
(* each.  Holds(p, n) says that address p lies in node n.                  *)
NodeSize == IF kind = "pool" THEN pool_node_size(NodeUser, Decorated(sentinel), 16)
            ELSE atomic_node_size(CacheLine, 8, CacheLine)
Nodes == {slab.begin + i * NodeSize : i \in 0 .. MaxNodes - 1}
Holds(p, n) == n \in Nodes /\ n <= p /\ p < n + NodeSize
NodesOK == kind \in {"pool", "atomic"} =>
    /\ al \in [begin : {slab.begin}, node_size : {NodeSize}, count : Int, free : Seq(Nodes)]
    /\ slab.size = NodeSize * MaxNodes
    /\ IsInjective(al.free)
    /\ \A x \in live : \E n \in Nodes : n <= x.begin /\ x.begin + x.size <= n + NodeSize
    /\ \A t \in Returning : th[t].ptr \in Int /\ \E n \in Nodes : Holds(th[t].ptr, n)
    /\ \A n \in Nodes :
          /\ \A x, y \in live : Holds(x.begin, n) /\ Holds(y.begin, n) => x = y
          /\ \A t, u \in Returning : Holds(th[t].ptr, n) /\ Holds(th[u].ptr, n) => t = u
          /\ \A x \in live, t \in Returning : ~(Holds(x.begin, n) /\ Holds(th[t].ptr, n))
          /\ n \in ToSet(al.free) <=>
                 /\ \A x \in live : ~Holds(x.begin, n)
                 /\ \A t \in Returning : ~Holds(th[t].ptr, n)

(* The counters of a pool with a guard: what is not free.                  *)
CountsOK == kind = "pool" =>
    /\ al.count = MaxNodes - Len(al.free)
    /\ tracker = Tracked(al.count, {x.begin : x \in live} \union {th[t].ptr : t \in Returning})

(* Whatever the kind, allocations are aligned and apart.                   *)
LiveOK == \A x \in live :
    /\ x.begin \in Int /\ x.size \in Nat \ {0} /\ x.align \in Nat \ {0} /\ x.off \in {0, 8}
    /\ slab.begin <= x.begin /\ User(x) % x.align = 0
    /\ \A y \in live : x = y \/ x.begin + x.size <= y.begin \/ y.begin + y.size <= x.begin

BufferOK == kind = "buffer" =>
    /\ live = {}
    /\ al \in [begin : {slab.begin}, end : {slab.begin + SlabSize + 1}, head : Int,
               channel : BOOLEAN, warned : BOOLEAN]
    /\ slab.size = SlabSize

Inv ==
    /\ Fixed /\ CallsOK /\ GuardExclusive
    /\ kind \notin {"tlsf", "raw"} =>
          LinearOK /\ NodesOK /\ CountsOK /\ LiveOK /\ BufferOK /\ OverrunReported
=============================================================================
